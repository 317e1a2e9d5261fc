---------------------------- MODULE PatchProofs ----------------------------
EXTENDS Patch, SequenceTheorems, WellFoundedInduction, TLAPS

(* The least number of a set, without which nothing is known of Min and Max. *)
LEMMA LeastNatural ==
  ASSUME NEW T \in SUBSET Nat, T # {}
  PROVE  \E m \in T : \A n \in T : m <= n
<1>1. IsWellFoundedOn(OpToRel(<, Nat), Nat)
  BY NatLessThanWellFounded
<1>2. PICK m \in T : \A n \in T : ~ (<<n, m>> \in OpToRel(<, Nat))
  BY <1>1, WFMin
<1>3. \A n \in T : ~ (n < m)
  BY <1>2 DEF OpToRel
<1> QED BY <1>3

(* A list that holds an element once: removeOne takes out that element, and
   nothing else. *)
LEMMA RemoveFirstOnce ==
  ASSUME NEW S, NEW s \in Seq(S), NEW e, NoRepeats(s)
  PROVE  /\ RemoveFirst(s, e) \in Seq(S)
         /\ NoRepeats(RemoveFirst(s, e))
         /\ \A x : Contains(RemoveFirst(s, e), x) <=> Contains(s, x) /\ x # e
         /\ Contains(s, e) => Len(RemoveFirst(s, e)) = Len(s) - 1
<1>1. CASE ~ Contains(s, e)
  BY <1>1 DEF RemoveFirst, Contains
<1>2. CASE Contains(s, e)
  <2>1. PICK k \in 1..Len(s) : s[k] = e
    BY <1>2 DEF Contains
  <2>2. {i \in 1..Len(s) : s[i] = e} = {k}
    BY <2>1 DEF NoRepeats
  <2>3. SelectInSeq(s, LAMBDA v : v = e) = k
    <3>1. Min({k}) = k
      BY DEF Min
    <3> QED
      BY <2>2, <3>1 DEF SelectInSeq
  <2>4. RemoveFirst(s, e) = SubSeq(s, 1, k - 1) \o SubSeq(s, k + 1, Len(s))
    BY <1>2, <2>3 DEF RemoveFirst, RemoveAt, Contains
  <2> DEFINE t == RemoveFirst(s, e)
  <2>5. /\ t \in Seq(S)
        /\ Len(t) = Len(s) - 1
        /\ \A i \in 1..Len(t) : t[i] = IF i < k THEN s[i] ELSE s[i + 1]
    <3> DEFINE a == SubSeq(s, 1, k - 1)
               b == SubSeq(s, k + 1, Len(s))
    <3>1. a \in Seq(S) /\ Len(a) = k - 1 /\ \A i \in 1..(k - 1) : a[i] = s[i]
      BY <2>1
    <3>2. /\ b \in Seq(S)
          /\ Len(b) = Len(s) - k
          /\ \A i \in 1..(Len(s) - k) : b[i] = s[k + i]
      BY <2>1
    <3>3. t = a \o b
      BY <2>4
    <3> HIDE DEF t, a, b
    <3>4. /\ t \in Seq(S)
          /\ Len(t) = Len(s) - 1
          /\ \A i \in 1..Len(t) : t[i] = IF i <= Len(a) THEN a[i] ELSE b[i - Len(a)]
      <4>1. /\ a \o b \in Seq(S)
            /\ Len(a \o b) = Len(a) + Len(b)
            /\ \A i \in 1..(Len(a) + Len(b)) :
                 (a \o b)[i] = IF i <= Len(a) THEN a[i] ELSE b[i - Len(a)]
        BY <3>1, <3>2, ConcatProperties
      <4>2. Len(a) + Len(b) = Len(s) - 1
        BY <3>1, <3>2, <2>1
      <4> QED
        BY <4>1, <4>2, <3>3
    <3> QED
      BY <3>1, <3>2, <3>4, <2>1
  <2>6. NoRepeats(t)
    BY <2>5, <2>1 DEF NoRepeats
  <2>7. ASSUME NEW x PROVE Contains(t, x) <=> Contains(s, x) /\ x # e
    <3>1. ASSUME Contains(t, x) PROVE Contains(s, x) /\ x # e
      BY <3>1, <2>1, <2>5 DEF Contains, NoRepeats
    <3>2. ASSUME Contains(s, x), x # e PROVE Contains(t, x)
      <4>1. PICK i \in 1..Len(s) : s[i] = x
        BY <3>2 DEF Contains
      <4>2. CASE i < k
        BY <4>1, <4>2, <2>1, <2>5 DEF Contains
      <4>3. CASE i > k
        <5>1. i - 1 \in 1..Len(t) /\ t[i - 1] = x
          BY <4>1, <4>3, <2>1, <2>5
        <5> QED BY <5>1 DEF Contains
      <4> QED BY <4>1, <4>2, <4>3, <2>1, <3>2
    <3> QED BY <3>1, <3>2
  <2> QED BY <2>5, <2>6, <2>7
<1> QED BY <1>1, <1>2

LEMMA AppendOnce ==
  ASSUME NEW S, NEW s \in Seq(S), NEW e \in S
  PROVE  /\ Append(s, e) \in Seq(S)
         /\ \A x : Contains(Append(s, e), x) <=> Contains(s, x) \/ x = e
         /\ NoRepeats(s) /\ ~ Contains(s, e) => NoRepeats(Append(s, e))
<1> DEFINE t == Append(s, e)
<1>1. /\ t \in Seq(S)
      /\ Len(t) = Len(s) + 1
      /\ \A i \in 1..Len(t) : t[i] = IF i <= Len(s) THEN s[i] ELSE e
  OBVIOUS
<1>2. ASSUME NEW x PROVE Contains(t, x) <=> Contains(s, x) \/ x = e
  <2>1. Contains(t, x) => Contains(s, x) \/ x = e
    BY <1>1 DEF Contains
  <2>2. Contains(s, x) => Contains(t, x)
    BY <1>1 DEF Contains
  <2>3. Contains(t, e)
    <3>1. Len(s) + 1 \in 1..Len(t) /\ t[Len(s) + 1] = e
      BY <1>1
    <3> QED BY <3>1 DEF Contains
  <2> QED BY <2>1, <2>2, <2>3
<1>3. NoRepeats(s) /\ ~ Contains(s, e) => NoRepeats(t)
  BY <1>1 DEF NoRepeats, Contains
<1> QED BY <1>1, <1>2, <1>3

LEMMA TailOnce ==
  ASSUME NEW S, NEW s \in Seq(S), s # <<>>, NoRepeats(s)
  PROVE  /\ Head(s) \in S
         /\ Contains(s, Head(s))
         /\ Tail(s) \in Seq(S)
         /\ NoRepeats(Tail(s))
         /\ \A x : Contains(Tail(s), x) <=> Contains(s, x) /\ x # Head(s)
<1> DEFINE t == Tail(s)
<1>1. /\ t \in Seq(S)
      /\ Len(t) = Len(s) - 1
      /\ Len(s) >= 1
      /\ Head(s) = s[1]
      /\ \A i \in 1..Len(t) : t[i] = s[i + 1]
  OBVIOUS
<1>2. Head(s) \in S /\ Contains(s, Head(s)) 
  BY <1>1 DEF Contains
<1>3. NoRepeats(t)
  BY <1>1 DEF NoRepeats
<1>4. ASSUME NEW x PROVE Contains(t, x) <=> Contains(s, x) /\ x # Head(s)
  <2>1. ASSUME Contains(t, x) PROVE Contains(s, x) /\ x # Head(s)
    BY <1>1, <2>1 DEF Contains, NoRepeats
  <2>2. ASSUME Contains(s, x), x # Head(s) PROVE Contains(t, x)
    <3>1. PICK i \in 1..Len(s) : s[i] = x
      BY <2>2 DEF Contains
    <3>2. i - 1 \in 1..Len(t) /\ t[i - 1] = x
      BY <3>1, <2>2, <1>1
    <3> QED BY <3>2 DEF Contains
  <2> QED BY <2>1, <2>2
<1> QED BY <1>1, <1>2, <1>3, <1>4

-----------------------------------------------------------------------------
(* The inductive invariant: how far the links are from being consistent in the
   middle of each handler. *)

(* The mutex is held exactly by the handlers that delete many links. *)
MutexInv == mutex <=> call.at \in {"remoteLinks", "virtualLinks", "blocked"}

(* Inside removeRemoteLinks the remote is still linked, on the virtual side, to
   what its loop has left; inside removeVirtualLinks the other way round. *)
InverseInv ==
  /\ call.at \in {"idle", "connecting", "disconnecting", "loading"} =>
       \A r \in Remotes, v \in Virtuals :
         Contains(virtualToRemote[v], r) <=> Contains(remoteToVirtual[r], v)
  /\ call.at = "remoteLinks" =>
       \A r \in Remotes, v \in Virtuals :
         Contains(virtualToRemote[v], r) <=>
           IF r = call.r THEN Contains(call.todo, v) ELSE Contains(remoteToVirtual[r], v)
  /\ call.at = "virtualLinks" =>
       \A r \in Remotes, v \in Virtuals :
         Contains(remoteToVirtual[r], v) <=>
           IF v = call.v THEN Contains(call.todo, r) ELSE Contains(virtualToRemote[v], r)

(* No loop meets a name twice, and the keys that are still to be parsed have no
   links yet. *)
TodoInv ==
  /\ call.at # "blocked" => NoRepeats(call.todo)
  /\ call.at = "loading" =>
       \A r \in Remotes : Contains(call.todo, r) => remoteToVirtual[r] = <<>>

(* The arrays of network.json lag behind the links only between addEntry and the
   end of addLink, and while the file is being parsed. *)
JsonInv ==
  /\ \A r \in Remotes : NoRepeats(jsonData[r])
  /\ call.at \in {"idle", "disconnecting", "remoteLinks", "virtualLinks"} =>
       jsonData = remoteToVirtual
  /\ call.at = "connecting" =>
       /\ remoteToVirtual = [jsonData EXCEPT ![call.r] = Append(@, call.v)]
       /\ ~ Contains(jsonData[call.r], call.v)
  /\ call.at = "loading" =>
       \A r \in Remotes : ~ Contains(call.todo, r) => remoteToVirtual[r] = jsonData[r]

NoDoubleSlave == \A v \in Virtuals : NoRepeats(slaves[v])

LinksInv ==
  TypeOK /\ NoDoubleLink /\ NoDoubleSlave /\ MutexInv /\ InverseInv /\ TodoInv /\ JsonInv

(* The groups' own lists of slaves, in the middle of a handler. *)
SlavesInv ==
  /\ call.at \in {"idle", "remoteLinks", "virtualLinks"} =>
       \A v \in Virtuals : kind[v] = "group" => slaves[v] = virtualToRemote[v]
  /\ call.at = "connecting" =>
       \A v \in Virtuals : kind[v] = "group" =>
         virtualToRemote[v] = IF v = call.v THEN Append(slaves[v], call.r) ELSE slaves[v]
  /\ call.at = "disconnecting" =>
       \A v \in Virtuals : kind[v] = "group" =>
         virtualToRemote[v] = IF v = call.v THEN RemoveFirst(slaves[v], call.r) ELSE slaves[v]
  /\ call.at = "virtualLinks" => call.todo # <<>> \/ kind[call.v] = "none"

-----------------------------------------------------------------------------
LEMMA CallFacts ==
  ASSUME TypeOK
  PROVE  /\ call.at \in {"connecting", "disconnecting"} =>
              call.r \in Remotes /\ call.v \in Virtuals
         /\ call.at = "remoteLinks" => call.r \in Remotes /\ call.todo \in Seq(Virtuals)
         /\ call.at = "virtualLinks" => call.v \in Virtuals /\ call.todo \in Seq(Remotes)
         /\ call.at = "loading" => call.todo \in Seq(Remotes)
BY DEF TypeOK, CallType

(* What VirtualGroup::removeSlave leaves in a list of slaves. *)
LEMMA NotifiedFacts ==
  ASSUME TypeOK, NoDoubleSlave, NEW v \in Virtuals, NEW r,
         NEW patched \in Seq(Remotes), NoRepeats(patched)
  PROVE  /\ Notified(v, r, patched) \in [Virtuals -> Seq(Remotes)]
         /\ \A w \in Virtuals : NoRepeats(Notified(v, r, patched)[w])
BY RemoveFirstOnce DEF TypeOK, NoDoubleSlave, Notified, RemoveSlave, UpdateFromPatch

LEMMA EmptyList ==
  /\ NoRepeats(<<>>)
  /\ \A x : ~ Contains(<<>>, x)
BY DEF NoRepeats, Contains

(* Every initial state satisfies the invariant. *)
LEMMA LinksInvInit == PatchInit => LinksInv
<1> SUFFICES ASSUME PatchInit PROVE LinksInv
  OBVIOUS
<1> USE DEF PatchInit, NoLinks, Idle, Handling
<1>1. TypeOK
  <2>1. call \in CallType
    BY DEF CallType
  <2>2. \A S : <<>> \in Seq(S)
    OBVIOUS
  <2> QED BY <2>1, <2>2 DEF TypeOK, Kinds
<1>2. NoDoubleLink /\ NoDoubleSlave
  BY EmptyList DEF NoDoubleLink, NoDoubleSlave
<1>3. MutexInv /\ InverseInv
  BY EmptyList DEF MutexInv, InverseInv
<1>4. TodoInv /\ JsonInv
  BY EmptyList DEF TodoInv, JsonInv
<1> QED BY <1>1, <1>2, <1>3, <1>4 DEF LinksInv

(* connect( remote, virtual ): the two map updates, then the notification. *)
LEMMA ConnectKeepsLinksInv ==
  ASSUME LinksInv, NEW r \in Remotes, NEW v \in Virtuals, Connect(r, v)
  PROVE  LinksInv'
<1> USE DEF LinksInv
<1>1. /\ ~ Contains(remoteToVirtual[r], v)
      /\ ~ Contains(virtualToRemote[v], r)
      /\ call.at = "idle" /\ ~ mutex
      /\ jsonData = remoteToVirtual
  BY DEF Connect, InverseInv, MutexInv, JsonInv, Idle, Handling
<1>2. /\ remoteToVirtual' = [remoteToVirtual EXCEPT ![r] = Append(@, v)]
      /\ virtualToRemote' = [virtualToRemote EXCEPT ![v] = Append(@, r)]
      /\ call' = Handling("connecting", r, v, <<>>)
      /\ UNCHANGED <<jsonData, kind, slaves, mutex>>
  BY <1>1 DEF Connect
<1>3. TypeOK'
  <2>1. call' \in CallType
    BY <1>2 DEF CallType, Handling
  <2> QED BY <1>2, <2>1, AppendOnce DEF TypeOK
<1>4. NoDoubleLink' /\ NoDoubleSlave'
  BY <1>1, <1>2, AppendOnce DEF NoDoubleLink, NoDoubleSlave, TypeOK
<1>5. MutexInv'
  BY <1>1, <1>2 DEF MutexInv, Handling
<1>6. InverseInv'
  <2> SUFFICES ASSUME NEW q \in Remotes, NEW w \in Virtuals
               PROVE  Contains(virtualToRemote'[w], q) <=> Contains(remoteToVirtual'[q], w)
    BY <1>2 DEF InverseInv, Handling
  <2>1. Contains(virtualToRemote[w], q) <=> Contains(remoteToVirtual[q], w)
    BY <1>1 DEF InverseInv
  <2>2. Contains(virtualToRemote'[w], q) <=> Contains(virtualToRemote[w], q) \/ (w = v /\ q = r)
    BY <1>2, AppendOnce DEF TypeOK
  <2>3. Contains(remoteToVirtual'[q], w) <=> Contains(remoteToVirtual[q], w) \/ (w = v /\ q = r)
    BY <1>2, AppendOnce DEF TypeOK
  <2> QED BY <2>1, <2>2, <2>3
<1>7. TodoInv'
  BY <1>2, EmptyList DEF TodoInv, Handling
<1>8. JsonInv'
  BY <1>1, <1>2 DEF JsonInv, Handling
<1> QED BY <1>3, <1>4, <1>5, <1>6, <1>7, <1>8

LEMMA ConnectNotifyKeepsLinksInv ==
  ASSUME LinksInv, ConnectNotify
  PROVE  LinksInv'
<1> USE DEF LinksInv
<1>1. call.at = "connecting" /\ call.r \in Remotes /\ call.v \in Virtuals
  BY CallFacts DEF ConnectNotify
<1>2. /\ slaves' = Notified(call.v, call.r, virtualToRemote[call.v])
      /\ jsonData' = [jsonData EXCEPT ![call.r] = Append(@, call.v)]
      /\ call' = Handling("idle", None, None, <<>>)
      /\ UNCHANGED <<remoteToVirtual, virtualToRemote, kind, mutex>>
  BY DEF ConnectNotify, Idle
<1>3. /\ slaves' \in [Virtuals -> Seq(Remotes)]
      /\ NoDoubleSlave'
  BY <1>1, <1>2, NotifiedFacts DEF TypeOK, NoDoubleLink, NoDoubleSlave
<1>4. TypeOK'
  <2>1. call' \in CallType
    BY <1>2 DEF CallType, Handling
  <2> QED BY <1>1, <1>2, <1>3, <2>1, AppendOnce DEF TypeOK
<1>5. jsonData' = remoteToVirtual'
  BY <1>1, <1>2 DEF JsonInv
<1>6. NoDoubleLink' /\ MutexInv' /\ InverseInv' /\ TodoInv'
  BY <1>1, <1>2, EmptyList DEF NoDoubleLink, MutexInv, InverseInv, TodoInv, Handling
<1>7. JsonInv'
  BY <1>2, <1>5 DEF JsonInv, Handling, NoDoubleLink
<1> QED BY <1>3, <1>4, <1>6, <1>7

(* disconnect( remote, virtual ) *)
LEMMA DisconnectKeepsLinksInv ==
  ASSUME LinksInv, NEW r \in Remotes, NEW v \in Virtuals, Disconnect(r, v)
  PROVE  LinksInv'
<1> USE DEF LinksInv
<1>1. /\ Contains(remoteToVirtual[r], v)
      /\ Contains(virtualToRemote[v], r)
      /\ call.at = "idle" /\ ~ mutex
      /\ jsonData = remoteToVirtual
  BY DEF Disconnect, InverseInv, JsonInv, Idle, Handling
<1>2. /\ remoteToVirtual' = [remoteToVirtual EXCEPT ![r] = RemoveFirst(@, v)]
      /\ virtualToRemote' = [virtualToRemote EXCEPT ![v] = RemoveFirst(@, r)]
      /\ jsonData' = [jsonData EXCEPT ![r] = RemoveFirst(@, v)]
      /\ call' = Handling("disconnecting", r, v, <<>>)
      /\ UNCHANGED <<kind, slaves, mutex>>
  BY <1>1, EmptyList DEF Disconnect
<1>3. NoRepeats(remoteToVirtual[r]) /\ NoRepeats(virtualToRemote[v]) /\ NoRepeats(jsonData[r])
  BY DEF NoDoubleLink, JsonInv
<1>4. TypeOK'
  <2>1. call' \in CallType
    BY <1>2 DEF CallType, Handling
  <2> QED BY <1>2, <1>3, <2>1, RemoveFirstOnce DEF TypeOK
<1>5. NoDoubleLink' /\ NoDoubleSlave'
  BY <1>2, <1>3, RemoveFirstOnce DEF NoDoubleLink, NoDoubleSlave, TypeOK
<1>6. MutexInv'
  BY <1>1, <1>2 DEF MutexInv, Handling
<1>7. InverseInv'
  <2> SUFFICES ASSUME NEW q \in Remotes, NEW w \in Virtuals
               PROVE  Contains(virtualToRemote'[w], q) <=> Contains(remoteToVirtual'[q], w)
    BY <1>2 DEF InverseInv, Handling
  <2>1. Contains(virtualToRemote[w], q) <=> Contains(remoteToVirtual[q], w)
    BY <1>1 DEF InverseInv
  <2>2. Contains(virtualToRemote'[w], q) <=> Contains(virtualToRemote[w], q) /\ ~ (w = v /\ q = r)
    BY <1>2, <1>3, RemoveFirstOnce DEF TypeOK
  <2>3. Contains(remoteToVirtual'[q], w) <=> Contains(remoteToVirtual[q], w) /\ ~ (w = v /\ q = r)
    BY <1>2, <1>3, RemoveFirstOnce DEF TypeOK
  <2> QED BY <2>1, <2>2, <2>3
<1>8. TodoInv'
  BY <1>2, EmptyList DEF TodoInv, Handling
<1>9. JsonInv'
  BY <1>1, <1>2, <1>5 DEF JsonInv, Handling, NoDoubleLink
<1> QED BY <1>4, <1>5, <1>6, <1>7, <1>8, <1>9

LEMMA DisconnectNotifyKeepsLinksInv ==
  ASSUME LinksInv, DisconnectNotify
  PROVE  LinksInv'
<1> USE DEF LinksInv
<1>1. call.at = "disconnecting" /\ call.r \in Remotes /\ call.v \in Virtuals
  BY CallFacts DEF DisconnectNotify
<1>2. /\ slaves' = Notified(call.v, call.r, virtualToRemote[call.v])
      /\ call' = Handling("idle", None, None, <<>>)
      /\ UNCHANGED <<remoteToVirtual, virtualToRemote, jsonData, kind, mutex>>
  BY DEF DisconnectNotify, Idle
<1>3. /\ slaves' \in [Virtuals -> Seq(Remotes)]
      /\ NoDoubleSlave'
  BY <1>1, <1>2, NotifiedFacts DEF TypeOK, NoDoubleLink, NoDoubleSlave
<1>4. TypeOK'
  <2>1. call' \in CallType
    BY <1>2 DEF CallType, Handling
  <2> QED BY <1>2, <1>3, <2>1 DEF TypeOK
<1>5. NoDoubleLink' /\ MutexInv' /\ InverseInv' /\ TodoInv' /\ JsonInv'
  BY <1>1, <1>2, EmptyList DEF NoDoubleLink, MutexInv, InverseInv, TodoInv, JsonInv, Handling
<1> QED BY <1>3, <1>4, <1>5

(* disconnectRemote( remote ) *)
LEMMA DisconnectRemoteKeepsLinksInv ==
  ASSUME LinksInv, NEW r \in Remotes, DisconnectRemote(r)
  PROVE  LinksInv'
<1> USE DEF LinksInv
<1>1. /\ call.at = "idle"
      /\ call' = Handling("remoteLinks", r, None, remoteToVirtual[r])
      /\ mutex' = TRUE
      /\ UNCHANGED <<remoteToVirtual, virtualToRemote, jsonData, kind, slaves>>
  BY DEF DisconnectRemote, Idle, Handling
<1>2. TypeOK'
  <2>1. call' \in CallType
    BY <1>1 DEF CallType, Handling, TypeOK
  <2> QED BY <1>1, <2>1 DEF TypeOK
<1>3. NoDoubleLink' /\ NoDoubleSlave' /\ MutexInv' /\ JsonInv'
  BY <1>1 DEF NoDoubleLink, NoDoubleSlave, MutexInv, JsonInv, Handling
<1>4. TodoInv'
  BY <1>1 DEF TodoInv, Handling, NoDoubleLink
<1>5. InverseInv'
  BY <1>1 DEF InverseInv, Handling
<1> QED BY <1>2, <1>3, <1>4, <1>5

LEMMA DisconnectRemoteStepKeepsLinksInv ==
  ASSUME LinksInv, DisconnectRemoteStep
  PROVE  LinksInv'
<1> USE DEF LinksInv
<1> DEFINE v == Head(call.todo)
           left == RemoveFirst(virtualToRemote[v], call.r)
<1>1. /\ call.at = "remoteLinks" /\ call.r \in Remotes
      /\ call.todo \in Seq(Virtuals) /\ call.todo # <<>> /\ NoRepeats(call.todo)
      /\ call.v = None
  BY CallFacts DEF DisconnectRemoteStep, TodoInv, TypeOK, CallType
<1>2. /\ v \in Virtuals
      /\ Tail(call.todo) \in Seq(Virtuals)
      /\ NoRepeats(Tail(call.todo))
      /\ \A x : Contains(Tail(call.todo), x) <=> Contains(call.todo, x) /\ x # v
  BY <1>1, TailOnce
<1>3. /\ virtualToRemote' = [virtualToRemote EXCEPT ![v] = left]
      /\ slaves' = Notified(v, call.r, left)
      /\ call' = [call EXCEPT !.at = AfterNotify(v), !.todo = Tail(@)]
      /\ UNCHANGED <<remoteToVirtual, jsonData, kind, mutex>>
  BY DEF DisconnectRemoteStep
<1>4. /\ left \in Seq(Remotes)
      /\ NoRepeats(left)
      /\ \A x : Contains(left, x) <=> Contains(virtualToRemote[v], x) /\ x # call.r
  <2> HIDE DEF v
  <2>1. virtualToRemote[v] \in Seq(Remotes) /\ NoRepeats(virtualToRemote[v])
    BY <1>2 DEF TypeOK, NoDoubleLink
  <2> QED BY <2>1, RemoveFirstOnce
<1> HIDE DEF v, left
<1>5. AfterNotify(v) \in {"remoteLinks", "blocked"}
  BY <1>1 DEF AfterNotify
<1>6. /\ call'.at \in {"remoteLinks", "blocked"}
      /\ call'.r = call.r
      /\ call'.todo = Tail(call.todo)
      /\ call' \in CallType
  BY <1>1, <1>2, <1>3, <1>5 DEF TypeOK, CallType
<1>7. /\ slaves' \in [Virtuals -> Seq(Remotes)]
      /\ NoDoubleSlave'
  BY <1>2, <1>3, <1>4, NotifiedFacts DEF NoDoubleSlave
<1>8. TypeOK' /\ NoDoubleLink'
  BY <1>2, <1>3, <1>4, <1>6, <1>7 DEF TypeOK, NoDoubleLink
<1>9. MutexInv' /\ TodoInv' /\ JsonInv'
  BY <1>1, <1>2, <1>3, <1>6 DEF MutexInv, TodoInv, JsonInv
<1>10. InverseInv'
  <2> SUFFICES ASSUME NEW q \in Remotes, NEW w \in Virtuals
               PROVE  Contains(virtualToRemote'[w], q) <=>
                        IF q = call'.r THEN Contains(call'.todo, w) ELSE Contains(remoteToVirtual'[q], w)
    BY <1>6 DEF InverseInv
  <2>1. Contains(virtualToRemote[w], q) <=>
          IF q = call.r THEN Contains(call.todo, w) ELSE Contains(remoteToVirtual[q], w)
    BY <1>1 DEF InverseInv
  <2>2. Contains(virtualToRemote'[w], q) <=> Contains(virtualToRemote[w], q) /\ ~ (w = v /\ q = call.r)
    BY <1>2, <1>3, <1>4 DEF TypeOK
  <2> QED BY <2>1, <2>2, <1>2, <1>3, <1>6
<1> QED BY <1>7, <1>8, <1>9, <1>10

LEMMA DisconnectRemoteEndKeepsLinksInv ==
  ASSUME LinksInv, DisconnectRemoteEnd
  PROVE  LinksInv'
<1> USE DEF LinksInv
<1>1. /\ call.at = "remoteLinks" /\ call.r \in Remotes /\ call.todo = <<>>
      /\ jsonData = remoteToVirtual
  BY CallFacts DEF DisconnectRemoteEnd, JsonInv
<1>2. /\ remoteToVirtual' = [remoteToVirtual EXCEPT ![call.r] = <<>>]
      /\ jsonData' = [jsonData EXCEPT ![call.r] = <<>>]
      /\ mutex' = FALSE
      /\ call' = Handling("idle", None, None, <<>>)
      /\ UNCHANGED <<virtualToRemote, kind, slaves>>
  BY DEF DisconnectRemoteEnd, Idle
<1>3. TypeOK'
  <2>1. call' \in CallType
    BY <1>2 DEF CallType, Handling
  <2>2. <<>> \in Seq(Virtuals)
    OBVIOUS
  <2> QED BY <1>1, <1>2, <2>1, <2>2 DEF TypeOK
<1>4. NoDoubleLink' /\ NoDoubleSlave'
  BY <1>1, <1>2, EmptyList DEF NoDoubleLink, NoDoubleSlave, TypeOK
<1>5. InverseInv'
  <2> SUFFICES ASSUME NEW q \in Remotes, NEW w \in Virtuals
               PROVE  Contains(virtualToRemote[w], q) <=> Contains(remoteToVirtual'[q], w)
    BY <1>2 DEF InverseInv, Handling
  <2>1. Contains(virtualToRemote[w], q) <=>
          IF q = call.r THEN Contains(call.todo, w) ELSE Contains(remoteToVirtual[q], w)
    BY <1>1 DEF InverseInv
  <2> QED BY <2>1, <1>1, <1>2, EmptyList DEF TypeOK
<1>6. MutexInv' /\ TodoInv' /\ JsonInv'
  BY <1>1, <1>2, <1>4, EmptyList DEF MutexInv, TodoInv, JsonInv, Handling, NoDoubleLink
<1> QED BY <1>3, <1>4, <1>5, <1>6

(* disconnectVirtual( virtual ) *)
LEMMA DisconnectVirtualKeepsLinksInv ==
  ASSUME LinksInv, NEW v \in Virtuals, DisconnectVirtual(v)
  PROVE  LinksInv'
<1> USE DEF LinksInv
<1>1. /\ call.at = "idle"
      /\ call' = Handling("virtualLinks", None, v, virtualToRemote[v])
      /\ mutex' = TRUE
      /\ UNCHANGED <<remoteToVirtual, virtualToRemote, jsonData, kind, slaves>>
  BY DEF DisconnectVirtual, Idle, Handling
<1>2. TypeOK'
  <2>1. call' \in CallType
    BY <1>1 DEF CallType, Handling, TypeOK
  <2> QED BY <1>1, <2>1 DEF TypeOK
<1>3. NoDoubleLink' /\ NoDoubleSlave' /\ MutexInv' /\ JsonInv'
  BY <1>1 DEF NoDoubleLink, NoDoubleSlave, MutexInv, JsonInv, Handling
<1>4. TodoInv'
  BY <1>1 DEF TodoInv, Handling, NoDoubleLink
<1>5. InverseInv'
  BY <1>1 DEF InverseInv, Handling
<1> QED BY <1>2, <1>3, <1>4, <1>5

LEMMA DisconnectVirtualStepKeepsLinksInv ==
  ASSUME LinksInv, DisconnectVirtualStep
  PROVE  LinksInv'
<1> USE DEF LinksInv
<1> DEFINE r == Head(call.todo)
           left == RemoveFirst(remoteToVirtual[r], call.v)
<1>1. /\ call.at = "virtualLinks" /\ call.v \in Virtuals
      /\ call.todo \in Seq(Remotes) /\ call.todo # <<>> /\ NoRepeats(call.todo)
      /\ call.r = None
      /\ jsonData = remoteToVirtual
  BY CallFacts DEF DisconnectVirtualStep, TodoInv, TypeOK, CallType, JsonInv
<1>2. /\ r \in Remotes
      /\ Contains(call.todo, r)
      /\ Tail(call.todo) \in Seq(Remotes)
      /\ NoRepeats(Tail(call.todo))
      /\ \A x : Contains(Tail(call.todo), x) <=> Contains(call.todo, x) /\ x # r
  BY <1>1, TailOnce
<1>3. Contains(remoteToVirtual[r], call.v) /\ remoteToVirtual[r] # <<>>
  BY <1>1, <1>2, EmptyList DEF InverseInv
<1>4. /\ remoteToVirtual' = [remoteToVirtual EXCEPT ![r] = left]
      /\ jsonData' = [jsonData EXCEPT ![r] = left]
      /\ slaves' = Notified(call.v, r, virtualToRemote[call.v])
      /\ call' = [call EXCEPT !.at = AfterNotify(call.v), !.todo = Tail(@)]
      /\ UNCHANGED <<virtualToRemote, kind, mutex>>
  BY <1>1, <1>2, <1>3 DEF DisconnectVirtualStep, TypeOK
<1>5. /\ left \in Seq(Virtuals)
      /\ NoRepeats(left)
      /\ \A x : Contains(left, x) <=> Contains(remoteToVirtual[r], x) /\ x # call.v
  <2> HIDE DEF r
  <2>1. remoteToVirtual[r] \in Seq(Virtuals) /\ NoRepeats(remoteToVirtual[r])
    BY <1>2 DEF TypeOK, NoDoubleLink
  <2> QED BY <2>1, RemoveFirstOnce
<1> HIDE DEF r, left
<1>6. AfterNotify(call.v) \in {"virtualLinks", "blocked"}
  BY <1>1 DEF AfterNotify
<1>7. /\ call'.at \in {"virtualLinks", "blocked"}
      /\ call'.v = call.v
      /\ call'.todo = Tail(call.todo)
      /\ call' \in CallType
  BY <1>1, <1>2, <1>4, <1>6 DEF TypeOK, CallType
<1>8. /\ slaves' \in [Virtuals -> Seq(Remotes)]
      /\ NoDoubleSlave'
  BY <1>1, <1>4, NotifiedFacts DEF NoDoubleSlave, NoDoubleLink, TypeOK
<1>9. TypeOK' /\ NoDoubleLink'
  BY <1>2, <1>4, <1>5, <1>7, <1>8 DEF TypeOK, NoDoubleLink
<1>10. MutexInv' /\ TodoInv' /\ JsonInv'
  BY <1>1, <1>2, <1>4, <1>7, <1>9 DEF MutexInv, TodoInv, JsonInv, NoDoubleLink
<1>11. InverseInv'
  <2> SUFFICES ASSUME NEW q \in Remotes, NEW w \in Virtuals
               PROVE  Contains(remoteToVirtual'[q], w) <=>
                        IF w = call'.v THEN Contains(call'.todo, q) ELSE Contains(virtualToRemote'[w], q)
    BY <1>7 DEF InverseInv
  <2>1. Contains(remoteToVirtual[q], w) <=>
          IF w = call.v THEN Contains(call.todo, q) ELSE Contains(virtualToRemote[w], q)
    BY <1>1 DEF InverseInv
  <2>2. Contains(remoteToVirtual'[q], w) <=> Contains(remoteToVirtual[q], w) /\ ~ (q = r /\ w = call.v)
    BY <1>2, <1>4, <1>5 DEF TypeOK
  <2> QED BY <2>1, <2>2, <1>2, <1>4, <1>7
<1> QED BY <1>8, <1>9, <1>10, <1>11

LEMMA DisconnectVirtualEndKeepsLinksInv ==
  ASSUME LinksInv, DisconnectVirtualEnd
  PROVE  LinksInv'
<1> USE DEF LinksInv
<1>1. /\ call.at = "virtualLinks" /\ call.v \in Virtuals /\ call.todo = <<>>
  BY CallFacts DEF DisconnectVirtualEnd
<1>2. /\ virtualToRemote' = [virtualToRemote EXCEPT ![call.v] = <<>>]
      /\ mutex' = FALSE
      /\ call' = Handling("idle", None, None, <<>>)
      /\ UNCHANGED <<remoteToVirtual, jsonData, kind, slaves>>
  BY DEF DisconnectVirtualEnd, Idle
<1>3. TypeOK'
  <2>1. call' \in CallType
    BY <1>2 DEF CallType, Handling
  <2>2. <<>> \in Seq(Remotes)
    OBVIOUS
  <2> QED BY <1>1, <1>2, <2>1, <2>2 DEF TypeOK
<1>4. NoDoubleLink' /\ NoDoubleSlave'
  BY <1>1, <1>2, EmptyList DEF NoDoubleLink, NoDoubleSlave, TypeOK
<1>5. InverseInv'
  <2> SUFFICES ASSUME NEW q \in Remotes, NEW w \in Virtuals
               PROVE  Contains(virtualToRemote'[w], q) <=> Contains(remoteToVirtual[q], w)
    BY <1>2 DEF InverseInv, Handling
  <2>1. Contains(remoteToVirtual[q], w) <=>
          IF w = call.v THEN Contains(call.todo, q) ELSE Contains(virtualToRemote[w], q)
    BY <1>1 DEF InverseInv
  <2> QED BY <2>1, <1>1, <1>2, EmptyList DEF TypeOK
<1>6. MutexInv' /\ TodoInv' /\ JsonInv'
  BY <1>1, <1>2, <1>4, EmptyList DEF MutexInv, TodoInv, JsonInv, Handling
<1> QED BY <1>3, <1>4, <1>5, <1>6

(* Elements come, go and are renamed without touching the links. *)
LEMMA ElementsKeepLinksInv ==
  ASSUME LinksInv, NEW v \in Virtuals, NEW w \in Virtuals,
         AddRemote(v) \/ AddGroup(v) \/ RemoveElement(v) \/ Rename(v, w)
  PROVE  LinksInv'
<1> USE DEF LinksInv
<1>1. UNCHANGED <<remoteToVirtual, virtualToRemote, jsonData, mutex, call>>
  BY DEF AddRemote, AddGroup, RemoveElement, Rename
<1>2. kind' \in [Virtuals -> Kinds]
  BY DEF AddRemote, AddGroup, RemoveElement, Rename, TypeOK, Kinds
<1>3. /\ slaves' \in [Virtuals -> Seq(Remotes)]
      /\ NoDoubleSlave'
  <2>1. <<>> \in Seq(Remotes)
    OBVIOUS
  <2> QED BY <2>1, EmptyList
          DEF AddRemote, AddGroup, RemoveElement, Rename, UpdateFromPatch, TypeOK,
              NoDoubleSlave, NoDoubleLink
<1>4. TypeOK'
  BY <1>1, <1>2, <1>3 DEF TypeOK
<1>5. NoDoubleLink' /\ MutexInv' /\ InverseInv' /\ TodoInv' /\ JsonInv'
  BY <1>1 DEF NoDoubleLink, MutexInv, InverseInv, TodoInv, JsonInv
<1> QED BY <1>3, <1>4, <1>5

(* A crash empties the maps; the loop over the keys of network.json fills them
   again, one key at a time. *)
LEMMA CrashKeepsLinksInv ==
  ASSUME LinksInv, Crash
  PROVE  LinksInv'
<1> USE DEF LinksInv
<1>1. /\ call.at = "idle"
      /\ remoteToVirtual' = [r \in Remotes |-> <<>>]
      /\ virtualToRemote' = [v \in Virtuals |-> <<>>]
      /\ call' = Handling("loading", None, None, KeyOrder)
      /\ UNCHANGED <<jsonData, kind, slaves, mutex>>
  BY DEF Crash, Idle, Handling
<1>2. /\ KeyOrder \in Seq(Remotes)
      /\ NoRepeats(KeyOrder)
      /\ \A r \in Remotes : Contains(KeyOrder, r)
  BY KeyOrderAssumption DEF NoRepeats
<1>3. TypeOK'
  <2>1. call' \in CallType
    BY <1>1, <1>2 DEF CallType, Handling
  <2>2. \A S : <<>> \in Seq(S)
    OBVIOUS
  <2> QED BY <1>1, <2>1, <2>2 DEF TypeOK
<1>4. NoDoubleLink' /\ NoDoubleSlave' /\ InverseInv'
  BY <1>1, EmptyList DEF NoDoubleLink, NoDoubleSlave, InverseInv, Handling
<1>5. MutexInv'
  BY <1>1 DEF MutexInv, Handling
<1>6. TodoInv' /\ JsonInv'
  BY <1>1, <1>2 DEF TodoInv, JsonInv, Handling
<1> QED BY <1>3, <1>4, <1>5, <1>6

LEMMA ParseArrayKeepsLinksInv ==
  ASSUME LinksInv, ParseArray
  PROVE  LinksInv'
<1> USE DEF LinksInv
<1> DEFINE r == Head(call.todo)
<1>1. /\ call.at = "loading"
      /\ call.todo \in Seq(Remotes) /\ call.todo # <<>> /\ NoRepeats(call.todo)
      /\ call.r = None /\ call.v = None
  BY CallFacts DEF ParseArray, TodoInv, TypeOK, CallType
<1>2. /\ r \in Remotes
      /\ Contains(call.todo, r)
      /\ Tail(call.todo) \in Seq(Remotes)
      /\ NoRepeats(Tail(call.todo))
      /\ \A x : Contains(Tail(call.todo), x) <=> Contains(call.todo, x) /\ x # r
  BY <1>1, TailOnce
<1>3. /\ remoteToVirtual' = [remoteToVirtual EXCEPT ![r] = jsonData[r]]
      /\ virtualToRemote' = [v \in Virtuals |->
            IF Contains(jsonData[r], v) THEN Append(virtualToRemote[v], r) ELSE virtualToRemote[v]]
      /\ call' = [call EXCEPT !.todo = Tail(@)]
      /\ UNCHANGED <<jsonData, kind, slaves, mutex>>
  BY DEF ParseArray
<1> HIDE DEF r
<1>4. remoteToVirtual[r] = <<>> /\ \A v \in Virtuals : ~ Contains(virtualToRemote[v], r)
  BY <1>1, <1>2, EmptyList DEF TodoInv, InverseInv
<1>5. /\ call'.at = "loading"
      /\ call'.todo = Tail(call.todo)
      /\ call' \in CallType
  BY <1>1, <1>2, <1>3 DEF TypeOK, CallType
<1>6. TypeOK'
  BY <1>2, <1>3, <1>5, AppendOnce DEF TypeOK
<1>7. NoDoubleLink' /\ NoDoubleSlave'
  BY <1>2, <1>3, <1>4, AppendOnce DEF NoDoubleLink, NoDoubleSlave, JsonInv, TypeOK
<1>8. InverseInv'
  <2> SUFFICES ASSUME NEW q \in Remotes, NEW w \in Virtuals
               PROVE  Contains(virtualToRemote'[w], q) <=> Contains(remoteToVirtual'[q], w)
    BY <1>5 DEF InverseInv
  <2>1. Contains(virtualToRemote[w], q) <=> Contains(remoteToVirtual[q], w)
    BY <1>1 DEF InverseInv
  <2>2. Contains(virtualToRemote'[w], q) <=>
          Contains(virtualToRemote[w], q) \/ (q = r /\ Contains(jsonData[r], w))
    BY <1>2, <1>3, AppendOnce DEF TypeOK
  <2>3. Contains(remoteToVirtual'[q], w) <=>
          IF q = r THEN Contains(jsonData[r], w) ELSE Contains(remoteToVirtual[q], w)
    BY <1>2, <1>3 DEF TypeOK
  <2> QED BY <2>1, <2>2, <2>3, <1>4
<1>9. MutexInv' /\ TodoInv' /\ JsonInv'
  BY <1>1, <1>2, <1>3, <1>5 DEF MutexInv, TodoInv, JsonInv, TypeOK
<1> QED BY <1>6, <1>7, <1>8, <1>9

LEMMA LoadVirtualNetKeepsLinksInv ==
  ASSUME LinksInv, LoadVirtualNet
  PROVE  LinksInv'
<1> USE DEF LinksInv
<1>1. /\ call.at = "loading" /\ call.todo = <<>>
      /\ slaves' = [v \in Virtuals |->
            IF kind[v] = "group" THEN UpdateFromPatch(<<>>, virtualToRemote[v]) ELSE <<>>]
      /\ call' = Handling("idle", None, None, <<>>)
      /\ UNCHANGED <<remoteToVirtual, virtualToRemote, jsonData, kind, mutex>>
  BY DEF LoadVirtualNet, Idle
<1>2. /\ slaves' \in [Virtuals -> Seq(Remotes)]
      /\ NoDoubleSlave'
  <2>1. <<>> \in Seq(Remotes)
    OBVIOUS
  <2> QED BY <1>1, <2>1, EmptyList DEF UpdateFromPatch, TypeOK, NoDoubleSlave, NoDoubleLink
<1>3. TypeOK'
  <2>1. call' \in CallType
    BY <1>1 DEF CallType, Handling
  <2> QED BY <1>1, <1>2, <2>1 DEF TypeOK
<1>4. jsonData = remoteToVirtual
  BY <1>1, EmptyList DEF JsonInv, TypeOK
<1>5. NoDoubleLink' /\ MutexInv' /\ InverseInv' /\ TodoInv' /\ JsonInv'
  BY <1>1, <1>4, EmptyList DEF NoDoubleLink, MutexInv, InverseInv, TodoInv, JsonInv, Handling
<1> QED BY <1>2, <1>3, <1>5

(* LinksInv is inductive. *)
LEMMA LinksInvNext == LinksInv /\ [PatchNext]_patchVars => LinksInv'
<1> SUFFICES ASSUME LinksInv, [PatchNext]_patchVars PROVE LinksInv'
  OBVIOUS
<1>1. CASE UNCHANGED patchVars
  BY <1>1 DEF patchVars, LinksInv, TypeOK, NoDoubleLink, NoDoubleSlave, MutexInv, InverseInv,
              TodoInv, JsonInv
<1>2. CASE \E r \in Remotes, v \in Virtuals : Connect(r, v) \/ Disconnect(r, v)
  BY <1>2, ConnectKeepsLinksInv, DisconnectKeepsLinksInv
<1>3. CASE ConnectNotify \/ DisconnectNotify
  BY <1>3, ConnectNotifyKeepsLinksInv, DisconnectNotifyKeepsLinksInv
<1>4. CASE \/ \E r \in Remotes : DisconnectRemote(r)
           \/ DisconnectRemoteStep
           \/ DisconnectRemoteEnd
  BY <1>4, DisconnectRemoteKeepsLinksInv, DisconnectRemoteStepKeepsLinksInv,
     DisconnectRemoteEndKeepsLinksInv
<1>5. CASE \/ \E v \in Virtuals : DisconnectVirtual(v)
           \/ DisconnectVirtualStep
           \/ DisconnectVirtualEnd
  BY <1>5, DisconnectVirtualKeepsLinksInv, DisconnectVirtualStepKeepsLinksInv,
     DisconnectVirtualEndKeepsLinksInv
<1>6. CASE \/ \E v \in Virtuals : AddRemote(v) \/ AddGroup(v) \/ RemoveElement(v)
           \/ \E v, w \in Virtuals : Rename(v, w)
  BY <1>6, ElementsKeepLinksInv
<1>7. CASE Crash \/ ParseArray \/ LoadVirtualNet
  BY <1>7, CrashKeepsLinksInv, ParseArrayKeepsLinksInv, LoadVirtualNetKeepsLinksInv
<1> QED BY <1>1, <1>2, <1>3, <1>4, <1>5, <1>6, <1>7 DEF PatchNext

(* The state of the patch and of the groups keeps its shape, whatever handlers
   run, including a crash and the reload of network.json. *)
THEOREM PatchTyped == PatchSpec => []TypeOK
<1>1. LinksInv => TypeOK
  BY DEF LinksInv
<1> QED BY <1>1, LinksInvInit, LinksInvNext, PTL DEF PatchSpec

(* Whenever Patch::mutex is free the two maps of the patch describe the same
   links: what fastTriggerRemote routes is what remoteList answers. *)
THEOREM PatchLinksInverse == PatchSpec => []LinksInverse
<1>1. LinksInv => LinksInverse
  <2> SUFFICES ASSUME LinksInv, ~ mutex PROVE LinksInverse
    BY DEF LinksInverse
  <2>1. call.at \in {"idle", "connecting", "disconnecting", "loading"}
    BY DEF LinksInv, MutexInv, TypeOK, CallType
  <2> QED BY <2>1 DEF LinksInv, InverseInv, LinksInverse
<1> QED BY <1>1, LinksInvInit, LinksInvNext, PTL DEF PatchSpec

(* No handler, and no reload, ever records a link twice. *)
THEOREM PatchNoDoubleLink == PatchSpec => []NoDoubleLink
<1>1. LinksInv => NoDoubleLink
  BY DEF LinksInv
<1> QED BY <1>1, LinksInvInit, LinksInvNext, PTL DEF PatchSpec

(* Whenever the main thread is in its event loop, where the save timer fires, the
   arrays of network.json are the links in use. *)
THEOREM PatchJsonMirrorsLinks == PatchSpec => []JsonMirrorsLinks
<1>1. LinksInv => JsonMirrorsLinks
  BY DEF LinksInv, JsonInv, JsonMirrorsLinks, Idle, Handling
<1> QED BY <1>1, LinksInvInit, LinksInvNext, PTL DEF PatchSpec

-----------------------------------------------------------------------------
(* The slaves of the groups *)

LEMMA RefreshEmpty ==
  ASSUME NEW patched \in Seq(Remotes)
  PROVE  UpdateFromPatch(<<>>, patched) = patched
BY DEF UpdateFromPatch

(* Without rename() no handler separates a group's list from the patch's. *)
LEMMA SlavesInvNext ==
  ASSUME ~ MayRename, LinksInv, SlavesInv, [PatchNext]_patchVars
  PROVE  SlavesInv'
<1> USE DEF LinksInv
<1>1. CASE UNCHANGED patchVars
  BY <1>1 DEF patchVars, SlavesInv
<1>2. ASSUME NEW r \in Remotes, NEW v \in Virtuals, Connect(r, v) PROVE SlavesInv'
  <2>1. call.at = "idle" /\ ~ Contains(virtualToRemote[v], r)
    BY <1>2 DEF Connect, InverseInv, Idle, Handling
  <2> QED BY <1>2, <2>1 DEF Connect, SlavesInv, Handling, TypeOK
<1>3. ASSUME NEW r \in Remotes, NEW v \in Virtuals, Disconnect(r, v) PROVE SlavesInv'
  <2>1. call.at = "idle" /\ virtualToRemote[v] # <<>>
    BY <1>3, EmptyList DEF Disconnect, InverseInv, Idle, Handling
  <2> QED BY <1>3, <2>1 DEF Disconnect, SlavesInv, Handling, TypeOK
<1>4. CASE ConnectNotify
  <2>1. call.at = "connecting" /\ call.r \in Remotes /\ call.v \in Virtuals
    BY <1>4, CallFacts DEF ConnectNotify
  <2>2. ASSUME NEW v \in Virtuals, kind[v] = "group" PROVE slaves'[v] = virtualToRemote[v]
    <3>1. CASE v = call.v
      <4>1. virtualToRemote[v] = Append(slaves[v], call.r)
        BY <2>1, <2>2, <3>1 DEF SlavesInv
      <4>2. RemoveFirst(slaves[v], call.r) \in Seq(Remotes)
        BY <2>1, RemoveFirstOnce DEF TypeOK, NoDoubleSlave
      <4>3. /\ slaves[v] \in Seq(Remotes)
            /\ Contains(slaves[v], call.r) => Len(RemoveFirst(slaves[v], call.r)) = Len(slaves[v]) - 1
            /\ ~ Contains(slaves[v], call.r) => RemoveFirst(slaves[v], call.r) = slaves[v]
        <5>1. slaves[v] \in Seq(Remotes) /\ NoRepeats(slaves[v])
          BY DEF TypeOK, NoDoubleSlave
        <5>2. ~ Contains(slaves[v], call.r) => RemoveFirst(slaves[v], call.r) = slaves[v]
          BY DEF RemoveFirst, Contains
        <5> QED BY <5>1, <5>2, RemoveFirstOnce
      <4>4. Len(RemoveFirst(slaves[v], call.r)) # Len(virtualToRemote[v])
        BY <4>1, <4>3, <2>1
      <4> QED BY <1>4, <2>1, <2>2, <3>1, <4>4
              DEF ConnectNotify, Notified, RemoveSlave, UpdateFromPatch, TypeOK
    <3>2. CASE v # call.v
      BY <1>4, <2>1, <2>2, <3>2 DEF ConnectNotify, Notified, SlavesInv, TypeOK
    <3> QED BY <3>1, <3>2
  <2> QED BY <1>4, <2>2 DEF ConnectNotify, SlavesInv, Idle, Handling
<1>5. CASE DisconnectNotify
  <2>1. call.at = "disconnecting" /\ call.r \in Remotes /\ call.v \in Virtuals
    BY <1>5, CallFacts DEF DisconnectNotify
  <2>2. ASSUME NEW v \in Virtuals, kind[v] = "group" PROVE slaves'[v] = virtualToRemote[v]
    <3>1. CASE v = call.v
      <4>1. virtualToRemote[v] = RemoveFirst(slaves[v], call.r)
        BY <2>1, <2>2, <3>1 DEF SlavesInv
      <4> QED BY <1>5, <2>1, <2>2, <3>1, <4>1
              DEF DisconnectNotify, Notified, RemoveSlave, UpdateFromPatch, TypeOK
    <3>2. CASE v # call.v
      BY <1>5, <2>1, <2>2, <3>2 DEF DisconnectNotify, Notified, SlavesInv, TypeOK
    <3> QED BY <3>1, <3>2
  <2> QED BY <1>5, <2>2 DEF DisconnectNotify, SlavesInv, Idle, Handling
<1>6. ASSUME NEW r \in Remotes, DisconnectRemote(r) PROVE SlavesInv'
  BY <1>6 DEF DisconnectRemote, SlavesInv, Idle, Handling
<1>7. CASE DisconnectRemoteStep
  <2> DEFINE v == Head(call.todo)
  <2>1. call.at = "remoteLinks" /\ v \in Virtuals
    BY <1>7, CallFacts, TailOnce DEF DisconnectRemoteStep, TodoInv
  <2>2. CASE kind[v] = "none"
    <3>1. /\ slaves' = slaves /\ kind' = kind /\ call'.at = "remoteLinks"
          /\ \A w \in Virtuals : w # v => virtualToRemote'[w] = virtualToRemote[w]
      BY <1>7, <2>1, <2>2 DEF DisconnectRemoteStep, Notified, AfterNotify, TypeOK, CallType
    <3> QED BY <2>1, <2>2, <3>1 DEF SlavesInv
  <2>3. CASE kind[v] # "none"
    <3>1. call'.at = "blocked"
      BY <1>7, <2>3 DEF DisconnectRemoteStep, AfterNotify, TypeOK, CallType
    <3> QED BY <3>1 DEF SlavesInv
  <2> QED BY <2>2, <2>3
<1>8. CASE DisconnectRemoteEnd
  BY <1>8 DEF DisconnectRemoteEnd, SlavesInv, Idle, Handling
<1>9. ASSUME NEW v \in Virtuals, DisconnectVirtual(v) PROVE SlavesInv'
  BY <1>9 DEF DisconnectVirtual, SlavesInv, Idle, Handling
<1>10. CASE DisconnectVirtualStep
  <2> DEFINE r == Head(call.todo)
  <2>1. call.at = "virtualLinks" /\ call.v \in Virtuals /\ r \in Remotes /\ Contains(call.todo, r)
    BY <1>10, CallFacts, TailOnce DEF DisconnectVirtualStep, TodoInv
  <2>2. remoteToVirtual[r] # <<>>
    BY <2>1, EmptyList DEF InverseInv
  <2>3. CASE kind[call.v] = "none"
    <3>1. /\ UNCHANGED <<slaves, kind, virtualToRemote>>
          /\ call'.at = "virtualLinks" /\ call'.v = call.v
      BY <1>10, <2>1, <2>2, <2>3 DEF DisconnectVirtualStep, Notified, AfterNotify, TypeOK, CallType
    <3> QED BY <2>1, <2>3, <3>1 DEF SlavesInv
  <2>4. CASE kind[call.v] # "none"
    <3>1. call'.at = "blocked"
      BY <1>10, <2>2, <2>4 DEF DisconnectVirtualStep, AfterNotify, TypeOK, CallType
    <3> QED BY <3>1 DEF SlavesInv
  <2> QED BY <2>3, <2>4
<1>11. CASE DisconnectVirtualEnd
  <2>1. call.at = "virtualLinks" /\ call.v \in Virtuals /\ kind[call.v] = "none"
    BY <1>11, CallFacts DEF DisconnectVirtualEnd, SlavesInv
  <2> QED BY <1>11, <2>1 DEF DisconnectVirtualEnd, SlavesInv, Idle, Handling, TypeOK
<1>12. ASSUME NEW v \in Virtuals, AddRemote(v) \/ RemoveElement(v) PROVE SlavesInv'
  <2>1. call.at = "idle" /\ UNCHANGED <<call, virtualToRemote>>
    BY <1>12 DEF AddRemote, RemoveElement, Idle, Handling
  <2>2. ASSUME NEW w \in Virtuals, kind'[w] = "group"
        PROVE  kind[w] = "group" /\ slaves'[w] = slaves[w]
    BY <1>12, <2>2 DEF AddRemote, RemoveElement, TypeOK
  <2> QED BY <2>1, <2>2 DEF SlavesInv
<1>13. ASSUME NEW v \in Virtuals, AddGroup(v) PROVE SlavesInv'
  <2>1. slaves'[v] = virtualToRemote[v]
    BY <1>13, RefreshEmpty DEF AddGroup, TypeOK
  <2> QED BY <1>13, <2>1 DEF AddGroup, SlavesInv, Idle, Handling, TypeOK
<1>14. CASE Crash \/ ParseArray
  <2>1. call'.at = "loading"
    BY <1>14 DEF Crash, ParseArray, Handling, TypeOK, CallType
  <2> QED BY <2>1 DEF SlavesInv
<1>15. CASE LoadVirtualNet
  BY <1>15, RefreshEmpty DEF LoadVirtualNet, SlavesInv, Idle, Handling, TypeOK
<1>16. ~ \E v, w \in Virtuals : Rename(v, w)
  BY DEF Rename
<1> QED BY <1>1, <1>2, <1>3, <1>4, <1>5, <1>6, <1>7, <1>8, <1>9, <1>10, <1>11, <1>12, <1>13,
           <1>14, <1>15, <1>16 DEF PatchNext

(* As long as no group is renamed, a group's slaves are the remotes the patch
   links to it, in the same order, each time the main thread is in its event
   loop: comparing sizes only, as updateFromPatch does, is enough. *)
THEOREM PatchSlavesFollow == ~ MayRename => (PatchSpec => []SlavesFollowPatch)
<1> SUFFICES ASSUME ~ MayRename PROVE PatchSpec => []SlavesFollowPatch
  OBVIOUS
<1>1. PatchInit => SlavesInv
  BY DEF PatchInit, NoLinks, SlavesInv, Idle, Handling
<1>2. LinksInv /\ SlavesInv /\ [PatchNext]_patchVars => SlavesInv'
  BY SlavesInvNext
<1>3. SlavesInv => SlavesFollowPatch
  BY DEF SlavesInv, SlavesFollowPatch, Idle, Handling
<1> QED BY <1>1, <1>2, <1>3, LinksInvInit, LinksInvNext, PTL DEF PatchSpec
=============================================================================
