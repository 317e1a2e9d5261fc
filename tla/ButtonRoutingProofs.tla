------------------------ MODULE ButtonRoutingProofs ------------------------
(* The XBee thread between the handlers of the main thread: what an element shows
   is the state of its remote, for any number of remotes, elements and links. *)
EXTENDS ButtonRouting, PatchProofs

-----------------------------------------------------------------------------
(* The inductive invariant *)

RoutingTypeOK ==
  /\ button \in [Present -> States]
  /\ press = NoPress \/ press \in [r : Present, to : States, todo : Seq(Virtuals)]
  /\ shown \in [Virtuals -> States \cup {"NA"}]
  /\ doubt \in [Virtuals -> BOOLEAN]

(* The copy of the names meets no element twice, and both threads start again
   together. *)
PressInv ==
  /\ NoRepeats(press.todo)
  /\ call.at = "loading" => press = NoPress

(* removeVirtualLinks comes to its end only for a name without an element. *)
VirtualLinksInv == call.at = "virtualLinks" => call.todo # <<>> \/ kind[call.v] = "none"

(* An element whose links no handler is changing, and whose last write followed
   its remote. *)
Settled(v) ==
  /\ kind[v] # "none" /\ ~ doubt[v]
  /\ call.at \notin {"blocked", "loading"}
  /\ call.at \in {"connecting", "disconnecting"} => call.v # v

(* The remote at place i is the only one that v has. *)
OnlyPlace(v, i) == RemoteList(virtualToRemote[v]) = {i}

(* What an element with the one remote r shows while the XBee thread is on its way
   through the elements: those it has passed show the new state. *)
Expected(v, r) == IF press.r = r /\ ~ Contains(press.todo, v) THEN press.to ELSE button[r]

ShowsItsRemote(v) ==
  /\ RemoteList(virtualToRemote[v]) = {} => shown[v] = "NA"
  /\ \A i \in 1..Len(virtualToRemote[v]) : OnlyPlace(v, i) =>
       /\ shown[v] = Expected(v, virtualToRemote[v][i])
       /\ kind[v] = "group" => Contains(slaves[v], virtualToRemote[v][i])

ShownInv == \A v \in Virtuals : Settled(v) => ShowsItsRemote(v)

RoutingInv == RoutingTypeOK /\ PressInv /\ VirtualLinksInv /\ ShownInv

-----------------------------------------------------------------------------
(* The main thread in this module is the main thread of Patch, and the XBee thread
   changes nothing of the patch. *)
LEMMA RoutingStepIsPatchStep ==
  ASSUME [RoutingNext]_routingVars
  PROVE  [PatchNext]_patchVars
<1>1. CASE RoutingPatch \/ RoutingNotify \/ RoutingCrash \/ RoutingLoad
  BY <1>1 DEF RoutingPatch, RoutingNotify, RoutingCrash, RoutingLoad, PatchNext
<1>2. CASE \/ \E v \in Virtuals : NewElement(v) \/ OldElement(v)
           \/ \E v, w \in Virtuals : RenamedElement(v, w)
  BY <1>2 DEF NewElement, OldElement, RenamedElement, PatchNext
<1>3. CASE \/ \E v \in Virtuals, to \in States : SetButton(v, to)
           \/ \E r \in Present, to \in States : Press(r, to)
           \/ Route \/ PressEnd
  BY <1>3 DEF SetButton, Press, Route, PressEnd
<1>4. CASE UNCHANGED routingVars
  BY <1>4 DEF routingVars
<1> QED BY <1>1, <1>2, <1>3, <1>4 DEF RoutingNext

(* An element that nothing touches goes on showing what it shows. *)
LEMMA Untouched ==
  ASSUME NEW v \in Virtuals, ShowsItsRemote(v),
         virtualToRemote'[v] = virtualToRemote[v], shown'[v] = shown[v],
         kind'[v] = kind[v], slaves'[v] = slaves[v], UNCHANGED <<press, button>>
  PROVE  ShowsItsRemote(v)'
BY DEF ShowsItsRemote, OnlyPlace, Expected, RemoteList

(* An element that has read its remote while no press was under way. *)
LEMMA Refreshed ==
  ASSUME LinksInv, NEW v \in Virtuals,
         press = NoPress, UNCHANGED <<press, button>>,
         virtualToRemote'[v] = virtualToRemote[v],
         shown'[v] = UpdateVirtualRemote(virtualToRemote[v]),
         kind'[v] = "group" => slaves'[v] = virtualToRemote[v]
  PROVE  ShowsItsRemote(v)'
<1> DEFINE links == virtualToRemote[v]
<1>1. links \in Seq(Remotes)
  BY DEF LinksInv, TypeOK
<1>2. RemoteList(links) = {} => shown'[v] = "NA"
  BY DEF UpdateVirtualRemote
<1>3. ASSUME NEW i \in 1..Len(links), RemoteList(links) = {i}
      PROVE  /\ shown'[v] = Expected(v, links[i])'
             /\ kind'[v] = "group" => Contains(slaves'[v], links[i])
  <2>1. Min({i}) = i
    BY DEF Min
  <2>2. shown'[v] = button[links[i]]
    BY <1>3, <2>1 DEF UpdateVirtualRemote
  <2>3. links[i] # None
    BY <1>1, NoneAssumption
  <2>4. Expected(v, links[i])' = button[links[i]]
    BY <2>3 DEF Expected, NoPress
  <2>5. Contains(links, links[i])
    BY <1>1 DEF Contains
  <2> QED BY <2>2, <2>4, <2>5
<1> QED BY <1>2, <1>3 DEF ShowsItsRemote, OnlyPlace, RemoteList

LEMMA UpdateTyped ==
  ASSUME LinksInv, RoutingTypeOK, NEW v \in Virtuals
  PROVE  UpdateVirtualRemote(virtualToRemote[v]) \in States \cup {"NA"}
<1> DEFINE places == RemoteList(virtualToRemote[v])
<1>1. CASE places = {}
  BY <1>1 DEF UpdateVirtualRemote
<1>2. CASE places # {}
  <2>1. PICK m \in places : \A n \in places : m <= n
    <3>1. places \in SUBSET Nat
      BY DEF RemoteList
    <3> QED BY <1>2, <3>1, LeastNatural
  <2>2. Min(places) \in places
    BY <2>1 DEF Min
  <2> QED BY <1>2, <2>2 DEF UpdateVirtualRemote, RemoteList, RoutingTypeOK
<1> QED BY <1>1, <1>2

LEMMA RoutingInvInit == RoutingInit => RoutingInv
<1> SUFFICES ASSUME RoutingInit PROVE RoutingInv
  OBVIOUS
<1> USE DEF RoutingInit, PatchInit, NoLinks, Idle, Handling
<1>1. RoutingTypeOK
  BY DEF RoutingTypeOK, States
<1>2. PressInv /\ VirtualLinksInv
  BY EmptyList DEF PressInv, VirtualLinksInv, NoPress
<1>3. ShownInv
  BY DEF ShownInv, Settled
<1> QED BY <1>1, <1>2, <1>3 DEF RoutingInv

-----------------------------------------------------------------------------
(* The main thread *)

(* connect( ) and disconnect( ) up to their notification: the one element whose
   links change is being told. *)
LEMMA LinkKeepsRoutingInv ==
  ASSUME LinksInv, RoutingInv, NEW r \in Remotes, NEW v \in Virtuals,
         Connect(r, v) \/ Disconnect(r, v), UNCHANGED <<button, press, shown, doubt>>
  PROVE  RoutingInv'
<1>1. /\ call.at = "idle"
      /\ Contains(virtualToRemote[v], r) <=> Contains(remoteToVirtual[r], v)
  BY DEF Connect, Disconnect, Idle, Handling, LinksInv, InverseInv
<1>2. /\ call'.at \in {"connecting", "disconnecting"} /\ call'.v = v
      /\ UNCHANGED <<kind, slaves>>
      /\ \A w \in Virtuals : w # v => virtualToRemote'[w] = virtualToRemote[w]
  BY <1>1, EmptyList DEF Connect, Disconnect, Handling, LinksInv, TypeOK
<1>3. RoutingTypeOK' /\ PressInv' /\ VirtualLinksInv'
  BY <1>2 DEF RoutingInv, RoutingTypeOK, PressInv, VirtualLinksInv, NoPress
<1>4. ASSUME NEW w \in Virtuals, Settled(w)' PROVE ShowsItsRemote(w)'
  <2>1. w # v /\ Settled(w)
    BY <1>1, <1>2, <1>4 DEF Settled
  <2> QED BY <1>2, <2>1, Untouched DEF RoutingInv, ShownInv
<1> QED BY <1>3, <1>4 DEF RoutingInv, ShownInv

(* disconnectRemote( ) and disconnectVirtual( ): an element that would have to be
   told blocks the handler. *)
LEMMA DisconnectAllKeepsRoutingInv ==
  ASSUME LinksInv, RoutingInv, UNCHANGED <<button, press, shown, doubt>>,
         \/ \E r \in Remotes : DisconnectRemote(r)
         \/ DisconnectRemoteStep \/ DisconnectRemoteEnd
         \/ \E v \in Virtuals : DisconnectVirtual(v)
         \/ DisconnectVirtualStep \/ DisconnectVirtualEnd
  PROVE  RoutingInv'
<1> USE DEF RoutingInv
<1>1. ASSUME call'.at # "loading"
      PROVE  RoutingTypeOK' /\ PressInv'
  BY <1>1 DEF RoutingTypeOK, PressInv, NoPress
<1>2. ASSUME call.at \notin {"blocked", "loading", "connecting", "disconnecting"},
             kind' = kind, call'.at # "loading",
             call'.at # "blocked" =>
               /\ VirtualLinksInv'
               /\ call'.at \notin {"connecting", "disconnecting"}
               /\ \A w \in Virtuals : kind[w] # "none" =>
                    virtualToRemote'[w] = virtualToRemote[w] /\ slaves'[w] = slaves[w]
      PROVE  RoutingInv'
  <2>1. VirtualLinksInv'
    BY <1>2 DEF VirtualLinksInv
  <2>2. ASSUME NEW w \in Virtuals, Settled(w)' PROVE ShowsItsRemote(w)'
    <3>1. Settled(w)
      BY <1>2, <2>2 DEF Settled
    <3> QED BY <1>2, <2>2, <3>1, Untouched DEF ShownInv, Settled
  <2> QED BY <1>1, <1>2, <2>1, <2>2 DEF ShownInv
<1>3. ASSUME NEW r \in Remotes, DisconnectRemote(r) PROVE RoutingInv'
  BY <1>2, <1>3 DEF DisconnectRemote, VirtualLinksInv, Idle, Handling
<1>4. ASSUME NEW v \in Virtuals, DisconnectVirtual(v) PROVE RoutingInv'
  BY <1>2, <1>4 DEF DisconnectVirtual, VirtualLinksInv, Idle, Handling
<1>5. CASE DisconnectRemoteStep
  <2>1. /\ call.at = "remoteLinks" /\ Head(call.todo) \in Virtuals
        /\ kind' = kind
        /\ call'.at = IF kind[Head(call.todo)] = "none" THEN "remoteLinks" ELSE "blocked"
    BY <1>5, CallFacts, TailOnce
       DEF DisconnectRemoteStep, AfterNotify, LinksInv, TodoInv, TypeOK, CallType
  <2>2. ASSUME kind[Head(call.todo)] = "none", NEW w \in Virtuals, kind[w] # "none"
        PROVE  virtualToRemote'[w] = virtualToRemote[w] /\ slaves'[w] = slaves[w]
    BY <1>5, <2>1, <2>2 DEF DisconnectRemoteStep, Notified, LinksInv, TypeOK
  <2> QED BY <1>2, <2>1, <2>2 DEF VirtualLinksInv
<1>6. CASE DisconnectRemoteEnd
  BY <1>2, <1>6 DEF DisconnectRemoteEnd, VirtualLinksInv, Idle, Handling
<1>7. CASE DisconnectVirtualStep
  <2>1. /\ call.at = "virtualLinks" /\ call.v \in Virtuals
        /\ Head(call.todo) \in Remotes /\ Contains(call.todo, Head(call.todo))
    BY <1>7, CallFacts, TailOnce DEF DisconnectVirtualStep, LinksInv, TodoInv
  <2>2. remoteToVirtual[Head(call.todo)] # <<>>
    BY <2>1, EmptyList DEF LinksInv, InverseInv
  <2>3. /\ kind' = kind /\ virtualToRemote' = virtualToRemote
        /\ call'.at = IF kind[call.v] = "none" THEN "virtualLinks" ELSE "blocked"
        /\ call'.v = call.v
        /\ kind[call.v] = "none" => slaves' = slaves
    BY <1>7, <2>1, <2>2 DEF DisconnectVirtualStep, AfterNotify, Notified, LinksInv, TypeOK, CallType
  <2> QED BY <1>2, <2>1, <2>3 DEF VirtualLinksInv
<1>8. CASE DisconnectVirtualEnd
  <2>1. call.at = "virtualLinks" /\ call.v \in Virtuals /\ kind[call.v] = "none"
    BY <1>8, CallFacts DEF DisconnectVirtualEnd, VirtualLinksInv, LinksInv
  <2>2. /\ UNCHANGED <<kind, slaves>> /\ call'.at = "idle"
        /\ \A w \in Virtuals : w # call.v => virtualToRemote'[w] = virtualToRemote[w]
    BY <1>8, <2>1 DEF DisconnectVirtualEnd, Idle, Handling, LinksInv, TypeOK
  <2> QED BY <1>2, <2>1, <2>2 DEF VirtualLinksInv
<1> QED BY <1>3, <1>4, <1>5, <1>6, <1>7, <1>8

(* The notification of a link: the element reads its remote again. *)
LEMMA NotifyKeepsRoutingInv ==
  ASSUME LinksInv, RoutingInv, RoutingNotify
  PROVE  RoutingInv'
<1> USE DEF RoutingInv
<1>1. /\ call.at \in {"connecting", "disconnecting"}
      /\ call.r \in Remotes /\ call.v \in Virtuals
      /\ call'.at = "idle"
      /\ UNCHANGED <<kind, virtualToRemote, press, button>>
      /\ slaves' = Notified(call.v, call.r, virtualToRemote[call.v])
      /\ Refresh(call.v, virtualToRemote[call.v])
  BY CallFacts DEF RoutingNotify, ConnectNotify, DisconnectNotify, Idle, Handling, LinksInv
<1>2. UpdateVirtualRemote(virtualToRemote[call.v]) \in States \cup {"NA"}
  BY <1>1, UpdateTyped
<1>3. RoutingTypeOK' /\ PressInv' /\ VirtualLinksInv'
  BY <1>1, <1>2 DEF Refresh, RoutingTypeOK, PressInv, VirtualLinksInv
<1>4. ASSUME NEW w \in Virtuals, Settled(w)' PROVE ShowsItsRemote(w)'
  <2>1. CASE w # call.v
    <3>1. Settled(w) /\ shown'[w] = shown[w] /\ slaves'[w] = slaves[w]
      BY <1>1, <1>4, <2>1 DEF Settled, Refresh, Notified, RoutingTypeOK, LinksInv, TypeOK
    <3> QED BY <1>1, <3>1, Untouched DEF ShownInv
  <2>2. CASE w = call.v
    <3>1. /\ press = NoPress
          /\ shown'[w] = UpdateVirtualRemote(virtualToRemote[w])
          /\ kind'[w] = "group" => slaves'[w] = virtualToRemote[w]
      BY <1>1, <1>4, <2>2 DEF Settled, Refresh, RoutingTypeOK
    <3> QED BY <1>1, <3>1, Refreshed
  <2> QED BY <2>1, <2>2
<1> QED BY <1>3, <1>4 DEF ShownInv

(* Elements are created, deleted and renamed, and clients set their buttons. *)
LEMMA ElementKeepsRoutingInv ==
  ASSUME LinksInv, RoutingInv, NEW v \in Virtuals,
         \/ NewElement(v) \/ OldElement(v)
         \/ \E w \in Virtuals : RenamedElement(v, w)
         \/ \E to \in States : SetButton(v, to)
  PROVE  RoutingInv'
<1> USE DEF RoutingInv
<1>1. /\ call.at = "idle" /\ UNCHANGED <<call, virtualToRemote, press, button>>
  BY DEF NewElement, AddRemote, AddGroup, OldElement, RemoveElement, RenamedElement, Rename,
         SetButton, patchVars, Idle, Handling
<1>2. PressInv' /\ VirtualLinksInv'
  BY <1>1 DEF PressInv, VirtualLinksInv
<1>3. ASSUME RoutingTypeOK',
             \A w \in Virtuals : Settled(w)' =>
               \/ /\ Settled(w)
                  /\ shown'[w] = shown[w] /\ kind'[w] = kind[w] /\ slaves'[w] = slaves[w]
               \/ /\ press = NoPress
                  /\ shown'[w] = UpdateVirtualRemote(virtualToRemote[w])
                  /\ kind'[w] = "group" => slaves'[w] = virtualToRemote[w]
      PROVE  RoutingInv'
  <2> SUFFICES ASSUME NEW w \in Virtuals, Settled(w)' PROVE ShowsItsRemote(w)'
    BY <1>2, <1>3 DEF ShownInv
  <2> QED BY <1>1, <1>3, Untouched, Refreshed DEF ShownInv
<1>4. CASE NewElement(v)
  <2>1. UpdateVirtualRemote(virtualToRemote[v]) \in States \cup {"NA"}
    BY UpdateTyped
  <2>2. RoutingTypeOK'
    BY <1>1, <1>4, <2>1 DEF NewElement, Refresh, RoutingTypeOK
  <2>3. ASSUME NEW w \in Virtuals, w # v, Settled(w)'
        PROVE  /\ Settled(w)
               /\ shown'[w] = shown[w] /\ kind'[w] = kind[w] /\ slaves'[w] = slaves[w]
    BY <1>1, <1>4, <2>3 DEF NewElement, AddRemote, AddGroup, Refresh, Settled, RoutingTypeOK, LinksInv, TypeOK
  <2>4. ASSUME Settled(v)'
        PROVE  /\ press = NoPress
               /\ shown'[v] = UpdateVirtualRemote(virtualToRemote[v])
               /\ kind'[v] = "group" => slaves'[v] = virtualToRemote[v]
    BY <1>1, <1>4, <2>4 DEF NewElement, Refresh, Settled, RoutingTypeOK
  <2> QED BY <1>3, <2>2, <2>3, <2>4
<1>5. CASE OldElement(v)
  BY <1>1, <1>3, <1>5 DEF OldElement, RemoveElement, Settled, RoutingTypeOK, States, LinksInv, TypeOK
<1>6. ASSUME NEW w \in Virtuals, RenamedElement(v, w) PROVE RoutingInv'
  BY <1>1, <1>3, <1>6 DEF RenamedElement, Rename, Settled, RoutingTypeOK, States, LinksInv, TypeOK
<1>7. ASSUME NEW to \in States, SetButton(v, to) PROVE RoutingInv'
  BY <1>1, <1>3, <1>7 DEF SetButton, patchVars, Settled, RoutingTypeOK, States, LinksInv, TypeOK
<1> QED BY <1>4, <1>5, <1>6, <1>7

(* A crash and the load that follows. *)
LEMMA RestartKeepsRoutingInv ==
  ASSUME LinksInv, RoutingInv,
         \/ RoutingCrash \/ RoutingLoad
         \/ ParseArray /\ UNCHANGED <<button, press, shown, doubt>>
  PROVE  RoutingInv'
<1> USE DEF RoutingInv
<1>1. CASE RoutingCrash
  BY <1>1, EmptyList
     DEF RoutingCrash, Crash, Handling, RoutingTypeOK, PressInv, VirtualLinksInv, ShownInv, Settled, NoPress
<1>2. CASE ParseArray /\ UNCHANGED <<button, press, shown, doubt>>
  <2>1. call'.at = "loading" /\ press = NoPress
    BY <1>2 DEF ParseArray, PressInv, LinksInv, TypeOK, CallType
  <2> QED BY <1>2, <2>1 DEF RoutingTypeOK, PressInv, VirtualLinksInv, ShownInv, Settled
<1>3. CASE RoutingLoad
  <2>1. /\ press = NoPress /\ UNCHANGED <<press, button, virtualToRemote, kind>>
        /\ call'.at = "idle"
        /\ \A v \in Virtuals : kind[v] = "group" => slaves'[v] = virtualToRemote[v]
    BY <1>3, RefreshEmpty
       DEF RoutingLoad, LoadVirtualNet, PressInv, Idle, Handling, LinksInv, TypeOK
  <2>2. RoutingTypeOK'
    BY <1>3, <2>1, UpdateTyped DEF RoutingLoad, RoutingTypeOK
  <2>3. ASSUME NEW w \in Virtuals, Settled(w)' PROVE ShowsItsRemote(w)'
    <3>1. shown'[w] = UpdateVirtualRemote(virtualToRemote[w])
      BY <1>3, <2>1, <2>3 DEF RoutingLoad, Settled
    <3> QED BY <2>1, <3>1, Refreshed
  <2> QED BY <2>1, <2>2, <2>3 DEF PressInv, VirtualLinksInv, ShownInv
<1> QED BY <1>1, <1>2, <1>3

-----------------------------------------------------------------------------
(* The XBee thread *)

(* The names are copied while the two maps agree: an element with the one remote r
   is among them. *)
LEMMA PressKeepsRoutingInv ==
  ASSUME LinksInv, RoutingInv, NEW r \in Present, NEW to \in States, Press(r, to)
  PROVE  RoutingInv'
<1> USE DEF RoutingInv
<1>1. /\ press = NoPress /\ press' = [r |-> r, to |-> to, todo |-> remoteToVirtual[r]]
      /\ UNCHANGED <<patchVars, button, shown, doubt>>
      /\ call.at # "loading" /\ ~ mutex
      /\ r \in Remotes
  BY PresentAssumption DEF Press
<1>2. call.at \in {"idle", "connecting", "disconnecting"}
  BY <1>1 DEF LinksInv, MutexInv, TypeOK, CallType
<1>3. RoutingTypeOK' /\ PressInv' /\ VirtualLinksInv'
  BY <1>1 DEF RoutingTypeOK, PressInv, VirtualLinksInv, LinksInv, TypeOK, NoDoubleLink, patchVars
<1>4. ASSUME NEW v \in Virtuals, Settled(v)' PROVE ShowsItsRemote(v)'
  <2>1. ShowsItsRemote(v) /\ virtualToRemote[v] \in Seq(Remotes)
    BY <1>1, <1>4 DEF ShownInv, Settled, patchVars, LinksInv, TypeOK
  <2>2. ASSUME NEW i \in 1..Len(virtualToRemote[v])
        PROVE  Expected(v, virtualToRemote[v][i])' = Expected(v, virtualToRemote[v][i])
    <3>1. virtualToRemote[v][i] \in Remotes /\ Contains(virtualToRemote[v], virtualToRemote[v][i])
      BY <2>1 DEF Contains
    <3>2. Expected(v, virtualToRemote[v][i]) = button[virtualToRemote[v][i]]
      BY <1>1, <3>1, NoneAssumption DEF Expected, NoPress
    <3>3. virtualToRemote[v][i] = r => Contains(remoteToVirtual[r], v)
      BY <1>1, <1>2, <3>1 DEF LinksInv, InverseInv
    <3>4. Expected(v, virtualToRemote[v][i])' = button[virtualToRemote[v][i]]
      BY <1>1, <3>3 DEF Expected, patchVars
    <3> QED BY <3>2, <3>4
  <2> QED BY <1>1, <2>1, <2>2 DEF ShowsItsRemote, OnlyPlace, RemoteList, patchVars
<1> QED BY <1>3, <1>4 DEF ShownInv

(* One element hears of the press, or does not listen. *)
LEMMA RouteKeepsRoutingInv ==
  ASSUME LinksInv, RoutingInv, Route
  PROVE  RoutingInv'
<1> USE DEF RoutingInv
<1>1. /\ press \in [r : Present, to : States, todo : Seq(Virtuals)]
      /\ press.todo # <<>>
  BY DEF Route, RoutingTypeOK, NoPress
<1> PICK h \in Virtuals : h = Head(press.todo)
  BY <1>1, TailOnce DEF PressInv
<1>2. /\ h \in Virtuals
      /\ Tail(press.todo) \in Seq(Virtuals) /\ NoRepeats(Tail(press.todo))
      /\ \A x : Contains(Tail(press.todo), x) <=> Contains(press.todo, x) /\ x # h
  BY <1>1, TailOnce DEF PressInv
<1>3. /\ press' = [r |-> press.r, to |-> press.to, todo |-> Tail(press.todo)]
      /\ UNCHANGED <<patchVars, button>>
      /\ IF Listens(h, press.r)
         THEN /\ shown' = [shown EXCEPT ![h] = press.to]
              /\ doubt' = [doubt EXCEPT ![h] = ~ Contains(virtualToRemote[h], press.r)]
         ELSE UNCHANGED <<shown, doubt>>
  BY <1>1 DEF Route
<1>4. call.at # "loading"
  BY <1>1 DEF PressInv, NoPress
<1>5. RoutingTypeOK' /\ PressInv' /\ VirtualLinksInv'
  BY <1>1, <1>2, <1>3, <1>4 DEF RoutingTypeOK, PressInv, VirtualLinksInv, patchVars
<1>6. ASSUME NEW v \in Virtuals, v # h, Settled(v)' PROVE ShowsItsRemote(v)'
  <2>1. Settled(v) /\ shown'[v] = shown[v]
    BY <1>2, <1>3, <1>6 DEF Settled, RoutingTypeOK, patchVars
  <2>2. \A r : Expected(v, r)' = Expected(v, r)
    BY <1>2, <1>3, <1>6 DEF Expected
  <2> QED BY <1>3, <2>1, <2>2 DEF ShownInv, ShowsItsRemote, OnlyPlace, RemoteList, patchVars
<1>7. ASSUME Settled(h)' PROVE ShowsItsRemote(h)'
  <2> DEFINE links == virtualToRemote[h]
  <2>1. links \in Seq(Remotes) /\ press.r \in Remotes
    BY <1>1, <1>2, PresentAssumption DEF LinksInv, TypeOK
  <2>2. Expected(h, press.r)' = press.to /\ \A r : r # press.r => Expected(h, r)' = button[r]
    BY <1>2, <1>3 DEF Expected
  <2>3. CASE Listens(h, press.r)
    <3>1. shown'[h] = press.to /\ Contains(links, press.r)
      BY <1>2, <1>3, <1>7, <2>3 DEF Settled, RoutingTypeOK
    <3>2. PICK k \in 1..Len(links) : links[k] = press.r
      BY <3>1 DEF Contains
    <3>3. k \in RemoteList(links)
      BY <1>1, <3>2 DEF RemoteList
    <3>4. kind[h] = "group" => Contains(slaves[h], press.r)
      BY <2>3 DEF Listens
    <3> QED BY <1>3, <2>2, <3>1, <3>2, <3>3, <3>4
            DEF ShowsItsRemote, OnlyPlace, RemoteList, patchVars
  <2>4. CASE ~ Listens(h, press.r)
    <3>1. Settled(h) /\ shown' = shown /\ kind[h] = "group" /\ ~ Contains(slaves[h], press.r)
      BY <1>2, <1>3, <1>7, <2>4 DEF Settled, Listens, patchVars, LinksInv, TypeOK, Kinds
    <3>2. ShowsItsRemote(h)
      BY <1>2, <3>1 DEF ShownInv
    <3>3. ASSUME NEW i \in 1..Len(links), OnlyPlace(h, i) PROVE links[i] # press.r
      BY <3>1, <3>2, <3>3 DEF ShowsItsRemote
    <3>4. ASSUME NEW i \in 1..Len(links), OnlyPlace(h, i)
          PROVE  Expected(h, links[i])' = Expected(h, links[i])
      BY <1>3, <2>2, <3>3, <3>4 DEF Expected, patchVars
    <3> QED BY <1>3, <3>1, <3>2, <3>4 DEF ShowsItsRemote, OnlyPlace, RemoteList, patchVars
  <2> QED BY <2>3, <2>4
<1> QED BY <1>2, <1>5, <1>6, <1>7 DEF ShownInv

(* The remote itself takes the state that every element with this one remote shows
   by now. *)
LEMMA PressEndKeepsRoutingInv ==
  ASSUME LinksInv, RoutingInv, PressEnd
  PROVE  RoutingInv'
<1> USE DEF RoutingInv
<1>1. /\ press \in [r : Present, to : States, todo : Seq(Virtuals)]
      /\ press.todo = <<>>
      /\ button' = [button EXCEPT ![press.r] = press.to] /\ press' = NoPress
      /\ UNCHANGED <<patchVars, shown, doubt>>
  BY DEF PressEnd, RoutingTypeOK
<1>2. RoutingTypeOK' /\ PressInv' /\ VirtualLinksInv'
  BY <1>1, EmptyList DEF RoutingTypeOK, PressInv, VirtualLinksInv, patchVars, NoPress
<1>3. ASSUME NEW v \in Virtuals, Settled(v)' PROVE ShowsItsRemote(v)'
  <2>1. ShowsItsRemote(v) /\ virtualToRemote[v] \in Seq(Remotes)
    BY <1>1, <1>3 DEF ShownInv, Settled, patchVars, LinksInv, TypeOK
  <2>2. ASSUME NEW i \in 1..Len(virtualToRemote[v]), OnlyPlace(v, i)
        PROVE  Expected(v, virtualToRemote[v][i])' = Expected(v, virtualToRemote[v][i])
    <3>1. virtualToRemote[v][i] \in Present /\ virtualToRemote[v][i] # None
      BY <2>1, <2>2, NoneAssumption DEF OnlyPlace, RemoteList
    <3>2. Expected(v, virtualToRemote[v][i])' = button'[virtualToRemote[v][i]]
      BY <1>1, <3>1 DEF Expected, NoPress, patchVars
    <3>3. Expected(v, virtualToRemote[v][i]) = button'[virtualToRemote[v][i]]
      BY <1>1, <3>1, EmptyList DEF Expected, RoutingTypeOK
    <3> QED BY <3>2, <3>3
  <2> QED BY <1>1, <2>1, <2>2 DEF ShowsItsRemote, OnlyPlace, RemoteList, patchVars
<1> QED BY <1>2, <1>3 DEF ShownInv

(* RoutingInv is inductive, over the invariant of the patch. *)
LEMMA RoutingInvNext ==
  ASSUME LinksInv, RoutingInv, [RoutingNext]_routingVars
  PROVE  RoutingInv'
<1>1. CASE UNCHANGED routingVars
  BY <1>1 DEF routingVars, patchVars, RoutingInv, RoutingTypeOK, PressInv, VirtualLinksInv,
              ShownInv, Settled, ShowsItsRemote, OnlyPlace, Expected, RemoteList
<1>2. CASE RoutingPatch
  BY <1>2, LinkKeepsRoutingInv, DisconnectAllKeepsRoutingInv, RestartKeepsRoutingInv
     DEF RoutingPatch
<1>3. CASE RoutingNotify
  BY <1>3, NotifyKeepsRoutingInv
<1>4. CASE \/ \E v \in Virtuals : NewElement(v) \/ OldElement(v)
           \/ \E v, w \in Virtuals : RenamedElement(v, w)
           \/ \E v \in Virtuals, to \in States : SetButton(v, to)
  BY <1>4, ElementKeepsRoutingInv
<1>5. CASE RoutingCrash \/ RoutingLoad
  BY <1>5, RestartKeepsRoutingInv
<1>6. CASE \E r \in Present, to \in States : Press(r, to)
  BY <1>6, PressKeepsRoutingInv
<1>7. CASE Route \/ PressEnd
  BY <1>7, RouteKeepsRoutingInv, PressEndKeepsRoutingInv
<1> QED BY <1>1, <1>2, <1>3, <1>4, <1>5, <1>6, <1>7 DEF RoutingNext

-----------------------------------------------------------------------------
(* Whatever the XBee thread does between them, the handlers of the main thread are
   those of Patch: every property of PatchSpec holds of the two threads. *)
THEOREM RoutingImplementsPatch == RoutingSpec => PatchSpec
<1>1. RoutingInit => PatchInit
  BY DEF RoutingInit
<1>2. [RoutingNext]_routingVars => [PatchNext]_patchVars
  BY RoutingStepIsPatchStep
<1> QED BY <1>1, <1>2, PTL DEF RoutingSpec, PatchSpec

(* When both threads are at rest, an element with one remote shows the state of this
   remote and an element without any shows NA (Remote::setButtonState,
   Patch::fastTriggerRemote, VirtualRemote::updateVirtualRemote), but for the writes
   that doubt names. *)
THEOREM RoutingShowsRemote == RoutingSpec => []ShowsRemote
<1>1. RoutingInv => ShowsRemote
  <2> SUFFICES ASSUME RoutingInv, call = Idle, press = NoPress,
                      NEW v \in Virtuals, kind[v] # "none", ~ doubt[v]
               PROVE  /\ RemoteList(virtualToRemote[v]) = {} => shown[v] = "NA"
                      /\ \A i \in RemoteList(virtualToRemote[v]) :
                           RemoteList(virtualToRemote[v]) = {i} => shown[v] = button[virtualToRemote[v][i]]
    BY DEF ShowsRemote
  <2>1. Settled(v)
    BY DEF Settled, Idle, Handling
  <2>2. ShowsItsRemote(v)
    BY <2>1 DEF RoutingInv, ShownInv
  <2>3. ASSUME NEW i \in RemoteList(virtualToRemote[v])
        PROVE  Expected(v, virtualToRemote[v][i]) = button[virtualToRemote[v][i]]
    <3>1. virtualToRemote[v][i] # None
      BY PresentAssumption, NoneAssumption DEF RemoteList
    <3> QED BY <3>1 DEF Expected, NoPress
  <2> QED BY <2>2, <2>3 DEF ShowsItsRemote, OnlyPlace, RemoteList
<1>2. RoutingInit => LinksInv /\ RoutingInv
  BY LinksInvInit, RoutingInvInit DEF RoutingInit
<1>3. LinksInv /\ RoutingInv /\ [RoutingNext]_routingVars => LinksInv' /\ RoutingInv'
  BY RoutingStepIsPatchStep, LinksInvNext, RoutingInvNext
<1> QED BY <1>1, <1>2, <1>3, PTL DEF RoutingSpec

=============================================================================
