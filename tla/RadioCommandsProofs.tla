------------------------ MODULE RadioCommandsProofs ------------------------
(* The table of AT requests that two threads share and the lists of remotes that
   its responses grow and shrink: for any number of remotes and any size of the
   table. *)
EXTENDS RadioCommands, SequenceTheorems, WellFoundedInduction, TLAPS

-----------------------------------------------------------------------------
(* The inductive invariant *)

Entry == [command : Commands \cup {None}, target : Targets, frame : 0..255, sequence : 0..255]
Requests == [command : Commands, target : Targets]
Calls == [call : {"addRemote", "removeRemote"}, mac : MACs]
Pointers == [block : Nat \ {0}, index : Nat \ {0}, erased : Nat]

TableTypeOK ==
  /\ table \in [Slots -> Entry]
  /\ frameId \in 0..255
  /\ asked \in SUBSET [command : Commands \cup {None}, target : Targets, frame : 1..255]

ThreadsTypeOK ==
  /\ todo \in [Threads -> Seq(Requests)]
  /\ handle \in [Threads -> 0..NoHandle]
  /\ ticking \in Threads \cup {"none"}
  /\ scanCmd \in 0..NoHandle
  /\ scanNeeded \in BOOLEAN /\ dead \in BOOLEAN
  /\ clients \in Nat /\ adds \in Nat

RegistryTypeOK ==
  /\ remotes \in Seq(MACs)
  /\ block \in Nat \ {0} /\ capacity \in Nat /\ erased \in Nat
  /\ waiting \in SUBSET MACs /\ model \in SUBSET MACs
  /\ queued \in Seq(Calls)
  /\ cached \in [MACs -> Pointers \cup {Null}]

RadioTypeOK == TableTypeOK /\ ThreadsTypeOK /\ RegistryTypeOK

(* A scan is a command of the local device, a remote is initialised by commands of its
   own, and a thread that has a handle has yet to send what it got the handle for. *)
ScanIsLocal(r) == r.command = "ND" => r.target = Local
RequestSound(r) == ScanIsLocal(r) /\ (r.command = "DL" => r.target \in MACs)
RequestsInv ==
  /\ \A t \in Threads : handle[t] # NoHandle => Busy(t)
  /\ \A t \in Threads : \A i \in 1..Len(todo[t]) : RequestSound(todo[t][i])
  /\ \A i \in Slots : ScanIsLocal(table[i])
  /\ \A a \in asked : ScanIsLocal(a)

(* The handle h denotes a request of the scan in the table tab. *)
Scans(tab, h) ==
  /\ h < NoHandle
  /\ tab[h \div 256].sequence = h % 256
  /\ tab[h \div 256].command = "ND"

(* The request of the scan is alive from its creation on, before it is sent. *)
ScanInv ==
  ~ dead =>
    /\ scanCmd # NoHandle => Scans(table, scanCmd)
    /\ \A t \in Threads :
         handle[t] # NoHandle /\ Head(todo[t]).command = "ND" => Scans(table, handle[t])

(* The frame identifiers grow, and one stands for the device that it was sent to. *)
FramesInv ==
  /\ \A i \in Slots : table[i].frame <= frameId
  /\ \A a \in asked : a.frame <= frameId
  /\ \A a \in asked, i \in Slots : table[i].frame = a.frame => table[i].target = a.target

(* They are at most as many as the commands that someone asked for: the first scan of
   the XBee thread, what the clients sent and two for every remote that was found. *)
HasScan(list) == \E i \in 1..Len(list) : list[i].command = "ND"
Unscanned(needed, list) == IF needed /\ ~ HasScan(list) THEN 1 ELSE 0
CountInv ==
  /\ clients <= MaxClient /\ adds <= MaxAdds
  /\ frameId + Len(todo["xbee"]) + Len(todo["main"]) + Unscanned(scanNeeded, todo["xbee"])
       <= 1 + clients + 2 * adds

(* The vector holds a remote once, and an address taken since it last moved or lost
   an element is right. *)
NoDuplicate(vec) == \A i, j \in 1..Len(vec) : vec[i] = vec[j] => i = j
RightSince(p, mac) ==
  p # Null => /\ p.block <= block /\ p.erased <= erased
              /\ p.block = block /\ p.erased = erased => p.index <= Len(remotes) /\ remotes[p.index] = mac
VectorInv == NoDuplicate(remotes) /\ \A mac \in MACs : RightSince(cached[mac], mac)

(* One remote at a time is initialised, inside the handler of the response that
   found it; DL is what ends the initialisation. *)
OneDL(list) == \A i, j \in 1..Len(list) : list[i].command = "DL" /\ list[j].command = "DL" => i = j
NoDL(list) == \A i \in 1..Len(list) : list[i].command # "DL"
DLsFor(list, macs) == \A i \in 1..Len(list) : list[i].command = "DL" => list[i].target \in macs
AddingInv ==
  \A t \in Threads : /\ OneDL(todo[t]) /\ DLsFor(todo[t], Known)
                     /\ ticking # t => NoDL(todo[t])

(* The last of the queued calls for a remote. *)
LastCall(queue, call, mac) ==
  \E i \in 1..Len(queue) :
    /\ queue[i] = [call |-> call, mac |-> mac]
    /\ \A j \in (i + 1)..Len(queue) : queue[j].mac # mac
NoCall(queue, mac) == \A i \in 1..Len(queue) : queue[i].mac # mac

(* The model will know a remote that the radio knows, and forget one that it does not. *)
ModelInv ==
  \A mac \in MACs :
    /\ mac \in Known \ Adding =>
         LastCall(queued, "addRemote", mac) \/ (NoCall(queued, mac) /\ mac \in model)
    /\ mac \notin Known =>
         \/ LastCall(queued, "removeRemote", mac)
         \/ NoCall(queued, mac) /\ (mac \in model => mac \in Loaded)

-----------------------------------------------------------------------------
(* The request table *)

LEMMA LeastNatural ==
  ASSUME NEW T \in SUBSET Nat, T # {}
  PROVE  \E m \in T : \A n \in T : m <= n
<1>1. IsWellFoundedOn(OpToRel(<, Nat), Nat)
  BY NatLessThanWellFounded
<1>2. PICK m \in T : \A n \in T : ~ (<<n, m>> \in OpToRel(<, Nat))
  BY <1>1, WFMin
<1>3. \A n \in T : ~ (n < m)
  BY <1>2 DEF OpToRel
<1> QED BY <1>3

(* The first free entry is free. *)
LEMMA FirstFreeIsFree ==
  ASSUME ~ TableFull
  PROVE  FirstFree \in Slots /\ ~ InUse(FirstFree)
<1> DEFINE Free == {i \in Slots : ~ InUse(i)}
<1>1. Free \in SUBSET Nat /\ Free # {}
  BY ATAssumption DEF TableFull, Slots
<1>2. PICK m \in Free : \A n \in Free : m <= n
  BY <1>1, LeastNatural
<1>3. m \in Slots /\ ~ InUse(m) /\ \A j \in 0..(m - 1) : InUse(j)
  BY <1>2, ATAssumption DEF Slots
<1> QED BY <1>3 DEF FirstFree

(* The request that a response reaches is one that it matches. *)
LEMMA MatchedMatches ==
  ASSUME NEW a, Matching(a) # {}
  PROVE  Matched(a) \in Slots /\ Matches(Matched(a), a)
<1>1. Matching(a) \in SUBSET Nat
  BY ATAssumption DEF Matching, Slots
<1>2. PICK m \in Matching(a) : \A n \in Matching(a) : m <= n
  BY <1>1, LeastNatural
<1>3. Matched(a) \in Matching(a)
  BY <1>2 DEF Matched
<1> QED BY <1>3 DEF Matching

(* The slot and the sequence of a handle. *)
LEMMA HandleParts ==
  ASSUME TableTypeOK, NEW i \in Slots
  PROVE  /\ Handle(i) \in Nat /\ Handle(i) < NoHandle
         /\ Handle(i) \div 256 = i /\ Handle(i) % 256 = table[i].sequence
<1>1. i \in Nat /\ i < TableSize /\ TableSize \in Nat
  BY ATAssumption DEF Slots
<1>2. table[i].sequence \in 0..255
  BY DEF TableTypeOK, Entry
<1> QED BY <1>1, <1>2, SMTT(30) DEF Handle, NoHandle

LEMMA SlotOfHandle ==
  ASSUME NEW h \in 0..NoHandle, h < NoHandle
  PROVE  h \div 256 \in Slots /\ SlotOf(h) \in Slots
<1>1. TableSize \in Nat
  BY ATAssumption
<1> QED BY <1>1 DEF NoHandle, Slots, SlotOf

LEMMA ReleasedTable ==
  ASSUME NEW tab \in [Slots -> Entry], NEW S
  PROVE  /\ Released(tab, S) \in [Slots -> Entry]
         /\ \A i \in Slots \ S : Released(tab, S)[i] = tab[i]
         /\ \A i \in Slots : /\ Released(tab, S)[i].target = tab[i].target
                             /\ Released(tab, S)[i].frame = tab[i].frame
                             /\ Released(tab, S)[i].command \in {tab[i].command, None}
<1>1. ASSUME NEW e \in Entry
      PROVE  /\ [e EXCEPT !.command = None, !.sequence = (@ + 1) % 256] \in Entry
             /\ [e EXCEPT !.command = None, !.sequence = (@ + 1) % 256].target = e.target
             /\ [e EXCEPT !.command = None, !.sequence = (@ + 1) % 256].frame = e.frame
             /\ [e EXCEPT !.command = None, !.sequence = (@ + 1) % 256].command = None
  <2>1. PICK q \in 0..255 : q = (e.sequence + 1) % 256
    BY DEF Entry
  <2> QED BY <2>1, ZenonT(40) DEF Entry
<1>2. \A i \in Slots : tab[i] \in Entry
  OBVIOUS
<1>3. \A i \in Slots : Released(tab, S)[i] =
        IF i \in S THEN [tab[i] EXCEPT !.command = None, !.sequence = (@ + 1) % 256] ELSE tab[i]
  BY DEF Released
<1>4. \A i \in Slots : Released(tab, S)[i] \in Entry
  BY <1>1, <1>2, <1>3, ZenonT(40)
<1>5. Released(tab, S) \in [Slots -> Entry]
  BY <1>4 DEF Released
<1>6. ASSUME NEW i \in Slots
      PROVE  /\ Released(tab, S)[i].target = tab[i].target
             /\ Released(tab, S)[i].frame = tab[i].frame
             /\ Released(tab, S)[i].command \in {tab[i].command, None}
  <2>1. CASE i \in S
    <3>1. PICK e \in Entry : e = tab[i]
      BY <1>2
    <3>2. Released(tab, S)[i] = [e EXCEPT !.command = None, !.sequence = (@ + 1) % 256]
      BY <1>3, <2>1, <3>1
    <3>3. PICK f : f = [e EXCEPT !.command = None, !.sequence = (@ + 1) % 256]
      OBVIOUS
    <3>4. f.target = e.target /\ f.frame = e.frame /\ f.command = None
      BY <1>1, <3>3
    <3> QED BY <3>1, <3>2, <3>3, <3>4
  <2>2. CASE i \notin S
    BY <1>3, <2>2
  <2> QED BY <2>1, <2>2
<1> QED BY <1>3, <1>5, <1>6

(* The entry i of tab is e but for what it is to hold; the others are the ones of old. *)
OneEntry(tab, old, i, command, target, frame) ==
  /\ tab \in [Slots -> Entry]
  /\ \A j \in Slots : j # i => tab[j] = old[j]
  /\ tab[i].command = command /\ tab[i].target = target /\ tab[i].frame = frame
  /\ tab[i].sequence = old[i].sequence

LEMMA CreatedTable ==
  ASSUME TableTypeOK, NEW i \in Slots, NEW r \in Requests
  PROVE  OneEntry(Created(i, r.command, r.target), table, i, r.command, r.target, 0)
<1>1. table[i] \in Entry /\ r.command \in Commands /\ r.target \in Targets
  BY DEF TableTypeOK, Requests
<1>2. PICK c \in Commands \cup {None} : c = r.command
  BY <1>1
<1>3. PICK d \in Targets : d = r.target
  BY <1>1
<1>4. PICK e \in Entry : e = table[i]
  BY <1>1
<1> DEFINE new == [e EXCEPT !.command = c, !.target = d, !.frame = 0]
<1>5. new.command = c /\ new.target = d /\ new.frame = 0 /\ new.sequence = e.sequence
  BY DEF Entry
<1>7. PICK f \in 0..255 : f = 0
  OBVIOUS
<1>8. new \in Entry
  <2>1. [e EXCEPT !.command = c, !.target = d, !.frame = f] \in Entry
    BY DEF Entry
  <2> QED BY <1>7, <2>1
<1>6. Created(i, r.command, r.target) = [table EXCEPT ![i] = new]
  BY <1>2, <1>3, <1>4 DEF Created
<1> HIDE DEF new
<1> QED BY <1>2, <1>3, <1>4, <1>5, <1>6, <1>8 DEF OneEntry, TableTypeOK

(* What xbee_cmd_send does to the table. *)
SentFrom(i) ==
  /\ frameId' = NextFrameId
  /\ OneEntry(table', table, i, table[i].command, table[i].target, NextFrameId)
  /\ \/ asked' = asked
     \/ asked' = asked \cup {[command |-> table[i].command, target |-> table[i].target,
                              frame |-> NextFrameId]}

LEMMA SendTable ==
  ASSUME TableTypeOK, NEW h \in 0..NoHandle, Send(h)
  PROVE  \/ ~ ValidHandle(h) /\ UNCHANGED atVars
         \/ ValidHandle(h) /\ SlotOf(h) \in Slots /\ SentFrom(SlotOf(h))
<1>1. CASE ~ ValidHandle(h)
  BY <1>1 DEF Send
<1>2. CASE ValidHandle(h)
  <2>1. SlotOf(h) \in Slots
    BY <1>2, SlotOfHandle DEF ValidHandle, NoHandle
  <2>2. PICK e \in Entry : e = table[SlotOf(h)]
    BY <2>1 DEF TableTypeOK
  <2>3. PICK f \in 1..255 : f = NextFrameId
    BY DEF NextFrameId, TableTypeOK
  <2> DEFINE new == [e EXCEPT !.frame = f]
  <2>4. new \in Entry /\ new.command = e.command /\ new.target = e.target /\ new.frame = f
        /\ new.sequence = e.sequence
    BY DEF Entry
  <2>5. table' = [table EXCEPT ![SlotOf(h)] = new]
    BY <1>2, <2>2, <2>3 DEF Send
  <2> HIDE DEF new
  <2>6. OneEntry(table', table, SlotOf(h), table[SlotOf(h)].command, table[SlotOf(h)].target, NextFrameId)
    BY <2>1, <2>2, <2>3, <2>4, <2>5 DEF OneEntry, TableTypeOK
  <2> QED BY <1>2, <2>1, <2>6 DEF Send, SentFrom
<1> QED BY <1>1, <1>2

LEMMA SendTyped ==
  ASSUME TableTypeOK, NEW h \in 0..NoHandle, Send(h)
  PROVE  TableTypeOK'
<1>1. CASE UNCHANGED atVars
  BY <1>1 DEF TableTypeOK, atVars
<1>2. CASE SlotOf(h) \in Slots /\ SentFrom(SlotOf(h))
  <2>1. table[SlotOf(h)] \in Entry
    BY <1>2 DEF TableTypeOK
  <2>2. NextFrameId \in 1..255
    BY DEF NextFrameId, TableTypeOK
  <2>3. [command |-> table[SlotOf(h)].command, target |-> table[SlotOf(h)].target, frame |-> NextFrameId]
          \in [command : Commands \cup {None}, target : Targets, frame : 1..255]
    BY <2>1, <2>2 DEF Entry
  <2>4. asked' \in SUBSET [command : Commands \cup {None}, target : Targets, frame : 1..255]
    BY <1>2, <2>3 DEF SentFrom, TableTypeOK
  <2> QED BY <1>2, <2>2, <2>4 DEF TableTypeOK, SentFrom, OneEntry
<1> QED BY <1>1, <1>2, SendTable

LEMMA HandleResponseTyped ==
  ASSUME TableTypeOK, NEW a, NEW keep \in BOOLEAN, HandleResponse(a, keep),
         asked' \in SUBSET asked
  PROVE  TableTypeOK'
BY ReleasedTable DEF HandleResponse, TableTypeOK

LEMMA TickTyped ==
  ASSUME TableTypeOK, Tick(Keeps), UNCHANGED <<frameId, asked>>
  PROVE  TableTypeOK'
BY ReleasedTable DEF Tick, TableTypeOK

-----------------------------------------------------------------------------
(* Types *)

LEMMA RadioTypeInit == RadioInit => RadioTypeOK
<1> SUFFICES ASSUME RadioInit PROVE RadioTypeOK
  OBVIOUS
<1>1. TableTypeOK
  BY DEF RadioInit, ATInit, TableTypeOK, Entry, Targets
<1>2. ThreadsTypeOK
  <2>1. NoHandle \in 0..NoHandle
    BY ATAssumption DEF NoHandle
  <2>2. todo \in [Threads -> Seq(Requests)] /\ handle \in [Threads -> 0..NoHandle]
    BY <2>1 DEF RadioInit
  <2> QED BY <2>1, <2>2 DEF RadioInit, ThreadsTypeOK
<1>3. RegistryTypeOK
  BY RegistryAssumption DEF RadioInit, RegistryInit, RegistryTypeOK
<1> QED BY <1>1, <1>2, <1>3 DEF RadioTypeOK

LEMMA RemoveAtProperties ==
  ASSUME NEW T, NEW s \in Seq(T), NEW i \in 1..Len(s)
  PROVE  /\ RemoveAt(s, i) \in Seq(T)
         /\ Len(RemoveAt(s, i)) = Len(s) - 1
         /\ \A j \in 1..(Len(s) - 1) : RemoveAt(s, i)[j] = IF j < i THEN s[j] ELSE s[j + 1]
<1> DEFINE front == SubSeq(s, 1, i - 1)
           back == SubSeq(s, i + 1, Len(s))
<1>1. front \in Seq(T) /\ Len(front) = i - 1 /\ \A j \in 1..(i - 1) : front[j] = s[j]
  BY SubSeqProperties, ElementOfSeq, LenProperties
<1>2. back \in Seq(T) /\ Len(back) = Len(s) - i /\ \A j \in 1..(Len(s) - i) : back[j] = s[i + j]
  BY SubSeqProperties, ElementOfSeq, LenProperties
<1>3. /\ front \o back \in Seq(T) /\ Len(front \o back) = Len(front) + Len(back)
      /\ \A j \in 1..(Len(front) + Len(back)) :
           (front \o back)[j] = IF j <= Len(front) THEN front[j] ELSE back[j - Len(front)]
  BY <1>1, <1>2, ConcatProperties
<1>4. RemoveAt(s, i) = front \o back
  BY DEF RemoveAt
<1> HIDE DEF front, back
<1>5. \A j \in 1..(Len(s) - 1) : RemoveAt(s, i)[j] = IF j < i THEN s[j] ELSE s[j + 1]
  <2> SUFFICES ASSUME NEW j \in 1..(Len(s) - 1)
               PROVE  RemoveAt(s, i)[j] = IF j < i THEN s[j] ELSE s[j + 1]
    OBVIOUS
  <2>1. CASE j < i
    BY <1>1, <1>2, <1>3, <1>4, <2>1, LenProperties
  <2>2. CASE j >= i
    <3>1. j - (i - 1) \in 1..(Len(s) - i) /\ i + (j - (i - 1)) = j + 1
      BY <2>2, LenProperties
    <3>2. back[j - (i - 1)] = s[j + 1]
      BY <1>2, <3>1
    <3> QED BY <1>1, <1>2, <1>3, <1>4, <2>2, <3>2, LenProperties
  <2> QED BY <2>1, <2>2, LenProperties
<1>6. Len(RemoveAt(s, i)) = Len(s) - 1
  <2>1. Len(s) \in Nat
    BY LenProperties
  <2>2. Len(front \o back) = (i - 1) + (Len(s) - i)
    BY <1>1, <1>2, <1>3
  <2> QED BY <1>4, <2>1, <2>2
<1> QED BY <1>3, <1>4, <1>5, <1>6

(* The place of a remote that the vector holds. *)
LEMMA IndexOfKnown ==
  ASSUME NEW mac \in Known, remotes \in Seq(MACs)
  PROVE  IndexOf(mac) \in 1..Len(remotes) /\ remotes[IndexOf(mac)] = mac /\ mac \in MACs
<1>1. \E i \in 1..Len(remotes) : remotes[i] = mac
  BY LenProperties DEF Known, ToSet
<1> QED BY <1>1, ElementOfSeq DEF IndexOf

LEMMA LookupTyped ==
  ASSUME RegistryTypeOK, NEW mac \in MACs
  PROVE  Lookup(mac) \in Pointers \cup {Null}
BY IndexOfKnown DEF RegistryTypeOK, Lookup, Address, Pointers

LEMMA ObjectTyped ==
  ASSUME RegistryTypeOK, NEW p \in Pointers
  PROVE  ObjectAt(p) \in MACs \cup {Nobody}
BY ElementOfSeq DEF ObjectAt, Pointers, RegistryTypeOK

(* What the radio and the main thread do to the lists of remotes. *)
LEMMA PushBackTyped ==
  ASSUME RegistryTypeOK, NEW mac \in MACs, PushBack(mac), UNCHANGED queued
  PROVE  RegistryTypeOK'
<1>1. remotes' \in Seq(MACs)
  BY AppendProperties DEF PushBack, RegistryTypeOK
<1>2. block' \in Nat \ {0} /\ capacity' \in Nat
  BY DEF PushBack, RegistryTypeOK
<1> QED BY <1>1, <1>2 DEF PushBack, RegistryTypeOK

LEMMA QueueCallTyped ==
  ASSUME RegistryTypeOK, NEW c \in {"addRemote", "removeRemote"}, NEW mac \in MACs, QueueCall(c, mac)
  PROVE  queued' \in Seq(Calls)
<1>1. [call |-> c, mac |-> mac] \in Calls
  BY DEF Calls
<1> QED BY <1>1, AppendProperties DEF QueueCall, RegistryTypeOK

LEMMA RemoveRemoteTyped ==
  ASSUME RegistryTypeOK, NEW mac, RemoveRemote(mac)
  PROVE  RegistryTypeOK'
<1>1. CASE mac \notin Known
  BY <1>1 DEF RemoveRemote, registryVars, RegistryTypeOK
<1>2. CASE mac \in Known
  <2>1. IndexOf(mac) \in 1..Len(remotes) /\ mac \in MACs /\ remotes \in Seq(MACs)
    BY <1>2, IndexOfKnown DEF RegistryTypeOK
  <2>2. remotes' \in Seq(MACs)
    BY <1>2, <2>1, RemoveAtProperties DEF RemoveRemote
  <2>3. queued' \in Seq(Calls)
    BY <1>2, <2>1, QueueCallTyped DEF RemoveRemote
  <2> QED BY <1>2, <2>2, <2>3 DEF RemoveRemote, RegistryTypeOK
<1> QED BY <1>1, <1>2

LEMMA RunQueuedTyped ==
  ASSUME RegistryTypeOK, RunQueued
  PROVE  RegistryTypeOK'
<1>1. queued' \in Seq(Calls) /\ Head(queued) \in Calls
  BY HeadTailProperties DEF RunQueued, RegistryTypeOK
<1>2. PICK mac \in MACs : mac = Head(queued).mac
  BY <1>1 DEF Calls
<1>3. cached' \in [MACs -> Pointers \cup {Null}] /\ model' \in SUBSET MACs
  BY <1>2, LookupTyped DEF RunQueued, AddRemote, RegistryTypeOK
<1> QED BY <1>1, <1>3 DEF RunQueued, RegistryTypeOK, vectorVars

LEMMA SetLedTyped ==
  ASSUME RegistryTypeOK, NEW mac \in MACs, SetLed(mac)
  PROVE  RegistryTypeOK'
<1>1. Lookup(mac) \in Pointers \cup {Null}
  BY LookupTyped
<1> QED BY <1>1 DEF SetLed, ForgetRemote, vectorVars, RegistryTypeOK

-----------------------------------------------------------------------------
LEMMA HeadIsFirst ==
  ASSUME NEW T, NEW s \in Seq(T), s # <<>>
  PROVE  1 \in 1..Len(s) /\ Head(s) = s[1] /\ Head(s) \in T
BY EmptySeq, HeadTailProperties

LEMMA TodoTyped ==
  ASSUME NEW mac \in MACs
  PROVE  /\ Todo("ND", Local) \in Requests /\ Todo("AT", Local) \in Requests
         /\ Todo("DH", mac) \in Requests /\ Todo("DL", mac) \in Requests
         /\ Todo("AT", mac) \in Requests
BY RadioAssumption DEF Todo, Requests, Targets

LEMMA CreateTyped ==
  ASSUME RadioTypeOK, NEW t \in Threads, Create(t)
  PROVE  RadioTypeOK'
<1>1. Head(todo[t]) \in Requests
  BY HeadTailProperties DEF Create, Busy, RadioTypeOK, ThreadsTypeOK
<1>2. PICK i \in Slots : /\ table' = Created(i, Head(todo[t]).command, Head(todo[t]).target)
                         /\ handle' = [handle EXCEPT ![t] = Handle(i)]
  BY DEF Create
<1>3. TableTypeOK'
  BY <1>1, <1>2, CreatedTable DEF Create, RadioTypeOK, TableTypeOK, OneEntry
<1>4. Handle(i) \in 0..NoHandle
  <2>1. Handle(i) \in Nat /\ Handle(i) < NoHandle /\ NoHandle \in Nat
    BY HandleParts, ATAssumption DEF RadioTypeOK, NoHandle
  <2> QED BY <2>1
<1>5. ThreadsTypeOK'
  BY <1>2, <1>4 DEF Create, RadioTypeOK, ThreadsTypeOK
<1> QED BY <1>3, <1>5 DEF Create, RadioTypeOK, RegistryTypeOK, registryVars

LEMMA PurgeTyped ==
  ASSUME RadioTypeOK, NEW t \in Threads, Purge(t)
  PROVE  RadioTypeOK'
<1>1. TableTypeOK'
  BY TickTyped DEF Purge, RadioTypeOK
<1> QED BY <1>1 DEF Purge, RadioTypeOK, ThreadsTypeOK, RegistryTypeOK, registryVars

(* A request that a thread is about to send is one of the list. *)
LEMMA SendPreparedTyped ==
  ASSUME RadioTypeOK, RequestsInv, NEW t \in Threads, SendPrepared(t)
  PROVE  RadioTypeOK'
<1>1. Busy(t) /\ handle[t] \in 0..NoHandle
  BY DEF SendPrepared, RequestsInv, RadioTypeOK, ThreadsTypeOK
<1>2. Head(todo[t]) \in Requests /\ Tail(todo[t]) \in Seq(Requests)
  BY <1>1, HeadTailProperties DEF Busy, RadioTypeOK, ThreadsTypeOK
<1>3. TableTypeOK'
  BY <1>1, SendTyped DEF SendPrepared, RadioTypeOK
<1>4. NoHandle \in 0..NoHandle
  BY ATAssumption DEF NoHandle
<1>5. ThreadsTypeOK'
  BY <1>1, <1>2, <1>4 DEF SendPrepared, RadioTypeOK, ThreadsTypeOK
<1>6. queued' \in Seq(Calls)
  <2>1. CASE Head(todo[t]).command = "DL"
    <3>1. Head(todo[t]).target \in MACs
      BY <1>1, <2>1, HeadIsFirst DEF Busy, RequestsInv, RequestSound, RadioTypeOK, ThreadsTypeOK
    <3> QED BY <2>1, <3>1, QueueCallTyped DEF SendPrepared, RadioTypeOK
  <2>2. CASE Head(todo[t]).command # "DL"
    BY <2>2 DEF SendPrepared, RadioTypeOK, RegistryTypeOK
  <2> QED BY <2>1, <2>2
<1> QED BY <1>3, <1>5, <1>6 DEF SendPrepared, RadioTypeOK, RegistryTypeOK, vectorVars

LEMMA ScanTyped ==
  ASSUME RadioTypeOK, NEW t \in Threads, ScanNetwork(t)
  PROVE  /\ TableTypeOK' /\ todo' \in [Threads -> Seq(Requests)] /\ scanNeeded' \in BOOLEAN
<1>1. CASE scanCmd = NoHandle
  <2>1. Todo("ND", Local) \in Requests
    BY RadioAssumption DEF Todo, Requests, Targets
  <2>2. <<Todo("ND", Local)>> \in Seq(Requests)
    BY <2>1
  <2> QED BY <1>1, <2>2, ZenonT(40) DEF ScanNetwork, RadioTypeOK, ThreadsTypeOK, TableTypeOK, atVars
<1>2. CASE scanCmd # NoHandle
  BY <1>2, SendTyped DEF ScanNetwork, RadioTypeOK, ThreadsTypeOK
<1> QED BY <1>1, <1>2

LEMMA ClientSendATTyped ==
  ASSUME RadioTypeOK, ClientSendAT
  PROVE  RadioTypeOK'
<1>1. todo' \in [Threads -> Seq(Requests)] /\ RegistryTypeOK'
  <2>1. CASE /\ todo' = [todo EXCEPT !["main"] = <<Todo("AT", Local)>>]
             /\ UNCHANGED registryVars
    <3>1. Todo("AT", Local) \in Requests
      BY RadioAssumption DEF Todo, Requests, Targets
    <3>2. <<Todo("AT", Local)>> \in Seq(Requests)
      BY <3>1
    <3> QED BY <2>1, <3>2 DEF RadioTypeOK, ThreadsTypeOK, RegistryTypeOK, registryVars
  <2>2. ASSUME NEW mac \in model,
               IF Lookup(mac) = Null THEN ForgetRemote(mac) /\ UNCHANGED todo
               ELSE /\ ObjectAt(Lookup(mac)) # Nobody
                    /\ todo' = [todo EXCEPT !["main"] = <<Todo("AT", ObjectAt(Lookup(mac)))>>]
                    /\ cached' = [cached EXCEPT ![mac] = Lookup(mac)]
                    /\ UNCHANGED <<vectorVars, waiting, queued, model, sets>>
        PROVE  todo' \in [Threads -> Seq(Requests)] /\ RegistryTypeOK'
    <3>1. mac \in MACs
      BY DEF RadioTypeOK, RegistryTypeOK
    <3>2. Lookup(mac) \in Pointers \cup {Null}
      BY <3>1, LookupTyped DEF RadioTypeOK
    <3>3. CASE Lookup(mac) = Null
      BY <2>2, <3>3 DEF ForgetRemote, RadioTypeOK, ThreadsTypeOK, RegistryTypeOK, vectorVars
    <3>4. CASE Lookup(mac) # Null
      <4>1. PICK m \in MACs : m = ObjectAt(Lookup(mac))
        BY <2>2, <3>2, <3>4, ObjectTyped DEF RadioTypeOK
      <4>2. Todo("AT", m) \in Requests
        BY TodoTyped
      <4>3. <<Todo("AT", m)>> \in Seq(Requests)
        BY <4>2
      <4>4. todo' = [todo EXCEPT !["main"] = <<Todo("AT", m)>>]
        BY <2>2, <3>4, <4>1
      <4>5. todo' \in [Threads -> Seq(Requests)]
        BY <4>3, <4>4 DEF RadioTypeOK, ThreadsTypeOK
      <4> QED BY <2>2, <3>1, <3>2, <3>4, <4>5 DEF RadioTypeOK, RegistryTypeOK, vectorVars
    <3> QED BY <3>3, <3>4
  <2> QED BY <2>1, <2>2 DEF ClientSendAT
<1>2. ThreadsTypeOK'
  BY <1>1 DEF ClientSendAT, RadioTypeOK, ThreadsTypeOK
<1> QED BY <1>1, <1>2 DEF ClientSendAT, RadioTypeOK, TableTypeOK, atVars

LEMMA AskersTyped ==
  ASSUME RadioTypeOK,
         FirstScan \/ ClientScan \/ ClientSetLed \/ EventLoop
  PROVE  RadioTypeOK'
<1> "xbee" \in Threads /\ "main" \in Threads
  BY DEF Threads
<1>1. CASE FirstScan
  <2>1. TableTypeOK' /\ todo' \in [Threads -> Seq(Requests)] /\ scanNeeded' \in BOOLEAN
    BY <1>1, ScanTyped DEF FirstScan
  <2> QED BY <1>1, <2>1 DEF FirstScan, RadioTypeOK, ThreadsTypeOK, RegistryTypeOK, registryVars
<1>2. CASE ClientScan
  <2>1. TableTypeOK' /\ todo' \in [Threads -> Seq(Requests)] /\ scanNeeded' \in BOOLEAN
    BY <1>2, ScanTyped DEF ClientScan
  <2> QED BY <1>2, <2>1, SMTT(30) DEF ClientScan, RadioTypeOK, ThreadsTypeOK, RegistryTypeOK, registryVars
<1>3. CASE ClientSetLed
  <2>1. RegistryTypeOK'
    BY <1>3, SetLedTyped DEF ClientSetLed, RadioTypeOK
  <2> QED BY <1>3, <2>1 DEF ClientSetLed, RadioTypeOK, TableTypeOK, ThreadsTypeOK, atVars
<1>4. CASE EventLoop
  <2>1. RegistryTypeOK'
    BY <1>4, RunQueuedTyped DEF EventLoop, RadioTypeOK
  <2> QED BY <1>4, <2>1 DEF EventLoop, RadioTypeOK, TableTypeOK, ThreadsTypeOK, atVars
<1> QED BY <1>1, <1>2, <1>3, <1>4

LEMMA ScanResponseTyped ==
  ASSUME RadioTypeOK, NEW t \in Threads, NEW a \in asked, NEW mac \in MACs, ScanResponse(t, a, mac)
  PROVE  RadioTypeOK'
<1>1. TableTypeOK'
  BY HandleResponseTyped DEF ScanResponse, RadioTypeOK
<1>2. CASE UNCHANGED <<registryVars, todo, ticking, adds>>
  BY <1>1, <1>2 DEF ScanResponse, RadioTypeOK, ThreadsTypeOK, RegistryTypeOK, registryVars
<1>3. CASE /\ adds' = adds + 1
           /\ PushBack(mac) /\ UNCHANGED queued
           /\ todo' = [todo EXCEPT ![t] = <<Todo("DH", mac), Todo("DL", mac)>> \o @]
           /\ ticking' = t
  <2>1. RegistryTypeOK'
    BY <1>3, PushBackTyped DEF RadioTypeOK
  <2>2. <<Todo("DH", mac), Todo("DL", mac)>> \in Seq(Requests)
    BY TodoTyped
  <2>3. <<Todo("DH", mac), Todo("DL", mac)>> \o todo[t] \in Seq(Requests)
    BY <2>2, ConcatProperties DEF RadioTypeOK, ThreadsTypeOK
  <2>4. ThreadsTypeOK'
    BY <1>3, <2>3 DEF ScanResponse, RadioTypeOK, ThreadsTypeOK
  <2> QED BY <1>1, <2>1, <2>4 DEF RadioTypeOK
<1> QED BY <1>2, <1>3 DEF ScanResponse

LEMMA AnswerTyped ==
  ASSUME RadioTypeOK, NEW t \in Threads, NEW a \in asked, Success(t, a) \/ Failure(t, a)
  PROVE  RadioTypeOK'
<1>1. CASE Success(t, a)
  <2>1. TableTypeOK'
    BY <1>1, HandleResponseTyped DEF Success, RadioTypeOK
  <2> QED BY <1>1, <2>1 DEF Success, RadioTypeOK, ThreadsTypeOK, RegistryTypeOK, registryVars
<1>2. CASE Failure(t, a)
  <2>1. TableTypeOK'
    BY <1>2, HandleResponseTyped DEF Failure, RadioTypeOK
  <2>2. RegistryTypeOK'
    <3>1. CASE UNCHANGED registryVars
      BY <3>1 DEF RadioTypeOK, RegistryTypeOK, registryVars
    <3>2. CASE RemoveRemote(a.target)
      BY <3>2, RemoveRemoteTyped DEF RadioTypeOK
    <3> QED BY <1>2, <3>1, <3>2 DEF Failure
  <2>3. dead' \in BOOLEAN
    BY <1>2 DEF Failure, RadioTypeOK, ThreadsTypeOK
  <2> QED BY <1>2, <2>1, <2>2, <2>3 DEF Failure, RadioTypeOK, ThreadsTypeOK
<1> QED BY <1>1, <1>2

LEMMA ServeRemoteTyped ==
  ASSUME RadioTypeOK, ServeRemote
  PROVE  RadioTypeOK'
<1>1. TableTypeOK'
  BY TickTyped DEF ServeRemote, RadioTypeOK, TableTypeOK
<1>2. waiting' \in SUBSET MACs
  BY DEF ServeRemote, RadioTypeOK, RegistryTypeOK
<1> QED BY <1>1, <1>2 DEF ServeRemote, RadioTypeOK, ThreadsTypeOK, RegistryTypeOK, vectorVars

LEMMA RadioTypeNext ==
  ASSUME RadioTypeOK, RequestsInv, [RadioNext]_radioVars
  PROVE  RadioTypeOK'
<1>1. CASE UNCHANGED radioVars
  BY <1>1 DEF radioVars, atVars, registryVars, RadioTypeOK, TableTypeOK, ThreadsTypeOK, RegistryTypeOK
<1>2. CASE RadioNext
  BY <1>2, CreateTyped, PurgeTyped, SendPreparedTyped, ClientSendATTyped, AskersTyped,
     ScanResponseTyped, AnswerTyped, ServeRemoteTyped
     DEF RadioNext, ThreadStep
<1> QED BY <1>1, <1>2

-----------------------------------------------------------------------------
(* The requests *)

(* What the requests of a list have in common is kept when the first goes and when
   others of the kind come. *)
LEMMA TailSound ==
  ASSUME NEW s \in Seq(Requests), s # <<>>, \A i \in 1..Len(s) : RequestSound(s[i])
  PROVE  RequestSound(Head(s)) /\ \A i \in 1..Len(Tail(s)) : RequestSound(Tail(s)[i])
<1>1. Len(s) \in Nat /\ Len(Tail(s)) = Len(s) - 1 /\ \A i \in 1..Len(Tail(s)) : Tail(s)[i] = s[i + 1]
  BY HeadTailProperties, LenProperties
<1>2. \A i \in 1..Len(Tail(s)) : i + 1 \in 1..Len(s)
  BY <1>1
<1> QED BY <1>1, <1>2, HeadIsFirst

LEMMA InitialisationSound ==
  ASSUME NEW s \in Seq(Requests), NEW mac \in MACs, \A i \in 1..Len(s) : RequestSound(s[i])
  PROVE  LET new == <<Todo("DH", mac), Todo("DL", mac)>> \o s
         IN  \A i \in 1..Len(new) : RequestSound(new[i])
<1> DEFINE two == <<Todo("DH", mac), Todo("DL", mac)>>
           new == two \o s
<1>1. two \in Seq(Requests) /\ Len(two) = 2 /\ two[1] = Todo("DH", mac) /\ two[2] = Todo("DL", mac)
  BY TodoTyped
<1>2. RequestSound(two[1]) /\ RequestSound(two[2])
  BY <1>1 DEF RequestSound, ScanIsLocal, Todo
<1>3. /\ Len(new) = 2 + Len(s) /\ Len(s) \in Nat
      /\ \A i \in 1..(2 + Len(s)) : new[i] = IF i <= 2 THEN two[i] ELSE s[i - 2]
  BY <1>1, ConcatProperties, LenProperties
<1>4. ASSUME NEW i \in 1..Len(new) PROVE RequestSound(new[i])
  <2> HIDE DEF new, two
  <2>1. CASE i <= 2
    <3>1. i = 1 \/ i = 2
      BY <1>3, <2>1
    <3> QED BY <1>2, <1>3, <2>1, <3>1
  <2>2. CASE i > 2
    <3>1. i - 2 \in 1..Len(s) /\ new[i] = s[i - 2]
      BY <1>3, <2>2
    <3> QED BY <3>1
  <2> QED BY <1>3, <2>1, <2>2
<1> QED BY <1>4

(* Every step but the creation of a request leaves an entry its command, or frees it. *)
Lessened(tab, old) ==
  \A i \in Slots : tab[i].target = old[i].target /\ tab[i].command \in {old[i].command, None}

LEMMA TickLessens ==
  ASSUME TableTypeOK, Tick(Keeps)
  PROVE  Lessened(table', table)
BY ReleasedTable DEF Tick, TableTypeOK, Lessened

LEMMA ResponseLessens ==
  ASSUME TableTypeOK, NEW a, NEW keep \in BOOLEAN, HandleResponse(a, keep)
  PROVE  Lessened(table', table)
BY ReleasedTable DEF HandleResponse, TableTypeOK, Lessened

LEMMA SendLessens ==
  ASSUME TableTypeOK, NEW h \in 0..NoHandle, Send(h),
         \A i \in Slots : ScanIsLocal(table[i]), \A a \in asked : ScanIsLocal(a)
  PROVE  Lessened(table', table) /\ \A a \in asked' : ScanIsLocal(a)
<1>1. CASE UNCHANGED atVars
  BY <1>1 DEF atVars, Lessened
<1>2. CASE SlotOf(h) \in Slots /\ SentFrom(SlotOf(h))
  <2>1. Lessened(table', table)
    BY <1>2 DEF SentFrom, OneEntry, Lessened
  <2>2. ScanIsLocal([command |-> table[SlotOf(h)].command, target |-> table[SlotOf(h)].target,
                     frame |-> NextFrameId])
    BY <1>2 DEF ScanIsLocal
  <2> QED BY <1>2, <2>1, <2>2 DEF SentFrom
<1> QED BY <1>1, <1>2, SendTable

LEMMA LessenedSound ==
  ASSUME \A i \in Slots : ScanIsLocal(table[i]), Lessened(table', table)
  PROVE  \A i \in Slots : ScanIsLocal(table'[i])
BY DEF Lessened, ScanIsLocal, None

LEMMA ThreadKeepsRequests ==
  ASSUME RadioTypeOK, RequestsInv, NEW t \in Threads, ThreadStep(t)
  PROVE  RequestsInv'
<1>1. CASE Create(t)
  <2>1. Head(todo[t]) \in Requests /\ RequestSound(Head(todo[t]))
    BY <1>1, HeadIsFirst, TailSound DEF Create, Busy, RequestsInv, RadioTypeOK, ThreadsTypeOK
  <2>2. PICK i \in Slots : /\ table' = Created(i, Head(todo[t]).command, Head(todo[t]).target)
                           /\ handle' = [handle EXCEPT ![t] = Handle(i)]
    BY <1>1 DEF Create
  <2>3. OneEntry(table', table, i, Head(todo[t]).command, Head(todo[t]).target, 0)
    BY <2>1, <2>2, CreatedTable DEF RadioTypeOK
  <2>4. \A j \in Slots : ScanIsLocal(table'[j])
    BY <2>1, <2>3 DEF OneEntry, RequestsInv, RequestSound, ScanIsLocal
  <2>5. \A u \in Threads : handle'[u] # NoHandle => Busy(u)'
    BY <1>1, <2>2 DEF Create, Busy, RequestsInv, RadioTypeOK, ThreadsTypeOK
  <2> QED BY <1>1, <2>4, <2>5 DEF Create, RequestsInv
<1>2. CASE Purge(t)
  <2>1. \A i \in Slots : ScanIsLocal(table'[i])
    BY <1>2, TickLessens, LessenedSound DEF Purge, RequestsInv, RadioTypeOK
  <2> QED BY <1>2, <2>1 DEF Purge, RequestsInv, Busy
<1>3. CASE SendPrepared(t)
  <2>1. handle[t] \in 0..NoHandle
    BY DEF RadioTypeOK, ThreadsTypeOK
  <2>2. Lessened(table', table) /\ \A a \in asked' : ScanIsLocal(a)
    BY <1>3, <2>1, SendLessens DEF SendPrepared, RadioTypeOK, RequestsInv
  <2>3. \A i \in Slots : ScanIsLocal(table'[i])
    BY <2>2, LessenedSound DEF RequestsInv
  <2>4. todo[t] \in Seq(Requests) /\ todo[t] # <<>>
    BY <1>3 DEF SendPrepared, RequestsInv, Busy, RadioTypeOK, ThreadsTypeOK
  <2>5. \A u \in Threads : \A i \in 1..Len(todo'[u]) : RequestSound(todo'[u][i])
    <3>1. todo' = [todo EXCEPT ![t] = Tail(todo[t])]
      BY <1>3 DEF SendPrepared
    <3> QED BY <2>4, <3>1, TailSound DEF RequestsInv, RadioTypeOK, ThreadsTypeOK
  <2>6. \A u \in Threads : handle'[u] # NoHandle => Busy(u)'
    BY <1>3 DEF SendPrepared, Busy, RequestsInv, RadioTypeOK, ThreadsTypeOK
  <2> QED BY <2>2, <2>3, <2>5, <2>6 DEF RequestsInv
<1> QED BY <1>1, <1>2, <1>3 DEF ThreadStep

LEMMA ScanNetworkKeepsRequests ==
  ASSUME RadioTypeOK, RequestsInv, NEW t \in Threads, ScanNetwork(t), ~ Busy(t), UNCHANGED handle
  PROVE  RequestsInv'
<1>1. CASE scanCmd = NoHandle
  <2>1. todo' = [todo EXCEPT ![t] = <<Todo("ND", Local)>>] /\ UNCHANGED atVars
    BY <1>1 DEF ScanNetwork
  <2>2. \A u \in Threads : \A i \in 1..Len(todo'[u]) : RequestSound(todo'[u][i])
    <3>1. RequestSound(Todo("ND", Local))
      BY DEF RequestSound, ScanIsLocal, Todo
    <3> QED BY <2>1, <3>1 DEF RequestsInv, RadioTypeOK, ThreadsTypeOK
  <2>3. \A u \in Threads : handle'[u] # NoHandle => Busy(u)'
    BY <2>1 DEF RequestsInv, Busy, RadioTypeOK, ThreadsTypeOK
  <2> QED BY <2>1, <2>2, <2>3 DEF RequestsInv, atVars
<1>2. CASE scanCmd # NoHandle
  <2>1. Send(scanCmd) /\ UNCHANGED todo /\ scanCmd \in 0..NoHandle
    BY <1>2 DEF ScanNetwork, RadioTypeOK, ThreadsTypeOK
  <2>2. Lessened(table', table) /\ \A a \in asked' : ScanIsLocal(a)
    BY <2>1, SendLessens DEF RadioTypeOK, RequestsInv
  <2>3. \A i \in Slots : ScanIsLocal(table'[i])
    BY <2>2, LessenedSound DEF RequestsInv
  <2> QED BY <2>1, <2>2, <2>3 DEF RequestsInv, Busy
<1> QED BY <1>1, <1>2

LEMMA AskersKeepRequests ==
  ASSUME RadioTypeOK, RequestsInv,
         FirstScan \/ ClientScan \/ ClientSendAT \/ ClientSetLed \/ EventLoop
  PROVE  RequestsInv'
<1> "xbee" \in Threads /\ "main" \in Threads
  BY DEF Threads
<1>1. CASE FirstScan \/ ClientScan
  BY <1>1, ScanNetworkKeepsRequests DEF FirstScan, ClientScan
<1>2. CASE ClientSetLed \/ EventLoop
  BY <1>2 DEF ClientSetLed, EventLoop, RequestsInv, Busy, atVars
<1>3. CASE ClientSendAT
  <2>1. todo' = todo \/ \E m : todo' = [todo EXCEPT !["main"] = <<Todo("AT", m)>>]
    BY <1>3 DEF ClientSendAT
  <2>2. \A m : RequestSound(Todo("AT", m))
    BY DEF RequestSound, ScanIsLocal, Todo
  <2>3. \A u \in Threads : \A i \in 1..Len(todo'[u]) : RequestSound(todo'[u][i])
    <3>1. CASE todo' = todo
      BY <3>1 DEF RequestsInv
    <3>2. ASSUME NEW m, todo' = [todo EXCEPT !["main"] = <<Todo("AT", m)>>]
          PROVE  \A u \in Threads : \A i \in 1..Len(todo'[u]) : RequestSound(todo'[u][i])
      BY <2>2, <3>2 DEF RequestsInv, RadioTypeOK, ThreadsTypeOK
    <3> QED BY <2>1, <3>1, <3>2
  <2>4. \A u \in Threads : handle'[u] # NoHandle => Busy(u)'
    BY <1>3, <2>1 DEF ClientSendAT, RequestsInv, Busy, RadioTypeOK, ThreadsTypeOK
  <2> QED BY <1>3, <2>3, <2>4 DEF ClientSendAT, RequestsInv, atVars
<1> QED BY <1>1, <1>2, <1>3

LEMMA ResponsesKeepRequests ==
  ASSUME RadioTypeOK, RequestsInv, NEW t \in Threads, NEW a \in asked,
         (\E mac \in MACs : ScanResponse(t, a, mac)) \/ Success(t, a) \/ Failure(t, a)
  PROVE  RequestsInv'
<1>1. Lessened(table', table)
  BY ResponseLessens DEF ScanResponse, Success, Failure, RadioTypeOK
<1>2. \A i \in Slots : ScanIsLocal(table'[i])
  BY <1>1, LessenedSound DEF RequestsInv
<1>3. \A b \in asked' : ScanIsLocal(b)
  BY DEF ScanResponse, Success, Failure, RequestsInv
<1>4. CASE UNCHANGED todo
  BY <1>2, <1>3, <1>4 DEF ScanResponse, Success, Failure, RequestsInv, Busy
<1>5. ASSUME NEW mac \in MACs, ScanResponse(t, a, mac),
             todo' = [todo EXCEPT ![t] = <<Todo("DH", mac), Todo("DL", mac)>> \o @]
      PROVE  RequestsInv'
  <2>1. todo[t] \in Seq(Requests) /\ \A i \in 1..Len(todo[t]) : RequestSound(todo[t][i])
    BY DEF RequestsInv, RadioTypeOK, ThreadsTypeOK
  <2>2. PICK new : new = <<Todo("DH", mac), Todo("DL", mac)>> \o todo[t]
    OBVIOUS
  <2>3. (\A i \in 1..Len(new) : RequestSound(new[i])) /\ new # <<>>
    <3>1. <<Todo("DH", mac), Todo("DL", mac)>> \in Seq(Requests)
      BY TodoTyped
    <3>2. new # <<>>
      BY <2>1, <2>2, <3>1, ConcatEqualIffEmpty
    <3> QED BY <2>1, <2>2, <3>2, InitialisationSound
  <2>4. todo' = [todo EXCEPT ![t] = new]
    BY <1>5, <2>2
  <2>5. \A u \in Threads : \A i \in 1..Len(todo'[u]) : RequestSound(todo'[u][i])
    BY <2>3, <2>4 DEF RequestsInv, RadioTypeOK, ThreadsTypeOK
  <2>6. \A u \in Threads : handle'[u] # NoHandle => Busy(u)'
    BY <1>5, <2>3, <2>4 DEF ScanResponse, RequestsInv, Busy, RadioTypeOK, ThreadsTypeOK
  <2> QED BY <1>2, <1>3, <2>5, <2>6 DEF RequestsInv
<1>6. UNCHANGED todo \/ \E mac \in MACs : /\ ScanResponse(t, a, mac)
                                          /\ todo' = [todo EXCEPT ![t] = <<Todo("DH", mac), Todo("DL", mac)>> \o @]
  BY DEF ScanResponse, Success, Failure
<1> QED BY <1>4, <1>5, <1>6

LEMMA RequestsInvNext ==
  ASSUME RadioTypeOK, RequestsInv, [RadioNext]_radioVars
  PROVE  RequestsInv'
<1>1. CASE UNCHANGED radioVars
  BY <1>1 DEF radioVars, atVars, RequestsInv, Busy
<1>2. CASE ServeRemote
  <2>1. Lessened(table', table)
    BY <1>2, TickLessens DEF ServeRemote, RadioTypeOK, Lessened
  <2>2. \A i \in Slots : ScanIsLocal(table'[i])
    BY <2>1, LessenedSound DEF RequestsInv
  <2> QED BY <1>2, <2>2 DEF ServeRemote, RequestsInv, Busy
<1> QED BY <1>1, <1>2, ThreadKeepsRequests, AskersKeepRequests, ResponsesKeepRequests DEF RadioNext

LEMMA RequestsInvInit == RadioInit => RequestsInv
BY DEF RadioInit, ATInit, RequestsInv, ScanIsLocal, None

-----------------------------------------------------------------------------
(* The request of the scan *)

(* Requests other than the scan are released. *)
LEMMA ReleasedKeepsScan ==
  ASSUME TableTypeOK, NEW S, \A i \in S \cap Slots : table[i].command # "ND",
         NEW h \in 0..NoHandle, Scans(table, h)
  PROVE  Scans(Released(table, S), h)
<1>1. h \div 256 \in Slots
  BY SlotOfHandle DEF Scans
<1>2. Released(table, S)[h \div 256] = table[h \div 256]
  BY <1>1, ReleasedTable DEF Scans, TableTypeOK
<1> QED BY <1>2 DEF Scans

LEMMA SendKeepsScan ==
  ASSUME TableTypeOK, NEW g \in 0..NoHandle, Send(g), NEW h \in 0..NoHandle, Scans(table, h)
  PROVE  Scans(table', h)
<1>1. h \div 256 \in Slots
  BY SlotOfHandle DEF Scans
<1>2. CASE UNCHANGED atVars
  BY <1>2 DEF atVars, Scans
<1>3. CASE SlotOf(g) \in Slots /\ SentFrom(SlotOf(g))
  BY <1>1, <1>3 DEF Scans, SentFrom, OneEntry
<1> QED BY <1>2, <1>3, SendTable

LEMMA CreateKeepsScan ==
  ASSUME RadioTypeOK, ~ MayRace, NEW t \in Threads, Create(t), NEW h \in 0..NoHandle, Scans(table, h)
  PROVE  Scans(table', h)
<1>1. h \div 256 \in Slots
  BY SlotOfHandle DEF Scans
<1>2. Head(todo[t]) \in Requests
  BY HeadIsFirst DEF Create, Busy, RadioTypeOK, ThreadsTypeOK
<1>3. PICK i \in Slots : /\ ~ TableFull /\ i = FirstFree
                         /\ table' = Created(i, Head(todo[t]).command, Head(todo[t]).target)
  BY DEF Create
<1>4. h \div 256 # i
  BY <1>3, FirstFreeIsFree DEF Scans, InUse, None
<1>5. OneEntry(table', table, i, Head(todo[t]).command, Head(todo[t]).target, 0)
  BY <1>2, <1>3, CreatedTable DEF RadioTypeOK
<1> QED BY <1>1, <1>4, <1>5 DEF Scans, OneEntry

(* Before the process ends, a response releases only other requests: one to the scan
   that is an error comes from the local device. *)
LEMMA ResponseKeepsScan ==
  ASSUME RadioTypeOK, RequestsInv, ~ dead', NEW t \in Threads, NEW a \in asked,
         (\E mac \in MACs : ScanResponse(t, a, mac)) \/ Success(t, a) \/ Failure(t, a),
         NEW h \in 0..NoHandle, Scans(table, h)
  PROVE  Scans(table', h)
<1>1. CASE table' = table
  BY <1>1
<1>2. CASE Matching(a) # {} /\ table' = Released(table, {Matched(a)})
  <2>1. Matched(a) \in Slots /\ Matches(Matched(a), a)
    BY <1>2, MatchedMatches
  <2>2. CASE a.command # "ND"
    <3>1. table[Matched(a)].command # "ND"
      BY <2>1, <2>2 DEF Matches
    <3> QED BY <1>2, <3>1, ReleasedKeepsScan DEF RadioTypeOK
  <2>3. CASE a.command = "ND"
    <3>1. a.target = Local
      BY <2>3 DEF RequestsInv, ScanIsLocal
    <3>2. CASE Failure(t, a)
      BY <1>2, <3>1, <3>2 DEF Failure
    <3>3. CASE \E mac \in MACs : ScanResponse(t, a, mac)
      BY <3>3 DEF ScanResponse, HandleResponse
    <3> QED BY <2>3, <3>2, <3>3 DEF Success
  <2> QED BY <2>2, <2>3
<1> QED BY <1>1, <1>2 DEF ScanResponse, Success, Failure, HandleResponse

LEMMA TickKeepsScan ==
  ASSUME RadioTypeOK, Tick(Keeps), NEW h \in 0..NoHandle, Scans(table, h)
  PROVE  Scans(table', h)
<1>1. PICK S \in SUBSET {i \in Slots \ Keeps : InUse(i)} : table' = Released(table, S)
  BY DEF Tick
<1>2. \A i \in S \cap Slots : table[i].command # "ND"
  BY DEF Keeps
<1> QED BY <1>1, <1>2, ReleasedKeepsScan DEF RadioTypeOK

LEMMA ScanNetworkKeepsScan ==
  ASSUME RadioTypeOK, NEW t \in Threads, ScanNetwork(t), NEW h \in 0..NoHandle, Scans(table, h)
  PROVE  Scans(table', h)
BY SendKeepsScan DEF ScanNetwork, atVars, RadioTypeOK, ThreadsTypeOK

(* Nothing that happens before the process ends takes the request of a scan away. *)
LEMMA ScansOn ==
  ASSUME RadioTypeOK, RequestsInv, ~ MayRace, [RadioNext]_radioVars, ~ dead',
         NEW h \in 0..NoHandle, Scans(table, h)
  PROVE  Scans(table', h)
<1> "xbee" \in Threads /\ "main" \in Threads
  BY DEF Threads
<1>1. CASE \E t \in Threads : ThreadStep(t)
  <2> PICK t \in Threads : ThreadStep(t)
    BY <1>1
  <2>1. CASE Create(t)
    BY <2>1, CreateKeepsScan
  <2>2. CASE Purge(t)
    BY <2>2, TickKeepsScan DEF Purge
  <2>3. CASE SendPrepared(t)
    BY <2>3, SendKeepsScan DEF SendPrepared, RadioTypeOK, ThreadsTypeOK
  <2> QED BY <2>1, <2>2, <2>3 DEF ThreadStep
<1>2. CASE FirstScan \/ ClientScan
  BY <1>2, ScanNetworkKeepsScan DEF FirstScan, ClientScan
<1>3. CASE ClientSendAT \/ ClientSetLed \/ EventLoop
  BY <1>3 DEF ClientSendAT, ClientSetLed, EventLoop, atVars
<1>4. CASE \E t \in Threads, a \in asked :
             (\E mac \in MACs : ScanResponse(t, a, mac)) \/ Success(t, a) \/ Failure(t, a)
  BY <1>4, ResponseKeepsScan
<1>5. CASE ServeRemote
  BY <1>5, TickKeepsScan DEF ServeRemote
<1>6. CASE UNCHANGED radioVars
  BY <1>6 DEF radioVars, atVars
<1> QED BY <1>1, <1>2, <1>3, <1>4, <1>5, <1>6 DEF RadioNext

(* A thread that has a handle goes on with what it got it for. *)
LEMMA HandleStays ==
  ASSUME RadioTypeOK, RequestsInv, [RadioNext]_radioVars, NEW u \in Threads,
         handle'[u] # NoHandle
  PROVE  \/ handle'[u] = handle[u] /\ todo'[u] = todo[u]
         \/ Create(u)
<1> USE DEF RadioTypeOK, ThreadsTypeOK
<1>1. CASE \E t \in Threads : ThreadStep(t)
  BY <1>1 DEF ThreadStep, Create, Purge, SendPrepared
<1>2. CASE FirstScan \/ ClientScan \/ ClientSendAT
  BY <1>2 DEF FirstScan, ClientScan, ScanNetwork, ClientSendAT, RequestsInv
<1>3. CASE ClientSetLed \/ EventLoop \/ ServeRemote
  BY <1>3 DEF ClientSetLed, EventLoop, ServeRemote
<1>4. CASE \E t \in Threads, a \in asked :
             (\E mac \in MACs : ScanResponse(t, a, mac)) \/ Success(t, a) \/ Failure(t, a)
  BY <1>4, ZenonT(60) DEF ScanResponse, Success, Failure, MayTick, RequestsInv
<1>5. CASE UNCHANGED radioVars
  BY <1>5 DEF radioVars
<1> QED BY <1>1, <1>2, <1>3, <1>4, <1>5 DEF RadioNext

(* _scanCmd changes only in scanNetwork, when the request has been created. *)
LEMMA ScanCmdStays ==
  ASSUME RadioTypeOK, [RadioNext]_radioVars
  PROVE  \/ scanCmd' = scanCmd
         \/ \E t \in Threads : /\ handle[t] # NoHandle /\ Head(todo[t]).command = "ND"
                               /\ scanCmd' = handle[t]
BY DEF RadioNext, ThreadStep, Create, Purge, SendPrepared, FirstScan, ClientScan, ClientSendAT,
       ClientSetLed, EventLoop, ScanResponse, Success, Failure, ServeRemote, radioVars

LEMMA ScanInvNext ==
  ASSUME RadioTypeOK, RequestsInv, ScanInv, ~ MayRace, [RadioNext]_radioVars
  PROVE  ScanInv'
<1> SUFFICES ASSUME ~ dead'
             PROVE  /\ scanCmd' # NoHandle => Scans(table', scanCmd')
                    /\ \A u \in Threads : handle'[u] # NoHandle /\ Head(todo'[u]).command = "ND"
                                            => Scans(table', handle'[u])
  BY DEF ScanInv
<1>1. ~ dead
  BY DEF RadioNext, radioVars
<1>2. scanCmd \in 0..NoHandle /\ \A u \in Threads : handle[u] \in 0..NoHandle
  BY DEF RadioTypeOK, ThreadsTypeOK
<1>3. scanCmd' # NoHandle => Scans(table', scanCmd')
  <2>1. CASE scanCmd' = scanCmd
    BY <1>1, <1>2, <2>1, ScansOn DEF ScanInv
  <2>2. ASSUME NEW t \in Threads, handle[t] # NoHandle, Head(todo[t]).command = "ND", scanCmd' = handle[t]
        PROVE  Scans(table', scanCmd')
    BY <1>1, <1>2, <2>2, ScansOn DEF ScanInv
  <2> QED BY <2>1, <2>2, ScanCmdStays
<1>4. ASSUME NEW u \in Threads, handle'[u] # NoHandle, Head(todo'[u]).command = "ND"
      PROVE  Scans(table', handle'[u])
  <2>1. CASE handle'[u] = handle[u] /\ todo'[u] = todo[u]
    BY <1>1, <1>2, <1>4, <2>1, ScansOn DEF ScanInv
  <2>2. CASE Create(u)
    <3>1. Head(todo[u]) \in Requests /\ Head(todo[u]).command = "ND"
      BY <1>4, <2>2, HeadIsFirst DEF Create, Busy, RadioTypeOK, ThreadsTypeOK
    <3>2. PICK i \in Slots : /\ table' = Created(i, Head(todo[u]).command, Head(todo[u]).target)
                             /\ handle' = [handle EXCEPT ![u] = Handle(i)]
      BY <2>2 DEF Create
    <3>3. OneEntry(table', table, i, Head(todo[u]).command, Head(todo[u]).target, 0)
      BY <3>1, <3>2, CreatedTable DEF RadioTypeOK
    <3>4. handle'[u] = Handle(i)
      BY <3>2 DEF RadioTypeOK, ThreadsTypeOK
    <3>5. /\ Handle(i) < NoHandle
          /\ Handle(i) \div 256 = i /\ Handle(i) % 256 = table[i].sequence
      BY HandleParts DEF RadioTypeOK
    <3> HIDE DEF Handle
    <3> QED BY <3>1, <3>3, <3>4, <3>5 DEF Scans, OneEntry
  <2> QED BY <1>4, <2>1, <2>2, HandleStays
<1> QED BY <1>3, <1>4

LEMMA ScanInvInit == RadioInit => ScanInv
BY DEF RadioInit, ScanInv, Threads

(* Unless two threads create their requests at the same instant, the handle that
   scanNetwork keeps denotes the request of the scan for as long as the daemon runs,
   whatever the size of the table and however often it was purged. *)
THEOREM ScanRequestIsKept == ASSUME ~ MayRace PROVE RadioSpec => []ScanStaysAlive
<1> DEFINE Inv == RadioTypeOK /\ RequestsInv /\ ScanInv
<1>1. RadioInit => Inv
  BY RadioTypeInit, RequestsInvInit, ScanInvInit
<1>2. Inv /\ [RadioNext]_radioVars => Inv'
  BY RadioTypeNext, RequestsInvNext, ScanInvNext
<1>3. Inv => ScanStaysAlive
  BY DEF ScanInv, Scans, ScanStaysAlive, ValidHandle, SlotOf, NoHandle
<1> QED BY <1>1, <1>2, <1>3, PTL DEF RadioSpec

-----------------------------------------------------------------------------
(* The vector and the addresses into it *)

(* A step changes one of the lists of remotes in one of these ways. *)
LEMMA VectorSteps ==
  ASSUME RadioTypeOK, [RadioNext]_radioVars
  PROVE  \/ UNCHANGED <<vectorVars, cached>>
         \/ \E mac \in MACs \ Known : PushBack(mac)
         \/ \E mac \in Known : RemoveRemote(mac)
         \/ /\ UNCHANGED vectorVars
            /\ \E mac \in MACs : \/ cached' = [cached EXCEPT ![mac] = Null]
                                 \/ cached' = [cached EXCEPT ![mac] = Lookup(mac)]
<1> USE DEF vectorVars, registryVars
<1>1. CASE \E t \in Threads : ThreadStep(t)
  BY <1>1 DEF ThreadStep, Create, Purge, SendPrepared
<1>2. CASE FirstScan \/ ClientScan \/ ServeRemote
  BY <1>2 DEF FirstScan, ClientScan, ServeRemote
<1>3. CASE ClientSendAT
  BY <1>3 DEF ClientSendAT, ForgetRemote, RadioTypeOK, RegistryTypeOK
<1>4. CASE ClientSetLed
  BY <1>4 DEF ClientSetLed, SetLed, ForgetRemote
<1>5. CASE EventLoop
  <2>1. Head(queued).mac \in MACs
    <3>1. Head(queued) \in Calls
      BY <1>5, HeadTailProperties DEF EventLoop, RunQueued, RadioTypeOK, RegistryTypeOK
    <3> QED BY <3>1 DEF Calls
  <2> QED BY <1>5, <2>1 DEF EventLoop, RunQueued, AddRemote
<1>6. CASE \E t \in Threads, a \in asked : \E mac \in MACs : ScanResponse(t, a, mac)
  BY <1>6 DEF ScanResponse
<1>7. CASE \E t \in Threads, a \in asked : Success(t, a) \/ Failure(t, a)
  BY <1>7 DEF Success, Failure, RemoveRemote
<1>8. CASE UNCHANGED radioVars
  BY <1>8 DEF radioVars
<1> QED BY <1>1, <1>2, <1>3, <1>4, <1>5, <1>6, <1>7, <1>8 DEF RadioNext

(* What remote() finds, it finds at the address it returns. *)
LEMMA LookupIsRight ==
  ASSUME RegistryTypeOK, VectorInv, NEW mac \in MACs
  PROVE  RightSince(Lookup(mac), mac)
<1>1. CASE cached[mac] # Null
  BY <1>1 DEF Lookup, VectorInv
<1>2. CASE cached[mac] = Null /\ mac \in Known
  <2>1. IndexOf(mac) \in 1..Len(remotes) /\ remotes[IndexOf(mac)] = mac
    BY <1>2, IndexOfKnown DEF RegistryTypeOK
  <2>2. Lookup(mac) = [block |-> block, index |-> IndexOf(mac), erased |-> erased]
    BY <1>2 DEF Lookup, Address
  <2> QED BY <2>1, <2>2 DEF RightSince, RegistryTypeOK
<1>3. CASE cached[mac] = Null /\ mac \notin Known
  BY <1>3 DEF Lookup, RightSince
<1> QED BY <1>1, <1>2, <1>3

LEMMA PushBackKeepsVector ==
  ASSUME RegistryTypeOK, VectorInv, NEW mac \in MACs \ Known, PushBack(mac)
  PROVE  VectorInv'
<1>1. /\ remotes' \in Seq(MACs) /\ Len(remotes') = Len(remotes) + 1 /\ Len(remotes) \in Nat
      /\ \A i \in 1..Len(remotes) : remotes'[i] = remotes[i]
      /\ remotes'[Len(remotes) + 1] = mac
  BY AppendProperties, LenProperties DEF PushBack, RegistryTypeOK
<1>2. \A i \in 1..Len(remotes) : remotes[i] # mac
  BY LenProperties DEF Known, ToSet, RegistryTypeOK
<1>3. NoDuplicate(remotes')
  <2> SUFFICES ASSUME NEW i \in 1..(Len(remotes) + 1), NEW j \in 1..(Len(remotes) + 1),
                      remotes'[i] = remotes'[j]
               PROVE  i = j
    BY <1>1 DEF NoDuplicate
  <2>1. i \in 1..Len(remotes) \/ i = Len(remotes) + 1
    BY <1>1
  <2>2. j \in 1..Len(remotes) \/ j = Len(remotes) + 1
    BY <1>1
  <2> QED BY <1>1, <1>2, <2>1, <2>2 DEF VectorInv, NoDuplicate
<1>4. ASSUME NEW m \in MACs PROVE RightSince(cached[m], m)'
  <2>1. RightSince(cached[m], m) /\ cached[m] \in Pointers \cup {Null}
    BY DEF VectorInv, RegistryTypeOK
  <2>2. cached' = cached /\ erased' = erased
    BY DEF PushBack
  <2>3. CASE cached[m] = Null
    BY <2>2, <2>3 DEF RightSince
  <2>4. CASE cached[m] # Null /\ block' = block + 1
    BY <2>1, <2>2, <2>4 DEF RightSince, Pointers, RegistryTypeOK
  <2>5. CASE cached[m] # Null /\ block' = block
    BY <1>1, <2>1, <2>2, <2>5 DEF RightSince, Pointers, RegistryTypeOK
  <2> QED BY <2>3, <2>4, <2>5 DEF PushBack
<1> QED BY <1>3, <1>4 DEF VectorInv

LEMMA RemoveRemoteKeepsVector ==
  ASSUME RegistryTypeOK, VectorInv, NEW mac \in Known, RemoveRemote(mac)
  PROVE  VectorInv'
<1>1. IndexOf(mac) \in 1..Len(remotes) /\ remotes \in Seq(MACs)
  BY IndexOfKnown DEF RegistryTypeOK
<1>2. PICK k \in 1..Len(remotes) : k = IndexOf(mac)
  BY <1>1
<1>3. /\ Len(remotes') = Len(remotes) - 1 /\ Len(remotes) \in Nat
      /\ \A j \in 1..(Len(remotes) - 1) : remotes'[j] = IF j < k THEN remotes[j] ELSE remotes[j + 1]
  BY <1>1, <1>2, RemoveAtProperties, LenProperties DEF RemoveRemote
<1>4. NoDuplicate(remotes')
  <2> SUFFICES ASSUME NEW i \in 1..(Len(remotes) - 1), NEW j \in 1..(Len(remotes) - 1),
                      remotes'[i] = remotes'[j]
               PROVE  i = j
    BY <1>3 DEF NoDuplicate
  <2>1. i \in 1..Len(remotes) /\ i + 1 \in 1..Len(remotes) /\ j \in 1..Len(remotes) /\ j + 1 \in 1..Len(remotes)
    BY <1>3
  <2> QED BY <1>3, <2>1 DEF VectorInv, NoDuplicate
<1>5. ASSUME NEW m \in MACs PROVE RightSince(cached[m], m)'
  <2>1. RightSince(cached[m], m) /\ cached[m] \in Pointers \cup {Null}
    BY DEF VectorInv, RegistryTypeOK
  <2>2. cached' = cached /\ erased' = erased + 1 /\ block' = block
    BY DEF RemoveRemote
  <2> QED BY <2>1, <2>2 DEF RightSince, Pointers, RegistryTypeOK
<1> QED BY <1>4, <1>5 DEF VectorInv

LEMMA VectorInvNext ==
  ASSUME RadioTypeOK, VectorInv, [RadioNext]_radioVars
  PROVE  VectorInv'
<1>1. CASE UNCHANGED <<vectorVars, cached>>
  BY <1>1 DEF vectorVars, VectorInv, RightSince
<1>2. CASE \E mac \in MACs \ Known : PushBack(mac)
  BY <1>2, PushBackKeepsVector DEF RadioTypeOK
<1>3. CASE \E mac \in Known : RemoveRemote(mac)
  BY <1>3, RemoveRemoteKeepsVector DEF RadioTypeOK
<1>4. ASSUME NEW mac \in MACs, NEW p, p = Null \/ p = Lookup(mac),
             UNCHANGED vectorVars, cached' = [cached EXCEPT ![mac] = p]
      PROVE  VectorInv'
  <2>1. RightSince(p, mac)
    BY <1>4, LookupIsRight DEF RadioTypeOK, RightSince
  <2>2. \A m \in MACs : cached'[m] = IF m = mac THEN p ELSE cached[m]
    BY <1>4 DEF RadioTypeOK, RegistryTypeOK
  <2>3. ASSUME NEW m \in MACs PROVE RightSince(cached[m], m)'
    BY <1>4, <2>1, <2>2 DEF RightSince, VectorInv, vectorVars
  <2> QED BY <1>4, <2>3 DEF VectorInv, vectorVars
<1> QED BY <1>1, <1>2, <1>3, <1>4, VectorSteps

LEMMA VectorInvInit == RadioInit => VectorInv
BY DEF RadioInit, RegistryInit, VectorInv, NoDuplicate, RightSince

(* The address that a RealRemote keeps is that of its own XBeeRemote until the vector
   has moved or lost an element, for any number of remotes and any order in which they
   come and go. *)
THEOREM AddressesAreRight == RadioSpec => []CachedWhileUnmoved
<1> DEFINE Inv == RadioTypeOK /\ RequestsInv /\ VectorInv
<1>1. RadioInit => Inv
  BY RadioTypeInit, RequestsInvInit, VectorInvInit
<1>2. Inv /\ [RadioNext]_radioVars => Inv'
  BY RadioTypeNext, RequestsInvNext, VectorInvNext
<1>3. Inv => CachedWhileUnmoved
  BY DEF VectorInv, RightSince, CachedWhileUnmoved, ObjectAt
<1> QED BY <1>1, <1>2, <1>3, PTL DEF RadioSpec

-----------------------------------------------------------------------------
(* The remotes of the model *)

(* What the vector knows after push_back and after erase. *)
LEMMA PushBackKnown ==
  ASSUME RegistryTypeOK, NEW mac \in MACs, PushBack(mac)
  PROVE  Known' = Known \cup {mac}
<1>1. /\ Len(remotes') = Len(remotes) + 1 /\ Len(remotes) \in Nat
      /\ DOMAIN remotes = 1..Len(remotes) /\ DOMAIN remotes' = 1..(Len(remotes) + 1)
      /\ \A i \in 1..Len(remotes) : remotes'[i] = remotes[i]
      /\ remotes'[Len(remotes) + 1] = mac
  BY AppendProperties, LenProperties DEF PushBack, RegistryTypeOK
<1>2. \A i : i \in 1..(Len(remotes) + 1) <=> i \in 1..Len(remotes) \/ i = Len(remotes) + 1
  BY <1>1
<1> QED BY <1>1, <1>2 DEF Known, ToSet

LEMMA RemoveRemoteKnown ==
  ASSUME RegistryTypeOK, NoDuplicate(remotes), NEW mac \in Known, RemoveRemote(mac)
  PROVE  Known' = Known \ {mac}
<1>1. IndexOf(mac) \in 1..Len(remotes) /\ remotes \in Seq(MACs) /\ remotes[IndexOf(mac)] = mac
  BY IndexOfKnown DEF RegistryTypeOK
<1>2. PICK k \in 1..Len(remotes) : k = IndexOf(mac)
  BY <1>1
<1>3. /\ Len(remotes') = Len(remotes) - 1 /\ Len(remotes) \in Nat
      /\ DOMAIN remotes = 1..Len(remotes) /\ DOMAIN remotes' = 1..(Len(remotes) - 1)
      /\ \A j \in 1..(Len(remotes) - 1) : remotes'[j] = IF j < k THEN remotes[j] ELSE remotes[j + 1]
  <2>1. remotes' \in Seq(MACs) /\ remotes' = RemoveAt(remotes, k)
    BY <1>1, <1>2, RemoveAtProperties DEF RemoveRemote
  <2> QED BY <1>1, <2>1, RemoveAtProperties, LenProperties
<1>4. ASSUME NEW m \in Known' PROVE m \in Known /\ m # mac
  <2>1. PICK j \in 1..(Len(remotes) - 1) : remotes'[j] = m
    BY <1>3 DEF Known, ToSet
  <2>2. PICK i \in 1..Len(remotes) : i # k /\ remotes[i] = m
    BY <1>3, <2>1
  <2> QED BY <1>1, <1>2, <1>3, <2>2 DEF NoDuplicate, Known, ToSet
<1>5. ASSUME NEW m \in Known, m # mac PROVE m \in Known'
  <2>1. PICK i \in 1..Len(remotes) : remotes[i] = m /\ i # k
    BY <1>1, <1>2, <1>3, <1>5 DEF Known, ToSet
  <2>2. CASE i < k
    <3>1. i \in 1..(Len(remotes) - 1) /\ remotes'[i] = m
      BY <1>3, <2>1, <2>2
    <3> QED BY <1>3, <3>1 DEF Known, ToSet
  <2>3. CASE i > k
    <3>1. i - 1 \in 1..(Len(remotes) - 1) /\ ~ (i - 1 < k) /\ (i - 1) + 1 = i
      BY <1>3, <2>1, <2>3
    <3>2. remotes'[i - 1] = m
      BY <1>3, <2>1, <3>1
    <3> QED BY <1>3, <3>1, <3>2 DEF Known, ToSet
  <2> QED BY <1>3, <2>1, <2>2, <2>3
<1> QED BY <1>4, <1>5

(* The calls that are queued, when one is added and when the first has run. *)
LEMMA CallAdded ==
  ASSUME NEW queue \in Seq(Calls), NEW c \in {"addRemote", "removeRemote"}, NEW mac \in MACs
  PROVE  LET new == Append(queue, [call |-> c, mac |-> mac])
         IN  /\ LastCall(new, c, mac)
             /\ \A m \in MACs \ {mac} : /\ \A d : LastCall(queue, d, m) => LastCall(new, d, m)
                                        /\ NoCall(queue, m) => NoCall(new, m)
<1> DEFINE q == [call |-> c, mac |-> mac]
           n == Append(queue, q)
<1>1. q \in Calls /\ q.mac = mac /\ q.call = c
  BY DEF Calls
<1>2. /\ Len(n) = Len(queue) + 1 /\ Len(queue) \in Nat
      /\ \A i \in 1..Len(queue) : n[i] = queue[i]
      /\ n[Len(queue) + 1] = q
  BY <1>1, AppendProperties, LenProperties
<1>3. q = [call |-> c, mac |-> mac]
  OBVIOUS
<1> HIDE DEF q, n
<1>4. LastCall(n, c, mac)
  <2>1. Len(n) \in 1..Len(n) /\ n[Len(n)] = q /\ \A j \in (Len(n) + 1)..Len(n) : FALSE
    BY <1>2
  <2> QED BY <1>3, <2>1 DEF LastCall
<1>5. ASSUME NEW m \in MACs \ {mac}, NEW d, LastCall(queue, d, m) PROVE LastCall(n, d, m)
  <2>1. PICK i \in 1..Len(queue) : /\ queue[i] = [call |-> d, mac |-> m]
                                   /\ \A j \in (i + 1)..Len(queue) : queue[j].mac # m
    BY <1>5 DEF LastCall
  <2>2. i \in 1..Len(n) /\ n[i] = [call |-> d, mac |-> m]
    BY <1>2, <2>1
  <2>3. \A j \in (i + 1)..Len(n) : n[j].mac # m
    <3> SUFFICES ASSUME NEW j \in (i + 1)..Len(n) PROVE n[j].mac # m
      OBVIOUS
    <3>1. j \in (i + 1)..Len(queue) \/ j = Len(queue) + 1
      BY <1>2, <2>1
    <3>2. \A k \in (i + 1)..Len(queue) : k \in 1..Len(queue)
      BY <1>2, <2>1
    <3> QED BY <1>1, <1>2, <2>1, <3>1, <3>2
  <2> QED BY <2>2, <2>3 DEF LastCall
<1>6. ASSUME NEW m \in MACs \ {mac}, NoCall(queue, m) PROVE NoCall(n, m)
  <2> SUFFICES ASSUME NEW j \in 1..Len(n) PROVE n[j].mac # m
    BY DEF NoCall
  <2>1. j \in 1..Len(queue) \/ j = Len(queue) + 1
    BY <1>2
  <2> QED BY <1>1, <1>2, <1>6, <2>1 DEF NoCall
<1> QED BY <1>4, <1>5, <1>6 DEF n, q

LEMMA CallRun ==
  ASSUME NEW queue \in Seq(Calls), queue # <<>>, NEW m \in MACs, NEW d
  PROVE  /\ LastCall(queue, d, m) =>
              \/ LastCall(Tail(queue), d, m)
              \/ Head(queue) = [call |-> d, mac |-> m] /\ NoCall(Tail(queue), m)
         /\ NoCall(queue, m) => NoCall(Tail(queue), m) /\ Head(queue).mac # m
<1>1. /\ Len(queue) \in Nat /\ Len(Tail(queue)) = Len(queue) - 1
      /\ \A i \in 1..(Len(queue) - 1) : Tail(queue)[i] = queue[i + 1]
      /\ Head(queue) = queue[1] /\ 1 \in 1..Len(queue)
  BY HeadTailProperties, LenProperties, HeadIsFirst
<1>2. ASSUME NoCall(queue, m) PROVE NoCall(Tail(queue), m) /\ Head(queue).mac # m
  BY <1>1, <1>2 DEF NoCall
<1>3. ASSUME LastCall(queue, d, m)
      PROVE  \/ LastCall(Tail(queue), d, m)
             \/ Head(queue) = [call |-> d, mac |-> m] /\ NoCall(Tail(queue), m)
  <2>1. PICK i \in 1..Len(queue) : /\ queue[i] = [call |-> d, mac |-> m]
                                   /\ \A j \in (i + 1)..Len(queue) : queue[j].mac # m
    BY <1>3 DEF LastCall
  <2>2. CASE i = 1
    <3>1. ASSUME NEW j \in 1..Len(Tail(queue)) PROVE Tail(queue)[j].mac # m
      <4>1. j + 1 \in (i + 1)..Len(queue) /\ Tail(queue)[j] = queue[j + 1]
        BY <1>1, <2>2
      <4> QED BY <2>1, <4>1
    <3> QED BY <1>1, <2>1, <2>2, <3>1 DEF NoCall
  <2>3. CASE i > 1
    <3>1. i - 1 \in 1..Len(Tail(queue)) /\ (i - 1) + 1 = i
      BY <1>1, <2>1, <2>3
    <3>2. Tail(queue)[i - 1] = [call |-> d, mac |-> m]
      BY <1>1, <2>1, <3>1
    <3>3. ASSUME NEW j \in ((i - 1) + 1)..Len(Tail(queue)) PROVE Tail(queue)[j].mac # m
      <4>1. j \in 1..(Len(queue) - 1) /\ j + 1 \in (i + 1)..Len(queue)
        BY <1>1, <2>1
      <4> QED BY <1>1, <2>1, <4>1
    <3> QED BY <3>1, <3>2, <3>3 DEF LastCall
  <2> QED BY <2>1, <2>2, <2>3
<1> QED BY <1>2, <1>3

(* The list says that m is to be told to the model. *)
Has(list, m) == \E i \in 1..Len(list) : list[i] = Todo("DL", m)

LEMMA TailDL ==
  ASSUME NEW s \in Seq(Requests), s # <<>>, NEW macs, OneDL(s), DLsFor(s, macs)
  PROVE  /\ OneDL(Tail(s)) /\ DLsFor(Tail(s), macs)
         /\ NoDL(s) => NoDL(Tail(s)) /\ Head(s).command # "DL"
         /\ Head(s).command = "DL" =>
              Head(s).target \in macs /\ NoDL(Tail(s)) /\ \A m : Has(s, m) => m = Head(s).target
         /\ Head(s).command # "DL" => \A m : Has(s, m) => Has(Tail(s), m)
<1>1. /\ Len(s) \in Nat /\ Len(Tail(s)) = Len(s) - 1
      /\ \A i \in 1..(Len(s) - 1) : Tail(s)[i] = s[i + 1]
      /\ Head(s) = s[1] /\ 1 \in 1..Len(s)
  BY HeadTailProperties, LenProperties, HeadIsFirst
<1>2. \A i \in 1..Len(Tail(s)) : i + 1 \in 1..Len(s) /\ i + 1 # 1 /\ Tail(s)[i] = s[i + 1]
  BY <1>1
<1>3. OneDL(Tail(s))
  BY <1>1, <1>2 DEF OneDL
<1>4. DLsFor(Tail(s), macs) /\ (NoDL(s) => NoDL(Tail(s)) /\ Head(s).command # "DL")
  BY <1>1, <1>2 DEF DLsFor, NoDL
<1>5. ASSUME Head(s).command = "DL"
      PROVE  Head(s).target \in macs /\ NoDL(Tail(s)) /\ \A m : Has(s, m) => m = Head(s).target
  <2>1. Head(s).target \in macs /\ NoDL(Tail(s))
    BY <1>1, <1>2, <1>5 DEF OneDL, NoDL, DLsFor
  <2>2. \A m : Has(s, m) => m = Head(s).target
    BY <1>1, <1>5 DEF Has, OneDL, Todo
  <2> QED BY <2>1, <2>2
<1>6. ASSUME Head(s).command # "DL", NEW m, Has(s, m) PROVE Has(Tail(s), m)
  <2>1. PICK i \in 1..Len(s) : s[i] = Todo("DL", m)
    BY <1>6 DEF Has
  <2>2. i # 1
    BY <1>1, <1>6, <2>1 DEF Todo
  <2>3. i - 1 \in 1..Len(Tail(s)) /\ (i - 1) + 1 = i
    BY <1>1, <2>2
  <2>4. Tail(s)[i - 1] = Todo("DL", m)
    BY <1>2, <2>1, <2>3
  <2> QED BY <2>3, <2>4 DEF Has
<1> QED BY <1>3, <1>4, <1>5, <1>6

LEMMA InitialisationDL ==
  ASSUME NEW s \in Seq(Requests), NEW mac \in MACs, NEW macs, mac \in macs, NoDL(s)
  PROVE  LET new == <<Todo("DH", mac), Todo("DL", mac)>> \o s
         IN  OneDL(new) /\ DLsFor(new, macs) /\ Has(new, mac)
<1> DEFINE two == <<Todo("DH", mac), Todo("DL", mac)>>
           new == two \o s
<1>1. two \in Seq(Requests) /\ Len(two) = 2 /\ two[1] = Todo("DH", mac) /\ two[2] = Todo("DL", mac)
  BY TodoTyped
<1>2. /\ Len(new) = 2 + Len(s) /\ Len(s) \in Nat
      /\ \A i \in 1..(2 + Len(s)) : new[i] = IF i <= 2 THEN two[i] ELSE s[i - 2]
  BY <1>1, ConcatProperties, LenProperties
<1> HIDE DEF new, two
<1>3. ASSUME NEW i \in 1..Len(new), new[i].command = "DL" PROVE i = 2
  <2>1. CASE i = 1
    BY <1>1, <1>2, <1>3, <2>1 DEF Todo
  <2>2. CASE i > 2
    <3>1. i - 2 \in 1..Len(s) /\ new[i] = s[i - 2]
      BY <1>2, <2>2
    <3> QED BY <1>3, <3>1 DEF NoDL
  <2> QED BY <1>2, <2>1, <2>2
<1>4. 2 \in 1..Len(new) /\ new[2] = Todo("DL", mac)
  BY <1>1, <1>2
<1>5. OneDL(new)
  BY <1>3 DEF OneDL
<1>6. DLsFor(new, macs)
  BY <1>3, <1>4 DEF DLsFor, Todo
<1>7. Has(new, mac)
  BY <1>4 DEF Has
<1> QED BY <1>5, <1>6, <1>7 DEF new, two

LEMMA NoDLHasNone ==
  ASSUME NEW list, NoDL(list)
  PROVE  \A m : ~ Has(list, m)
BY DEF NoDL, Has, Todo

LEMMA AddingIsHas == Adding = {m \in MACs : \E t \in Threads : Has(todo[t], m)}
BY DEF Adding, Has

LEMMA SingleHasNoDL ==
  ASSUME NEW c, c # "DL", NEW m
  PROVE  OneDL(<<Todo(c, m)>>) /\ NoDL(<<Todo(c, m)>>) /\ \A macs : DLsFor(<<Todo(c, m)>>, macs)
BY DEF OneDL, NoDL, DLsFor, Todo

(* A thread goes on with its list, or gets one request to create, and no remote is
   done with. *)
GoesOn(old, new) ==
  \/ new = old
  \/ old = <<>> /\ \E c, m : c # "DL" /\ new = <<Todo(c, m)>>
  \/ old # <<>> /\ Head(old).command # "DL" /\ new = Tail(old)

LEMMA GoingOnKeepsModel ==
  ASSUME RadioTypeOK, AddingInv, ModelInv, UNCHANGED <<remotes, queued, ticking>>,
         model' = model \/ \E mac \in MACs \ Known : model' = model \ {mac},
         \A t \in Threads : GoesOn(todo[t], todo'[t])
  PROVE  AddingInv' /\ ModelInv'
<1>1. Known' = Known
  BY DEF Known
<1>2. ASSUME NEW t \in Threads
      PROVE  /\ OneDL(todo'[t]) /\ DLsFor(todo'[t], Known)
             /\ NoDL(todo[t]) => NoDL(todo'[t])
             /\ \A m : Has(todo[t], m) => Has(todo'[t], m)
  <2>1. todo[t] \in Seq(Requests) /\ OneDL(todo[t]) /\ DLsFor(todo[t], Known)
    BY DEF RadioTypeOK, ThreadsTypeOK, AddingInv
  <2>2. CASE todo'[t] = todo[t]
    BY <2>1, <2>2
  <2>3. ASSUME NEW c, NEW m, todo[t] = <<>>, c # "DL", todo'[t] = <<Todo(c, m)>>
        PROVE  /\ OneDL(todo'[t]) /\ DLsFor(todo'[t], Known) /\ NoDL(todo'[t])
               /\ \A n : ~ Has(todo[t], n)
    <3>1. OneDL(todo'[t]) /\ DLsFor(todo'[t], Known) /\ NoDL(todo'[t])
      BY <2>3, SingleHasNoDL
    <3>2. \A n : ~ Has(todo[t], n)
      BY <2>3 DEF Has
    <3> QED BY <3>1, <3>2
  <2>4. CASE todo[t] # <<>> /\ Head(todo[t]).command # "DL" /\ todo'[t] = Tail(todo[t])
    BY <2>1, <2>4, TailDL
  <2>5. GoesOn(todo[t], todo'[t])
    OBVIOUS
  <2> QED BY <2>2, <2>3, <2>4, <2>5 DEF GoesOn
<1>3. AddingInv'
  BY <1>1, <1>2 DEF AddingInv
<1>4. Adding \subseteq Adding'
  <2>1. Adding' = {m \in MACs : \E t \in Threads : Has(todo'[t], m)}
    BY DEF Adding, Has
  <2> QED BY <1>2, <2>1, AddingIsHas
<1>5. ModelInv'
  <2> SUFFICES ASSUME NEW mac \in MACs
               PROVE  /\ mac \in Known' \ Adding' =>
                           LastCall(queued', "addRemote", mac) \/ (NoCall(queued', mac) /\ mac \in model')
                      /\ mac \notin Known' =>
                           \/ LastCall(queued', "removeRemote", mac)
                           \/ NoCall(queued', mac) /\ (mac \in model' => mac \in Loaded)
    BY DEF ModelInv
  <2> QED BY <1>1, <1>4 DEF ModelInv
<1> QED BY <1>3, <1>5

(* The handler ends: the remote is told to the model. *)
LEMMA DLKeepsModel ==
  ASSUME RadioTypeOK, RequestsInv, AddingInv, ModelInv, NEW t \in Threads, SendPrepared(t),
         Head(todo[t]).command = "DL"
  PROVE  AddingInv' /\ ModelInv'
<1>1. todo[t] \in Seq(Requests) /\ todo[t] # <<>> /\ OneDL(todo[t]) /\ DLsFor(todo[t], Known)
  BY DEF SendPrepared, RequestsInv, Busy, RadioTypeOK, ThreadsTypeOK, AddingInv
<1>2. /\ OneDL(Tail(todo[t])) /\ NoDL(Tail(todo[t])) /\ DLsFor(Tail(todo[t]), Known)
      /\ Head(todo[t]).target \in Known /\ \A m : Has(todo[t], m) => m = Head(todo[t]).target
  BY <1>1, TailDL
<1>3. PICK d \in MACs : d = Head(todo[t]).target
  BY <1>2, IndexOfKnown DEF RadioTypeOK, RegistryTypeOK
<1>4. ~ NoDL(todo[t])
  BY <1>1, HeadIsFirst DEF NoDL
<1>5. ASSUME NEW u \in Threads, u # t PROVE NoDL(todo[u]) /\ todo'[u] = todo[u]
  BY <1>4, <1>5 DEF AddingInv, SendPrepared, RadioTypeOK, ThreadsTypeOK
<1>6. Known' = Known /\ ticking' = "none" /\ model' = model /\ todo'[t] = Tail(todo[t])
  BY DEF SendPrepared, vectorVars, Known, RadioTypeOK, ThreadsTypeOK
<1>7. AddingInv'
  <2>1. \A u \in Threads : OneDL(todo'[u]) /\ DLsFor(todo'[u], Known) /\ NoDL(todo'[u])
    BY <1>2, <1>5, <1>6 DEF AddingInv
  <2> QED BY <1>6, <2>1 DEF AddingInv
<1>8. Adding \subseteq {d}
  BY <1>2, <1>3, <1>5, AddingIsHas, NoDLHasNone
<1>9. queued \in Seq(Calls) /\ queued' = Append(queued, [call |-> "addRemote", mac |-> d])
  BY <1>3 DEF SendPrepared, QueueCall, RadioTypeOK, RegistryTypeOK
<1>10. /\ LastCall(queued', "addRemote", d)
       /\ \A m \in MACs \ {d} : /\ \A c : LastCall(queued, c, m) => LastCall(queued', c, m)
                                /\ NoCall(queued, m) => NoCall(queued', m)
  BY <1>9, CallAdded
<1>11. ModelInv'
  <2> SUFFICES ASSUME NEW mac \in MACs
               PROVE  /\ mac \in Known' \ Adding' =>
                           LastCall(queued', "addRemote", mac) \/ (NoCall(queued', mac) /\ mac \in model')
                      /\ mac \notin Known' =>
                           \/ LastCall(queued', "removeRemote", mac)
                           \/ NoCall(queued', mac) /\ (mac \in model' => mac \in Loaded)
    BY DEF ModelInv
  <2>1. CASE mac = d
    BY <1>2, <1>3, <1>6, <1>10, <2>1
  <2>2. CASE mac # d
    <3>1. mac \notin Adding
      BY <1>8, <2>2
    <3> QED BY <1>6, <1>10, <2>2, <3>1 DEF ModelInv
  <2> QED BY <2>1, <2>2
<1> QED BY <1>7, <1>11

(* A remote is found: the model will be told once it is initialised. *)
LEMMA PushBackKeepsModel ==
  ASSUME RadioTypeOK, AddingInv, ModelInv, NEW t \in Threads, NEW mac \in MACs \ Known,
         ticking = "none", ticking' = t, PushBack(mac), UNCHANGED queued,
         todo' = [todo EXCEPT ![t] = <<Todo("DH", mac), Todo("DL", mac)>> \o @]
  PROVE  AddingInv' /\ ModelInv'
<1>1. Known' = Known \cup {mac}
  BY PushBackKnown DEF RadioTypeOK
<1>2. \A u \in Threads : NoDL(todo[u]) /\ todo[u] \in Seq(Requests)
  BY DEF AddingInv, Threads, RadioTypeOK, ThreadsTypeOK
<1>3. PICK new : new = <<Todo("DH", mac), Todo("DL", mac)>> \o todo[t]
  OBVIOUS
<1>4. OneDL(new) /\ DLsFor(new, Known') /\ Has(new, mac)
  BY <1>1, <1>2, <1>3, InitialisationDL
<1>5. todo'[t] = new /\ \A u \in Threads : u # t => todo'[u] = todo[u]
  BY <1>3 DEF RadioTypeOK, ThreadsTypeOK
<1>6. \A u \in Threads : u # t => OneDL(todo'[u]) /\ DLsFor(todo'[u], Known') /\ NoDL(todo'[u])
  BY <1>2, <1>5 DEF OneDL, DLsFor, NoDL
<1>7. AddingInv'
  BY <1>4, <1>5, <1>6 DEF AddingInv
<1>8. mac \in Adding' /\ Adding = {}
  <2>1. Adding' = {m \in MACs : \E u \in Threads : Has(todo'[u], m)}
    BY DEF Adding, Has
  <2> QED BY <1>2, <1>4, <1>5, <2>1, AddingIsHas, NoDLHasNone
<1>9. model' = model
  BY DEF PushBack
<1>10. ModelInv'
  <2> SUFFICES ASSUME NEW m \in MACs
               PROVE  /\ m \in Known' \ Adding' =>
                           LastCall(queued', "addRemote", m) \/ (NoCall(queued', m) /\ m \in model')
                      /\ m \notin Known' =>
                           \/ LastCall(queued', "removeRemote", m)
                           \/ NoCall(queued', m) /\ (m \in model' => m \in Loaded)
    BY DEF ModelInv
  <2> QED BY <1>1, <1>8, <1>9 DEF ModelInv
<1> QED BY <1>7, <1>10

(* A remote is removed, while none is being initialised. *)
LEMMA RemoveRemoteKeepsModel ==
  ASSUME RadioTypeOK, VectorInv, AddingInv, ModelInv, NEW d \in Known, RemoveRemote(d),
         ticking = "none", UNCHANGED <<todo, ticking>>
  PROVE  AddingInv' /\ ModelInv'
<1>1. d \in MACs
  BY IndexOfKnown DEF RadioTypeOK, RegistryTypeOK
<1>2. Known' = Known \ {d}
  BY RemoveRemoteKnown DEF RadioTypeOK, VectorInv
<1>3. \A u \in Threads : NoDL(todo[u])
  BY DEF AddingInv, Threads
<1>4. AddingInv'
  BY <1>3 DEF AddingInv, NoDL, DLsFor
<1>5. Adding = {}
  BY <1>3, AddingIsHas, NoDLHasNone
<1>6. /\ queued \in Seq(Calls) /\ queued' = Append(queued, [call |-> "removeRemote", mac |-> d])
      /\ model' = model
  BY DEF RemoveRemote, QueueCall, RadioTypeOK, RegistryTypeOK
<1>7. /\ LastCall(queued', "removeRemote", d)
      /\ \A m \in MACs \ {d} : /\ \A c : LastCall(queued, c, m) => LastCall(queued', c, m)
                               /\ NoCall(queued, m) => NoCall(queued', m)
  BY <1>1, <1>6, CallAdded
<1>8. ModelInv'
  <2> SUFFICES ASSUME NEW m \in MACs
               PROVE  /\ m \in Known' \ Adding' =>
                           LastCall(queued', "addRemote", m) \/ (NoCall(queued', m) /\ m \in model')
                      /\ m \notin Known' =>
                           \/ LastCall(queued', "removeRemote", m)
                           \/ NoCall(queued', m) /\ (m \in model' => m \in Loaded)
    BY DEF ModelInv
  <2>1. CASE m = d
    BY <1>2, <1>7, <2>1
  <2>2. CASE m # d
    BY <1>2, <1>5, <1>6, <1>7, <2>2 DEF ModelInv
  <2> QED BY <2>1, <2>2
<1> QED BY <1>4, <1>8

(* The main thread runs the oldest of the queued calls. *)
LEMMA EventLoopKeepsModel ==
  ASSUME RadioTypeOK, AddingInv, ModelInv, EventLoop
  PROVE  AddingInv' /\ ModelInv'
<1>1. Known' = Known /\ Adding' = Adding
  BY DEF EventLoop, RunQueued, vectorVars, Known, Adding
<1>2. AddingInv'
  BY <1>1 DEF EventLoop, AddingInv
<1>3. queued \in Seq(Calls) /\ queued # <<>> /\ queued' = Tail(queued)
  BY DEF EventLoop, RunQueued, RadioTypeOK, RegistryTypeOK
<1>4. PICK q \in Calls : q = Head(queued)
  BY <1>3, HeadIsFirst
<1>5. \A m : m # q.mac => (m \in model' <=> m \in model)
  BY <1>4 DEF EventLoop, RunQueued, AddRemote
<1>6. /\ q.call = "addRemote" => q.mac \in model'
      /\ q.call = "removeRemote" => q.mac \notin model'
  BY <1>4 DEF EventLoop, RunQueued, AddRemote
<1>7. ModelInv'
  <2> SUFFICES ASSUME NEW m \in MACs
               PROVE  /\ m \in Known' \ Adding' =>
                           LastCall(queued', "addRemote", m) \/ (NoCall(queued', m) /\ m \in model')
                      /\ m \notin Known' =>
                           \/ LastCall(queued', "removeRemote", m)
                           \/ NoCall(queued', m) /\ (m \in model' => m \in Loaded)
    BY DEF ModelInv
  <2>1. NoCall(queued, m) => NoCall(queued', m) /\ q.mac # m
    BY <1>3, <1>4, CallRun
  <2>2. LastCall(queued, "addRemote", m) =>
          LastCall(queued', "addRemote", m) \/ (NoCall(queued', m) /\ m \in model')
    <3>1. LastCall(queued, "addRemote", m) =>
            \/ LastCall(queued', "addRemote", m)
            \/ q = [call |-> "addRemote", mac |-> m] /\ NoCall(queued', m)
      BY <1>3, <1>4, CallRun
    <3> QED BY <1>6, <3>1
  <2>3. LastCall(queued, "removeRemote", m) =>
          LastCall(queued', "removeRemote", m) \/ (NoCall(queued', m) /\ m \notin model')
    <3>1. LastCall(queued, "removeRemote", m) =>
            \/ LastCall(queued', "removeRemote", m)
            \/ q = [call |-> "removeRemote", mac |-> m] /\ NoCall(queued', m)
      BY <1>3, <1>4, CallRun
    <3> QED BY <1>6, <3>1
  <2> QED BY <1>1, <1>5, <2>1, <2>2, <2>3 DEF ModelInv
<1> QED BY <1>2, <1>7

(* remote() gives up on a remote only when the vector does not hold it. *)
LEMMA LookupFindsKnown ==
  ASSUME RegistryTypeOK, NEW mac \in MACs, Lookup(mac) = Null
  PROVE  mac \notin Known
<1> SUFFICES ASSUME mac \in Known PROVE FALSE
  OBVIOUS
<1>1. Lookup(mac).block = block
  BY DEF Lookup, Address
<1> QED BY <1>1 DEF Null, RegistryTypeOK

LEMMA ModelInvNext ==
  ASSUME RadioTypeOK, RequestsInv, VectorInv, AddingInv, ModelInv, [RadioNext]_radioVars
  PROVE  AddingInv' /\ ModelInv'
<1> "xbee" \in Threads /\ "main" \in Threads
  BY DEF Threads
<1> USE DEF vectorVars, registryVars
<1>1. CASE \E t \in Threads : Create(t) \/ Purge(t)
  BY <1>1, GoingOnKeepsModel DEF Create, Purge, GoesOn
<1>2. ASSUME NEW t \in Threads, SendPrepared(t) PROVE AddingInv' /\ ModelInv'
  <2>1. CASE Head(todo[t]).command = "DL"
    BY <1>2, <2>1, DLKeepsModel
  <2>2. CASE Head(todo[t]).command # "DL"
    <3>1. todo[t] # <<>>
      BY <1>2 DEF SendPrepared, RequestsInv, Busy
    <3>2. \A u \in Threads : GoesOn(todo[u], todo'[u])
      BY <1>2, <2>2, <3>1 DEF SendPrepared, GoesOn, RadioTypeOK, ThreadsTypeOK
    <3> QED BY <1>2, <2>2, <3>2, GoingOnKeepsModel DEF SendPrepared
  <2> QED BY <2>1, <2>2
<1>3. CASE FirstScan \/ ClientScan
  <2>1. \A u \in Threads : GoesOn(todo[u], todo'[u])
    <3>1. PICK t \in Threads : ScanNetwork(t) /\ todo[t] = <<>>
      BY <1>3 DEF FirstScan, ClientScan, Busy
    <3>2. todo' = todo \/ todo' = [todo EXCEPT ![t] = <<Todo("ND", Local)>>]
      BY <3>1 DEF ScanNetwork
    <3>3. GoesOn(todo[t], <<Todo("ND", Local)>>)
      BY <3>1 DEF GoesOn
    <3>4. \A u \in Threads : GoesOn(todo[u], todo[u])
      BY DEF GoesOn
    <3> QED BY <3>2, <3>3, <3>4 DEF RadioTypeOK, ThreadsTypeOK
  <2> QED BY <1>3, <2>1, GoingOnKeepsModel DEF FirstScan, ClientScan
<1>4. CASE ClientSendAT
  <2>1. \A u \in Threads : GoesOn(todo[u], todo'[u])
    <3>1. /\ todo["main"] = <<>>
          /\ todo' = todo \/ \E m : todo' = [todo EXCEPT !["main"] = <<Todo("AT", m)>>]
      BY <1>4 DEF ClientSendAT, Busy
    <3>2. \A m : GoesOn(todo["main"], <<Todo("AT", m)>>)
      BY <3>1 DEF GoesOn
    <3>3. \A u \in Threads : GoesOn(todo[u], todo[u])
      BY DEF GoesOn
    <3> QED BY <3>1, <3>2, <3>3 DEF RadioTypeOK, ThreadsTypeOK
  <2>2. model' = model \/ \E mac \in MACs \ Known : model' = model \ {mac}
    BY <1>4, LookupFindsKnown DEF ClientSendAT, ForgetRemote, RadioTypeOK, RegistryTypeOK
  <2> QED BY <1>4, <2>1, <2>2, GoingOnKeepsModel DEF ClientSendAT, ForgetRemote
<1>5. CASE ClientSetLed
  <2>1. \A u \in Threads : GoesOn(todo[u], todo'[u])
    BY <1>5 DEF ClientSetLed, GoesOn
  <2>2. model' = model \/ \E mac \in MACs \ Known : model' = model \ {mac}
    BY <1>5, LookupFindsKnown DEF ClientSetLed, SetLed, ForgetRemote, RadioTypeOK
  <2> QED BY <1>5, <2>1, <2>2, GoingOnKeepsModel DEF ClientSetLed, SetLed, ForgetRemote
<1>6. CASE EventLoop
  BY <1>6, EventLoopKeepsModel
<1>7. ASSUME NEW t \in Threads, NEW a \in asked, NEW mac \in MACs, ScanResponse(t, a, mac)
      PROVE  AddingInv' /\ ModelInv'
  <2>1. CASE UNCHANGED <<registryVars, todo, ticking, adds>>
    BY <2>1, GoingOnKeepsModel DEF GoesOn
  <2>2. CASE ~ UNCHANGED <<registryVars, todo, ticking, adds>>
    BY <1>7, <2>2, PushBackKeepsModel DEF ScanResponse, MayTick
  <2> QED BY <2>1, <2>2
<1>8. ASSUME NEW t \in Threads, NEW a \in asked, Success(t, a) \/ Failure(t, a)
      PROVE  AddingInv' /\ ModelInv'
  <2>1. CASE UNCHANGED registryVars
    BY <1>8, <2>1, GoingOnKeepsModel DEF Success, Failure, GoesOn
  <2>2. CASE RemoveRemote(a.target) /\ a.target \in Known
    BY <1>8, <2>2, RemoveRemoteKeepsModel DEF Success, Failure, MayTick
  <2> QED BY <1>8, <2>1, <2>2 DEF Success, Failure, RemoveRemote
<1>9. CASE ServeRemote \/ UNCHANGED radioVars
  BY <1>9, GoingOnKeepsModel DEF ServeRemote, radioVars, GoesOn
<1> QED BY <1>1, <1>2, <1>3, <1>4, <1>5, <1>6, <1>7, <1>8, <1>9 DEF RadioNext, ThreadStep

LEMMA ModelInvInit == RadioInit => AddingInv /\ ModelInv
<1> SUFFICES ASSUME RadioInit PROVE AddingInv /\ ModelInv
  OBVIOUS
<1>1. AddingInv
  BY DEF RadioInit, AddingInv, OneDL, NoDL, DLsFor
<1>2. Known = {} /\ queued = <<>> /\ model = Loaded
  BY DEF RadioInit, RegistryInit, Known, ToSet
<1> QED BY <1>1, <1>2 DEF ModelInv, NoCall

(* Once the calls that addRemote and removeRemote queued have run, the remotes of the
   model are those of the radio, besides the ones of network.json: no order of
   responses, failures and ticks of the two threads makes the lists diverge. *)
THEOREM ModelCatchesUp == RadioSpec => []ModelFollowsRadio
<1> DEFINE Inv == RadioTypeOK /\ RequestsInv /\ VectorInv /\ AddingInv /\ ModelInv
<1>1. RadioInit => Inv
  BY RadioTypeInit, RequestsInvInit, VectorInvInit, ModelInvInit
<1>2. Inv /\ [RadioNext]_radioVars => Inv'
  BY RadioTypeNext, RequestsInvNext, VectorInvNext, ModelInvNext
<1>3. Inv => ModelFollowsRadio
  <2> SUFFICES ASSUME Inv, queued = <<>>
               PROVE  (Known \ Adding) \subseteq model /\ model \subseteq Known \cup Loaded
    BY DEF ModelFollowsRadio
  <2>1. Known \subseteq MACs /\ model \subseteq MACs
    BY IndexOfKnown DEF RadioTypeOK, RegistryTypeOK
  <2>2. \A c, m : ~ LastCall(queued, c, m)
    BY DEF LastCall
  <2> QED BY <2>1, <2>2 DEF ModelInv
<1> QED BY <1>1, <1>2, <1>3, PTL DEF RadioSpec

-----------------------------------------------------------------------------
(* The frame identifiers *)

(* An entry is released or created: the responses to come are those of before. *)
LEMMA FramesStay ==
  ASSUME TableTypeOK, FramesInv, UNCHANGED frameId, asked' \subseteq asked,
         \A i \in Slots : \/ table'[i].frame = table[i].frame /\ table'[i].target = table[i].target
                          \/ table'[i].frame = 0
  PROVE  FramesInv'
<1>1. \A a \in asked : a.frame \in 1..255
  BY DEF TableTypeOK
<1>2. \A i \in Slots : table[i].frame \in 0..255 /\ frameId \in 0..255
  BY DEF TableTypeOK, Entry
<1>3. \A i \in Slots : table'[i].frame <= frameId'
  BY <1>2 DEF FramesInv
<1>4. ASSUME NEW a \in asked', NEW i \in Slots, table'[i].frame = a.frame
      PROVE  table'[i].target = a.target
  BY <1>1, <1>4 DEF FramesInv
<1> QED BY <1>3, <1>4 DEF FramesInv

LEMMA SendKeepsFrames ==
  ASSUME TableTypeOK, FramesInv, frameId < 255, NEW h \in 0..NoHandle, Send(h)
  PROVE  FramesInv' /\ frameId' \in {frameId, frameId + 1}
<1>1. CASE UNCHANGED atVars
  BY <1>1 DEF atVars, FramesInv
<1>2. CASE SlotOf(h) \in Slots /\ SentFrom(SlotOf(h))
  <2>1. NextFrameId = frameId + 1 /\ frameId \in 0..255
    BY DEF NextFrameId, TableTypeOK
  <2>2. PICK k \in Slots : k = SlotOf(h)
    BY <1>2
  <2>3. frameId' = frameId + 1 /\ table'[k].frame = frameId + 1 /\ table'[k].target = table[k].target
    BY <1>2, <2>1, <2>2 DEF SentFrom, OneEntry
  <2>4. \A i \in Slots : i # k => table'[i] = table[i]
    BY <1>2, <2>2 DEF SentFrom, OneEntry
  <2>5. \A i \in Slots : table[i].frame \in 0..255
    BY DEF TableTypeOK, Entry
  <2>6. \A i \in Slots : table'[i].frame <= frameId'
    <3> SUFFICES ASSUME NEW i \in Slots PROVE table'[i].frame <= frameId + 1
      BY <2>3
    <3>1. table[i].frame \in 0..255 /\ table[i].frame <= frameId
      BY <2>5 DEF FramesInv
    <3>2. table'[i].frame = frameId + 1 \/ table'[i].frame = table[i].frame
      BY <2>3, <2>4
    <3> QED BY <2>1, <3>1, <3>2, SMTT(30)
  <2>7. \A a \in asked' : a \in asked \/ (a.frame = frameId + 1 /\ a.target = table[k].target)
    BY <1>2, <2>1, <2>2 DEF SentFrom
  <2>8. \A a \in asked : a.frame \in 1..255
    BY DEF TableTypeOK
  <2>9. \A a \in asked' : a.frame <= frameId'
    <3> SUFFICES ASSUME NEW a \in asked' PROVE a.frame <= frameId + 1
      BY <2>3
    <3>1. a \in asked => a.frame \in 1..255 /\ a.frame <= frameId
      BY <2>8 DEF FramesInv
    <3> QED BY <2>1, <2>7, <3>1
  <2>10. ASSUME NEW a \in asked', NEW i \in Slots, table'[i].frame = a.frame
         PROVE  table'[i].target = a.target
    <3>1. CASE a \in asked
      <4>1. a.frame < frameId + 1
        <5>1. a.frame \in 1..255 /\ a.frame <= frameId
          BY <2>8, <3>1 DEF FramesInv
        <5> QED BY <2>1, <5>1
      <4>2. i # k
        BY <2>3, <2>10, <4>1, <2>8, <2>1, <3>1
      <4> QED BY <2>4, <2>10, <3>1, <4>2 DEF FramesInv
    <3>2. CASE a.frame = frameId + 1 /\ a.target = table[k].target
      <4>1. i = k
        BY <2>1, <2>4, <2>5, <2>10, <3>2 DEF FramesInv
      <4> QED BY <2>3, <3>2, <4>1
    <3> QED BY <2>7, <3>1, <3>2
  <2> QED BY <2>3, <2>6, <2>9, <2>10 DEF FramesInv
<1> QED BY <1>1, <1>2, SendTable

LEMMA TickKeepsFrames ==
  ASSUME TableTypeOK, FramesInv, Tick(Keeps), UNCHANGED <<frameId, asked>>
  PROVE  FramesInv'
BY FramesStay, ReleasedTable DEF Tick, TableTypeOK

LEMMA ResponseKeepsFrames ==
  ASSUME TableTypeOK, FramesInv, NEW a, NEW keep \in BOOLEAN, HandleResponse(a, keep),
         asked' \subseteq asked
  PROVE  FramesInv'
BY FramesStay, ReleasedTable DEF HandleResponse, TableTypeOK

(* The lists of the threads. *)
LEMMA TailScan ==
  ASSUME NEW s \in Seq(Requests), s # <<>>, Head(s).command # "ND", HasScan(s)
  PROVE  HasScan(Tail(s))
<1>1. /\ Len(s) \in Nat /\ Len(Tail(s)) = Len(s) - 1
      /\ \A i \in 1..(Len(s) - 1) : Tail(s)[i] = s[i + 1]
      /\ Head(s) = s[1]
  BY HeadTailProperties, LenProperties, HeadIsFirst
<1>2. PICK i \in 1..Len(s) : s[i].command = "ND"
  BY DEF HasScan
<1>3. i # 1
  BY <1>1, <1>2
<1>4. i - 1 \in 1..Len(Tail(s)) /\ (i - 1) + 1 = i
  BY <1>1, <1>3
<1>5. Tail(s)[i - 1].command = "ND"
  BY <1>1, <1>2, <1>4
<1> QED BY <1>4, <1>5 DEF HasScan

LEMMA InitialisationScan ==
  ASSUME NEW s \in Seq(Requests), NEW mac \in MACs
  PROVE  LET new == <<Todo("DH", mac), Todo("DL", mac)>> \o s
         IN  Len(new) = 2 + Len(s) /\ (HasScan(s) => HasScan(new))
<1> DEFINE two == <<Todo("DH", mac), Todo("DL", mac)>>
           new == two \o s
<1>1. two \in Seq(Requests) /\ Len(two) = 2
  BY TodoTyped
<1>2. /\ Len(new) = 2 + Len(s) /\ Len(s) \in Nat
      /\ \A i \in 1..(2 + Len(s)) : new[i] = IF i <= 2 THEN two[i] ELSE s[i - 2]
  BY <1>1, ConcatProperties, LenProperties
<1> HIDE DEF new, two
<1>3. ASSUME HasScan(s) PROVE HasScan(new)
  <2>1. PICK i \in 1..Len(s) : s[i].command = "ND"
    BY <1>3 DEF HasScan
  <2>2. i + 2 \in 1..Len(new) /\ (i + 2) - 2 = i /\ ~ (i + 2 <= 2)
    BY <1>2, <2>1
  <2>3. new[i + 2] = s[i]
    BY <1>2, <2>1, <2>2
  <2> QED BY <2>1, <2>2, <2>3 DEF HasScan
<1> QED BY <1>2, <1>3 DEF new, two

(* As long as not all of the 255 identifiers have been used. *)
Few == 1 + MaxClient + 2 * MaxAdds <= 255

LEMMA SumIsFew ==
  ASSUME NEW f \in Nat, NEW x \in Nat, NEW m \in Nat, NEW u \in Nat, NEW c \in Nat, NEW d \in Nat,
         NEW C \in Nat, NEW D \in Nat,
         f + x + m + u <= 1 + c + 2 * d, c <= C, d <= D, 1 + C + 2 * D <= 255
  PROVE  f + x + m + u <= 255 /\ (c < C => f + x + m + u < 255)
OBVIOUS

LEMMA CountIsFew ==
  ASSUME Few, RadioTypeOK, CountInv
  PROVE  /\ frameId \in Nat /\ clients \in Nat /\ adds \in Nat
         /\ Len(todo["xbee"]) \in Nat /\ Len(todo["main"]) \in Nat
         /\ frameId + Len(todo["xbee"]) + Len(todo["main"]) + Unscanned(scanNeeded, todo["xbee"]) <= 255
         /\ clients < MaxClient =>
              frameId + Len(todo["xbee"]) + Len(todo["main"]) + Unscanned(scanNeeded, todo["xbee"]) < 255
<1>1. frameId \in Nat /\ clients \in Nat /\ adds \in Nat /\ MaxClient \in Nat /\ MaxAdds \in Nat
  BY RadioAssumption DEF RadioTypeOK, TableTypeOK, ThreadsTypeOK
<1>2. Len(todo["xbee"]) \in Nat /\ Len(todo["main"]) \in Nat
  BY LenProperties DEF RadioTypeOK, ThreadsTypeOK, Threads
<1>3. PICK u \in Nat : u = Unscanned(scanNeeded, todo["xbee"])
  BY DEF Unscanned
<1>4. /\ frameId + Len(todo["xbee"]) + Len(todo["main"]) + u <= 1 + clients + 2 * adds
      /\ clients <= MaxClient /\ adds <= MaxAdds
  BY <1>3 DEF CountInv
<1>5. /\ frameId + Len(todo["xbee"]) + Len(todo["main"]) + u <= 255
      /\ clients < MaxClient => frameId + Len(todo["xbee"]) + Len(todo["main"]) + u < 255
  BY <1>1, <1>2, <1>4, SumIsFew, ZenonT(60) DEF Few
<1> QED BY <1>1, <1>2, <1>3, <1>5

(* A step that sends nothing, asks for nothing and scans nothing. *)
LEMMA NothingSentKeepsFrames ==
  ASSUME CountInv, FramesInv', UNCHANGED <<frameId, todo, scanNeeded, clients, adds>>
  PROVE  FramesInv' /\ CountInv'
BY DEF CountInv, Unscanned, HasScan

LEMMA SentIsPaid ==
  ASSUME NEW f \in Nat, NEW x \in Nat, NEW m \in Nat, NEW u \in {0, 1},
         NEW g \in Nat, NEW y \in Nat, NEW n \in Nat, NEW v \in {0, 1}, NEW b \in Nat,
         f + x + m + u <= b, g = f \/ g = f + 1, y + n = x + m - 1, v <= u
  PROVE  g + y + n + v <= b
<1>1. g <= f + 1 /\ u \in Nat /\ v \in Nat
  OBVIOUS
<1>2. g + (y + n) + v <= (f + 1) + (x + m - 1) + u
  BY <1>1
<1> QED BY <1>1, <1>2

LEMMA SendPreparedKeepsFrames ==
  ASSUME Few, RadioTypeOK, RequestsInv, FramesInv, CountInv, NEW t \in Threads, SendPrepared(t)
  PROVE  FramesInv' /\ CountInv'
<1>1. todo[t] \in Seq(Requests) /\ todo[t] # <<>> /\ handle[t] \in 0..NoHandle
  BY DEF SendPrepared, RequestsInv, Busy, RadioTypeOK, ThreadsTypeOK
<1>2. Len(todo[t]) \in Nat /\ Len(todo[t]) > 0 /\ Len(Tail(todo[t])) = Len(todo[t]) - 1
  BY <1>1, EmptySeq, LenProperties, HeadTailProperties
<1>3. t = "xbee" \/ t = "main"
  BY DEF Threads
<1>4. PICK u \in {0, 1} : u = Unscanned(scanNeeded, todo["xbee"])
  BY DEF Unscanned
<1>5. PICK v \in {0, 1} : v = Unscanned(scanNeeded', todo'["xbee"])
  BY DEF Unscanned
<1>6. PICK x \in Nat, m \in Nat : x = Len(todo["xbee"]) /\ m = Len(todo["main"])
  BY LenProperties DEF RadioTypeOK, ThreadsTypeOK, Threads
<1>7. frameId \in Nat /\ frameId + x + m + u <= 255 /\ x + m > 0
  <2>1. frameId \in Nat /\ frameId + x + m + u <= 255
    BY <1>4, <1>6, CountIsFew
  <2>2. x > 0 \/ m > 0
    BY <1>2, <1>3, <1>6
  <2> QED BY <2>1, <2>2
<1>8. FramesInv' /\ frameId' \in {frameId, frameId + 1}
  <2>1. frameId < 255
    BY <1>7
  <2> QED BY <1>1, <2>1, SendKeepsFrames DEF SendPrepared, RadioTypeOK
<1>9. todo'[t] = Tail(todo[t]) /\ \A w \in Threads : w # t => todo'[w] = todo[w]
  BY DEF SendPrepared, RadioTypeOK, ThreadsTypeOK
<1>10. PICK y \in Nat, n \in Nat : /\ y = Len(todo'["xbee"]) /\ n = Len(todo'["main"])
                                   /\ y + n = x + m - 1
  <2>1. CASE t = "xbee"
    <3>1. Len(todo'["xbee"]) = x - 1 /\ x > 0 /\ Len(todo'["main"]) = m
      BY <1>2, <1>6, <1>9, <2>1 DEF Threads
    <3>2. x - 1 \in Nat /\ (x - 1) + m = x + m - 1
      BY <3>1
    <3> QED BY <3>1, <3>2
  <2>2. CASE t = "main"
    <3>1. Len(todo'["main"]) = m - 1 /\ m > 0 /\ Len(todo'["xbee"]) = x
      BY <1>2, <1>6, <1>9, <2>2 DEF Threads
    <3>2. m - 1 \in Nat /\ x + (m - 1) = x + m - 1
      BY <3>1
    <3> QED BY <3>1, <3>2
  <2> QED BY <1>3, <2>1, <2>2
<1>11. v <= u
  <2>1. CASE Head(todo[t]).command = "ND"
    BY <1>4, <1>5, <2>1 DEF SendPrepared, Unscanned
  <2>2. CASE Head(todo[t]).command # "ND" /\ t = "xbee"
    <3>1. HasScan(todo["xbee"]) => HasScan(todo'["xbee"])
      BY <1>1, <1>9, <2>2, TailScan
    <3> QED BY <1>4, <1>5, <2>2, <3>1 DEF SendPrepared, Unscanned
  <2>3. CASE Head(todo[t]).command # "ND" /\ t = "main"
    <3>1. todo'["xbee"] = todo["xbee"]
      BY <1>9, <2>3 DEF Threads
    <3> QED BY <1>4, <1>5, <2>3, <3>1 DEF SendPrepared, Unscanned
  <2> QED BY <1>3, <2>1, <2>2, <2>3
<1>12. CountInv'
  <2>1. frameId + x + m + u <= 1 + clients + 2 * adds
    BY <1>4, <1>6 DEF CountInv
  <2>2. clients' = clients /\ adds' = adds /\ clients \in Nat /\ adds \in Nat
    BY DEF SendPrepared, RadioTypeOK, ThreadsTypeOK
  <2>3. frameId' + y + n + v <= 1 + clients + 2 * adds
    <3>1. PICK b \in Nat : b = 1 + clients + 2 * adds
      BY <2>2
    <3>2. PICK f \in Nat, g \in Nat : f = frameId /\ g = frameId' /\ (g = f \/ g = f + 1)
      BY <1>7, <1>8
    <3>3. f + x + m + u <= b /\ y + n = x + m - 1 /\ v <= u
      BY <1>10, <1>11, <2>1, <3>1, <3>2
    <3>4. g + y + n + v <= b
      <4>1. g = f \/ g = f + 1
        BY <3>2
      <4> QED BY <3>3, <4>1, SentIsPaid
    <3> QED BY <3>1, <3>2, <3>4
  <2> QED BY <1>5, <1>10, <2>2, <2>3 DEF CountInv
<1> QED BY <1>8, <1>12

LEMMA ScanKeepsFrames ==
  ASSUME Few, RadioTypeOK, FramesInv, CountInv, FirstScan \/ ClientScan
  PROVE  FramesInv' /\ CountInv'
<1>1. PICK u \in {0, 1} : u = Unscanned(scanNeeded, todo["xbee"])
  BY DEF Unscanned
<1>2. PICK v \in {0, 1} : v = Unscanned(scanNeeded', todo'["xbee"])
  BY DEF Unscanned
<1>3. PICK x \in Nat, m \in Nat : x = Len(todo["xbee"]) /\ m = Len(todo["main"])
  BY LenProperties DEF RadioTypeOK, ThreadsTypeOK, Threads
<1>4. PICK f \in Nat, c \in Nat, d \in Nat : f = frameId /\ c = clients /\ d = adds
  BY DEF RadioTypeOK, TableTypeOK, ThreadsTypeOK
<1>5. f + x + m + u <= 1 + c + 2 * d /\ c <= MaxClient /\ d <= MaxAdds
  BY <1>1, <1>3, <1>4 DEF CountInv
<1>6. f + x + m + u <= 255 /\ (c < MaxClient => f + x + m + u < 255)
  BY <1>1, <1>3, <1>4, CountIsFew
<1>7. adds' = d
  BY <1>4 DEF FirstScan, ClientScan
<1>8. CASE FirstScan
  <2>1. x = 0 /\ u = 1 /\ scanNeeded
    BY <1>1, <1>3, <1>8 DEF FirstScan, Busy, Unscanned, HasScan
  <2>2. clients' = c
    BY <1>4, <1>8 DEF FirstScan
  <2>3. CASE scanCmd = NoHandle
    <3>1. todo' = [todo EXCEPT !["xbee"] = <<Todo("ND", Local)>>] /\ UNCHANGED atVars
      BY <1>8, <2>3 DEF FirstScan, ScanNetwork
    <3>2. Len(todo'["xbee"]) = 1 /\ Len(todo'["main"]) = m /\ HasScan(todo'["xbee"])
      BY <1>3, <3>1 DEF RadioTypeOK, ThreadsTypeOK, Threads, HasScan, Todo
    <3>3. v = 0
      BY <1>2, <3>2 DEF Unscanned
    <3>4. frameId' = f /\ FramesInv'
      BY <1>4, <3>1 DEF atVars, FramesInv
    <3>5. f + 1 + m + 0 <= 1 + c + 2 * d
      BY <1>5, <2>1
    <3> QED BY <1>2, <1>5, <1>7, <2>2, <3>2, <3>3, <3>4, <3>5 DEF CountInv
  <2>4. CASE scanCmd # NoHandle
    <3>1. Send(scanCmd) /\ scanNeeded' = FALSE /\ UNCHANGED todo /\ scanCmd \in 0..NoHandle
      BY <1>8, <2>4 DEF FirstScan, ScanNetwork, RadioTypeOK, ThreadsTypeOK
    <3>2. frameId < 255
      BY <1>4, <1>6, <2>1
    <3>3. FramesInv' /\ frameId' \in {f, f + 1}
      BY <1>4, <3>1, <3>2, SendKeepsFrames DEF RadioTypeOK
    <3>4. v = 0
      BY <1>2, <3>1 DEF Unscanned
    <3>5. PICK g \in {f, f + 1} : g = frameId'
      BY <3>3
    <3>6. g + x + m + 0 <= 1 + c + 2 * d
      <4>1. g \in Nat /\ g <= f + 1
        OBVIOUS
      <4> QED BY <1>5, <2>1, <4>1
    <3> QED BY <1>2, <1>3, <1>5, <1>7, <2>2, <3>1, <3>3, <3>4, <3>5, <3>6 DEF CountInv
  <2> QED BY <2>3, <2>4
<1>9. CASE ClientScan
  <2>1. m = 0 /\ c < MaxClient /\ clients' = c + 1
    BY <1>3, <1>4, <1>9 DEF ClientScan, Busy
  <2>2. c + 1 <= MaxClient /\ MaxClient \in Nat
    BY <2>1, RadioAssumption
  <2>3. CASE scanCmd = NoHandle
    <3>1. todo' = [todo EXCEPT !["main"] = <<Todo("ND", Local)>>] /\ UNCHANGED <<atVars, scanNeeded>>
      BY <1>9, <2>3 DEF ClientScan, ScanNetwork
    <3>2. Len(todo'["main"]) = 1 /\ todo'["xbee"] = todo["xbee"]
      BY <3>1 DEF RadioTypeOK, ThreadsTypeOK, Threads
    <3>3. v = u
      BY <1>1, <1>2, <3>1, <3>2
    <3>4. frameId' = f /\ FramesInv'
      BY <1>4, <3>1 DEF atVars, FramesInv
    <3>5. f + x + 1 + u <= 1 + (c + 1) + 2 * d
      BY <1>5, <2>1
    <3> QED BY <1>2, <1>3, <1>5, <1>7, <2>1, <2>2, <3>2, <3>3, <3>4, <3>5 DEF CountInv
  <2>4. CASE scanCmd # NoHandle
    <3>1. Send(scanCmd) /\ scanNeeded' = FALSE /\ UNCHANGED todo /\ scanCmd \in 0..NoHandle
      BY <1>9, <2>4 DEF ClientScan, ScanNetwork, RadioTypeOK, ThreadsTypeOK
    <3>2. frameId < 255
      BY <1>4, <1>6, <2>1
    <3>3. FramesInv' /\ frameId' \in {f, f + 1}
      BY <1>4, <3>1, <3>2, SendKeepsFrames DEF RadioTypeOK
    <3>4. v = 0
      BY <1>2, <3>1 DEF Unscanned
    <3>5. PICK g \in {f, f + 1} : g = frameId'
      BY <3>3
    <3>6. g + x + m + 0 <= 1 + (c + 1) + 2 * d
      <4>1. g \in Nat /\ g <= f + 1 /\ u \in Nat
        OBVIOUS
      <4> QED BY <1>5, <4>1
    <3> QED BY <1>2, <1>3, <1>5, <1>7, <2>1, <2>2, <3>1, <3>3, <3>4, <3>5, <3>6 DEF CountInv
  <2> QED BY <2>3, <2>4
<1> QED BY <1>8, <1>9

LEMMA ClientSendATKeepsFrames ==
  ASSUME RadioTypeOK, FramesInv, CountInv, ClientSendAT
  PROVE  FramesInv' /\ CountInv'
<1>1. FramesInv'
  BY DEF ClientSendAT, atVars, FramesInv
<1>2. PICK u \in {0, 1} : u = Unscanned(scanNeeded, todo["xbee"])
  BY DEF Unscanned
<1>3. PICK x \in Nat, m \in Nat : x = Len(todo["xbee"]) /\ m = Len(todo["main"])
  BY LenProperties DEF RadioTypeOK, ThreadsTypeOK, Threads
<1>4. PICK f \in Nat, c \in Nat, d \in Nat : f = frameId /\ c = clients /\ d = adds
  BY DEF RadioTypeOK, TableTypeOK, ThreadsTypeOK
<1>5. f + x + m + u <= 1 + c + 2 * d /\ c <= MaxClient /\ d <= MaxAdds
  BY <1>2, <1>3, <1>4 DEF CountInv
<1>6. m = 0 /\ c < MaxClient /\ clients' = c + 1 /\ adds' = d /\ frameId' = f /\ scanNeeded' = scanNeeded
  BY <1>3, <1>4 DEF ClientSendAT, Busy, atVars
<1>7. todo'["xbee"] = todo["xbee"] /\ Len(todo'["main"]) \in {0, 1}
  <2>1. CASE todo' = todo
    BY <1>3, <1>6, <2>1
  <2>2. ASSUME NEW r, todo' = [todo EXCEPT !["main"] = <<Todo("AT", r)>>]
        PROVE  todo'["xbee"] = todo["xbee"] /\ Len(todo'["main"]) = 1
    BY <2>2 DEF RadioTypeOK, ThreadsTypeOK, Threads
  <2> QED BY <2>1, <2>2 DEF ClientSendAT
<1>8. PICK n \in {0, 1} : n = Len(todo'["main"])
  BY <1>7
<1>9. f + x + n + u <= 1 + (c + 1) + 2 * d /\ c + 1 <= MaxClient
  <2>1. n \in Nat /\ n <= 1 /\ u \in Nat /\ MaxClient \in Nat /\ m = 0 /\ c < MaxClient
    BY <1>6, RadioAssumption
  <2> QED BY <1>5, <2>1
<1> QED BY <1>1, <1>2, <1>3, <1>5, <1>6, <1>7, <1>8, <1>9 DEF CountInv

LEMMA ScanResponseKeepsFrames ==
  ASSUME RadioTypeOK, FramesInv, CountInv, NEW t \in Threads, NEW a \in asked, NEW mac \in MACs,
         ScanResponse(t, a, mac)
  PROVE  FramesInv' /\ CountInv'
<1>1. FramesInv'
  BY ResponseKeepsFrames DEF ScanResponse, RadioTypeOK
<1>2. CASE UNCHANGED <<registryVars, todo, ticking, adds>>
  BY <1>1, <1>2, NothingSentKeepsFrames DEF ScanResponse, HandleResponse
<1>3. CASE /\ adds < MaxAdds /\ adds' = adds + 1
           /\ todo' = [todo EXCEPT ![t] = <<Todo("DH", mac), Todo("DL", mac)>> \o @]
  <2>1. PICK u \in {0, 1} : u = Unscanned(scanNeeded, todo["xbee"])
    BY DEF Unscanned
  <2>2. PICK v \in {0, 1} : v = Unscanned(scanNeeded', todo'["xbee"])
    BY DEF Unscanned
  <2>3. PICK x \in Nat, m \in Nat : x = Len(todo["xbee"]) /\ m = Len(todo["main"])
    BY LenProperties DEF RadioTypeOK, ThreadsTypeOK, Threads
  <2>4. PICK f \in Nat, c \in Nat, d \in Nat : f = frameId /\ c = clients /\ d = adds
    BY DEF RadioTypeOK, TableTypeOK, ThreadsTypeOK
  <2>5. f + x + m + u <= 1 + c + 2 * d /\ c <= MaxClient /\ d <= MaxAdds
    BY <2>1, <2>3, <2>4 DEF CountInv
  <2>6. frameId' = f /\ clients' = c /\ adds' = d + 1 /\ scanNeeded' = scanNeeded
    BY <1>3, <2>4 DEF ScanResponse, HandleResponse
  <2>7. d + 1 <= MaxAdds
    BY <1>3, <2>4, RadioAssumption
  <2>8. todo[t] \in Seq(Requests)
    BY DEF RadioTypeOK, ThreadsTypeOK
  <2>9. PICK new : /\ new = <<Todo("DH", mac), Todo("DL", mac)>> \o todo[t]
                   /\ Len(new) = 2 + Len(todo[t]) /\ (HasScan(todo[t]) => HasScan(new))
    BY <2>8, InitialisationScan
  <2>10. todo'[t] = new /\ \A w \in Threads : w # t => todo'[w] = todo[w]
    BY <1>3, <2>9 DEF RadioTypeOK, ThreadsTypeOK
  <2>11. CASE t = "xbee"
    <3>1. Len(todo'["xbee"]) = 2 + x /\ Len(todo'["main"]) = m
      BY <2>3, <2>9, <2>10, <2>11 DEF Threads
    <3>2. v <= u
      <4>1. HasScan(todo["xbee"]) => HasScan(todo'["xbee"])
        BY <2>9, <2>10, <2>11
      <4> QED BY <2>1, <2>2, <2>6, <4>1 DEF Unscanned
    <3>3. f + (2 + x) + m + v <= 1 + c + 2 * (d + 1)
      BY <2>5, <3>2
    <3> QED BY <1>1, <2>2, <2>5, <2>6, <2>7, <3>1, <3>3 DEF CountInv
  <2>12. CASE t = "main"
    <3>1. todo'["xbee"] = todo["xbee"] /\ Len(todo'["main"]) = 2 + m
      BY <2>3, <2>9, <2>10, <2>12 DEF Threads
    <3>2. f + x + (2 + m) + u <= 1 + c + 2 * (d + 1)
      BY <2>5
    <3> QED BY <1>1, <2>1, <2>3, <2>5, <2>6, <2>7, <3>1, <3>2 DEF CountInv
  <2> QED BY <2>11, <2>12 DEF Threads
<1> QED BY <1>2, <1>3 DEF ScanResponse

LEMMA FramesInvNext ==
  ASSUME Few, RadioTypeOK, RequestsInv, FramesInv, CountInv, [RadioNext]_radioVars
  PROVE  FramesInv' /\ CountInv'
<1>1. ASSUME NEW t \in Threads, Create(t) PROVE FramesInv' /\ CountInv'
  <2>1. Head(todo[t]) \in Requests
    BY <1>1, HeadIsFirst DEF Create, Busy, RadioTypeOK, ThreadsTypeOK
  <2>2. PICK i \in Slots : table' = Created(i, Head(todo[t]).command, Head(todo[t]).target)
    BY <1>1 DEF Create
  <2>3. OneEntry(table', table, i, Head(todo[t]).command, Head(todo[t]).target, 0)
    BY <2>1, <2>2, CreatedTable, SMTT(60) DEF RadioTypeOK
  <2>4. FramesInv'
    BY <1>1, <2>3, FramesStay, Zenon DEF Create, OneEntry, RadioTypeOK
  <2> QED BY <1>1, <2>4, NothingSentKeepsFrames DEF Create
<1>2. ASSUME NEW t \in Threads, Purge(t) PROVE FramesInv' /\ CountInv'
  <2>1. FramesInv'
    BY <1>2, TickKeepsFrames DEF Purge, RadioTypeOK
  <2> QED BY <1>2, <2>1, NothingSentKeepsFrames DEF Purge
<1>3. CASE \E t \in Threads : SendPrepared(t)
  BY <1>3, SendPreparedKeepsFrames
<1>4. CASE FirstScan \/ ClientScan \/ ClientSendAT
  BY <1>4, ScanKeepsFrames, ClientSendATKeepsFrames
<1>5. CASE ClientSetLed \/ EventLoop \/ UNCHANGED radioVars
  <2>1. FramesInv'
    BY <1>5 DEF ClientSetLed, EventLoop, radioVars, atVars, FramesInv
  <2> QED BY <1>5, <2>1, NothingSentKeepsFrames DEF ClientSetLed, EventLoop, radioVars, atVars
<1>6. CASE \E t \in Threads, a \in asked, mac \in MACs : ScanResponse(t, a, mac)
  BY <1>6, ScanResponseKeepsFrames
<1>7. ASSUME NEW t \in Threads, NEW a \in asked, Success(t, a) \/ Failure(t, a)
      PROVE  FramesInv' /\ CountInv'
  <2>1. FramesInv'
    BY <1>7, ResponseKeepsFrames DEF Success, Failure, RadioTypeOK
  <2> QED BY <1>7, <2>1, NothingSentKeepsFrames DEF Success, Failure, HandleResponse
<1>8. CASE ServeRemote
  <2>1. FramesInv'
    <3>1. CASE UNCHANGED table
      BY <1>8, <3>1 DEF ServeRemote, FramesInv
    <3>2. CASE Tick(Keeps)
      BY <1>8, <3>2, TickKeepsFrames DEF ServeRemote, RadioTypeOK
    <3> QED BY <1>8, <3>1, <3>2 DEF ServeRemote
  <2> QED BY <1>8, <2>1, NothingSentKeepsFrames DEF ServeRemote
<1> QED BY <1>1, <1>2, <1>3, <1>4, <1>5, <1>6, <1>7, <1>8 DEF RadioNext, ThreadStep

LEMMA FramesInvInit == RadioInit => FramesInv /\ CountInv
<1> SUFFICES ASSUME RadioInit PROVE FramesInv /\ CountInv
  OBVIOUS
<1>1. FramesInv
  BY DEF RadioInit, ATInit, FramesInv
<1>2. frameId = 0 /\ todo["xbee"] = <<>> /\ todo["main"] = <<>> /\ clients = 0 /\ adds = 0
  BY DEF RadioInit, ATInit, Threads
<1>3. Unscanned(scanNeeded, todo["xbee"]) \in {0, 1}
  BY DEF Unscanned
<1> QED BY <1>1, <1>2, <1>3, RadioAssumption DEF CountInv

(* Until the 255 frame identifiers have all been used, a response reaches only a
   request to the device that sent it, however many requests the table holds, were
   purged from it or overwritten in it, although the driver does not compare the
   address of the sender. *)
THEOREM ResponsesReachTheirAsker ==
  ASSUME 1 + MaxClient + 2 * MaxAdds <= 255
  PROVE  RadioSpec => []AnswersReachAsker
<1> DEFINE Inv == RadioTypeOK /\ RequestsInv /\ FramesInv /\ CountInv
<1>1. Few
  BY DEF Few
<1>2. RadioInit => Inv
  BY RadioTypeInit, RequestsInvInit, FramesInvInit
<1>3. Inv /\ [RadioNext]_radioVars => Inv'
  BY <1>1, RadioTypeNext, RequestsInvNext, FramesInvNext
<1>4. Inv => AnswersReachAsker
  BY DEF FramesInv, AnswersReachAsker, Matching, Matches
<1> QED BY <1>2, <1>3, <1>4, PTL DEF RadioSpec

=============================================================================
