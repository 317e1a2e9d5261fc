--------------------------- MODULE RemoteRegistry ---------------------------
(***************************************************************************)
(* The two lists of remotes of the daemon: XBeeInterface::_remotes, a      *)
(* std::vector of XBeeRemote that the XBee thread grows and shrinks as the *)
(* radio answers, and RemoteList::_remotes, the remotes of the model, that *)
(* follow through calls queued to the main thread.  A RealRemote caches    *)
(* the address of its XBeeRemote inside the vector.                        *)
(***************************************************************************)
EXTENDS Naturals, Sequences, SequencesExt

CONSTANTS
  MACs,             \* addresses of remotes
  Nobody,           \* no remote
  Loaded,           \* the remotes network.json held when the daemon started
  MaxSets           \* bound: how often the clients set a LED

ASSUME RegistryAssumption ==
  /\ Loaded \subseteq MACs /\ Nobody \notin MACs
  /\ MaxSets \in Nat

VARIABLES
  remotes,    \* _remotes: the MACs in the order of the vector
  block,      \* which allocation the vector uses
  capacity,   \* its capacity
  erased,     \* how many elements were erased from it
  waiting,    \* the remotes whose _safeSendMap is not empty
  queued,     \* calls of addRemote and removeRemote queued to the main thread
  model,      \* the MACs of RemoteList::_remotes
  cached,     \* RealRemote::_remote, by MAC
  sets        \* how often the clients set a LED

registryVars == <<remotes, block, capacity, erased, waiting, queued, model, cached, sets>>
vectorVars == <<remotes, block, capacity, erased>>

(* The address of an element, and what the vector had gone through when it was taken. *)
Null == [block |-> 0, index |-> 0, erased |-> 0]
Address(i) == [block |-> block, index |-> i, erased |-> erased]
Known == ToSet(remotes)
IndexOf(mac) == CHOOSE i \in 1..Len(remotes) : remotes[i] = mac

RegistryInit ==
  /\ remotes = <<>>
  /\ block = 1 /\ capacity = 0 /\ erased = 0
  /\ waiting = {}
  /\ queued = <<>>
  /\ model = Loaded
  /\ cached = [mac \in MACs |-> Null]
  /\ sets = 0

-----------------------------------------------------------------------------
(* The vector *)

(* addRemote: push_back moves the vector to a new block, twice as large, when it
   is full. *)
PushBack(mac) ==
  /\ remotes' = Append(remotes, mac)
  /\ IF Len(remotes) = capacity
     THEN block' = block + 1 /\ capacity' = IF capacity = 0 THEN 1 ELSE 2 * capacity
     ELSE UNCHANGED <<block, capacity>>
  /\ UNCHANGED <<erased, waiting, model, cached, sets>>

QueueCall(call, mac) == queued' = Append(queued, [call |-> call, mac |-> mac])

(* Mutant: the vector forgets the remote, the model is not told. *)
MutRemoveRemote(mac) ==
  IF mac \notin Known THEN UNCHANGED registryVars
  ELSE /\ remotes' = RemoveAt(remotes, IndexOf(mac))
       /\ erased' = erased + 1
       /\ waiting' = waiting \ {mac}
       /\ UNCHANGED <<queued, block, capacity, model, cached, sets>>

(* removeRemote erases the element, with its messages, and the ones behind it move
   down. *)
RemoveRemote(mac) ==
  IF mac \notin Known THEN UNCHANGED registryVars
  ELSE /\ remotes' = RemoveAt(remotes, IndexOf(mac))
       /\ erased' = erased + 1
       /\ waiting' = waiting \ {mac}
       /\ QueueCall("removeRemote", mac)
       /\ UNCHANGED <<block, capacity, model, cached, sets>>

(* Mutant: the loop ends at the first remote, whether it has a message or not. *)
MutFirstWaiting == {mac \in waiting \cap Known : IndexOf(mac) = 1}

(* The loop of standardRunTick: the first remote that has a message is served. *)
FirstWaiting ==
  {mac \in waiting \cap Known : \A j \in 1..(IndexOf(mac) - 1) : remotes[j] \notin waiting}

-----------------------------------------------------------------------------
(* Main thread *)

(* Mutant: the address behind the one of the remote. *)
MutLookup(mac) ==
  IF cached[mac] # Null THEN cached[mac]
  ELSE IF mac \in Known THEN Address(IndexOf(mac) + 1)
  ELSE Null

(* RealRemote::remote(): the cached address, or the one found by MAC. *)
Lookup(mac) ==
  IF cached[mac] # Null THEN cached[mac]
  ELSE IF mac \in Known THEN Address(IndexOf(mac))
  ELSE Null

(* RemoteList::addRemote: populating the new node sets its LEDs, which calls
   remote().  A remote that network.json held is known already. *)
AddRemote(mac) ==
  IF mac \in model THEN UNCHANGED <<model, cached>>
  ELSE model' = model \cup {mac} /\ cached' = [cached EXCEPT ![mac] = Lookup(mac)]

(* The event loop runs the oldest queued call.  RemoteList::removeRemote deletes
   the node; its destructor only clears a pointer in the object it refers to. *)
RunQueued ==
  /\ queued # <<>>
  /\ queued' = Tail(queued)
  /\ LET q == Head(queued)
     IN  IF q.call = "addRemote" THEN AddRemote(q.mac)
         ELSE model' = model \ {q.mac} /\ cached' = [cached EXCEPT ![q.mac] = Null]
  /\ UNCHANGED <<vectorVars, waiting, sets>>

(* What lies at an address: a live XBeeRemote, or none. *)
ObjectAt(a) == IF a.block = block /\ a.index <= Len(remotes) THEN remotes[a.index] ELSE Nobody

(* remote() finds no XBeeRemote: it removes the remote from the model. *)
ForgetRemote(mac) ==
  /\ model' = model \ {mac}
  /\ UNCHANGED <<vectorVars, waiting, queued, cached, sets>>

(* A client sets a LED or the state (RealRemote::fastTrigger, setValue): the message
   waits in the object at the address. *)
SetLed(mac) ==
  /\ mac \in model
  /\ sets < MaxSets
  /\ IF Lookup(mac) = Null THEN ForgetRemote(mac)
     ELSE /\ waiting' = waiting \cup ({ObjectAt(Lookup(mac))} \cap MACs)
          /\ cached' = [cached EXCEPT ![mac] = Lookup(mac)]
          /\ sets' = sets + 1
          /\ UNCHANGED <<vectorVars, queued, model>>

-----------------------------------------------------------------------------
(* The address that a RealRemote caches (networkmodel.cpp, remote()) is that of its
   own XBeeRemote until the vector has moved or lost an element. *)
CachedWhileUnmoved ==
  \A mac \in MACs :
    cached[mac] # Null /\ cached[mac].block = block /\ cached[mac].erased = erased
      => ObjectAt(cached[mac]) = mac

=============================================================================
