--------------------------- MODULE RadioCommands ---------------------------
(***************************************************************************)
(* The AT commands of the daemon (xbee/xbeeinterface.cpp, xbeeremote.cpp): *)
(* the scan, whose request is kept, the commands that a new remote is      *)
(* initialised with and the ones a client sends, in the request table of   *)
(* the driver that the XBee thread and the main thread share, and the      *)
(* lists of remotes that the responses grow and shrink.  A thread that     *)
(* finds the table full waits in prepareXBeeATCmd; a response that is      *)
(* handled there, or in a tick, may create further requests, but           *)
(* xbee_dev_tick does not run inside itself.                               *)
(***************************************************************************)
EXTENDS ATCommand, RemoteRegistry

CONSTANTS
  MaxClient,    \* bound: how many AT commands and scans the clients send
  MaxAdds,      \* bound: how often a remote is found
  MayRace       \* the threads may create requests at the same instant

ASSUME RadioAssumption ==
  /\ Commands = {"ND", "DH", "DL", "AT"} /\ Devices = MACs
  /\ MaxClient \in Nat /\ MaxAdds \in Nat /\ MayRace \in BOOLEAN

VARIABLES
  todo,       \* by thread: the requests it has yet to create, the innermost first
  handle,     \* by thread: the handle it got for the first of them, or NoHandle
  ticking,    \* the thread whose response handler runs (XBEE_DEV_FLAG_IN_TICK), or "none"
  scanCmd,    \* _scanCmd: the handle of the scan, or -1 (here NoHandle)
  scanNeeded, \* _scanNeeded
  clients,    \* how many commands the clients sent
  adds,       \* how often a remote was found
  dead        \* the process has ended by a null pointer

radioVars == <<atVars, registryVars, todo, handle, ticking, scanCmd, scanNeeded,
               clients, adds, dead>>

Threads == {"xbee", "main"}
Other(t) == IF t = "xbee" THEN "main" ELSE "xbee"
NoHandle == TableSize * 256

RadioInit ==
  /\ ATInit /\ RegistryInit
  /\ todo = [t \in Threads |-> <<>>]
  /\ handle = [t \in Threads |-> NoHandle]
  /\ ticking = "none"
  /\ scanCmd = NoHandle /\ scanNeeded = TRUE
  /\ clients = 0 /\ adds = 0
  /\ dead = FALSE

Busy(t) == todo[t] # <<>>
Todo(command, target) == [command |-> command, target |-> target]
Scanning == \E t \in Threads : Busy(t) /\ Head(todo[t]).command = "ND"

(* The remotes that addRemote has pushed and not yet told the model about. *)
Adding == {m \in MACs : \E t \in Threads : \E i \in 1..Len(todo[t]) : todo[t][i] = Todo("DL", m)}

-----------------------------------------------------------------------------
(* prepareXBeeATCmd *)

(* Mutant: the scan is not kept when it times out. *)
MutKeeps == {}

(* Mutant: no request is given up when it times out. *)
MutKeepsAll == Slots

(* The requests whose callback returns XBEE_ATCMD_REUSE on a timeout: handleScanResponse
   answers an empty response with false. *)
Keeps == {i \in Slots : table[i].command = "ND"}

(* xbee_cmd_create takes the first free entry.  Nothing keeps two threads from
   finding the same one, and then the later overwrites the request of the other. *)
Create(t) ==
  LET c == Head(todo[t])
  IN  /\ Busy(t) /\ handle[t] = NoHandle
      /\ \E i \in Slots :
           /\ \/ ~ TableFull /\ i = FirstFree
              \/ MayRace /\ handle[Other(t)] = Handle(i)
           /\ table' = Created(i, c.command, c.target)
           /\ handle' = [handle EXCEPT ![t] = Handle(i)]
      /\ UNCHANGED <<frameId, asked>>
      /\ UNCHANGED <<registryVars, todo, ticking, scanCmd, scanNeeded, clients, adds, dead>>

(* With none free xbee_cmd_create expires old requests, and the caller tries again. *)
Purge(t) ==
  /\ Busy(t) /\ handle[t] = NoHandle
  /\ TableFull
  /\ Tick(Keeps)
  /\ UNCHANGED <<frameId, asked>>
  /\ UNCHANGED <<registryVars, todo, handle, ticking, scanCmd, scanNeeded, clients, adds, dead>>

(* The caller sends the request: scanNetwork keeps the handle; with DL the
   initialisation of a remote ends, addRemote tells the model and the handler
   returns. *)
SendPrepared(t) ==
  LET c == Head(todo[t])
  IN  /\ handle[t] # NoHandle
      /\ Send(handle[t])
      /\ todo' = [todo EXCEPT ![t] = Tail(@)]
      /\ handle' = [handle EXCEPT ![t] = NoHandle]
      /\ IF c.command = "ND" THEN scanCmd' = handle[t] /\ scanNeeded' = FALSE
         ELSE UNCHANGED <<scanCmd, scanNeeded>>
      /\ IF c.command = "DL"
         THEN QueueCall("addRemote", c.target) /\ ticking' = "none"
         ELSE UNCHANGED <<queued, ticking>>
      /\ UNCHANGED <<vectorVars, waiting, model, cached, sets>>
      /\ UNCHANGED <<clients, adds, dead>>

-----------------------------------------------------------------------------
(* Who asks *)

(* scanNetwork, first of the XBee thread, then of the clients: the request of the
   first scan is sent again. *)
ScanNetwork(t) ==
  IF scanCmd = NoHandle
  THEN /\ MayRace \/ ~ Scanning
       /\ todo' = [todo EXCEPT ![t] = <<Todo("ND", Local)>>]
       /\ UNCHANGED <<atVars, scanNeeded>>
  ELSE /\ Send(scanCmd)
       /\ scanNeeded' = FALSE
       /\ UNCHANGED todo

FirstScan ==
  /\ ~ Busy("xbee") /\ scanNeeded
  /\ ScanNetwork("xbee")
  /\ UNCHANGED <<registryVars, handle, ticking, scanCmd, clients, adds, dead>>

(* NetworkModel::execFunction("scan") *)
ClientScan ==
  /\ ~ Busy("main") /\ clients < MaxClient
  /\ clients' = clients + 1
  /\ ScanNetwork("main")
  /\ UNCHANGED <<registryVars, handle, ticking, scanCmd, adds, dead>>

(* NetworkModel::execFunction("sendAT") and RealRemote::execFunction("sendAT"). *)
ClientSendAT ==
  /\ ~ Busy("main") /\ clients < MaxClient
  /\ clients' = clients + 1
  /\ \/ /\ todo' = [todo EXCEPT !["main"] = <<Todo("AT", Local)>>]
        /\ UNCHANGED registryVars
     \/ \E mac \in model :
          IF Lookup(mac) = Null THEN ForgetRemote(mac) /\ UNCHANGED todo
          ELSE /\ ObjectAt(Lookup(mac)) # Nobody
               /\ todo' = [todo EXCEPT !["main"] = <<Todo("AT", ObjectAt(Lookup(mac)))>>]
               /\ cached' = [cached EXCEPT ![mac] = Lookup(mac)]
               /\ UNCHANGED <<vectorVars, waiting, queued, model, sets>>
  /\ UNCHANGED <<atVars, handle, ticking, scanCmd, scanNeeded, adds, dead>>

ClientSetLed ==
  /\ ~ Busy("main")
  /\ \E mac \in MACs : SetLed(mac)
  /\ UNCHANGED <<atVars, todo, handle, ticking, scanCmd, scanNeeded, clients, adds, dead>>

EventLoop ==
  /\ ~ Busy("main")
  /\ RunQueued
  /\ UNCHANGED <<atVars, todo, handle, ticking, scanCmd, scanNeeded, clients, adds, dead>>

-----------------------------------------------------------------------------
(* Responses *)

(* xbee_dev_tick dispatches frames in standardRunTick, and in prepareXBeeATCmd while
   the table is full, but not inside a handler. *)
MayTick(t) ==
  /\ ticking = "none"
  /\ IF Busy(t) THEN handle[t] = NoHandle /\ TableFull ELSE t = "xbee"

(* A remote answers the scan: handleScanResponse adds it when it is new, and its
   initialisation goes before whatever the thread was about to create. *)
ScanResponse(t, a, mac) ==
  /\ MayTick(t) /\ a.command = "ND"
  /\ HandleResponse(a, TRUE) /\ UNCHANGED asked
  /\ IF Matching(a) = {} \/ mac \in Known
     THEN UNCHANGED <<registryVars, todo, ticking, adds>>
     ELSE /\ adds < MaxAdds
          /\ adds' = adds + 1
          /\ PushBack(mac) /\ UNCHANGED queued
          /\ todo' = [todo EXCEPT ![t] = <<Todo("DH", mac), Todo("DL", mac)>> \o @]
          /\ ticking' = t
  /\ UNCHANGED <<handle, scanCmd, scanNeeded, clients, dead>>

(* Another command is carried out. *)
Success(t, a) ==
  /\ MayTick(t) /\ a.command # "ND"
  /\ HandleResponse(a, FALSE)
  /\ asked' = asked \ {a}
  /\ UNCHANGED <<registryVars, todo, handle, ticking, scanCmd, scanNeeded, clients, adds, dead>>

(* The status is ERROR or TX_FAIL: the source of the response is removed.  The
   response of the local device has no source. *)
Failure(t, a) ==
  /\ MayTick(t)
  /\ HandleResponse(a, FALSE)
  /\ asked' = asked \ {a}
  /\ IF Matching(a) = {} THEN UNCHANGED <<registryVars, dead>>
     ELSE IF a.target = Local THEN dead' = TRUE /\ UNCHANGED registryVars
     ELSE RemoveRemote(a.target) /\ UNCHANGED dead
  /\ UNCHANGED <<todo, handle, ticking, scanCmd, scanNeeded, clients, adds>>

(* standardRunTick: one remote is served; sendRemoteTX takes its frame identifier
   from a free entry of the table (generateFrameID), expires old requests when there
   is none, and drops the message, which is gone from the map, when there is still none. *)
ServeRemote ==
  /\ ~ Busy("xbee") /\ ~ scanNeeded
  /\ \E mac \in FirstWaiting :
       /\ waiting' = waiting \ {mac}
       /\ \/ UNCHANGED table
          \/ TableFull /\ Tick(Keeps)
  /\ UNCHANGED <<frameId, asked, vectorVars, queued, model, cached, sets>>
  /\ UNCHANGED <<todo, handle, ticking, scanCmd, scanNeeded, clients, adds, dead>>

ThreadStep(t) == Create(t) \/ Purge(t) \/ SendPrepared(t)

RadioNext ==
  /\ ~ dead
  /\ \/ \E t \in Threads : ThreadStep(t)
     \/ FirstScan \/ ClientScan \/ ClientSendAT \/ ClientSetLed \/ EventLoop
     \/ \E t \in Threads, a \in asked :
          (\E mac \in MACs : ScanResponse(t, a, mac)) \/ Success(t, a) \/ Failure(t, a)
     \/ ServeRemote

RadioSpec == RadioInit /\ [][RadioNext]_radioVars

(* The threads run and time passes; the radio need not answer. *)
FairRadioSpec ==
  /\ RadioSpec
  /\ \A t \in Threads : WF_radioVars(~ dead /\ ThreadStep(t))
  /\ WF_radioVars(~ dead /\ (FirstScan \/ ServeRemote))
  /\ WF_radioVars(~ dead /\ EventLoop)

-----------------------------------------------------------------------------
(* Once the queued calls have run and no remote is being initialised, the model
   knows the remotes of the radio, and besides them only remotes that network.json
   held (addRemote, removeRemote and the calls they queue). *)
ModelFollowsRadio == queued = <<>> => (Known \ Adding) \subseteq model /\ model \subseteq Known \cup Loaded

(* _scanCmd denotes the request of the scan as long as the daemon runs: its slot is
   never given to another command, so that every scan is sent (scanNetwork). *)
ScanStaysAlive ==
  scanCmd # NoHandle /\ ~ dead => ValidHandle(scanCmd) /\ table[SlotOf(scanCmd)].command = "ND"

(* A thread that waits for a free request gets one, although the scan keeps its own
   and a remote may never answer (the loop of prepareXBeeATCmd). *)
CommandsGetThrough == \A t \in Threads : Busy(t) ~> ~ Busy(t) \/ dead

(* A message for a remote is taken by the XBee thread, which serves one remote a
   tick and may be kept by a full table (standardRunTick). *)
MessagesAreTaken == \A mac \in MACs : mac \in waiting ~> mac \notin waiting \/ dead

=============================================================================
