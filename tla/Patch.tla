------------------------------- MODULE Patch -------------------------------
(***************************************************************************)
(* The patch of VPDeamon (model/patch.cpp): the links between the names of *)
(* the real remotes and the names of the virtual remotes and groups, with  *)
(* the part of the virtual network (model/virtualnetwork.cpp) that every   *)
(* patch handler calls before it returns: the elements that exist and the  *)
(* slaves of the groups.                                                   *)
(*                                                                         *)
(* All these handlers run on the Qt main thread.  Patch's QMutex is not    *)
(* recursive; it is shared with the XBee thread, whose only use of it      *)
(* (copying one list, Patch::fastTriggerRemote) never holds it across a    *)
(* step.  A handler is cut into steps where another thread can run.        *)
(***************************************************************************)
EXTENDS Naturals, Sequences, SequencesExt

CONSTANTS
  Remotes,        \* names of remotes; a name can be linked before it exists
  Virtuals,       \* names of virtual remotes and groups
  None,           \* no name
  KeyOrder,       \* the remote names in the order of the keys of a QJsonObject
  MayDisconnectAll,  \* clients call disconnectRemote and disconnectVirtual
  MayRename,      \* clients call rename() on virtual remotes and groups
  MayCrash        \* the daemon can crash and be started again

ASSUME KeyOrderAssumption ==
  /\ KeyOrder \in Seq(Remotes)
  /\ \A r \in Remotes : Contains(KeyOrder, r)
  /\ \A i, j \in 1..Len(KeyOrder) : KeyOrder[i] = KeyOrder[j] => i = j

ASSUME NoneAssumption == None \notin Remotes /\ None \notin Virtuals

ASSUME SwitchAssumption ==
  /\ MayDisconnectAll \in BOOLEAN
  /\ MayRename \in BOOLEAN
  /\ MayCrash \in BOOLEAN

VARIABLES
  remoteToVirtual,  \* QMap: the virtual names linked to a remote name
  virtualToRemote,  \* QMap: the remote names linked to a virtual name
  jsonData,         \* the arrays of the Patch node, as saved in network.json
  kind,             \* what exists in VirtualNet under a name
  slaves,           \* VirtualGroup::_slaves of the groups
  mutex,            \* TRUE while the main thread holds Patch::mutex
  call              \* the patch handler the main thread is executing

patchVars == <<remoteToVirtual, virtualToRemote, jsonData, kind, slaves, mutex, call>>

Kinds == {"none", "remote", "group"}

(* A key that is absent from a QMap is a name whose list is empty: the code
   erases an entry as soon as its list becomes empty. *)
NoLinks == /\ remoteToVirtual = [r \in Remotes |-> <<>>]
           /\ virtualToRemote = [v \in Virtuals |-> <<>>]
           /\ jsonData = [r \in Remotes |-> <<>>]

(* The handler the main thread is in, its arguments, and what its loop has left. *)
CallType ==
  [at : {"idle"}, r : {None}, v : {None}, todo : {<<>>}]
    \cup [at : {"connecting", "disconnecting"}, r : Remotes, v : Virtuals, todo : {<<>>}]
    \cup [at : {"remoteLinks", "blocked"}, r : Remotes, v : {None}, todo : Seq(Virtuals)]
    \cup [at : {"virtualLinks", "blocked"}, r : {None}, v : Virtuals, todo : Seq(Remotes)]
    \cup [at : {"loading"}, r : {None}, v : {None}, todo : Seq(Remotes)]

Handling(at, r, v, todo) == [at |-> at, r |-> r, v |-> v, todo |-> todo]

(* No handler runs: the main thread is in its event loop. *)
Idle == Handling("idle", None, None, <<>>)

PatchInit ==
  /\ NoLinks
  /\ kind = [v \in Virtuals |-> "none"]
  /\ slaves = [v \in Virtuals |-> <<>>]
  /\ mutex = FALSE
  /\ call = Idle

-----------------------------------------------------------------------------
(* VirtualGroup *)

(* Mutant: the list is refreshed only while it is empty. *)
MutUpdateFromPatch(own, patched) == IF own = <<>> THEN patched ELSE own

(* VirtualGroup::updateFromPatch: the list is replaced only when its size
   differs from the size of the patch's list. *)
UpdateFromPatch(own, patched) == IF Len(own) # Len(patched) THEN patched ELSE own

(* VirtualGroup::removeSlave, which is also what a new link calls. *)
RemoveSlave(own, r, patched) == UpdateFromPatch(RemoveFirst(own, r), patched)

(* The element v hears that its link to r changed. *)
Notified(v, r, patched) ==
  IF kind[v] = "group" THEN [slaves EXCEPT ![v] = RemoveSlave(@, r, patched)] ELSE slaves

-----------------------------------------------------------------------------
(* Patch::addLink *)

(* Mutant: addEntry without its contains() test. *)
MutConnect(r, v) ==
  /\ call = Idle
  /\ Len(remoteToVirtual[r]) < 3
  /\ remoteToVirtual' = [remoteToVirtual EXCEPT ![r] = Append(@, v)]
  /\ virtualToRemote' = [virtualToRemote EXCEPT ![v] = Append(@, r)]
  /\ call' = Handling("connecting", r, v, <<>>)
  /\ UNCHANGED <<jsonData, kind, slaves, mutex>>

(* Patch::addEntry up to its notification; the mutex is not taken. *)
Connect(r, v) ==
  /\ call = Idle
  /\ ~ Contains(remoteToVirtual[r], v)
  /\ remoteToVirtual' = [remoteToVirtual EXCEPT ![r] = Append(@, v)]
  /\ IF Contains(virtualToRemote[v], r)
     THEN UNCHANGED <<virtualToRemote, call>>
     ELSE /\ virtualToRemote' = [virtualToRemote EXCEPT ![v] = Append(@, r)]
          /\ call' = Handling("connecting", r, v, <<>>)
  /\ UNCHANGED <<jsonData, kind, slaves, mutex>>

(* The notification that ends addEntry, then the JSON update of addLink. *)
ConnectNotify ==
  /\ call.at = "connecting"
  /\ ~ mutex
  /\ slaves' = Notified(call.v, call.r, virtualToRemote[call.v])
  /\ jsonData' = [jsonData EXCEPT ![call.r] = Append(@, call.v)]
  /\ call' = Idle
  /\ UNCHANGED <<remoteToVirtual, virtualToRemote, kind, mutex>>

-----------------------------------------------------------------------------
(* Patch::removeLink *)

(* The critical section of removeLink. *)
Disconnect(r, v) ==
  /\ call = Idle
  /\ ~ mutex
  /\ Contains(remoteToVirtual[r], v)
  /\ remoteToVirtual' = [remoteToVirtual EXCEPT ![r] = RemoveFirst(@, v)]
  /\ jsonData' = [jsonData EXCEPT ![r] = RemoveFirst(@, v)]
  /\ virtualToRemote' = [virtualToRemote EXCEPT ![v] = RemoveFirst(@, r)]
  /\ call' = IF virtualToRemote[v] = <<>> THEN Idle ELSE Handling("disconnecting", r, v, <<>>)
  /\ UNCHANGED <<kind, slaves, mutex>>

(* After the unlock, the element is told. *)
DisconnectNotify ==
  /\ call.at = "disconnecting"
  /\ ~ mutex
  /\ slaves' = Notified(call.v, call.r, virtualToRemote[call.v])
  /\ call' = Idle
  /\ UNCHANGED <<remoteToVirtual, virtualToRemote, jsonData, kind, mutex>>

-----------------------------------------------------------------------------
(* Patch::removeRemoteLinks and Patch::removeVirtualLinks.  Both hold the
   mutex while they notify an existing element, and the notification ends in
   Patch::remoteList, which locks the same mutex: the call then waits for
   itself ("blocked"). *)

AfterNotify(v) == IF kind[v] = "none" THEN call.at ELSE "blocked"

DisconnectRemote(r) ==
  /\ MayDisconnectAll
  /\ call = Idle
  /\ ~ mutex
  /\ remoteToVirtual[r] # <<>>
  /\ mutex' = TRUE
  /\ call' = Handling("remoteLinks", r, None, remoteToVirtual[r])
  /\ UNCHANGED <<remoteToVirtual, virtualToRemote, jsonData, kind, slaves>>

(* One turn of the loop of removeRemoteLinks. *)
DisconnectRemoteStep ==
  /\ call.at = "remoteLinks"
  /\ call.todo # <<>>
  /\ LET v == Head(call.todo)
         left == RemoveFirst(virtualToRemote[v], call.r)
     IN /\ virtualToRemote' = [virtualToRemote EXCEPT ![v] = left]
        /\ slaves' = Notified(v, call.r, left)
        /\ call' = [call EXCEPT !.at = AfterNotify(v), !.todo = Tail(@)]
  /\ UNCHANGED <<remoteToVirtual, jsonData, kind, mutex>>

(* Mutant: the entry of the remote survives. *)
MutDisconnectRemoteEnd ==
  /\ call.at = "remoteLinks"
  /\ call.todo = <<>>
  /\ jsonData' = [jsonData EXCEPT ![call.r] = <<>>]
  /\ mutex' = FALSE
  /\ call' = Idle
  /\ UNCHANGED <<remoteToVirtual, virtualToRemote, kind, slaves>>

(* The end of removeRemoteLinks. *)
DisconnectRemoteEnd ==
  /\ call.at = "remoteLinks"
  /\ call.todo = <<>>
  /\ jsonData' = [jsonData EXCEPT ![call.r] = <<>>]
  /\ remoteToVirtual' = [remoteToVirtual EXCEPT ![call.r] = <<>>]
  /\ mutex' = FALSE
  /\ call' = Idle
  /\ UNCHANGED <<virtualToRemote, kind, slaves>>

DisconnectVirtual(v) ==
  /\ MayDisconnectAll
  /\ call = Idle
  /\ ~ mutex
  /\ virtualToRemote[v] # <<>>
  /\ mutex' = TRUE
  /\ call' = Handling("virtualLinks", None, v, virtualToRemote[v])
  /\ UNCHANGED <<remoteToVirtual, virtualToRemote, jsonData, kind, slaves>>

(* Mutant: the JSON array keeps the link. *)
MutDisconnectVirtualStep ==
  /\ call.at = "virtualLinks"
  /\ call.todo # <<>>
  /\ LET r == Head(call.todo)
     IN /\ remoteToVirtual' = [remoteToVirtual EXCEPT ![r] = RemoveFirst(@, call.v)]
        /\ call' = [call EXCEPT !.at = AfterNotify(call.v), !.todo = Tail(@)]
        /\ slaves' = Notified(call.v, r, virtualToRemote[call.v])
  /\ UNCHANGED <<virtualToRemote, jsonData, kind, mutex>>

(* One turn of the loop of removeVirtualLinks: the list of v itself stays
   whole until the end of the loop. *)
DisconnectVirtualStep ==
  /\ call.at = "virtualLinks"
  /\ call.todo # <<>>
  /\ LET r == Head(call.todo)
         linked == Contains(remoteToVirtual[r], call.v)
     IN /\ remoteToVirtual' = [remoteToVirtual EXCEPT ![r] = RemoveFirst(@, call.v)]
        /\ jsonData' = IF linked THEN [jsonData EXCEPT ![r] = RemoveFirst(@, call.v)] ELSE jsonData
        /\ IF remoteToVirtual[r] = <<>>
           THEN /\ call' = [call EXCEPT !.todo = Tail(@)]
                /\ UNCHANGED slaves
           ELSE /\ call' = [call EXCEPT !.at = AfterNotify(call.v), !.todo = Tail(@)]
                /\ slaves' = Notified(call.v, r, virtualToRemote[call.v])
  /\ UNCHANGED <<virtualToRemote, kind, mutex>>

(* The end of removeVirtualLinks. *)
DisconnectVirtualEnd ==
  /\ call.at = "virtualLinks"
  /\ call.todo = <<>>
  /\ virtualToRemote' = [virtualToRemote EXCEPT ![call.v] = <<>>]
  /\ mutex' = FALSE
  /\ call' = Idle
  /\ UNCHANGED <<remoteToVirtual, jsonData, kind, slaves>>

-----------------------------------------------------------------------------
(* VirtualNetwork: the elements a name can stand for.  They live on the main
   thread, between two patch handlers. *)

(* VirtualNetwork::addRemote *)
AddRemote(v) ==
  /\ call = Idle
  /\ kind[v] = "none"
  /\ kind' = [kind EXCEPT ![v] = "remote"]
  /\ UNCHANGED <<remoteToVirtual, virtualToRemote, jsonData, slaves, mutex, call>>

(* VirtualNetwork::addGroup: a new group has no slaves until the
   updateFromPatch that ends createSubNode. *)
AddGroup(v) ==
  /\ call = Idle
  /\ kind[v] = "none"
  /\ kind' = [kind EXCEPT ![v] = "group"]
  /\ slaves' = [slaves EXCEPT ![v] = UpdateFromPatch(<<>>, virtualToRemote[v])]
  /\ UNCHANGED <<remoteToVirtual, virtualToRemote, jsonData, mutex, call>>

(* VirtualNetwork::removeRemote and removeGroup; the links stay. *)
RemoveElement(v) ==
  /\ call = Idle
  /\ kind[v] # "none"
  /\ kind' = [kind EXCEPT ![v] = "none"]
  /\ slaves' = [slaves EXCEPT ![v] = <<>>]
  /\ UNCHANGED <<remoteToVirtual, virtualToRemote, jsonData, mutex, call>>

(* JSonNode::rename of a virtual remote or group: the patch is not told. *)
Rename(v, w) ==
  /\ MayRename
  /\ call = Idle
  /\ kind[v] # "none"
  /\ kind[w] = "none"
  /\ kind' = [kind EXCEPT ![v] = "none", ![w] = kind[v]]
  /\ slaves' = [slaves EXCEPT ![v] = <<>>, ![w] = slaves[v]]
  /\ UNCHANGED <<remoteToVirtual, virtualToRemote, jsonData, mutex, call>>

-----------------------------------------------------------------------------
(* A crash, then a restart from the cache files, written since the last change
   (the delay of the save timer is not modelled here).  NetworkModel is loaded
   first, while there is no EventModel to notify; the groups are created after
   that and take their slaves from the patch.  Nothing reads slaves in between:
   the variable keeps the lists the groups had at the crash. *)

Crash ==
  /\ MayCrash
  /\ call = Idle
  /\ remoteToVirtual' = [r \in Remotes |-> <<>>]
  /\ virtualToRemote' = [v \in Virtuals |-> <<>>]
  /\ call' = Handling("loading", None, None, KeyOrder)
  /\ UNCHANGED <<jsonData, kind, slaves, mutex>>

(* Patch::parseArray of the next key: addEntry for every name of its array. *)
ParseArray ==
  /\ call.at = "loading"
  /\ call.todo # <<>>
  /\ LET r == Head(call.todo)
     IN /\ remoteToVirtual' = [remoteToVirtual EXCEPT ![r] = jsonData[r]]
        /\ virtualToRemote' = [v \in Virtuals |->
              IF Contains(jsonData[r], v) THEN Append(virtualToRemote[v], r)
                                          ELSE virtualToRemote[v]]
  /\ call' = [call EXCEPT !.todo = Tail(@)]
  /\ UNCHANGED <<jsonData, kind, slaves, mutex>>

(* VirtualNetwork::createSubNode of every saved group, up to updateFromPatch. *)
LoadVirtualNet ==
  /\ call.at = "loading"
  /\ call.todo = <<>>
  /\ slaves' = [v \in Virtuals |->
                  IF kind[v] = "group" THEN UpdateFromPatch(<<>>, virtualToRemote[v]) ELSE <<>>]
  /\ call' = Idle
  /\ UNCHANGED <<remoteToVirtual, virtualToRemote, jsonData, kind, mutex>>

-----------------------------------------------------------------------------

PatchNext ==
  \/ \E r \in Remotes, v \in Virtuals : Connect(r, v) \/ Disconnect(r, v)
  \/ ConnectNotify
  \/ DisconnectNotify
  \/ \E r \in Remotes : DisconnectRemote(r)
  \/ DisconnectRemoteStep
  \/ DisconnectRemoteEnd
  \/ \E v \in Virtuals : DisconnectVirtual(v)
  \/ DisconnectVirtualStep
  \/ DisconnectVirtualEnd
  \/ \E v \in Virtuals : AddRemote(v) \/ AddGroup(v) \/ RemoveElement(v)
  \/ \E v, w \in Virtuals : Rename(v, w)
  \/ Crash
  \/ ParseArray
  \/ LoadVirtualNet

(* A handler that has started goes on: the main thread is only ever stopped by
   the mutex. *)
HandlerStep ==
  \/ ConnectNotify
  \/ DisconnectNotify
  \/ DisconnectRemoteStep
  \/ DisconnectRemoteEnd
  \/ DisconnectVirtualStep
  \/ DisconnectVirtualEnd
  \/ ParseArray
  \/ LoadVirtualNet

PatchSpec == PatchInit /\ [][PatchNext]_patchVars

FairPatchSpec == PatchSpec /\ WF_patchVars(HandlerStep)

-----------------------------------------------------------------------------
(* Properties *)

(* The maps and arrays hold lists of names, and the handler in progress is one of
   the patch's with arguments of its kind. *)
TypeOK ==
  /\ remoteToVirtual \in [Remotes -> Seq(Virtuals)]
  /\ virtualToRemote \in [Virtuals -> Seq(Remotes)]
  /\ jsonData \in [Remotes -> Seq(Virtuals)]
  /\ kind \in [Virtuals -> Kinds]
  /\ slaves \in [Virtuals -> Seq(Remotes)]
  /\ mutex \in BOOLEAN
  /\ call \in CallType

NoRepeats(s) == \A i, j \in 1..Len(s) : s[i] = s[j] => i = j

(* The two maps of the patch (patch.h, _remoteToVirtual and _virtualToRemote)
   describe the same links whenever the mutex is free: what fastTriggerRemote
   routes is what remoteList answers. *)
LinksInverse ==
  ~ mutex =>
    \A r \in Remotes, v \in Virtuals :
      Contains(remoteToVirtual[r], v) <=> Contains(virtualToRemote[v], r)

(* No link is ever recorded twice (the contains() tests of addEntry): one press
   of a button triggers an element once, and removeOne deletes the whole link. *)
NoDoubleLink ==
  /\ \A r \in Remotes : NoRepeats(remoteToVirtual[r])
  /\ \A v \in Virtuals : NoRepeats(virtualToRemote[v])

(* The arrays that end up in network.json are the links the daemon uses, in the
   same order, whenever the main thread is back in its event loop (which is when
   the save timer can fire). *)
JsonMirrorsLinks == call = Idle => jsonData = remoteToVirtual

(* A group's own list of slaves is the patch's list for its name, although
   updateFromPatch compares nothing but the sizes of the two. *)
SlavesFollowPatch ==
  call = Idle =>
    \A v \in Virtuals : kind[v] = "group" => slaves[v] = virtualToRemote[v]

(* patch.cpp:66, "Delete all the links from a remote": a call of disconnectRemote
   ends with the links gone. *)
DisconnectRemoteCompletes ==
  \A r \in Remotes :
    (call.at = "remoteLinks" /\ call.r = r) ~> (call = Idle /\ remoteToVirtual[r] = <<>>)

=============================================================================
