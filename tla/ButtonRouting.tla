--------------------------- MODULE ButtonRouting ---------------------------
(***************************************************************************)
(* The way of a button from a real remote to the virtual remotes and       *)
(* groups (Remote::setButtonState of model/networkmodel.cpp,               *)
(* Patch::fastTriggerRemote, VirtualNetwork::fastTrigger), which the XBee  *)
(* thread goes while the main thread changes links and elements.           *)
(*                                                                         *)
(* One button is modelled (Up; Down, Left and Right are the same).  The    *)
(* values of an element are written by two threads: by the XBee thread     *)
(* when a button changes, by the main thread when the patch tells the      *)
(* element that its links changed and it reads the state of its remote     *)
(* again.  The remote itself learns the new state only after the elements. *)
(***************************************************************************)
EXTENDS Patch

CONSTANT Present   \* the remotes that exist in RealNet; the others are only names

ASSUME PresentAssumption == Present \subseteq Remotes

VARIABLES
  button,   \* Up of the real remotes
  press,    \* the change of a button the XBee thread is handling
  shown,    \* Up of the virtual remote, or of the GlobalRemote of the group, of a name
  doubt     \* history: the last write of shown[v] did not follow its remote

routingVars == <<patchVars, button, press, shown, doubt>>

States == {"up", "down"}

NoPress == [r |-> None, to |-> "up", todo |-> <<>>]

RoutingInit ==
  /\ PatchInit
  /\ button = [r \in Present |-> "up"]
  /\ press = NoPress
  /\ shown = [v \in Virtuals |-> "NA"]
  /\ doubt = [v \in Virtuals |-> FALSE]

-----------------------------------------------------------------------------
(* The main thread *)

(* Patch::remoteList: the places, among the links, of the remotes that exist. *)
RemoteList(links) == {i \in 1..Len(links) : links[i] \in Present}

(* VirtualRemote::updateVirtualRemote: the first of them. *)
UpdateVirtualRemote(links) ==
  IF RemoteList(links) = {} THEN "NA" ELSE button[links[Min(RemoteList(links))]]

(* The element of the name v, if there is one, reads its remote.  It may be wrong
   about it when a press is under way, or when the group does not have the slaves
   the patch gives it. *)
Refresh(v, links) ==
  IF kind'[v] = "none" THEN UNCHANGED <<shown, doubt>>
  ELSE /\ shown' = [shown EXCEPT ![v] = UpdateVirtualRemote(links)]
       /\ doubt' = [doubt EXCEPT ![v] =
            press # NoPress \/ (kind'[v] = "group" /\ slaves'[v] # links)]

RoutingNotify ==
  /\ ConnectNotify \/ DisconnectNotify
  /\ Refresh(call.v, virtualToRemote[call.v])
  /\ UNCHANGED <<button, press>>

(* The handlers of the patch that write nothing an element shows: the ones that
   would tell an element of a lost link block before they reach its values. *)
RoutingPatch ==
  /\ \/ \E r \in Remotes, v \in Virtuals : Connect(r, v) \/ Disconnect(r, v)
     \/ \E r \in Remotes : DisconnectRemote(r)
     \/ DisconnectRemoteStep
     \/ DisconnectRemoteEnd
     \/ \E v \in Virtuals : DisconnectVirtual(v)
     \/ DisconnectVirtualStep
     \/ DisconnectVirtualEnd
     \/ ParseArray
  /\ UNCHANGED <<button, press, shown, doubt>>

NewElement(v) ==
  /\ AddRemote(v) \/ AddGroup(v)
  /\ Refresh(v, virtualToRemote[v])
  /\ UNCHANGED <<button, press>>

OldElement(v) ==
  /\ RemoveElement(v)
  /\ shown' = [shown EXCEPT ![v] = "NA"]
  /\ doubt' = [doubt EXCEPT ![v] = FALSE]
  /\ UNCHANGED <<button, press>>

(* The element takes its state along to a name with other links. *)
RenamedElement(v, w) ==
  /\ Rename(v, w)
  /\ shown' = [shown EXCEPT ![v] = "NA", ![w] = shown[v]]
  /\ doubt' = [doubt EXCEPT ![v] = FALSE, ![w] = TRUE]
  /\ UNCHANGED <<button, press>>

(* VirtualRemote::setValue: a client sets the button of an element itself. *)
SetButton(v, to) ==
  /\ call = Idle
  /\ kind[v] # "none"
  /\ shown' = [shown EXCEPT ![v] = to]
  /\ doubt' = [doubt EXCEPT ![v] = TRUE]
  /\ UNCHANGED <<patchVars, button, press>>

(* Both threads end; the state of the remotes is in network.json. *)
RoutingCrash ==
  /\ Crash
  /\ press' = NoPress
  /\ UNCHANGED <<button, shown, doubt>>

RoutingLoad ==
  /\ LoadVirtualNet
  /\ shown' = [v \in Virtuals |->
                 IF kind[v] = "none" THEN "NA" ELSE UpdateVirtualRemote(virtualToRemote[v])]
  /\ doubt' = [v \in Virtuals |-> FALSE]
  /\ UNCHANGED <<button, press>>

-----------------------------------------------------------------------------
(* The XBee thread *)

(* Remote::setButtonState, up to the copy of the names in fastTriggerRemote. *)
Press(r, to) ==
  /\ press = NoPress
  /\ call.at # "loading"
  /\ ~ mutex
  /\ press' = [r |-> r, to |-> to, todo |-> remoteToVirtual[r]]
  /\ UNCHANGED <<patchVars, button, shown, doubt>>

(* Mutant: a group forwards nothing to its GlobalRemote. *)
MutListens(v, r) == kind[v] = "remote"

(* VirtualNetwork::fastTrigger finds the element; a group forwards the events of
   its slaves only. *)
Listens(v, r) == kind[v] = "remote" \/ (kind[v] = "group" /\ Contains(slaves[v], r))

(* One turn of the loop of VirtualNetwork::fastTrigger.  The names are a copy: the
   link may be gone. *)
Route ==
  /\ press.todo # <<>>
  /\ LET v == Head(press.todo)
     IN IF Listens(v, press.r)
        THEN /\ shown' = [shown EXCEPT ![v] = press.to]
             /\ doubt' = [doubt EXCEPT ![v] = ~ Contains(virtualToRemote[v], press.r)]
        ELSE UNCHANGED <<shown, doubt>>
  /\ press' = [press EXCEPT !.todo = Tail(@)]
  /\ UNCHANGED <<patchVars, button>>

(* The end of setButtonState: the remote's own value. *)
PressEnd ==
  /\ press # NoPress
  /\ press.todo = <<>>
  /\ button' = [button EXCEPT ![press.r] = press.to]
  /\ press' = NoPress
  /\ UNCHANGED <<patchVars, shown, doubt>>

-----------------------------------------------------------------------------

RoutingNext ==
  \/ RoutingPatch
  \/ RoutingNotify
  \/ \E v \in Virtuals : NewElement(v) \/ OldElement(v)
  \/ \E v, w \in Virtuals : RenamedElement(v, w)
  \/ \E v \in Virtuals, to \in States : SetButton(v, to)
  \/ RoutingCrash
  \/ RoutingLoad
  \/ \E r \in Present, to \in States : Press(r, to)
  \/ Route
  \/ PressEnd

RoutingSpec == RoutingInit /\ [][RoutingNext]_routingVars

-----------------------------------------------------------------------------
(* Properties *)

(* When both threads are at rest, an element with one remote shows the state of
   this remote and an element without any shows NA, whatever order the presses,
   the links and the elements came in.  The exceptions are the ones of doubt: a
   client set the button itself, the element was renamed, or the last write
   overlapped a press (of a remote that was being linked or had been unlinked). *)
ShowsRemote ==
  (call = Idle /\ press = NoPress) =>
    \A v \in Virtuals :
      LET places == RemoteList(virtualToRemote[v])
      IN kind[v] # "none" /\ ~ doubt[v] =>
           /\ places = {} => shown[v] = "NA"
           /\ \A i \in places : places = {i} => shown[v] = button[virtualToRemote[v][i]]

=============================================================================
