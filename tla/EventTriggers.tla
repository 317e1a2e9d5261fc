--------------------------- MODULE EventTriggers ---------------------------
(***************************************************************************)
(* The events of one button of a virtual remote (Event of                  *)
(* model/virtualnetwork.cpp, EventTrigger of model/eventtrigger.cpp) and   *)
(* the MIDI ports they are sent to (model/midiinterface.cpp).              *)
(*                                                                         *)
(* A client defines an event for a state of the button, "any" included.  A *)
(* MIDI definition names its port; the callback that sends the message     *)
(* holds the address of the port object, which the trigger looks up when   *)
(* the event is added and whenever MidiInterface opens or closes a port.   *)
(* Only output ports are modelled: nothing looks up an input port.         *)
(***************************************************************************)
EXTENDS Naturals, Sequences, SequencesExt

CONSTANTS
  Triggers,    \* what a definition can be added for: any, down, up
  MidiDefs,    \* definitions of MIDI messages
  KeyDefs,     \* definitions of keystrokes
  PortNames,
  PortOf,      \* the port a MIDI definition names
  Devices,     \* what a port can be connected to
  MaxOpens,    \* bound of this model: ports opened since the daemon started
  MaxSaved,    \* bound of this model: the length of the array of a trigger
  None,        \* no device: the port is not in the JSON
  NoEntry      \* the map has no entry for the definition

ASSUME EventsAssumption ==
  /\ PortOf \in [MidiDefs -> PortNames]
  /\ MidiDefs \cap KeyDefs = {}
  /\ None \notin Devices /\ NoEntry \notin Nat
  /\ MaxOpens \in Nat /\ MaxSaved \in Nat

VARIABLES
  exists,      \* the virtual remote exists
  callbacks,   \* _callbacks of the triggers: the port in the callback of a definition
  saved,       \* the arrays of the Event node in the JSON
  registered,  \* _midiEventTriggers
  ports,       \* _ports: the port objects that are open, oldest first
  savedPorts,  \* the ports in the JSON of the Midi node
  opened,      \* the port objects made so far; their numbers are their addresses
  renamed      \* history: a port was renamed since the triggers were last updated

eventVars == <<exists, callbacks, saved, registered, ports, savedPorts, opened, renamed>>

Defs == MidiDefs \cup KeyDefs

(* The address in the callback of a MIDI definition; Null stands for a null pointer
   and for the callback of a keystroke, which has no port. *)
Null == 0
Objects == 1..MaxOpens

NoEvents == [t \in Triggers |-> [d \in Defs |-> NoEntry]]

EventsInit ==
  /\ exists = FALSE
  /\ callbacks = NoEvents
  /\ saved = [t \in Triggers |-> <<>>]
  /\ registered = {}
  /\ ports = <<>>
  /\ savedPorts = [n \in PortNames |-> None]
  /\ opened = 0
  /\ renamed = FALSE

-----------------------------------------------------------------------------
(* The place of the oldest port that has the name, if there is one. *)
First(open, n) == {i \in 1..Len(open) : open[i].name = n /\ \A j \in 1..(i - 1) : open[j].name # n}

(* MidiInterface::portByName *)
PortByName(open, n) ==
  IF First(open, n) = {} THEN Null ELSE open[CHOOSE i \in First(open, n) : TRUE].object

(* Mutant: a callback that was set is left as it is. *)
MutUpdateEventTrigger(d, cb, open) ==
  IF d \in MidiDefs /\ cb = Null THEN PortByName(open, PortOf[d]) ELSE cb

(* EventTrigger::updateEventTrigger of one definition: the callback is replaced
   when the port exists and stays, with the address it has, when it does not. *)
UpdateEventTrigger(d, cb, open) ==
  IF d \in MidiDefs /\ PortByName(open, PortOf[d]) # Null THEN PortByName(open, PortOf[d]) ELSE cb

(* MidiInterface::updateEventTriggers *)
UpdateEventTriggers(open) ==
  [t \in Triggers |-> [d \in Defs |->
     IF t \in registered /\ callbacks[t][d] # NoEntry
     THEN UpdateEventTrigger(d, callbacks[t][d], open) ELSE callbacks[t][d]]]

-----------------------------------------------------------------------------
(* Event *)

HasMidi(entries) == \E d \in MidiDefs : entries[d] # NoEntry

(* VirtualNetwork::addRemote and removeRemote: the triggers of a remote that is
   removed leave the list of the MIDI interface. *)
AddRemote ==
  /\ ~ exists
  /\ exists' = TRUE
  /\ UNCHANGED <<callbacks, saved, registered, ports, savedPorts, opened, renamed>>

RemoveRemote ==
  /\ exists
  /\ exists' = FALSE
  /\ callbacks' = NoEvents
  /\ saved' = [t \in Triggers |-> <<>>]
  /\ registered' = {}
  /\ UNCHANGED <<ports, savedPorts, opened, renamed>>

(* EventTrigger::addEvent registers the trigger of a MIDI definition. *)
Register(t, d) == IF d \in MidiDefs THEN registered \cup {t} ELSE registered

(* Mutant: the definition is saved only when the trigger is new. *)
MutSave(t, d) == IF saved[t] = <<>> THEN <<d>> ELSE saved[t]

(* The array Event::addEvent writes; a definition that is added again is in it twice. *)
Save(t, d) == Append(saved[t], d)

(* Event::addEvent: an entry that exists is overwritten with a null pointer
   before the port is looked up.  A definition updateEventTrigger cannot read
   leaves no entry and changes nothing. *)
AddEvent(t, d) ==
  /\ exists
  /\ Len(saved[t]) < MaxSaved
  /\ d \in Defs
  /\ callbacks' = [callbacks EXCEPT ![t][d] = UpdateEventTrigger(d, Null, ports)]
  /\ registered' = Register(t, d)
  /\ saved' = [saved EXCEPT ![t] = Save(t, d)]
  /\ UNCHANGED <<exists, ports, savedPorts, opened, renamed>>

(* Mutant: the trigger leaves the list with its first definition. *)
MutUnregister(t, d) == registered \ {t}

(* The end of EventTrigger::removeEvent: the trigger leaves the list of the MIDI
   interface with its last MIDI definition. *)
Unregister(t, d) ==
  IF d \in MidiDefs /\ ~ HasMidi([callbacks[t] EXCEPT ![d] = NoEntry])
  THEN registered \ {t} ELSE registered

(* Event::removeEvent: the definition is erased from a copy of the JSON array. *)
RemoveEvent(t, d) ==
  /\ exists
  /\ callbacks[t][d] # NoEntry
  /\ callbacks' = [callbacks EXCEPT ![t][d] = NoEntry]
  /\ registered' = Unregister(t, d)
  /\ UNCHANGED <<exists, saved, ports, savedPorts, opened, renamed>>

-----------------------------------------------------------------------------
(* MidiInterface *)

(* MidiInterface::createSubNode *)
NewPort(n, dev) == [object |-> opened + 1, name |-> n, device |-> dev]

(* MidiInterface::addPort: a device is refused that another port has; a name is
   not. *)
AddPort(n, dev) ==
  /\ opened < MaxOpens
  /\ \A i \in 1..Len(ports) : ports[i].device # dev
  /\ opened' = opened + 1
  /\ ports' = Append(ports, NewPort(n, dev))
  /\ savedPorts' = [savedPorts EXCEPT ![n] = dev]
  /\ callbacks' = UpdateEventTriggers(ports')
  /\ renamed' = FALSE
  /\ UNCHANGED <<exists, saved, registered>>

FirstPort(n) == CHOOSE i \in First(ports, n) : TRUE

(* MidiInterface::removePort *)
RemovePort(n) ==
  /\ First(ports, n) # {}
  /\ ports' = RemoveAt(ports, FirstPort(n))
  /\ savedPorts' = [savedPorts EXCEPT ![n] = None]
  /\ callbacks' = UpdateEventTriggers(ports')
  /\ renamed' = FALSE
  /\ UNCHANGED <<exists, saved, registered, opened>>

(* MidiPort::setValue of port; the device may be refused, and the port is then
   connected to nothing. *)
SetPort(n, dev) ==
  /\ First(ports, n) # {}
  /\ ports' = [ports EXCEPT ![FirstPort(n)].device = dev]
  /\ savedPorts' = [savedPorts EXCEPT ![n] = dev]
  /\ UNCHANGED <<exists, callbacks, saved, registered, opened, renamed>>

(* JSonNode::rename of a port: the triggers are not told. *)
RenamePort(n, m) ==
  /\ First(ports, n) # {}
  /\ savedPorts[m] = None
  /\ ports' = [ports EXCEPT ![FirstPort(n)].name = m]
  /\ savedPorts' = [savedPorts EXCEPT ![n] = None, ![m] = ports[FirstPort(n)].device]
  /\ renamed' = TRUE
  /\ UNCHANGED <<exists, callbacks, saved, registered, opened>>

-----------------------------------------------------------------------------
(* A crash, and the load of the JSON as it was: the Midi node first, then the
   virtual remotes, whose arrays are added one definition after the other. *)

Saved == {n \in PortNames : savedPorts[n] # None}

(* The names in the order in which their ports are made; the order of the keys of
   a QJsonObject is one of them. *)
LoadOrders ==
  {order \in UNION {[1..k -> Saved] : k \in 0..MaxOpens} :
     /\ \A n \in Saved : \E i \in DOMAIN order : order[i] = n
     /\ \A i, j \in DOMAIN order : order[i] = order[j] => i = j}

Restart(order) ==
  /\ ports' = [i \in DOMAIN order |->
                 [object |-> i, name |-> order[i], device |-> savedPorts[order[i]]]]
  /\ opened' = Len(order)
  /\ callbacks' = [t \in Triggers |-> [d \in Defs |->
                     IF Contains(saved[t], d) THEN UpdateEventTrigger(d, Null, ports') ELSE NoEntry]]
  /\ registered' = {t \in Triggers : \E d \in MidiDefs : Contains(saved[t], d)}
  /\ renamed' = FALSE
  /\ UNCHANGED <<exists, saved, savedPorts>>

-----------------------------------------------------------------------------

EventsNext ==
  \/ AddRemote
  \/ RemoveRemote
  \/ \E t \in Triggers, d \in Defs : AddEvent(t, d) \/ RemoveEvent(t, d)
  \/ \E n \in PortNames, dev \in Devices : AddPort(n, dev) \/ SetPort(n, dev)
  \/ \E n \in PortNames : RemovePort(n)
  \/ \E n, m \in PortNames : RenamePort(n, m)
  \/ \E order \in LoadOrders : Restart(order)

EventsSpec == EventsInit /\ [][EventsNext]_eventVars

-----------------------------------------------------------------------------
(* Properties *)

(* The maps hold definitions with null pointers or addresses of ports that were
   made, and a MIDI message is the only thing that has an address. *)
EventsTypeOK ==
  /\ exists \in BOOLEAN
  /\ callbacks \in [Triggers -> [Defs -> {NoEntry, Null} \cup Objects]]
  /\ \A t \in Triggers, d \in KeyDefs : callbacks[t][d] \notin Objects
  /\ saved \in [Triggers -> Seq(Defs)]
  /\ registered \subseteq Triggers
  /\ ports \in Seq([object : Objects, name : PortNames, device : Devices])
  /\ savedPorts \in [PortNames -> Devices \cup {None}]
  /\ opened \in 0..MaxOpens
  /\ renamed \in BOOLEAN

(* The triggers the MIDI interface updates (_midiEventTriggers) are the ones that
   have a MIDI definition, after any sequence of additions and removals: none is
   missed when a port is opened, and none is left when it has been destroyed. *)
RegisteredIffMidi == registered = {t \in Triggers : HasMidi(callbacks[t])}

(* A MIDI event whose port is open is sent to this port, the oldest one of its
   name, whatever was opened and closed before the event was added or after: no
   address of a closed port is used while a port of the name is open.  A port that
   was renamed is known by its new name from the next open or close on. *)
EventsFollowPorts ==
  ~ renamed =>
    \A t \in Triggers, d \in MidiDefs :
      callbacks[t][d] # NoEntry /\ PortByName(ports, PortOf[d]) # Null =>
        callbacks[t][d] = PortByName(ports, PortOf[d])

(* Every event that is defined is in the JSON, so that a restart finds it. *)
EventsSaved ==
  \A t \in Triggers, d \in Defs : callbacks[t][d] # NoEntry => Contains(saved[t], d)

=============================================================================
