-------------------------- MODULE MainThreadProofs --------------------------
(***************************************************************************)
(* Theorems about three components of the Qt main thread that share no     *)
(* state: a telnet session, for any bounds on its lines, history and       *)
(* timers and any value that the memory of _histPos can hold; the cache    *)
(* file of a model, for any set of contents and any number of changes,     *)
(* edits, crashes and exits; the events of a button and the MIDI ports,    *)
(* for any set of definitions, ports and devices.                          *)
(***************************************************************************)
EXTENDS TelnetSession, JSonModel, EventTriggers, TLAPS

-----------------------------------------------------------------------------
(* The telnet session *)

(* lockInput and releaseInput *)
LEMMA LockTyped ==
  ASSUME SessionTypeOK, NEW r \in BOOLEAN, Lock(r)
  PROVE  /\ locked' \in BOOLEAN
         /\ shots' \in Nat
         /\ shots' > 0
<1>1. locked' \in BOOLEAN
  BY Zenon DEF Lock
<1>2. shots \in Nat /\ shots' = shots + 1
  BY DEF SessionTypeOK, Lock
<1> QED
  BY <1>1, <1>2

(* Every command locks the input. *)
LEMMA CommandLocks ==
  ASSUME CmdReceived
  PROVE  \E r \in BOOLEAN : Lock(r)
<1>1. ASSUME NEW m \in Modes, SwitchMode(m) PROVE \E r \in BOOLEAN : Lock(r)
  BY <1>1, Zenon DEF SwitchMode
<1>2. ASSUME NEW v \in BOOLEAN, SetVerbose(v) PROVE \E r \in BOOLEAN : Lock(r)
  <2>1. (v # verbose) \in BOOLEAN /\ Lock(v # verbose)
    BY <1>2, Zenon DEF SetVerbose
  <2> QED
    BY <2>1, Zenon
<1>3. ASSUME NEW f \in BOOLEAN, SetFriendlyCLI(f) PROVE \E r \in BOOLEAN : Lock(r)
  <2>1. (f # friendly) \in BOOLEAN /\ Lock(f # friendly)
    BY <1>3, Zenon DEF SetFriendlyCLI
  <2> QED
    BY <2>1, Zenon
<1>4. ASSUME DispatchCmd PROVE \E r \in BOOLEAN : Lock(r)
  <2>1. HasModel(mode) \in BOOLEAN
    BY DEF HasModel
  <2>2. Lock(HasModel(mode))
    BY <1>4, Zenon DEF DispatchCmd
  <2> QED
    BY <2>1, <2>2, Zenon
<1>5. ASSUME DispatchCall PROVE \E r \in BOOLEAN : Lock(r)
  BY <1>5, Zenon DEF DispatchCall
<1> QED
  BY <1>1, <1>2, <1>3, <1>4, <1>5, Zenon DEF CmdReceived

(* What a command changes keeps its type, and the input it locks has a timer. *)
LEMMA CommandTyped ==
  ASSUME SessionTypeOK, CmdReceived
  PROVE  /\ locked' \in BOOLEAN /\ shots' \in Nat /\ shots' > 0 /\ calls' \in Nat
         /\ mode' \in Modes /\ verbose' \in BOOLEAN /\ friendly' \in BOOLEAN
         /\ links' \in [Models -> Nat]
<1>1. locked' \in BOOLEAN /\ shots' \in Nat /\ shots' > 0
  BY LockTyped, CommandLocks
<1>2. calls' \in Nat
  <2>1. calls \in Nat
    BY DEF SessionTypeOK
  <2>2. calls' = calls \/ calls' = calls + 1
    BY Zenon DEF CmdReceived, SwitchMode, SetVerbose, SetFriendlyCLI, DispatchCmd, DispatchCall
  <2> QED
    BY <2>1, <2>2
<1>3. ASSUME NEW m \in Modes, SwitchMode(m)
      PROVE  mode' \in Modes /\ verbose' \in BOOLEAN /\ friendly' \in BOOLEAN /\ links' \in [Models -> Nat]
  BY <1>3 DEF SessionTypeOK, SwitchMode, Disconnected, HasModel
<1>4. ASSUME NEW v \in BOOLEAN, SetVerbose(v)
      PROVE  mode' \in Modes /\ verbose' \in BOOLEAN /\ friendly' \in BOOLEAN /\ links' \in [Models -> Nat]
  BY <1>4 DEF SessionTypeOK, SetVerbose, Connected, Disconnected, HasModel
<1>5. ASSUME NEW f \in BOOLEAN, SetFriendlyCLI(f)
      PROVE  mode' \in Modes /\ verbose' \in BOOLEAN /\ friendly' \in BOOLEAN /\ links' \in [Models -> Nat]
  BY <1>5 DEF SessionTypeOK, SetFriendlyCLI
<1>6. CASE DispatchCmd \/ DispatchCall
  BY <1>1, <1>2, <1>6 DEF SessionTypeOK, DispatchCmd, DispatchCall
<1> QED
  BY <1>1, <1>2, <1>3, <1>4, <1>5, <1>6 DEF CmdReceived

(* The shape of a session and the bounds of its cursor need each other: Backspace
   shortens the line because the cursor, which is not at its start, is in it. *)
SessionInv == SessionTypeOK /\ EditorInBounds

(* The inductive invariant of a session, from which the two theorems below follow
   (TelnetSocket's members under processInput). *)
THEOREM SessionInvariant == SessionSpec => []SessionInv
<1>1. SessionInit => SessionInv
  <2> SUFFICES ASSUME SessionInit PROVE SessionInv
    OBVIOUS
  <2>1. links \in [Models -> Nat] /\ mode \in Modes
    BY DEF SessionInit, NoLinks, Modes
  <2>2. histPos \in Int /\ history \in Seq(Nat) /\ history = <<>>
    BY TelnetAssumption DEF SessionInit
  <2>3. locked \in BOOLEAN /\ verbose \in BOOLEAN /\ friendly \in BOOLEAN
    BY Zenon DEF SessionInit
  <2>4. shots \in Nat /\ line \in Nat /\ linePos \in Nat /\ linePos <= line /\ linePos = 0 /\ calls \in Nat
    BY DEF SessionInit
  <2> QED
    BY <2>1, <2>2, <2>3, <2>4 DEF SessionInv, SessionTypeOK, EditorInBounds
<1>2. SessionInv /\ [SessionNext]_sessionVars => SessionInv'
  <2> SUFFICES ASSUME SessionInv, [SessionNext]_sessionVars PROVE SessionInv'
    OBVIOUS
  <2> USE TelnetAssumption DEF SessionInv, SessionTypeOK, EditorInBounds
  <2>1. CASE ReceivePart
    BY <2>1 DEF ReceivePart, Unfriendly, NoCommand
  <2>2. CASE ReceiveLine
    BY <2>2, CommandTyped DEF ReceiveLine, Unfriendly
  <2>3. CASE Enter
    BY <2>3, CommandTyped DEF Enter
  <2>4. CASE MoveCursor
    BY <2>4 DEF MoveCursor, Friendly, NoCommand
  <2>5. CASE CliWrite
    BY <2>5 DEF CliWrite, Friendly, NoCommand
  <2>6. CASE Backspace
    BY <2>6 DEF Backspace, Friendly, NoCommand
  <2>7. CASE Delete
    BY <2>7 DEF Delete, Friendly, NoCommand
  <2>8. CASE HistoryUp
    BY <2>8 DEF HistoryUp, Friendly, NoCommand
  <2>9. CASE HistoryDown
    BY <2>9 DEF HistoryDown, Friendly, NoCommand
  <2>10. CASE ShotFires
    <3>1. locked' \in BOOLEAN
      BY <2>10, Zenon DEF ShotFires
    <3>2. shots' \in Nat
      BY <2>10 DEF ShotFires
    <3> QED
      BY <2>10, <3>1, <3>2 DEF ShotFires, editorVars
  <2>11. CASE LateAnswer
    <3>1. locked' \in BOOLEAN
      BY <2>11, Zenon DEF LateAnswer
    <3>2. calls' \in Nat
      BY <2>11 DEF LateAnswer
    <3> QED
      BY <2>11, <3>1, <3>2 DEF LateAnswer, editorVars
  <2>12. CASE UNCHANGED sessionVars
    BY <2>12 DEF sessionVars
  <2> QED
    BY <2>1, <2>2, <2>3, <2>4, <2>5, <2>6, <2>7, <2>8, <2>9, <2>10, <2>11, <2>12 DEF SessionNext
<1> QED
  BY <1>1, <1>2, PTL DEF SessionSpec

(* The state of a session keeps its shape through every packet, key, timer and
   answer (TelnetSocket's members). *)
THEOREM SessionTyped == SessionSpec => []SessionTypeOK
<1>1. SessionInv => SessionTypeOK
  BY DEF SessionInv
<1> QED
  BY <1>1, SessionInvariant, PTL

(* No key, recalled line or completion takes the cursor out of its line, and once
   a line was entered none takes the position out of the history (processInput). *)
THEOREM SessionEditorInBounds == SessionSpec => []EditorInBounds
<1>1. SessionInv => EditorInBounds
  BY DEF SessionInv
<1> QED
  BY <1>1, SessionInvariant, PTL

(* Every lock of the input has a timer running that ends it: a client is never
   shut out for good (lockInput, releaseInput). *)
THEOREM SessionLockCovered == SessionSpec => []LockCovered
<1>1. SessionInit => LockCovered
  BY DEF SessionInit, LockCovered
<1>2. SessionTypeOK /\ LockCovered /\ [SessionNext]_sessionVars => LockCovered'
  <2> SUFFICES ASSUME SessionTypeOK, LockCovered, [SessionNext]_sessionVars PROVE LockCovered'
    OBVIOUS
  <2>1. ASSUME CmdReceived PROVE LockCovered'
    BY <2>1, CommandTyped DEF LockCovered
  <2>2. ASSUME UNCHANGED <<locked, shots>> PROVE LockCovered'
    BY <2>2 DEF LockCovered
  <2>3. CASE ReceiveLine \/ Enter
    BY <2>1, <2>3 DEF ReceiveLine, Enter
  <2>4. CASE ReceivePart \/ MoveCursor \/ CliWrite \/ Backspace \/ Delete \/ HistoryUp \/ HistoryDown
    BY <2>2, <2>4 DEF ReceivePart, MoveCursor, CliWrite, Backspace, Delete, HistoryUp, HistoryDown, NoCommand
  <2>5. CASE ShotFires \/ LateAnswer
    BY <2>5 DEF ShotFires, LateAnswer, LockCovered
  <2>6. CASE UNCHANGED sessionVars
    BY <2>2, <2>6 DEF sessionVars
  <2> QED
    BY <2>3, <2>4, <2>5, <2>6 DEF SessionNext
<1> QED
  BY <1>1, <1>2, SessionTyped, PTL DEF SessionSpec

(* A verbose client hears the model of its mode exactly once and no other model,
   through every switch of mode and verbosity (switchMode, setVerbose). *)
THEOREM SessionVerboseFollowsMode == SessionSpec => []VerboseFollowsMode
<1>1. SessionInit => VerboseFollowsMode
  BY DEF SessionInit, VerboseFollowsMode, NoLinks
<1>2. SessionTypeOK /\ VerboseFollowsMode /\ [SessionNext]_sessionVars => VerboseFollowsMode'
  <2> SUFFICES ASSUME SessionTypeOK, VerboseFollowsMode, [SessionNext]_sessionVars
               PROVE  VerboseFollowsMode'
    OBVIOUS
  <2>1. ASSUME UNCHANGED <<mode, verbose, links>> PROVE VerboseFollowsMode'
    BY <2>1 DEF VerboseFollowsMode
  <2>2. ASSUME NEW m \in Modes, SwitchMode(m) PROVE VerboseFollowsMode'
    BY <2>2 DEF SessionTypeOK, VerboseFollowsMode, SwitchMode, Disconnected, HasModel, Modes, Models
  <2>3. ASSUME NEW v \in BOOLEAN, SetVerbose(v) PROVE VerboseFollowsMode'
    <3>1. CASE v = verbose
      BY <2>1, <2>3, <3>1 DEF SetVerbose
    <3>2. CASE v # verbose /\ v
      <4>1. ~ verbose /\ verbose' /\ mode' = mode /\ links' = Connected(mode)
        BY <2>3, <3>2, Zenon DEF SetVerbose, SessionTypeOK
      <4>2. \A n \in Models : links[n] = 0
        BY <4>1 DEF VerboseFollowsMode
      <4> QED
        BY <4>1, <4>2 DEF SessionTypeOK, VerboseFollowsMode, Connected, HasModel
    <3>3. CASE v # verbose /\ ~ v
      BY <2>3, <3>3 DEF SessionTypeOK, VerboseFollowsMode, SetVerbose, Disconnected, HasModel, Modes, Models
    <3> QED
      BY <3>1, <3>2, <3>3
  <2>4. ASSUME CmdReceived PROVE VerboseFollowsMode'
    BY <2>1, <2>2, <2>3, <2>4 DEF CmdReceived, SetFriendlyCLI, DispatchCmd, DispatchCall
  <2>5. CASE ReceiveLine \/ Enter
    BY <2>4, <2>5 DEF ReceiveLine, Enter
  <2>6. CASE ReceivePart \/ MoveCursor \/ CliWrite \/ Backspace \/ Delete \/ HistoryUp \/ HistoryDown
    BY <2>1, <2>6 DEF ReceivePart, MoveCursor, CliWrite, Backspace, Delete, HistoryUp, HistoryDown, NoCommand
  <2>7. CASE ShotFires \/ LateAnswer
    BY <2>1, <2>7 DEF ShotFires, LateAnswer
  <2>8. CASE UNCHANGED sessionVars
    BY <2>1, <2>8 DEF sessionVars
  <2> QED
    BY <2>5, <2>6, <2>7, <2>8 DEF SessionNext
<1> QED
  BY <1>1, <1>2, SessionTyped, PTL DEF SessionSpec

-----------------------------------------------------------------------------
(* The cache file *)

(* The steps of the daemon's threads, of an editor and of the daemon's life keep
   the model and the file among the contents; a running daemon has a file
   (JSonModel's members). *)
THEOREM JSonTyped == JSonSpec => []JSonTypeOK
<1> USE JSonModelAssumption DEF JSonTypeOK, NoEdit
<1>1. JSonInit => JSonTypeOK
  BY DEF JSonInit
<1>2. JSonTypeOK /\ [JSonNext]_jsonVars => JSonTypeOK'
  <2> SUFFICES ASSUME JSonTypeOK, [JSonNext]_jsonVars PROVE JSonTypeOK'
    OBVIOUS
  <2>1. CASE Change
    BY <2>1 DEF Change, Threads
  <2>2. CASE ChangeFromXBee
    BY <2>2 DEF ChangeFromXBee
  <2>3. CASE RequestTimer
    <3>1. startQueued' \in BOOLEAN
      BY <2>3, Zenon DEF RequestTimer
    <3> QED
      BY <2>3, <3>1 DEF RequestTimer, Counters
  <2>4. CASE StartTimer
    BY <2>4 DEF StartTimer, Counters
  <2>5. CASE Timeout
    BY <2>5 DEF Timeout, Threads, Counters
  <2>6. CASE WriteFile
    BY <2>6 DEF WriteFile, Threads, Counters
  <2>7. CASE Edit
    <3>1. noticed' \in BOOLEAN
      BY <2>7, Zenon DEF Edit
    <3> QED
      BY <2>7, <3>1 DEF Edit, Threads
  <2>8. CASE ParseJSonFile
    <3>1. timer' \in BOOLEAN
      BY <2>8, Zenon DEF ParseJSonFile
    <3>2. file \in Contents \cup {Empty}
      BY <2>8 DEF ParseJSonFile
    <3> QED
      BY <2>8, <3>1, <3>2 DEF ParseJSonFile, Threads, Counters
  <2>9. CASE Crash
    BY <2>9 DEF Crash
  <2>10. CASE Quit
    BY <2>10 DEF Quit
  <2>11. CASE Start
    <3>1. watched' \in BOOLEAN /\ timer' \in BOOLEAN
      BY <2>11, Zenon DEF Start
    <3>2. file' \in Contents \cup {Empty} /\ json' = file'
      BY <2>11 DEF Start
    <3> QED
      BY <2>11, <3>1, <3>2 DEF Start, Threads, Counters
  <2>12. CASE UNCHANGED jsonVars
    BY <2>12 DEF jsonVars
  <2> QED
    BY <2>1, <2>2, <2>3, <2>4, <2>5, <2>6, <2>7, <2>8, <2>9, <2>10, <2>11, <2>12 DEF JSonNext
<1> QED
  BY <1>1, <1>2, PTL DEF JSonSpec

(* Whichever thread changes the model and whenever the timer fires, a change that
   is not in the file is being saved or will be (updateParentJSon, writeJSonFile). *)
THEOREM JSonNoForgottenChange == JSonSpec => []NoForgottenChange
<1>1. JSonInit => NoForgottenChange
  BY DEF JSonInit, NoForgottenChange
<1>2. JSonTypeOK /\ NoForgottenChange /\ [JSonNext]_jsonVars => NoForgottenChange'
  <2> SUFFICES ASSUME JSonTypeOK, NoForgottenChange, [JSonNext]_jsonVars PROVE NoForgottenChange'
    OBVIOUS
  <2> USE DEF NoForgottenChange
  <2>1. CASE Change \/ ChangeFromXBee
    BY <2>1 DEF Change, ChangeFromXBee
  <2>2. CASE RequestTimer
    BY <2>2 DEF RequestTimer
  <2>3. CASE StartTimer \/ Timeout
    BY <2>3 DEF StartTimer, Timeout
  <2>4. CASE WriteFile
    BY <2>4 DEF WriteFile
  <2>5. CASE Edit
    BY <2>5, JSonModelAssumption DEF Edit, NoEdit
  <2>6. CASE ParseJSonFile
    BY <2>6 DEF ParseJSonFile
  <2>7. CASE Crash \/ Quit
    BY <2>7 DEF Crash, Quit
  <2>8. CASE Start
    BY <2>8 DEF Start
  <2>9. CASE UNCHANGED jsonVars
    BY <2>9 DEF jsonVars
  <2> QED
    BY <2>1, <2>2, <2>3, <2>4, <2>5, <2>6, <2>7, <2>8, <2>9 DEF JSonNext
<1> QED
  BY <1>1, <1>2, JSonTyped, PTL DEF JSonSpec

-----------------------------------------------------------------------------
(* The events and the MIDI ports *)

Port == [object : Objects, name : PortNames, device : Devices]

(* The lookup of a port finds an object or nothing. *)
LEMMA PortByNameType ==
  ASSUME NEW open \in Seq(Port), NEW n
  PROVE  PortByName(open, n) \in {Null} \cup Objects
<1>1. CASE First(open, n) = {}
  BY <1>1 DEF PortByName
<1>2. CASE First(open, n) # {}
  <2> DEFINE i == CHOOSE x \in First(open, n) : TRUE
  <2>1. i \in First(open, n)
    BY <1>2
  <2>2. i \in 1..Len(open)
    BY <2>1 DEF First
  <2>3. open[i] \in Port
    BY <2>2
  <2> QED
    BY <1>2, <2>3 DEF PortByName, Port
<1> QED
  BY <1>1, <1>2

(* What updateEventTrigger leaves in the callback of a definition. *)
LEMMA UpdateType ==
  ASSUME NEW open \in Seq(Port), NEW d \in Defs, NEW cb \in {Null} \cup Objects,
         d \in KeyDefs => cb = Null
  PROVE  /\ UpdateEventTrigger(d, cb, open) \in {Null} \cup Objects
         /\ d \in KeyDefs => UpdateEventTrigger(d, cb, open) = Null
         /\ d \in MidiDefs /\ PortByName(open, PortOf[d]) # Null =>
              UpdateEventTrigger(d, cb, open) = PortByName(open, PortOf[d])
BY PortByNameType, EventsAssumption DEF UpdateEventTrigger, Defs

(* An entry stays an entry. *)
LEMMA EntryNotMissing ==
  ASSUME NEW cb \in {Null} \cup Objects
  PROVE  cb # NoEntry
BY EventsAssumption DEF Null, Objects

(* The array with one more definition has this one and those it had. *)
LEMMA ContainsAppend ==
  ASSUME NEW s \in Seq(Defs), NEW d \in Defs, NEW e
  PROVE  /\ Append(s, d) \in Seq(Defs)
         /\ Contains(Append(s, d), d)
         /\ Contains(s, e) => Contains(Append(s, d), e)
<1>1. Append(s, d) \in Seq(Defs) /\ Len(Append(s, d)) = Len(s) + 1
  OBVIOUS
<1>2. Append(s, d)[Len(s) + 1] = d /\ \A i \in 1..Len(s) : Append(s, d)[i] = s[i]
  OBVIOUS
<1> QED
  BY <1>1, <1>2 DEF Contains

(* A port taken out of the list leaves a list of ports. *)
LEMMA RemoveAtType ==
  ASSUME NEW s \in Seq(Port), NEW i \in 1..Len(s)
  PROVE  RemoveAt(s, i) \in Seq(Port)
<1>1. SubSeq(s, 1, i - 1) \in Seq(Port)
  OBVIOUS
<1>2. SubSeq(s, i + 1, Len(s)) \in Seq(Port)
  OBVIOUS
<1> QED
  BY <1>1, <1>2 DEF RemoveAt

-----------------------------------------------------------------------------

(* The callbacks after a change of the ports: the same entries, of the types of
   before, and the MIDI ones of the registered triggers have the port of their name. *)
LEMMA UpdatedCallbacks ==
  ASSUME EventsTypeOK, NEW open \in Seq(Port)
  PROVE  LET new == UpdateEventTriggers(open)
         IN /\ new \in [Triggers -> [Defs -> {NoEntry, Null} \cup Objects]]
            /\ \A t \in Triggers, d \in KeyDefs : new[t][d] \notin Objects
            /\ \A t \in Triggers, d \in Defs : new[t][d] = NoEntry <=> callbacks[t][d] = NoEntry
            /\ \A t \in registered, d \in MidiDefs :
                 callbacks[t][d] # NoEntry /\ PortByName(open, PortOf[d]) # Null =>
                   new[t][d] = PortByName(open, PortOf[d])
<1> DEFINE new == UpdateEventTriggers(open)
<1>1. ASSUME NEW t \in Triggers, NEW d \in Defs
      PROVE  /\ new[t][d] \in {NoEntry, Null} \cup Objects
             /\ d \in KeyDefs => new[t][d] \notin Objects
             /\ new[t][d] = NoEntry <=> callbacks[t][d] = NoEntry
             /\ t \in registered /\ d \in MidiDefs /\ callbacks[t][d] # NoEntry
                  /\ PortByName(open, PortOf[d]) # Null => new[t][d] = PortByName(open, PortOf[d])
  <2>1. new[t][d] = IF t \in registered /\ callbacks[t][d] # NoEntry
                    THEN UpdateEventTrigger(d, callbacks[t][d], open) ELSE callbacks[t][d]
    BY DEF UpdateEventTriggers
  <2>2. /\ callbacks[t][d] \in {NoEntry, Null} \cup Objects
        /\ d \in KeyDefs => callbacks[t][d] \notin Objects
    BY DEF EventsTypeOK
  <2>3. CASE callbacks[t][d] = NoEntry
    BY <2>1, <2>2, <2>3
  <2>4. CASE callbacks[t][d] # NoEntry
    <3>1. callbacks[t][d] \in {Null} \cup Objects /\ (d \in KeyDefs => callbacks[t][d] = Null)
      BY <2>2, <2>4
    <3>2. /\ UpdateEventTrigger(d, callbacks[t][d], open) \in {Null} \cup Objects
          /\ d \in KeyDefs => UpdateEventTrigger(d, callbacks[t][d], open) = Null
          /\ d \in MidiDefs /\ PortByName(open, PortOf[d]) # Null =>
               UpdateEventTrigger(d, callbacks[t][d], open) = PortByName(open, PortOf[d])
      BY <3>1, UpdateType
    <3>3. UpdateEventTrigger(d, callbacks[t][d], open) # NoEntry
      BY <3>2, EntryNotMissing
    <3>4. Null \notin Objects
      BY DEF Null, Objects
    <3> QED
      BY <2>1, <2>2, <2>4, <3>2, <3>3, <3>4
  <2> QED
    BY <2>3, <2>4
<1>2. new \in [Triggers -> [Defs -> {NoEntry, Null} \cup Objects]]
  <2>1. new = [t \in Triggers |-> [d \in Defs |-> new[t][d]]]
    BY DEF UpdateEventTriggers
  <2> QED
    BY <1>1, <2>1
<1>3. KeyDefs \subseteq Defs /\ MidiDefs \subseteq Defs /\ registered \subseteq Triggers
  BY DEF Defs, EventsTypeOK
<1> HIDE DEF new
<1>4. /\ \A t \in Triggers, d \in KeyDefs : new[t][d] \notin Objects
      /\ \A t \in Triggers, d \in Defs : new[t][d] = NoEntry <=> callbacks[t][d] = NoEntry
      /\ \A t \in registered, d \in MidiDefs :
           callbacks[t][d] # NoEntry /\ PortByName(open, PortOf[d]) # Null =>
             new[t][d] = PortByName(open, PortOf[d])
  BY <1>1, <1>3
<1> QED
  BY <1>2, <1>4 DEF new

(* A restart makes ports out of the saved ones. *)
LEMMA RestartPorts ==
  ASSUME EventsTypeOK, NEW order \in LoadOrders, Restart(order)
  PROVE  ports' \in Seq(Port) /\ opened' \in 0..MaxOpens
<1>1. PICK k \in 0..MaxOpens : order \in [1..k -> Saved]
  BY DEF LoadOrders
<1>2. DOMAIN order = 1..k /\ Len(order) = k /\ k \in Nat
  BY <1>1, EventsAssumption
<1>3. ASSUME NEW i \in 1..k
      PROVE  [object |-> i, name |-> order[i], device |-> savedPorts[order[i]]] \in Port
  <2>1. order[i] \in PortNames /\ savedPorts[order[i]] # None
    BY <1>1 DEF Saved
  <2>2. savedPorts[order[i]] \in Devices
    BY <2>1 DEF EventsTypeOK
  <2>3. i \in Objects
    BY <1>1, EventsAssumption DEF Objects
  <2> QED
    BY <2>1, <2>2, <2>3 DEF Port
<1>4. ports' = [i \in 1..k |-> [object |-> i, name |-> order[i], device |-> savedPorts[order[i]]]]
  BY <1>2 DEF Restart
<1>5. ports' \in [1..k -> Port]
  BY <1>3, <1>4
<1> QED
  BY <1>2, <1>5 DEF Restart

(* The callbacks after a restart: the saved definitions, looked up anew. *)
LEMMA RestartCallbacks ==
  ASSUME EventsTypeOK, NEW order \in LoadOrders, Restart(order)
  PROVE  /\ callbacks' \in [Triggers -> [Defs -> {NoEntry, Null} \cup Objects]]
         /\ \A t \in Triggers, d \in KeyDefs : callbacks'[t][d] \notin Objects
         /\ \A t \in Triggers, d \in Defs : callbacks'[t][d] # NoEntry <=> Contains(saved[t], d)
         /\ \A t \in Triggers, d \in MidiDefs :
              callbacks'[t][d] # NoEntry /\ PortByName(ports', PortOf[d]) # Null =>
                callbacks'[t][d] = PortByName(ports', PortOf[d])
<1>0. ports' \in Seq(Port)
  BY RestartPorts
<1> DEFINE open == ports'
           new == [t \in Triggers |-> [d \in Defs |->
                     IF Contains(saved[t], d) THEN UpdateEventTrigger(d, Null, open) ELSE NoEntry]]
<1>1. callbacks' = new
  BY DEF Restart
<1>2. ASSUME NEW t \in Triggers, NEW d \in Defs
      PROVE  /\ new[t][d] \in {NoEntry, Null} \cup Objects
             /\ d \in KeyDefs => new[t][d] \notin Objects
             /\ new[t][d] # NoEntry <=> Contains(saved[t], d)
             /\ d \in MidiDefs /\ new[t][d] # NoEntry /\ PortByName(open, PortOf[d]) # Null =>
                  new[t][d] = PortByName(open, PortOf[d])
  <2> HIDE DEF open
  <2>0. open \in Seq(Port)
    BY <1>0 DEF open
  <2>1. /\ UpdateEventTrigger(d, Null, open) \in {Null} \cup Objects
        /\ d \in KeyDefs => UpdateEventTrigger(d, Null, open) = Null
        /\ d \in MidiDefs /\ PortByName(open, PortOf[d]) # Null =>
             UpdateEventTrigger(d, Null, open) = PortByName(open, PortOf[d])
    BY <2>0, UpdateType
  <2>2. UpdateEventTrigger(d, Null, open) # NoEntry
    BY <2>1, EntryNotMissing
  <2>3. Null \notin Objects /\ NoEntry \notin Objects
    BY EventsAssumption DEF Null, Objects
  <2> QED
    BY <2>1, <2>2, <2>3
<1>3. KeyDefs \subseteq Defs /\ MidiDefs \subseteq Defs
  BY DEF Defs
<1>4. new \in [Triggers -> [Defs -> {NoEntry, Null} \cup Objects]]
  <2>1. new = [t \in Triggers |-> [d \in Defs |-> new[t][d]]]
    OBVIOUS
  <2> QED
    BY <1>2, <2>1
<1> HIDE DEF new
<1>5. /\ \A t \in Triggers, d \in KeyDefs : new[t][d] \notin Objects
      /\ \A t \in Triggers, d \in Defs : new[t][d] # NoEntry <=> Contains(saved[t], d)
      /\ \A t \in Triggers, d \in MidiDefs :
           new[t][d] # NoEntry /\ PortByName(open, PortOf[d]) # Null =>
             new[t][d] = PortByName(open, PortOf[d])
  BY <1>2, <1>3
<1> QED
  BY <1>1, <1>4, <1>5

-----------------------------------------------------------------------------

(* A port that is changed in place leaves a list of ports. *)
LEMMA ReplaceType ==
  ASSUME NEW s \in Seq(Port), NEW i \in 1..Len(s), NEW x \in Port
  PROVE  [s EXCEPT ![i] = x] \in Seq(Port)
OBVIOUS

(* A button without events. *)
LEMMA NoEventsType ==
  /\ NoEvents \in [Triggers -> [Defs -> {NoEntry, Null} \cup Objects]]
  /\ \A t \in Triggers, d \in KeyDefs : NoEvents[t][d] \notin Objects
  /\ \A t \in Triggers, d \in Defs : NoEvents[t][d] = NoEntry
  /\ [t \in Triggers |-> <<>>] \in [Triggers -> Seq(Defs)]
<1>1. \A t \in Triggers, d \in Defs : NoEvents[t][d] = NoEntry
  BY DEF NoEvents
<1>2. NoEvents \in [Triggers -> [Defs -> {NoEntry, Null} \cup Objects]]
  BY DEF NoEvents
<1>3. NoEntry \notin Objects
  BY EventsAssumption DEF Objects
<1>4. <<>> \in Seq(Defs)
  OBVIOUS
<1> QED
  BY <1>1, <1>2, <1>3, <1>4 DEF Defs

(* The daemon starts without ports and events. *)
LEMMA EventsInitTyped == EventsInit => EventsTypeOK
<1> SUFFICES ASSUME EventsInit PROVE EventsTypeOK
  OBVIOUS
<1>1. callbacks = NoEvents /\ saved = [t \in Triggers |-> <<>>]
  BY DEF EventsInit
<1>2. /\ callbacks \in [Triggers -> [Defs -> {NoEntry, Null} \cup Objects]]
      /\ \A t \in Triggers, d \in KeyDefs : callbacks[t][d] \notin Objects
      /\ saved \in [Triggers -> Seq(Defs)]
  BY <1>1, NoEventsType
<1>3. /\ savedPorts \in [PortNames -> Devices \cup {None}]
      /\ opened \in 0..MaxOpens
      /\ registered \subseteq Triggers
  BY EventsAssumption DEF EventsInit
<1>5. exists \in BOOLEAN /\ renamed \in BOOLEAN
  BY Zenon DEF EventsInit
<1>4. ports \in Seq([object : Objects, name : PortNames, device : Devices])
  BY DEF EventsInit
<1> QED
  BY <1>2, <1>3, <1>4, <1>5 DEF EventsTypeOK

(* A new device leaves every port under its name. *)
LEMMA SameNames ==
  ASSUME EventsTypeOK, NEW n, NEW dev, SetPort(n, dev), NEW m
  PROVE  PortByName(ports', m) = PortByName(ports, m)
<1>1. FirstPort(n) \in 1..Len(ports)
  BY DEF SetPort, FirstPort, First
<1>2. ports \in Seq(Port)
  BY DEF EventsTypeOK, Port
<1>3. ports' = [ports EXCEPT ![FirstPort(n)] = [ports[FirstPort(n)] EXCEPT !.device = dev]]
  BY DEF SetPort
<1>4. Len(ports') = Len(ports)
  BY <1>1, <1>2, <1>3
<1>5. ASSUME NEW i \in 1..Len(ports)
      PROVE  ports'[i].name = ports[i].name /\ ports'[i].object = ports[i].object
  <2>1. ports[i] \in Port
    BY <1>2
  <2>2. CASE i = FirstPort(n)
    BY <1>2, <1>3, <2>1, <2>2 DEF Port
  <2>3. CASE i # FirstPort(n)
    BY <1>2, <1>3, <2>3
  <2> QED
    BY <2>2, <2>3
<1>6. First(ports', m) = First(ports, m)
  BY <1>2, <1>4, <1>5 DEF First
<1>7. ASSUME First(ports, m) # {}
      PROVE  (CHOOSE i \in First(ports, m) : TRUE) \in 1..Len(ports)
  BY <1>7 DEF First
<1> QED
  BY <1>5, <1>6, <1>7 DEF PortByName

(* The handlers of the events and of the ports keep the maps, the arrays and the
   lists what EventsTypeOK says they are, whatever is opened, renamed and loaded. *)
THEOREM EventsTyped == EventsSpec => []EventsTypeOK
<1>1. EventsInit => EventsTypeOK
  BY EventsInitTyped
<1>2. EventsTypeOK /\ [EventsNext]_eventVars => EventsTypeOK'
  <2> SUFFICES ASSUME EventsTypeOK, [EventsNext]_eventVars PROVE EventsTypeOK'
    OBVIOUS
  <2>0. Null \notin Objects /\ NoEntry \notin Objects
    BY EventsAssumption DEF Null, Objects
  <2>1. CASE AddRemote
    BY <2>1 DEF AddRemote, EventsTypeOK
  <2>2. CASE RemoveRemote
    BY <2>2, NoEventsType DEF RemoveRemote, EventsTypeOK
  <2>3. ASSUME NEW t \in Triggers, NEW d \in Defs, AddEvent(t, d) PROVE EventsTypeOK'
    <3>1. UpdateEventTrigger(d, Null, ports) \in {Null} \cup Objects
          /\ (d \in KeyDefs => UpdateEventTrigger(d, Null, ports) = Null)
      BY UpdateType DEF EventsTypeOK, Port
    <3>2. saved' \in [Triggers -> Seq(Defs)]
      BY <2>3, ContainsAppend DEF AddEvent, EventsTypeOK, Save
    <3>3. registered' \subseteq Triggers
      BY <2>3 DEF AddEvent, EventsTypeOK, Register
    <3>4. callbacks' \in [Triggers -> [Defs -> {NoEntry, Null} \cup Objects]]
      BY <2>3, <3>1 DEF AddEvent, EventsTypeOK
    <3>5. \A u \in Triggers, e \in KeyDefs : callbacks'[u][e] \notin Objects
      BY <2>0, <2>3, <3>1 DEF AddEvent, EventsTypeOK, Defs
    <3> QED
      BY <2>3, <3>2, <3>3, <3>4, <3>5 DEF AddEvent, EventsTypeOK
  <2>4. ASSUME NEW t \in Triggers, NEW d \in Defs, RemoveEvent(t, d) PROVE EventsTypeOK'
    <3>1. registered' \subseteq Triggers
      BY <2>4 DEF RemoveEvent, EventsTypeOK, Unregister
    <3>2. callbacks' \in [Triggers -> [Defs -> {NoEntry, Null} \cup Objects]]
      BY <2>4 DEF RemoveEvent, EventsTypeOK
    <3>3. \A u \in Triggers, e \in KeyDefs : callbacks'[u][e] \notin Objects
      BY <2>0, <2>4 DEF RemoveEvent, EventsTypeOK, Defs
    <3> QED
      BY <2>4, <3>1, <3>2, <3>3 DEF RemoveEvent, EventsTypeOK
  <2>5. ASSUME NEW n \in PortNames, NEW dev \in Devices, AddPort(n, dev) PROVE EventsTypeOK'
    <3>1. opened + 1 \in Objects /\ opened' \in 0..MaxOpens
      BY <2>5, EventsAssumption DEF AddPort, EventsTypeOK, Objects
    <3>2. NewPort(n, dev) \in Port
      BY <3>1 DEF NewPort, Port
    <3>3. ports' \in Seq(Port)
      BY <2>5, <3>2 DEF AddPort, EventsTypeOK, Port
    <3>4. /\ callbacks' \in [Triggers -> [Defs -> {NoEntry, Null} \cup Objects]]
          /\ \A t \in Triggers, d \in KeyDefs : callbacks'[t][d] \notin Objects
      BY <2>5, <3>3, UpdatedCallbacks DEF AddPort
    <3> QED
      BY <2>5, <3>1, <3>3, <3>4 DEF AddPort, EventsTypeOK, Port
  <2>6. ASSUME NEW n \in PortNames, RemovePort(n) PROVE EventsTypeOK'
    <3>1. FirstPort(n) \in First(ports, n)
      BY <2>6 DEF RemovePort, FirstPort
    <3>2. FirstPort(n) \in 1..Len(ports)
      BY <3>1 DEF First
    <3>3. ports' \in Seq(Port)
      BY <2>6, <3>2, RemoveAtType DEF RemovePort, EventsTypeOK, Port
    <3>4. /\ callbacks' \in [Triggers -> [Defs -> {NoEntry, Null} \cup Objects]]
          /\ \A t \in Triggers, d \in KeyDefs : callbacks'[t][d] \notin Objects
      BY <2>6, <3>3, UpdatedCallbacks DEF RemovePort
    <3> QED
      BY <2>6, <3>3, <3>4 DEF RemovePort, EventsTypeOK, Port
  <2>7. ASSUME NEW n \in PortNames, NEW dev \in Devices, SetPort(n, dev) PROVE EventsTypeOK'
    <3>1. FirstPort(n) \in 1..Len(ports)
      BY <2>7 DEF SetPort, FirstPort, First
    <3>0. ports \in Seq(Port)
      BY DEF EventsTypeOK, Port
    <3>2. ports[FirstPort(n)] \in Port
      BY <3>1, <3>0
    <3>3. [ports[FirstPort(n)] EXCEPT !.device = dev] \in Port
      BY <3>2 DEF Port
    <3>4. ports' = [ports EXCEPT ![FirstPort(n)] = [ports[FirstPort(n)] EXCEPT !.device = dev]]
      BY <2>7 DEF SetPort
    <3>5. ports' \in Seq(Port)
      BY <3>1, <3>0, <3>3, <3>4, ReplaceType
    <3> QED
      BY <2>7, <3>5 DEF SetPort, EventsTypeOK, Port
  <2>8. ASSUME NEW n \in PortNames, NEW m \in PortNames, RenamePort(n, m) PROVE EventsTypeOK'
    <3>1. FirstPort(n) \in 1..Len(ports)
      BY <2>8 DEF RenamePort, FirstPort, First
    <3>0. ports \in Seq(Port)
      BY DEF EventsTypeOK, Port
    <3>2. ports[FirstPort(n)] \in Port
      BY <3>1, <3>0
    <3>3. /\ [ports[FirstPort(n)] EXCEPT !.name = m] \in Port
          /\ ports[FirstPort(n)].device \in Devices
      BY <3>2 DEF Port
    <3>4. ports' = [ports EXCEPT ![FirstPort(n)] = [ports[FirstPort(n)] EXCEPT !.name = m]]
      BY <2>8 DEF RenamePort
    <3>5. ports' \in Seq(Port)
      BY <3>1, <3>0, <3>3, <3>4, ReplaceType
    <3>6. savedPorts' \in [PortNames -> Devices \cup {None}]
      BY <2>8, <3>3 DEF RenamePort, EventsTypeOK
    <3> QED
      BY <2>8, <3>5, <3>6 DEF RenamePort, EventsTypeOK, Port
  <2>9. ASSUME NEW order \in LoadOrders, Restart(order) PROVE EventsTypeOK'
    <3>1. ports' \in Seq(Port) /\ opened' \in 0..MaxOpens
      BY <2>9, RestartPorts
    <3>2. /\ callbacks' \in [Triggers -> [Defs -> {NoEntry, Null} \cup Objects]]
          /\ \A t \in Triggers, d \in KeyDefs : callbacks'[t][d] \notin Objects
      BY <2>9, RestartCallbacks
    <3> QED
      BY <2>9, <3>1, <3>2 DEF Restart, EventsTypeOK, Port
  <2>10. CASE UNCHANGED eventVars
    BY <2>10 DEF eventVars, EventsTypeOK
  <2> QED
    BY <2>1, <2>2, <2>3, <2>4, <2>5, <2>6, <2>7, <2>8, <2>9, <2>10 DEF EventsNext
<1> QED
  BY <1>1, <1>2, PTL DEF EventsSpec

-----------------------------------------------------------------------------

(* The three properties hold together: the ports are followed because the triggers
   with MIDI definitions are registered, and a restart finds what is saved. *)
EventsInv == EventsTypeOK /\ RegisteredIffMidi /\ EventsFollowPorts /\ EventsSaved

(* A change of the ports keeps what is registered and what is saved. *)
LEMMA PortsChanged ==
  ASSUME EventsInv, EventsTypeOK', ports' \in Seq(Port),
         callbacks' = UpdateEventTriggers(ports'),
         UNCHANGED <<saved, registered>>
  PROVE  RegisteredIffMidi' /\ EventsFollowPorts' /\ EventsSaved'
<1>1. /\ \A t \in Triggers, d \in Defs : callbacks'[t][d] = NoEntry <=> callbacks[t][d] = NoEntry
      /\ \A t \in registered, d \in MidiDefs :
           callbacks[t][d] # NoEntry /\ PortByName(ports', PortOf[d]) # Null =>
             callbacks'[t][d] = PortByName(ports', PortOf[d])
  BY UpdatedCallbacks DEF EventsInv
<1>2. MidiDefs \subseteq Defs
  BY DEF Defs
<1>3. \A t \in Triggers : HasMidi(callbacks'[t]) <=> HasMidi(callbacks[t])
  BY <1>1, <1>2 DEF HasMidi
<1>4. RegisteredIffMidi'
  BY <1>3 DEF RegisteredIffMidi, EventsInv
<1>5. \A t \in Triggers, d \in MidiDefs : callbacks[t][d] # NoEntry => t \in registered
  BY DEF EventsInv, RegisteredIffMidi, HasMidi
<1>6. EventsFollowPorts'
  BY <1>1, <1>2, <1>5 DEF EventsFollowPorts
<1>7. EventsSaved'
  BY <1>1 DEF EventsSaved, EventsInv
<1> QED
  BY <1>4, <1>6, <1>7

(* The definitions of an event in the map, in the list of the MIDI interface and in
   the JSON agree in every reachable state, and a MIDI event whose port is open has
   the address of this port. *)
LEMMA EventsInductive == EventsSpec => []EventsInv
<1>1. EventsInit => EventsInv
  <2> SUFFICES ASSUME EventsInit, EventsTypeOK PROVE RegisteredIffMidi /\ EventsFollowPorts /\ EventsSaved
    BY EventsInitTyped DEF EventsInv
  <2>1. \A t \in Triggers, d \in Defs : callbacks[t][d] = NoEntry
    BY NoEventsType DEF EventsInit
  <2> QED
    BY <2>1 DEF EventsInit, RegisteredIffMidi, EventsFollowPorts, EventsSaved, HasMidi, Defs
<1>2. EventsInv /\ EventsTypeOK' /\ [EventsNext]_eventVars => EventsInv'
  <2> SUFFICES ASSUME EventsInv, EventsTypeOK', [EventsNext]_eventVars
               PROVE  RegisteredIffMidi' /\ EventsFollowPorts' /\ EventsSaved'
    BY DEF EventsInv
  <2>0. MidiDefs \subseteq Defs
    BY DEF Defs
  <2>1. CASE AddRemote
    BY <2>1 DEF AddRemote, EventsInv, RegisteredIffMidi, EventsFollowPorts, EventsSaved
  <2>2. CASE RemoveRemote
    <3>1. \A t \in Triggers, d \in Defs : callbacks'[t][d] = NoEntry
      BY <2>2, NoEventsType DEF RemoveRemote
    <3> QED
      BY <2>0, <2>2, <3>1 DEF RemoveRemote, RegisteredIffMidi, EventsFollowPorts, EventsSaved, HasMidi
  <2>3. ASSUME NEW t \in Triggers, NEW d \in Defs, AddEvent(t, d)
        PROVE  RegisteredIffMidi' /\ EventsFollowPorts' /\ EventsSaved'
    <3> DEFINE cb == UpdateEventTrigger(d, Null, ports)
    <3>1. /\ cb \in {Null} \cup Objects
          /\ d \in MidiDefs /\ PortByName(ports, PortOf[d]) # Null => cb = PortByName(ports, PortOf[d])
      BY UpdateType DEF EventsInv, EventsTypeOK, Port
    <3>2. cb # NoEntry
      BY <3>1, EntryNotMissing
    <3> HIDE DEF cb
    <3>3. \A u \in Triggers, e \in Defs :
            callbacks'[u][e] = IF u = t /\ e = d THEN cb ELSE callbacks[u][e]
      BY <2>3 DEF AddEvent, EventsInv, EventsTypeOK, cb
    <3>4. RegisteredIffMidi'
      <4>1. registered' = IF d \in MidiDefs THEN registered \cup {t} ELSE registered
        BY <2>3 DEF AddEvent, Register
      <4>2. registered = {u \in Triggers : HasMidi(callbacks[u])}
        BY DEF EventsInv, RegisteredIffMidi
      <4>3. \A u \in Triggers : HasMidi(callbacks'[u]) <=> HasMidi(callbacks[u]) \/ (u = t /\ d \in MidiDefs)
        BY <2>0, <3>2, <3>3 DEF HasMidi
      <4> QED
        BY <4>1, <4>2, <4>3 DEF RegisteredIffMidi
    <3>5. EventsFollowPorts'
      BY <2>0, <2>3, <3>1, <3>3 DEF AddEvent, EventsInv, EventsFollowPorts
    <3>6. EventsSaved'
      <4>1. saved' = [saved EXCEPT ![t] = Append(saved[t], d)] /\ saved \in [Triggers -> Seq(Defs)]
        BY <2>3 DEF AddEvent, Save, EventsInv, EventsTypeOK
      <4>2. \A u \in Triggers, e \in Defs :
              Contains(saved[u], e) \/ (u = t /\ e = d) => Contains(saved'[u], e)
        BY <4>1, ContainsAppend
      <4> QED
        BY <3>3, <4>2 DEF EventsInv, EventsSaved
    <3> QED
      BY <3>4, <3>5, <3>6
  <2>4. ASSUME NEW t \in Triggers, NEW d \in Defs, RemoveEvent(t, d)
        PROVE  RegisteredIffMidi' /\ EventsFollowPorts' /\ EventsSaved'
    <3>1. \A u \in Triggers, e \in Defs :
            callbacks'[u][e] = IF u = t /\ e = d THEN NoEntry ELSE callbacks[u][e]
      BY <2>4 DEF RemoveEvent, EventsInv, EventsTypeOK
    <3>2. RegisteredIffMidi'
      <4>1. \A e \in Defs : [callbacks[t] EXCEPT ![d] = NoEntry][e] = IF e = d THEN NoEntry ELSE callbacks[t][e]
        BY DEF EventsInv, EventsTypeOK
      <4>2. HasMidi([callbacks[t] EXCEPT ![d] = NoEntry]) <=> HasMidi(callbacks'[t])
        BY <2>0, <3>1, <4>1 DEF HasMidi
      <4>3. registered' = IF d \in MidiDefs /\ ~ HasMidi(callbacks'[t]) THEN registered \ {t} ELSE registered
        BY <2>4, <4>2 DEF RemoveEvent, Unregister
      <4>4. \A u \in Triggers \ {t} : HasMidi(callbacks'[u]) <=> HasMidi(callbacks[u])
        BY <2>0, <3>1 DEF HasMidi
      <4>5. d \notin MidiDefs => (HasMidi(callbacks'[t]) <=> HasMidi(callbacks[t]))
        BY <2>0, <3>1 DEF HasMidi
      <4>6. HasMidi(callbacks'[t]) => HasMidi(callbacks[t])
        BY <2>0, <3>1 DEF HasMidi
      <4>7. registered = {u \in Triggers : HasMidi(callbacks[u])}
        BY DEF EventsInv, RegisteredIffMidi
      <4> QED
        BY <4>3, <4>4, <4>5, <4>6, <4>7 DEF RegisteredIffMidi
    <3>3. EventsFollowPorts'
      BY <2>0, <2>4, <3>1 DEF RemoveEvent, EventsInv, EventsFollowPorts
    <3>4. EventsSaved'
      BY <2>4, <3>1 DEF RemoveEvent, EventsInv, EventsSaved
    <3> QED
      BY <3>2, <3>3, <3>4
  <2>5. ASSUME NEW n \in PortNames, NEW dev \in Devices, AddPort(n, dev)
        PROVE  RegisteredIffMidi' /\ EventsFollowPorts' /\ EventsSaved'
    <3>1. ports' \in Seq(Port)
      BY DEF EventsTypeOK, Port
    <3> QED
      BY <2>5, <3>1, PortsChanged DEF AddPort
  <2>6. ASSUME NEW n \in PortNames, RemovePort(n)
        PROVE  RegisteredIffMidi' /\ EventsFollowPorts' /\ EventsSaved'
    <3>1. ports' \in Seq(Port)
      BY DEF EventsTypeOK, Port
    <3> QED
      BY <2>6, <3>1, PortsChanged DEF RemovePort
  <2>7. ASSUME NEW n \in PortNames, NEW dev \in Devices, SetPort(n, dev)
        PROVE  RegisteredIffMidi' /\ EventsFollowPorts' /\ EventsSaved'
    <3>1. \A m : PortByName(ports', m) = PortByName(ports, m)
      BY <2>7, SameNames DEF EventsInv
    <3> QED
      BY <2>7, <3>1 DEF SetPort, EventsInv, RegisteredIffMidi, EventsFollowPorts, EventsSaved
  <2>8. ASSUME NEW n \in PortNames, NEW m \in PortNames, RenamePort(n, m)
        PROVE  RegisteredIffMidi' /\ EventsFollowPorts' /\ EventsSaved'
    BY <2>8 DEF RenamePort, EventsInv, RegisteredIffMidi, EventsFollowPorts, EventsSaved
  <2>9. ASSUME NEW order \in LoadOrders, Restart(order)
        PROVE  RegisteredIffMidi' /\ EventsFollowPorts' /\ EventsSaved'
    <3>1. /\ \A t \in Triggers, d \in Defs : callbacks'[t][d] # NoEntry <=> Contains(saved[t], d)
          /\ \A t \in Triggers, d \in MidiDefs :
               callbacks'[t][d] # NoEntry /\ PortByName(ports', PortOf[d]) # Null =>
                 callbacks'[t][d] = PortByName(ports', PortOf[d])
      BY <2>9, RestartCallbacks DEF EventsInv
    <3>2. \A t \in Triggers : HasMidi(callbacks'[t]) <=> \E d \in MidiDefs : Contains(saved[t], d)
      BY <2>0, <3>1 DEF HasMidi
    <3>3. registered' = {t \in Triggers : \E d \in MidiDefs : Contains(saved[t], d)} /\ saved' = saved
      BY <2>9 DEF Restart
    <3> QED
      BY <3>1, <3>2, <3>3 DEF RegisteredIffMidi, EventsFollowPorts, EventsSaved
  <2>10. CASE UNCHANGED eventVars
    BY <2>10 DEF eventVars, EventsInv, RegisteredIffMidi, EventsFollowPorts, EventsSaved
  <2> QED
    BY <2>1, <2>2, <2>3, <2>4, <2>5, <2>6, <2>7, <2>8, <2>9, <2>10 DEF EventsNext
<1> QED
  BY <1>1, <1>2, EventsTyped, PTL DEF EventsSpec

(* The triggers the MIDI interface tells of a port that was opened or closed are
   the ones with a MIDI definition (_midiEventTriggers). *)
THEOREM RegisteredHolds == EventsSpec => []RegisteredIffMidi
BY EventsInductive, PTL DEF EventsInv

(* Without a rename, no MIDI event uses the address of a closed port while a port
   of its name is open (EventTrigger::updateEventTrigger). *)
THEOREM FollowsPorts == EventsSpec => []EventsFollowPorts
BY EventsInductive, PTL DEF EventsInv

(* No event that is defined is missing in the JSON (Event::addEvent). *)
THEOREM SavesEvents == EventsSpec => []EventsSaved
BY EventsInductive, PTL DEF EventsInv

=============================================================================
