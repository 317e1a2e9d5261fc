--------------------------- MODULE TelnetSession ---------------------------
(***************************************************************************)
(* One telnet client of the daemon (telnet/telnetsocket.cpp): its mode,    *)
(* its verbosity, the lock that drops its input while a command runs, and  *)
(* the line editor of the friendly CLI.  Everything runs on the main       *)
(* thread; the timers and the answers that the XBee thread queues run      *)
(* between two packets of the client.  A line is known by its length.      *)
(***************************************************************************)
EXTENDS Integers, Sequences

CONSTANTS
  StartHistPos, \* what the memory of the uninitialised _histPos can hold
  MaxLine,      \* bound: the length of a line
  MaxHistory,   \* bound: the lines of the history
  MaxShots      \* bound: the timers running, and the calls not answered, at a time

ASSUME TelnetAssumption == StartHistPos \subseteq Int /\ MaxLine \in Nat /\ MaxHistory \in Nat /\ MaxShots \in Nat

VARIABLES
  locked,       \* _locked
  shots,        \* single-shot timers of lockInput that have not fired
  calls,        \* function calls whose callback has not answered
  mode,         \* _mode
  verbose,      \* _verbose
  links,        \* connections of the signal out of a model to send
  friendly,     \* _friendly
  line,         \* the length of _currentLine
  linePos,      \* _linePos
  history,      \* the lengths of _cmdHistory
  histPos       \* _histPos

sessionVars == <<locked, shots, calls, mode, verbose, links, friendly, line, linePos, history, histPos>>
editorVars == <<line, linePos, history, histPos>>

Modes == {"Basic", "Network", "EventsProcessor", "Application"}
Models == {"Network", "EventsProcessor"}
HasModel(m) == m \in Models

NoLinks == [m \in Models |-> 0]

(* The constructor: setFriendlyCLI(false) releases the input, then the server's
   greeting.  _histPos has no initial value. *)
SessionInit ==
  /\ locked = FALSE /\ shots = 0 /\ calls = 0
  /\ mode = "Basic" /\ verbose = FALSE /\ links = NoLinks
  /\ friendly = FALSE
  /\ line = 0 /\ linePos = 0 /\ history = <<>> /\ histPos \in StartHistPos

-----------------------------------------------------------------------------
(* The lock *)

(* Mutant: the friendly CLI starts no timer. *)
MutLock(release) ==
  /\ ~ locked /\ shots < MaxShots
  /\ locked' = ~ release
  /\ shots' = IF friendly THEN shots ELSE shots + 1

(* lockInput at the start of a command, and releaseInput before its end if the
   command reaches one.  Stopping t does not stop the static single shot. *)
Lock(release) ==
  /\ ~ locked /\ shots < MaxShots
  /\ locked' = ~ release
  /\ shots' = shots + 1

(* A single shot fires: releaseInput, whichever command it was started for. *)
ShotFires ==
  /\ shots > 0
  /\ shots' = shots - 1
  /\ locked' = FALSE
  /\ UNCHANGED <<calls, mode, verbose, links, friendly, editorVars>>

(* send(answer, true) queued by the callback of a call that the XBee thread
   completes; the timer may have unlocked, and another command locked, since. *)
LateAnswer ==
  /\ calls > 0
  /\ calls' = calls - 1
  /\ locked' = FALSE
  /\ UNCHANGED <<shots, mode, verbose, links, friendly, editorVars>>

-----------------------------------------------------------------------------
(* cmdReceived *)

(* connect() on a null model fails and disconnect() removes every connection. *)
Connected(m) == IF HasModel(m) THEN [links EXCEPT ![m] = @ + 1] ELSE links
Disconnected(m) == IF HasModel(m) THEN [links EXCEPT ![m] = 0] ELSE links

(* Mutant: the old model stays connected. *)
MutSwitchMode(m) ==
  /\ Lock(TRUE)
  /\ mode' = m
  /\ links' = IF verbose THEN Connected(m) ELSE links
  /\ UNCHANGED <<calls, verbose, friendly>>

(* switchMode *)
SwitchMode(m) ==
  /\ Lock(TRUE)
  /\ mode' = m
  /\ links' = IF ~ verbose THEN links
              ELSE IF HasModel(m) THEN [Disconnected(mode) EXCEPT ![m] = @ + 1]
              ELSE Disconnected(mode)
  /\ UNCHANGED <<calls, verbose, friendly>>

(* setVerbose: asking for what is set already returns without releaseInput. *)
SetVerbose(v) ==
  /\ Lock(v # verbose)
  /\ verbose' = v
  /\ links' = IF v = verbose THEN links ELSE IF v THEN Connected(mode) ELSE Disconnected(mode)
  /\ UNCHANGED <<calls, mode, friendly>>

(* setFriendlyCLI, likewise *)
SetFriendlyCLI(f) ==
  /\ Lock(f # friendly)
  /\ friendly' = f
  /\ UNCHANGED <<calls, mode, verbose, links>>

(* dispatchCmd: without a model it returns at once and leaves the lock; a get, a
   set, an error and a call that answers on the spot release it. *)
DispatchCmd ==
  /\ Lock(HasModel(mode))
  /\ UNCHANGED <<calls, mode, verbose, links, friendly>>

(* dispatchCmd of a call that answers later *)
DispatchCall ==
  /\ HasModel(mode)
  /\ Lock(FALSE)
  /\ calls < MaxShots
  /\ calls' = calls + 1
  /\ UNCHANGED <<mode, verbose, links, friendly>>

CmdReceived ==
  \/ \E m \in Modes : SwitchMode(m)
  \/ \E v \in BOOLEAN : SetVerbose(v)
  \/ \E f \in BOOLEAN : SetFriendlyCLI(f)
  \/ DispatchCmd
  \/ DispatchCall

-----------------------------------------------------------------------------
(* processInput; telnetEvent drops what arrives while the input is locked *)

Unfriendly == ~ locked /\ ~ friendly
Friendly == ~ locked /\ friendly
NoCommand == UNCHANGED <<locked, shots, calls, mode, verbose, links, friendly>>

(* A packet without the end of a line. *)
ReceivePart ==
  /\ Unfriendly
  /\ \E n \in 1..(MaxLine - line) : line' = line + n
  /\ NoCommand /\ UNCHANGED <<linePos, history, histPos>>

(* A packet that ends a line. *)
ReceiveLine ==
  /\ Unfriendly
  /\ CmdReceived
  /\ line' = 0
  /\ UNCHANGED <<linePos, history, histPos>>

(* Enter *)
Enter ==
  /\ Friendly /\ line > 0
  /\ Len(history) < MaxHistory
  /\ CmdReceived
  /\ history' = Append(history, line)
  /\ histPos' = Len(history')
  /\ line' = 0 /\ linePos' = 0

(* Mutant: the cursor may go one step beyond the line. *)
MutMoveCursor ==
  /\ Friendly
  /\ linePos' \in {linePos - 1, linePos + 1} \cap 0..(line + 1)
  /\ NoCommand /\ UNCHANGED <<line, history, histPos>>

(* moveCursor; home and end repeat it *)
MoveCursor ==
  /\ Friendly
  /\ linePos' \in {linePos - 1, linePos + 1, 0, line} \cap 0..line
  /\ NoCommand /\ UNCHANGED <<line, history, histPos>>

(* cliWrite: typed characters and completions go in at the cursor, which a
   completion may then move back between its parentheses. *)
CliWrite ==
  /\ Friendly
  /\ \E n \in 1..(MaxLine - line) :
       /\ line' = line + n
       /\ \E back \in 0..n : linePos' = linePos + n - back
  /\ NoCommand /\ UNCHANGED <<history, histPos>>

Backspace ==
  /\ Friendly /\ linePos > 0
  /\ linePos' = linePos - 1 /\ line' = line - 1
  /\ NoCommand /\ UNCHANGED <<history, histPos>>

Delete ==
  /\ Friendly /\ linePos < line
  /\ line' = line - 1
  /\ NoCommand /\ UNCHANGED <<linePos, history, histPos>>

(* Up; a read outside the history is undefined and ends the model's behaviour. *)
HistoryUp ==
  /\ Friendly /\ histPos > 0
  /\ histPos <= Len(history)
  /\ histPos' = histPos - 1
  /\ line' = history[histPos] /\ linePos' = line'
  /\ NoCommand /\ UNCHANGED history

(* Down, likewise *)
HistoryDown ==
  /\ Friendly /\ histPos < Len(history)
  /\ histPos + 1 >= 0
  /\ histPos' = histPos + 1
  /\ line' = IF histPos' < Len(history) THEN history[histPos' + 1] ELSE 0
  /\ linePos' = line'
  /\ NoCommand /\ UNCHANGED history

SessionNext ==
  \/ ReceivePart \/ ReceiveLine
  \/ Enter \/ MoveCursor \/ CliWrite \/ Backspace \/ Delete \/ HistoryUp \/ HistoryDown
  \/ ShotFires \/ LateAnswer

SessionSpec == SessionInit /\ [][SessionNext]_sessionVars

(* The event loop fires the timers. *)
FairSessionSpec == SessionSpec /\ WF_sessionVars(ShotFires)

-----------------------------------------------------------------------------
(* The variables hold what their C++ counterparts can hold. *)
SessionTypeOK ==
  /\ locked \in BOOLEAN /\ shots \in Nat /\ calls \in Nat
  /\ mode \in Modes /\ verbose \in BOOLEAN /\ friendly \in BOOLEAN
  /\ links \in [Models -> Nat]
  /\ line \in Nat /\ linePos \in Nat /\ histPos \in Int
  /\ history \in Seq(Nat)

(* The cursor of the editor is in its line, so that remove() and insert() are
   called inside it, also after the client left the editor and came back, and once
   a line was entered the position of the history is in the history, through all
   the editing keys. *)
EditorInBounds ==
  /\ linePos <= line
  /\ ~ friendly => linePos = 0
  /\ history # <<>> => histPos \in 0..Len(history)

(* A verbose client is connected once to the model of its mode and to no other,
   so that it is told every change exactly once. *)
VerboseFollowsMode ==
  \A m \in Models : links[m] = IF verbose /\ mode = m THEN 1 ELSE 0

(* A locked client has a timer running that will unlock it, also when the command
   returned without an answer. *)
LockCovered == locked => shots > 0

(* A locked client is unlocked in the end. *)
LockReleased == locked ~> ~ locked
=============================================================================
