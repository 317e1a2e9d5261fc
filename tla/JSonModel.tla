------------------------------ MODULE JSonModel ------------------------------
(***************************************************************************)
(* The cache file of a model (JSonModel, model/model.cpp): every change of *)
(* the tree is copied to a document, a single-shot timer writes the        *)
(* document to disk, a file watcher reads it back when somebody else       *)
(* writes it, a crash leaves it behind and a clean exit deletes it.        *)
(*                                                                         *)
(* The main thread owns the timer, the watcher and the file.  Changes are  *)
(* made by the main thread and by the XBee thread (button reports), whose  *)
(* startTimer signal is queued to the main thread.                         *)
(***************************************************************************)
EXTENDS Naturals, Sequences

CONSTANTS
  Contents,       \* contents a model can have
  Default,        \* the content of the file built into the program
  Empty, Absent,  \* a file, or a model, without content; no file
  MaxChanges,     \* bound: how often threads change the model
  MaxEdits,       \* bound: how often somebody edits the file
  MaxCrashes      \* bound: how often the daemon dies or exits

ASSUME JSonModelAssumption ==
  /\ Default \in Contents
  /\ {Empty, Absent} \cap Contents = {} /\ Empty # Absent
  /\ MaxChanges \in Nat /\ MaxEdits \in Nat /\ MaxCrashes \in Nat

VARIABLES
  running,      \* the daemon runs
  json,         \* the tree and _jsonDoc, equal after updateParentJSon
  file,         \* the content of the cache file
  watched,      \* the file is in _watch
  noticed,      \* fileChanged is queued
  timer,        \* the timer is active
  startQueued,  \* a startTimer signal of the XBee thread is queued
  xbee,         \* the XBee thread is between the two statements of updateParentJSon
  writing,      \* the main thread is in writeJSonFile, after it truncated the file
  lastEdit,     \* what an editor wrote and the daemon has not read, or Absent
  changes, edits, crashes

jsonVars == <<running, json, file, watched, noticed, timer, startQueued, xbee, writing,
              lastEdit, changes, edits, crashes>>

Threads == <<startQueued, xbee>>
Counters == <<changes, edits, crashes>>
NoEdit == Absent

(* A first start: initFile copies the built-in file and watches the copy. *)
JSonInit ==
  /\ running = TRUE
  /\ json = Default
  /\ file = Default
  /\ watched = TRUE /\ noticed = FALSE
  /\ timer = TRUE
  /\ startQueued = FALSE /\ xbee = FALSE
  /\ writing = FALSE
  /\ lastEdit = NoEdit
  /\ changes = 0 /\ edits = 0 /\ crashes = 0

-----------------------------------------------------------------------------
(* Changes *)

(* updateParentJSon on the main thread *)
Change ==
  /\ running /\ ~ writing
  /\ changes < MaxChanges
  /\ \E c \in Contents \ {json} : json' = c
  /\ timer' = TRUE
  /\ changes' = changes + 1
  /\ UNCHANGED <<running, file, watched, noticed, Threads, writing, lastEdit, edits, crashes>>

(* updateParentJSon on the XBee thread: the document first *)
ChangeFromXBee ==
  /\ running /\ ~ xbee
  /\ changes < MaxChanges
  /\ \E c \in Contents \ {json} : json' = c
  /\ xbee' = TRUE
  /\ changes' = changes + 1
  /\ UNCHANGED <<running, file, watched, noticed, timer, startQueued, writing, lastEdit, edits, crashes>>

(* Mutant: a change made on the XBee thread starts no timer. *)
MutRequestTimer ==
  /\ running /\ xbee
  /\ xbee' = FALSE
  /\ UNCHANGED <<running, json, file, watched, noticed, timer, startQueued, writing, lastEdit, Counters>>

(* then the timer, unless it is active *)
RequestTimer ==
  /\ running /\ xbee
  /\ startQueued' = (startQueued \/ ~ timer)
  /\ xbee' = FALSE
  /\ UNCHANGED <<running, json, file, watched, noticed, timer, writing, lastEdit, Counters>>

StartTimer ==
  /\ running /\ ~ writing /\ startQueued
  /\ timer' = TRUE
  /\ startQueued' = FALSE
  /\ UNCHANGED <<running, json, file, watched, noticed, xbee, writing, lastEdit, Counters>>

-----------------------------------------------------------------------------
(* writeJSonFile *)

(* The timer fires: the file is opened, which empties it, and leaves the watch. *)
Timeout ==
  /\ running /\ ~ writing /\ timer
  /\ timer' = FALSE
  /\ writing' = TRUE
  /\ file' = Empty
  /\ watched' = FALSE
  /\ UNCHANGED <<running, json, noticed, Threads, lastEdit, Counters>>

(* Mutant: the file stays in the watch while it is written. *)
MutWriteFile ==
  /\ running /\ writing
  /\ file' = json
  /\ writing' = FALSE
  /\ watched' = TRUE /\ noticed' = TRUE
  /\ lastEdit' = NoEdit
  /\ UNCHANGED <<running, json, timer, Threads, Counters>>

(* The document is written and the file watched again. *)
WriteFile ==
  /\ running /\ writing
  /\ file' = json
  /\ writing' = FALSE
  /\ watched' = TRUE
  /\ lastEdit' = NoEdit
  /\ UNCHANGED <<running, json, noticed, timer, Threads, Counters>>

-----------------------------------------------------------------------------
(* parseJSonFile *)

(* Somebody writes the file while the daemon does not. *)
Edit ==
  /\ running /\ ~ writing
  /\ edits < MaxEdits
  /\ \E c \in Contents \ {json} : file' = c /\ lastEdit' = c
  /\ noticed' = (noticed \/ watched)
  /\ edits' = edits + 1
  /\ UNCHANGED <<running, json, watched, timer, Threads, writing, changes, crashes>>

(* fileChanged: the tree is cleared and populated from the file; every value that
   is set calls updateParentJSon, which starts the timer. *)
ParseJSonFile ==
  /\ running /\ ~ writing /\ noticed
  /\ noticed' = FALSE
  /\ json' = file
  /\ timer' = (timer \/ file # Empty)
  /\ lastEdit' = NoEdit
  /\ UNCHANGED <<running, file, watched, Threads, writing, Counters>>

-----------------------------------------------------------------------------
(* The life of the daemon *)

(* A crash leaves the file as it is; what lived in memory is gone. *)
Crash ==
  /\ running
  /\ crashes < MaxCrashes
  /\ running' = FALSE
  /\ timer' = FALSE /\ startQueued' = FALSE /\ xbee' = FALSE
  /\ writing' = FALSE /\ watched' = FALSE /\ noticed' = FALSE
  /\ lastEdit' = NoEdit
  /\ crashes' = crashes + 1
  /\ UNCHANGED <<json, file, changes, edits>>

(* A clean exit: ~JSonModel deletes the file. *)
Quit ==
  /\ running /\ ~ writing
  /\ crashes < MaxCrashes
  /\ running' = FALSE
  /\ timer' = FALSE /\ startQueued' = FALSE /\ xbee' = FALSE
  /\ watched' = FALSE /\ noticed' = FALSE
  /\ file' = Absent
  /\ lastEdit' = NoEdit
  /\ crashes' = crashes + 1
  /\ UNCHANGED <<json, writing, changes, edits>>

(* initFile: a file that was left behind is read and not watched; without one the
   built-in file is copied. *)
Start ==
  /\ ~ running
  /\ running' = TRUE
  /\ file' = IF file = Absent THEN Default ELSE file
  /\ json' = file'
  /\ watched' = (file = Absent)
  /\ timer' = (file' # Empty)
  /\ UNCHANGED <<noticed, Threads, writing, lastEdit, Counters>>

JSonNext ==
  \/ Change \/ ChangeFromXBee \/ RequestTimer \/ StartTimer
  \/ Timeout \/ WriteFile
  \/ Edit \/ ParseJSonFile
  \/ Crash \/ Quit \/ Start

(* The event loop of the main thread and the XBee thread run on. *)
JSonSpec ==
  /\ JSonInit /\ [][JSonNext]_jsonVars
  /\ WF_jsonVars(StartTimer) /\ WF_jsonVars(Timeout) /\ WF_jsonVars(WriteFile)
  /\ WF_jsonVars(ParseJSonFile)
  /\ WF_jsonVars(RequestTimer)

-----------------------------------------------------------------------------
(* The model and the file hold contents, and what is pending is known. *)
JSonTypeOK ==
  /\ {json, file} \subseteq Contents \cup {Empty, Absent}
  /\ json # Absent
  /\ \A b \in {running, watched, noticed, timer, startQueued, xbee, writing} : b \in BOOLEAN
  /\ lastEdit \in Contents \cup {NoEdit}
  /\ running => file # Absent

(* No change is forgotten: while the file differs from the model, a save is under
   way or due, whichever thread made the change and whenever the timer fired. *)
NoForgottenChange ==
  running /\ json # file /\ lastEdit = NoEdit
    => timer \/ startQueued \/ xbee \/ writing \/ noticed

(* The daemon's own saves do not make it reload and save again for ever. *)
Settles ==
  <>[](running => ~ timer /\ ~ noticed /\ ~ writing /\ (lastEdit = NoEdit => file = json))

=============================================================================
