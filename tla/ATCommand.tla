----------------------------- MODULE ATCommand -----------------------------
(***************************************************************************)
(* The table of AT command requests of the XBee driver                     *)
(* (lib/XBee/src/xbee/xbee_atcmd.c): requests are created in a free slot   *)
(* and denoted by a handle, sent under a frame identifier, matched with    *)
(* the responses of the radio and expired when none comes.  The callback   *)
(* of a request decides whether its slot is kept; it is the caller's, so   *)
(* the operators take its verdict as a parameter.  Time is not counted:    *)
(* by the time the driver looks, any of the requests may have expired.     *)
(***************************************************************************)
EXTENDS Naturals, FiniteSets

CONSTANTS
  TableSize,    \* XBEE_CMD_REQUEST_TABLESIZE
  Commands,     \* the two letters of the AT commands
  Devices,      \* addresses of remote devices
  Local         \* the device on the serial port

ASSUME ATAssumption == TableSize \in 1..127 /\ Local \notin Devices

VARIABLES
  table,      \* xbee_cmd_request_table
  frameId,    \* xbee_dev_t.frame_id
  asked       \* what was sent and may still be answered

atVars == <<table, frameId, asked>>

Slots == 0..(TableSize - 1)
Targets == Devices \cup {Local}
None == "none"

(* An entry is free when its device is NULL, here when it has no command. *)
ATInit ==
  /\ table = [i \in Slots |-> [command |-> None, target |-> Local, frame |-> 0, sequence |-> 0]]
  /\ frameId = 0
  /\ asked = {}

-----------------------------------------------------------------------------
(* Handles *)

Handle(i) == i * 256 + table[i].sequence

(* _xbee_cmd_handle_to_address: the slot of a valid handle. *)
ValidHandle(h) == h < TableSize * 256 /\ table[h \div 256].sequence = h % 256
SlotOf(h) == h \div 256

InUse(i) == table[i].command # None
TableFull == \A i \in Slots : InUse(i)
FirstFree == CHOOSE i \in Slots : ~ InUse(i) /\ \A j \in 0..(i - 1) : InUse(j)

(* xbee_cmd_create, xbee_cmd_set_callback and xbee_cmd_set_target on slot i: all
   but the sequence is cleared and set. *)
Created(i, command, target) ==
  [table EXCEPT ![i] = [@ EXCEPT !.command = command, !.target = target, !.frame = 0]]

(* _xbee_cmd_release_request on every slot of S. *)
Released(t, S) ==
  [i \in Slots |-> IF i \in S
                   THEN [t[i] EXCEPT !.command = None, !.sequence = (@ + 1) % 256]
                   ELSE t[i]]

(* xbee_next_frame_id: 1 to 255. *)
NextFrameId == IF frameId = 255 THEN 1 ELSE frameId + 1

-----------------------------------------------------------------------------
(* xbee_cmd_send: a handle that is no longer valid is refused; the serial port may
   be busy, and the request then waits under its new frame identifier until it
   expires. *)
Send(h) ==
  IF ~ ValidHandle(h) THEN UNCHANGED atVars
  ELSE LET i == SlotOf(h)
       IN  /\ frameId' = NextFrameId
           /\ table' = [table EXCEPT ![i].frame = NextFrameId]
           /\ \/ asked' = asked \cup {[command |-> table[i].command, target |-> table[i].target,
                                       frame |-> NextFrameId]}
              \/ UNCHANGED asked

(* Mutant: the frame identifiers are not compared. *)
MutMatches(i, a) ==
  /\ table[i].command = a.command
  /\ (table[i].target = Local) = (a.target = Local)

(* The test of _xbee_cmd_handle_response: the address of the sender is not compared. *)
Matches(i, a) ==
  /\ table[i].command = a.command
  /\ table[i].frame = a.frame
  /\ (table[i].target = Local) = (a.target = Local)

Matching(a) == {i \in Slots : Matches(i, a)}
Matched(a) == CHOOSE i \in Matching(a) : \A j \in Matching(a) : i <= j

(* _xbee_cmd_handle_response: the response a reaches the request that matches it, if
   any, whose slot is kept, for more responses, or released. *)
HandleResponse(a, keep) ==
  /\ table' = IF keep \/ Matching(a) = {} THEN table ELSE Released(table, {Matched(a)})
  /\ UNCHANGED frameId

(* xbee_cmd_tick: the callbacks of the requests that have expired, some of the ones
   in use, run, and the slots that they do not keep are released. *)
Tick(Keep) == \E S \in SUBSET {i \in Slots \ Keep : InUse(i)} : S # {} /\ table' = Released(table, S)

-----------------------------------------------------------------------------
(* A response can only reach the callback of a request to the device that sent it,
   however late it comes and whatever the slots were used for since: the address of
   the sender is not compared (_xbee_cmd_handle_response). *)
AnswersReachAsker == \A a \in asked : \A i \in Matching(a) : table[i].target = a.target

=============================================================================
