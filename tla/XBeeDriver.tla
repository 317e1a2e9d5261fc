----------------------------- MODULE XBeeDriver -----------------------------
(***************************************************************************)
(* The XBee driver while the daemon connects (tryToConnectOnPort): the     *)
(* receiver of frames (lib/XBee/src/xbee/xbee_device.c), byte by byte, and *)
(* the list of AT commands that asks the device who it is                  *)
(* (lib/XBee/src/xbee/xbee_atcmd.c).  The list stands for the one of the   *)
(* driver by one register that is copied, the association indicator AI and *)
(* the network address MY, where a refresh starts.  The serial line may    *)
(* harm, lose or add bytes.                                                *)
(***************************************************************************)
EXTENDS Naturals, Sequences, SequencesExt

CONSTANTS
  MaxFrameLen,  \* XBEE_MAX_FRAME_LEN
  Values,       \* the values of the copied register and of MY
  Noise,        \* the bytes that harm or join a frame
  MaxFaults,    \* bound: bytes harmed, lost or added
  MaxStatus,    \* bound: modem status frames
  MaxAsked      \* bound: commands sent

ASSUME DriverAssumption ==
  /\ MaxFrameLen \in 5..255
  /\ Values \subseteq 0..255 /\ Noise \subseteq 0..255
  /\ MaxFaults \in Nat /\ MaxStatus \in Nat /\ MaxAsked \in 3..255

VARIABLES
  line,       \* the bytes between the device and the daemon
  rx,         \* xbee_dev_t.rx: state, bytes_in_frame, frame_data up to bytes_read
  request,    \* the entry of the request table: frame identifier and command
  frameId,    \* xbee_dev_t.frame_id
  index,      \* the place of the list in Registers (xbee_command_list_context_t)
  status,     \* clc->status
  inProgress, \* XBEE_DEV_FLAG_QUERY_INPROGRESS
  joined,     \* WPAN_FLAG_JOINED
  info,       \* what the registers were copied to
  truth,      \* the values the device has
  asked,      \* the command the device has yet to answer, or NoRequest
  sent, got,  \* how many frames the device sent and the driver dispatched
  faults, statuses,
  masked      \* a fault was one that a sum modulo 256 does not show

driverVars == <<line, rx, request, frameId, index, status, inProgress, joined, info, truth,
                asked, sent, got, faults, statuses, masked>>
queryVars == <<request, frameId, index, status, inProgress, joined, info, asked>>

Start == 126                       \* 0x7E
LocalResponse == 136               \* XBEE_FRAME_LOCAL_AT_RESPONSE
ModemStatus == 138                 \* XBEE_FRAME_MODEM_STATUS
CoordStart == 6                    \* XBEE_MODEM_STATUS_COORD_START
JoinedStatus == {2, 6, 16}         \* joined, started as a coordinator, key established
LeftStatus == {0, 1, 3}            \* reset, watchdog, disassociated
Coordinator == 0                   \* WPAN_NET_ADDR_COORDINATOR
Undefined == 256                   \* WPAN_NET_ADDR_UNDEFINED, no value of a register
Unset == 257                       \* what memset leaves in a register

(* _xbee_atcmd_query_regs and XBEE_ATCMD_REG_REFRESH_IDX *)
Registers == <<"SL", "AI", "MY">>
RefreshIndex == 3
Letters(r) == IF r = "SL" THEN 76 ELSE IF r = "AI" THEN 65 ELSE 77
NoRequest == [frame |-> 0, command |-> "none"]

-----------------------------------------------------------------------------
(* Frames *)

(* _xbee_checksum: the bytes are subtracted from initial. *)
Checksum(bytes, initial) ==
  LET sum[i \in 0..Len(bytes)] == IF i = 0 THEN initial ELSE (sum[i - 1] + 256 - bytes[i]) % 256
  IN  sum[Len(bytes)]

(* xbee_frame_write, and the device the other way. *)
Frame(payload) == <<Start, Len(payload) \div 256, Len(payload) % 256>> \o payload \o <<Checksum(payload, 255)>>

WaitStart == [state |-> "WAITSTART", length |-> 0, data |-> <<>>]

-----------------------------------------------------------------------------
(* The list of commands *)

(* xbee_cmd_list_execute from an entry of the list, and xbee_cmd_send.  The device may
   be deaf. *)
Issue(i) ==
  LET r == [frame |-> frameId + 1, command |-> Registers[i]]
  IN  /\ frameId' = frameId + 1
      /\ request' = r
      /\ index' = i
      /\ status' = "running"
      /\ asked' \in {r, asked}

(* xbee_cmd_query_device; with a free entry in the table a refresh starts at once. *)
QueryDevice(i) ==
  /\ Issue(i)
  /\ inProgress' = TRUE

(* Mutant: a query that timed out stays in progress. *)
MutQueryEnd(result, r, join) ==
  IF result = "timeout" /\ join /\ r.MY = Undefined
  THEN QueryDevice(RefreshIndex)
  ELSE /\ status' = result
       /\ request' = NoRequest
       /\ inProgress' = (result = "timeout")
       /\ UNCHANGED <<frameId, index, asked>>

(* _xbee_cmd_query_handle_end, and the release of the request: after an error a device
   that has joined and whose address is not known is asked again. *)
QueryEnd(result, r, join) ==
  IF result = "timeout" /\ join /\ r.MY = Undefined
  THEN QueryDevice(RefreshIndex)
  ELSE /\ status' = result
       /\ request' = NoRequest
       /\ inProgress' = FALSE
       /\ UNCHANGED <<frameId, index, asked>>

(* _xbee_cmd_list_callback on a response with status 0 (success) or not: the value is
   copied, and the next command is sent under the same request. *)
ListCallback(code, value) ==
  LET r == Registers[index]
      next == IF code = 0 /\ r # "AI" THEN [info EXCEPT ![r] = value] ELSE info
      join == joined \/ (code = 0 /\ r = "AI" /\ value = 0)
  IN  /\ info' = next
      /\ joined' = join
      /\ IF index < Len(Registers)
         THEN Issue(index + 1) /\ UNCHANGED inProgress
         ELSE QueryEnd("done", next, join)

(* _xbee_cmd_handle_response *)
HandleResponse(frame) ==
  IF request # NoRequest /\ Len(frame) = 5 /\ frame[2] = request.frame /\ frame[3] = Letters(request.command)
  THEN ListCallback(frame[4], frame[5])
  ELSE UNCHANGED queryVars

(* _xbee_dev_modem_status *)
HandleStatus(s) ==
  /\ joined' = (s \in JoinedStatus \/ (joined /\ s \notin LeftStatus))
  /\ info' = [info EXCEPT !.MY = IF s \in LeftStatus THEN Undefined ELSE IF s = CoordStart THEN Coordinator ELSE @]
  /\ UNCHANGED <<request, frameId, index, status, inProgress, asked>>

(* _xbee_frame_dispatch *)
Dispatch(frame) ==
  /\ got' = got + 1
  /\ IF frame[1] = ModemStatus THEN HandleStatus(frame[2])
     ELSE IF frame[1] = LocalResponse THEN HandleResponse(frame)
     ELSE UNCHANGED queryVars

-----------------------------------------------------------------------------
(* _xbee_frame_load, one byte *)

Quiet == UNCHANGED queryVars /\ UNCHANGED got

(* Mutant: the checksum is read and not tested. *)
MutEndOfFrame(data, length) == rx' = WaitStart /\ Dispatch(SubSeq(data, 1, length))

(* The last byte of a frame: a frame whose checksum fails is thrown away. *)
EndOfFrame(data, length) ==
  /\ rx' = WaitStart
  /\ IF Checksum(data, 255) = 0 THEN Dispatch(SubSeq(data, 1, length)) ELSE Quiet

(* Mutant: a length that is too large is believed. *)
MutBadLength(length) == length < 2

BadLength(length) == length > MaxFrameLen \/ length < 2

(* Mutant: a start byte inside a frame begins another one. *)
MutInFrame(c) ==
  IF c = Start THEN rx' = [rx EXCEPT !.state = "LENGTH_MSB", !.data = <<>>] /\ Quiet
  ELSE IF Len(rx.data) = rx.length THEN EndOfFrame(Append(rx.data, c), rx.length)
  ELSE rx' = [rx EXCEPT !.data = Append(@, c)] /\ Quiet

(* XBEE_RX_STATE_RXFRAME: the bytes of the frame and its checksum. *)
InFrame(c) ==
  IF Len(rx.data) = rx.length THEN EndOfFrame(Append(rx.data, c), rx.length)
  ELSE rx' = [rx EXCEPT !.data = Append(@, c)] /\ Quiet

ReadByte ==
  /\ line # <<>>
  /\ line' = Tail(line)
  /\ LET c == Head(line)
     IN  CASE rx.state = "WAITSTART" ->
                /\ rx' = IF c = Start THEN [rx EXCEPT !.state = "LENGTH_MSB"] ELSE rx
                /\ Quiet
           [] rx.state = "LENGTH_MSB" ->
                /\ rx' = IF c = Start THEN rx ELSE [rx EXCEPT !.state = "LENGTH_LSB", !.length = 256 * c]
                /\ Quiet
           [] rx.state = "LENGTH_LSB" ->
                /\ rx' = IF ~ BadLength(rx.length + c)
                         THEN [state |-> "RXFRAME", length |-> rx.length + c, data |-> <<>>]
                         ELSE IF c = Start THEN [WaitStart EXCEPT !.state = "LENGTH_MSB"] ELSE WaitStart
                /\ Quiet
           [] rx.state = "RXFRAME" -> InFrame(c)
  /\ UNCHANGED <<truth, sent, faults, statuses, masked>>

(* xbee_cmd_tick, called by xbee_cmd_query_status: no response has come. *)
Timeout ==
  /\ request # NoRequest
  /\ frameId < MaxAsked
  /\ QueryEnd("timeout", info, joined)
  /\ UNCHANGED <<line, rx, joined, info, truth, sent, got, faults, statuses, masked>>

-----------------------------------------------------------------------------
(* The device and the line, external *)

Put(bytes) == line' = line \o bytes

(* The device carries out the command, or refuses it. *)
Answer ==
  /\ asked # NoRequest
  /\ \E code \in {0, 1} :
       Put(Frame(<<LocalResponse, asked.frame, Letters(asked.command), code,
                   truth[asked.command]>>))
  /\ asked' = NoRequest
  /\ sent' = sent + 1
  /\ UNCHANGED <<rx, request, frameId, index, status, inProgress, joined, info, truth, got, faults, statuses,
                 masked>>

(* The device reports that it joined or left a network. *)
ReportStatus ==
  /\ statuses < MaxStatus
  /\ statuses' = statuses + 1
  /\ \E s \in {2, 3, CoordStart} :
       /\ s = CoordStart => truth.MY = Coordinator
       /\ Put(Frame(<<ModemStatus, s>>))
  /\ sent' = sent + 1
  /\ UNCHANGED <<rx, queryVars, truth, got, faults, masked>>

(* The bytes from place i on that may be the checksum of a frame. *)
Checksums(i) == {line[j] : j \in {k \in i..Len(line) : k = Len(line) \/ line[k + 1] = Start}}

(* A byte of the line is harmed, lost or added.  The sum does not show that a 0x7E is lost,
   since the 0x7E of the next frame makes up for it as the checksum, nor that a byte equal
   to the checksum is added, since the last byte of the data is then the checksum. *)
HarmLine ==
  /\ faults < MaxFaults
  /\ faults' = faults + 1
  /\ \E i \in 1..Len(line), c \in Noise :
       \/ line[i] # c /\ line' = [line EXCEPT ![i] = c] /\ UNCHANGED masked
       \/ line' = RemoveAt(line, i) /\ masked' = (masked \/ line[i] = Start)
       \/ line' = InsertAt(line, i, c) /\ masked' = (masked \/ c \in Checksums(i))
  /\ UNCHANGED <<rx, queryVars, truth, sent, got, statuses>>

-----------------------------------------------------------------------------
(* xbee_dev_init has cleared the device and xbee_cmd_init_device sends the first
   command. *)
DriverInit ==
  /\ line = <<>>
  /\ rx = WaitStart
  /\ frameId = 1 /\ index = 1
  /\ request = [frame |-> 1, command |-> Registers[1]]
  /\ asked \in {request, NoRequest}
  /\ status = "running" /\ inProgress = TRUE
  /\ joined = FALSE
  /\ info = [SL |-> Unset, AI |-> Unset, MY |-> Unset]
  /\ truth \in [SL : Values, AI : {0, 255}, MY : Values \cup {Coordinator}]
  /\ sent = 0 /\ got = 0 /\ faults = 0 /\ statuses = 0 /\ masked = FALSE

DriverNext == ReadByte \/ Timeout \/ Answer \/ ReportStatus \/ HarmLine

(* The XBee thread loops in tryToConnectOnPort, and time passes. *)
DriverSpec ==
  /\ DriverInit /\ [][DriverNext]_driverVars
  /\ WF_driverVars(ReadByte) /\ WF_driverVars(Timeout)

-----------------------------------------------------------------------------
(* frame_data holds XBEE_MAX_FRAME_LEN + 1 bytes, whatever length the line makes the
   receiver believe, and a list that runs waits for a request. *)
DriverTypeOK ==
  /\ Len(rx.data) <= MaxFrameLen /\ rx.data \in Seq(0..255)
  /\ status \in {"running", "done", "timeout"}
  /\ (status = "running") = (request # NoRequest)

(* What the driver believes of the device is true, whatever happens to one byte of the
   line, unless the sum cannot show it (_xbee_frame_load, _xbee_cmd_list_callback). *)
CopiesAreTrue ==
  faults <= 1 /\ ~ masked =>
  /\ info.SL \in {Unset, truth.SL}
  /\ info.MY \in {Unset, Undefined, truth.MY}

(* On a line without faults every frame of the device is dispatched, also when its
   data hold the byte that starts a frame (_xbee_frame_load). *)
NothingLostOnGoodLine == faults = 0 /\ line = <<>> => rx = WaitStart /\ got = sent

(* The loop of tryToConnectOnPort ends, answer or not; but it goes on as long as the
   device has joined and its address is not known (_xbee_cmd_query_handle_end). *)
QueryEnds == inProgress ~> (~ inProgress \/ (joined /\ info.MY = Undefined) \/ frameId = MaxAsked)

=============================================================================
