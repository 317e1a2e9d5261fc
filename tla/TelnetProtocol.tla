--------------------------- MODULE TelnetProtocol ---------------------------
(***************************************************************************)
(* The telnet protocol between a client and the daemon: libtelnet          *)
(* (lib/libtelnet/libtelnet.c) takes the client's bytes apart, wherever    *)
(* TCP cuts them, and negotiates options; TelnetSocket asks for ECHO and   *)
(* LINEMODE as its friendly CLI is switched on and off.  The client is     *)
(* external: an RFC 1143 endpoint, that may refuse and may ask by itself.  *)
(***************************************************************************)
EXTENDS Naturals, Sequences, SequencesExt

CONSTANTS
  BufferLimit,   \* the last of _buffer_sizes
  Typed,         \* the data bytes a client sends
  UpBound,       \* bound: bytes on their way when the client sends by itself
  MaxTyped,      \* bound: data bytes sent
  MaxRequests,   \* bound: options that the client asks for or gives up by itself
  MaxSub,        \* bound: subnegotiations of the client
  MaxToggles     \* bound: switches of the friendly CLI

ASSUME ProtocolAssumption ==
  /\ BufferLimit \in Nat \ {0} /\ Typed \subseteq 0..255
  /\ UpBound \in Nat /\ MaxTyped \in Nat /\ MaxRequests \in Nat /\ MaxSub \in Nat /\ MaxToggles \in Nat

VARIABLES
  up,        \* the bytes from the client to the daemon
  down,      \* the negotiation commands from the daemon to the client
  state,     \* telnet_t.state
  buffer,    \* telnet_t.buffer up to buffer_pos
  q,         \* telnet_t.q: the states us and him of each option
  pending,   \* the bytes of the packet from start on that _process has passed
  data,      \* the bytes of the TELNET_EV_DATA events so far
  friendly,  \* _friendly
  client,    \* the states of the client: do, for the daemon's options, and will, for its own
  typed,     \* the data bytes the client sent
  requests, subs, toggles,
  asked      \* the client has asked for ECHO, or given it up, by itself

protocolVars == <<up, down, state, buffer, q, pending, data, friendly, client, typed, requests, subs, toggles, asked>>
clientVars == <<client, typed, requests, subs, asked>>
daemonVars == <<state, buffer, q, pending, data, friendly, toggles>>

IAC == 255
SB == 250
SE == 240
ECHO == 1
LINEMODE == 34
Options == {ECHO, LINEMODE}
Commands == {"WILL", "WONT", "DO", "DONT"}
Code(cmd) == CASE cmd = "WILL" -> 251 [] cmd = "WONT" -> 252 [] cmd = "DO" -> 253 [] cmd = "DONT" -> 254
CommandOf(byte) == CHOOSE cmd \in Commands : Code(cmd) = byte

-----------------------------------------------------------------------------
(* RFC 1143: the answer of one side of an option to WILL or DO (yes) and to WONT or
   DONT (not yes), and its request *)

(* Mutant: a command is answered whatever the state. *)
MutStateless(s, yes, agree) == IF yes /\ agree THEN <<"YES", "yes">> ELSE <<"NO", "no">>

(* Mutant: an option that was off is switched on without an answer. *)
MutSilent(s, yes, agree) ==
  CASE s = "NO" -> IF yes THEN IF agree THEN <<"YES", "none">> ELSE <<"NO", "no">> ELSE <<"NO", "none">>
    [] s = "YES" -> IF yes THEN <<"YES", "none">> ELSE <<"NO", "no">>
    [] s = "WANTNO" -> <<"NO", "none">>
    [] s = "WANTNO_OP" -> IF yes THEN <<"YES", "none">> ELSE <<"WANTYES", "yes">>
    [] s = "WANTYES" -> IF yes THEN <<"YES", "none">> ELSE <<"NO", "none">>
    [] s = "WANTYES_OP" -> IF yes THEN <<"WANTNO", "no">> ELSE <<"NO", "none">>

(* _negotiate, as the pair of the next state and the answer. *)
Answer(s, yes, agree) ==
  CASE s = "NO" -> IF yes THEN IF agree THEN <<"YES", "yes">> ELSE <<"NO", "no">> ELSE <<"NO", "none">>
    [] s = "YES" -> IF yes THEN <<"YES", "none">> ELSE <<"NO", "no">>
    [] s = "WANTNO" -> <<"NO", "none">>
    [] s = "WANTNO_OP" -> IF yes THEN <<"YES", "none">> ELSE <<"WANTYES", "yes">>
    [] s = "WANTYES" -> IF yes THEN <<"YES", "none">> ELSE <<"NO", "none">>
    [] s = "WANTYES_OP" -> IF yes THEN <<"WANTNO", "no">> ELSE <<"NO", "none">>

(* The option of the other side: after a WONT the DO that was put off is not sent. *)
AnswerHim(s, yes, agree) ==
  IF s = "WANTNO_OP" /\ ~ yes THEN <<"WANTYES", "none">> ELSE Answer(s, yes, agree)

(* Mutant: a request that changes while the first is not answered is forgotten. *)
MutAsk(s, yes) ==
  CASE yes /\ s = "NO" -> <<"WANTYES", "yes">>
    [] ~ yes /\ s = "YES" -> <<"WANTNO", "no">>
    [] OTHER -> <<s, "none">>

(* telnet_negotiate *)
Ask(s, yes) ==
  CASE yes /\ s = "NO" -> <<"WANTYES", "yes">>
    [] yes /\ s = "WANTNO" -> <<"WANTNO_OP", "none">>
    [] yes /\ s = "WANTYES_OP" -> <<"WANTYES", "none">>
    [] ~ yes /\ s = "YES" -> <<"WANTNO", "no">>
    [] ~ yes /\ s = "WANTYES" -> <<"WANTYES_OP", "none">>
    [] ~ yes /\ s = "WANTNO_OP" -> <<"WANTNO", "none">>
    [] OTHER -> <<s, "none">>

(* _send_negotiate: what side us or him writes for an answer. *)
Commanded(side, answer, option) ==
  CASE answer = "none" -> <<>>
    [] answer = "yes" -> <<[cmd |-> IF side = "us" THEN "WILL" ELSE "DO", option |-> option]>>
    [] answer = "no" -> <<[cmd |-> IF side = "us" THEN "WONT" ELSE "DONT", option |-> option]>>

-----------------------------------------------------------------------------
(* telnet_recv, byte by byte *)

Receiving(s, rest) == state' = s /\ pending' = rest
NoAnswer == UNCHANGED <<q, down>>

(* _negotiate of the command in state.  agree is _check_telopt: TelnetSocket's table of
   options is a local array of its constructor, and telnet_t keeps its address. *)
Negotiate(option) ==
  /\ Receiving("DATA", <<>>)
  /\ \E agree \in BOOLEAN :
       LET side == IF state \in {"DO", "DONT"} THEN "us" ELSE "him"
           yes == state \in {"DO", "WILL"}
           r == IF side = "us" THEN Answer(q[option].us, yes, agree) ELSE AnswerHim(q[option].him, yes, agree)
       IN  /\ q' = [q EXCEPT ![option][side] = r[1]]
           /\ down' = down \o Commanded(side, r[2], option)
  /\ UNCHANGED <<data, buffer>>

(* TELNET_STATE_IAC; commands other than these are events that TelnetSocket ignores. *)
AfterIac(byte, read) ==
  /\ IF byte = SB THEN Receiving("SB", read)
     ELSE IF byte \in {Code(cmd) : cmd \in Commands} THEN Receiving(CommandOf(byte), read)
     ELSE Receiving("DATA", <<>>)
  /\ data' = IF byte = IAC THEN Append(data, IAC) ELSE data
  /\ UNCHANGED buffer /\ NoAnswer

(* _buffer_byte: a subnegotiation that does not fit is left, and its rest is data. *)
BufferByte(byte, read) ==
  /\ IF Len(buffer) = BufferLimit
     THEN Receiving("DATA", <<>>) /\ UNCHANGED buffer
     ELSE Receiving("SB_DATA", read) /\ buffer' = Append(buffer, byte)
  /\ UNCHANGED data /\ NoAnswer

(* Mutant: the data after a subnegotiation start where those before it started. *)
MutAfterSubIac(byte, read) ==
  CASE byte = SE -> Receiving("DATA", read) /\ UNCHANGED <<data, buffer>> /\ NoAnswer
    [] byte = IAC -> BufferByte(IAC, read)
    [] OTHER -> AfterIac(byte, <<>>)

(* TELNET_STATE_SB_DATA_IAC; TelnetSocket ignores what was subnegotiated. *)
AfterSubIac(byte, read) ==
  CASE byte = SE -> Receiving("DATA", <<>>) /\ UNCHANGED <<data, buffer>> /\ NoAnswer
    [] byte = IAC -> BufferByte(IAC, read)
    [] OTHER -> AfterIac(byte, <<>>)

(* _process on the next byte; read are the bytes from start on, this one included. *)
ProcessByte ==
  /\ up # <<>>
  /\ up' = Tail(up)
  /\ LET byte == Head(up)
         read == Append(pending, byte)
     IN  CASE state = "DATA" ->
                /\ Receiving(IF byte = IAC THEN "IAC" ELSE "DATA", read)
                /\ data' = IF byte = IAC THEN data \o pending ELSE data
                /\ UNCHANGED buffer /\ NoAnswer
           [] state = "IAC" -> AfterIac(byte, read)
           [] state \in Commands -> Negotiate(byte)
           [] state = "SB" ->
                /\ Receiving("SB_DATA", read) /\ buffer' = <<>>
                /\ UNCHANGED data /\ NoAnswer
           [] state = "SB_DATA" ->
                IF byte = IAC
                THEN Receiving("SB_DATA_IAC", read) /\ UNCHANGED <<data, buffer>> /\ NoAnswer
                ELSE BufferByte(byte, read)
           [] state = "SB_DATA_IAC" -> AfterSubIac(byte, read)
  /\ UNCHANGED <<friendly, toggles, clientVars>>

(* The end of _process: TCP gave no more bytes, and the data that were read are
   delivered. *)
EndOfPacket ==
  /\ pending # <<>>
  /\ pending' = <<>>
  /\ data' = IF state = "DATA" THEN data \o pending ELSE data
  /\ UNCHANGED <<up, down, state, buffer, q, friendly, toggles, clientVars>>

-----------------------------------------------------------------------------
(* TelnetSocket *)

(* TelnetSocket::setFriendlyCLI; the subnegotiation of LINEMODE has no answer here. *)
SetFriendlyCLI ==
  /\ pending = <<>>
  /\ toggles < MaxToggles
  /\ toggles' = toggles + 1
  /\ friendly' = ~ friendly
  /\ LET echo == Ask(q[ECHO].us, friendly')
         linemode == Ask(q[LINEMODE].him, TRUE)
     IN  /\ q' = [q EXCEPT ![ECHO].us = echo[1], ![LINEMODE].him = linemode[1]]
         /\ down' = down \o Commanded("us", echo[2], ECHO) \o Commanded("him", linemode[2], LINEMODE)
  /\ UNCHANGED <<up, state, buffer, pending, data, clientVars>>

-----------------------------------------------------------------------------
(* The client, external *)

Bytes(commands) ==
  IF commands = <<>> THEN <<>> ELSE <<IAC, Code(Head(commands).cmd), Head(commands).option>>
Escaped(byte) == IF byte = IAC THEN <<IAC, IAC>> ELSE <<byte>>

(* It answers a command, and agrees or not. *)
ClientAnswers ==
  /\ down # <<>>
  /\ down' = Tail(down)
  /\ \E agree \in BOOLEAN :
       LET c == Head(down)
           side == IF c.cmd \in {"DO", "DONT"} THEN "us" ELSE "him"
           r == Answer(client[c.option][side], c.cmd \in {"DO", "WILL"}, agree)
       IN  /\ client' = [client EXCEPT ![c.option][side] = r[1]]
           /\ up' = up \o Bytes(Commanded(side, r[2], c.option))
  /\ UNCHANGED <<daemonVars, typed, requests, subs, asked>>

(* Its user changes an option. *)
ClientAsks ==
  /\ requests < MaxRequests /\ Len(up) <= UpBound
  /\ requests' = requests + 1
  /\ \E option \in Options, side \in {"us", "him"}, yes \in BOOLEAN :
       LET r == Ask(client[option][side], yes)
       IN  /\ r[1] # client[option][side]
           /\ client' = [client EXCEPT ![option][side] = r[1]]
           /\ up' = up \o Bytes(Commanded(side, r[2], option))
           /\ asked' = (asked \/ (option = ECHO /\ side = "him"))
  /\ UNCHANGED <<down, daemonVars, typed, subs>>

ClientTypes ==
  /\ Len(typed) < MaxTyped /\ Len(up) <= UpBound
  /\ \E byte \in Typed :
       /\ typed' = Append(typed, byte)
       /\ up' = up \o Escaped(byte)
  /\ UNCHANGED <<down, daemonVars, client, requests, subs, asked>>

(* It subnegotiates as much as fits, or a byte more. *)
ClientSubnegotiates ==
  /\ subs < MaxSub /\ Len(up) <= UpBound
  /\ subs' = subs + 1
  /\ \E n \in {BufferLimit, BufferLimit + 1} :
       up' = up \o <<IAC, SB, LINEMODE>> \o [i \in 1..(2 * n) |-> IAC] \o <<IAC, SE>>
  /\ UNCHANGED <<down, daemonVars, client, typed, requests, asked>>

-----------------------------------------------------------------------------
NoOptions == [o \in Options |-> [us |-> "NO", him |-> "NO"]]

(* The constructor of TelnetSocket: setFriendlyCLI(false) asks for LINEMODE. *)
ProtocolInit ==
  /\ up = <<>> /\ down = <<[cmd |-> "DO", option |-> LINEMODE]>>
  /\ state = "DATA" /\ buffer = <<>> /\ pending = <<>> /\ data = <<>>
  /\ q = [NoOptions EXCEPT ![LINEMODE].him = "WANTYES"]
  /\ friendly = FALSE
  /\ client = NoOptions /\ typed = <<>>
  /\ requests = 0 /\ subs = 0 /\ toggles = 0 /\ asked = FALSE

ProtocolNext ==
  \/ ProcessByte \/ EndOfPacket \/ SetFriendlyCLI
  \/ ClientAnswers \/ ClientAsks \/ ClientTypes \/ ClientSubnegotiates

(* The event loop of the daemon reads what TCP brings; the client answers. *)
ProtocolSpec ==
  /\ ProtocolInit /\ [][ProtocolNext]_protocolVars
  /\ WF_protocolVars(ProcessByte) /\ WF_protocolVars(EndOfPacket) /\ WF_protocolVars(ClientAnswers)

-----------------------------------------------------------------------------
Quiet == up = <<>> /\ down = <<>> /\ pending = <<>>

(* The daemon is given what the client typed, in order, with nothing of the commands
   around it, wherever TCP cut the stream (telnet_recv, _process). *)
DataIntact == IsPrefix(data, typed) /\ (Quiet => data = typed)

(* Once nothing is on its way, both ends hold the same options, and no request of the
   daemon is left without an answer, however requests crossed (_negotiate,
   telnet_negotiate). *)
OptionsAgree ==
  Quiet => \A o \in Options :
    /\ q[o].us = client[o].him /\ q[o].him = client[o].us
    /\ q[o].us \in {"NO", "YES"} /\ q[o].him \in {"NO", "YES"}

(* Once nothing is on its way, the daemon echoes only to a friendly CLI, however often
   it was switched while the client answered; unless the client asked for the echo
   itself (setFriendlyCLI). *)
EchoFollowsCLI == Quiet /\ ~ asked /\ q[ECHO].us = "YES" => friendly

(* The two ends do not answer each other for ever (_negotiate). *)
NegotiationEnds == <>[]Quiet
=============================================================================
