------------------------------ MODULE Firmware ------------------------------
(***************************************************************************)
(* The Arduino of a remote (src/Arduino/Main/Main.ino).  loop() reads the  *)
(* bytes its UART holds, processes each frame, samples the buttons when    *)
(* the remote is active, waits until the XBee is awake and writes its      *)
(* answers and reports.  The UART (serialIn, serialOut), the pins and the  *)
(* XBee's ON/SLEEP output are the firmware's surroundings.                 *)
(***************************************************************************)
EXTENDS Integers, Sequences, SequencesExt

CONSTANT Buttons  \* the labels of the buttons that are used, 0xB0 .. 0xB4

FRAME_END == 255
SLEEP_CMD == 200
ACTIVE_MODE_CMD == 150
MUTE_MODE_CMD == 100
ASK_MODE_CMD == 80
BATT_STATUS_CMD == 16
LED_CMD == 32
LEDn_CMD == <<33, 34, 35>>
BUTTON_ACTION_TX == 180
BufferSize == 20

ASSUME ButtonsAssumption == Buttons \subseteq 176..180

VARIABLES
  serialIn,     \* bytes received by the UART and not yet read
  serialOut,    \* bytes written to the XBee
  rx,           \* BufferRx up to IbRx: the bytes read since the last FRAME_END
  tx,           \* BufferTx up to IbTx
  phase,        \* "read": in the reading loop; "wait": waiting for the XBee
  activeMute,   \* Active_Mute
  ledStatus,    \* LED1Status .. LED3Status; the PWM level is a function of it
  buttonBuff,   \* ButtonBuff
  pin,          \* level of the button pins
  awake         \* PIN_ON_SLEEP is high

firmwareVars == <<serialIn, serialOut, rx, tx, phase, activeMute, ledStatus, buttonBuff, pin, awake>>

(* A released button reads 1 through the pull-up.  The Action button is wired
   the other way round: the code inverts the level it reads. *)
Released(b) == IF b = BUTTON_ACTION_TX THEN 0 ELSE 1

FirmwareInit ==
  /\ serialIn = <<>> /\ serialOut = <<>>
  /\ rx = <<>> /\ tx = <<>>
  /\ phase = "read"
  /\ activeMute = FALSE
  /\ ledStatus = <<0, 0, 0>>
  /\ buttonBuff = [b \in Buttons |-> 1]
  /\ pin = [b \in Buttons |-> Released(b)]
  /\ awake = TRUE

-----------------------------------------------------------------------------
(* processMessage and the handlers it calls *)

BOOLToByte(b) == IF b THEN 1 ELSE 0

(* batteryStatus: the integer division makes any reading below 1023 a 0, and
   255 is replaced because it would end the frame. *)
BatteryLevels == {(reading \div 1023) * 255 : reading \in {0, 512, 1023}}
BatteryByte(level) == IF level = 255 THEN 254 ELSE level

(* toggleLED, toggleLED1..3: a value of 255 asks for the status.  The answer for
   the third LED carries the label of the first. *)
IsLedCmd(msg, n) == msg[1] = LEDn_CMD[n]

ToggledLeds(msg) ==
  IF msg[2] = 255 THEN ledStatus
  ELSE [n \in 1..3 |-> IF msg[1] = LED_CMD \/ IsLedCmd(msg, n) THEN msg[2] ELSE ledStatus[n]]

LedAnswer(msg) ==
  IF msg[2] # 255 THEN <<>>
  ELSE IF msg[1] = LED_CMD THEN <<LED_CMD>> \o ledStatus \o <<FRAME_END>>
  ELSE IF IsLedCmd(msg, 2) THEN <<LEDn_CMD[2], ledStatus[2], FRAME_END>>
  ELSE <<LEDn_CMD[1], ledStatus[IF IsLedCmd(msg, 3) THEN 3 ELSE 1], FRAME_END>>

LedMessage(msg) == msg[1] = LED_CMD \/ \E n \in 1..3 : IsLedCmd(msg, n)

(* setSleepMode queues an AT command that no FRAME_END follows; the statement
   after it names transmitTx and does not call it. *)
SleepAnswer == <<65, 84, 83, 77, 4>>

(* What processMessage queues with TxToBuffer. *)
Answers(msg) ==
  CASE msg[1] = ASK_MODE_CMD -> {<<ASK_MODE_CMD, BOOLToByte(activeMute), FRAME_END>>}
    [] msg[1] = SLEEP_CMD -> {SleepAnswer}
    [] msg[1] = BATT_STATUS_CMD -> {<<BATT_STATUS_CMD, BatteryByte(l), FRAME_END>> : l \in BatteryLevels}
    [] LedMessage(msg) -> {LedAnswer(msg)}
    [] OTHER -> {<<>>}

(* BufferRx[1] is fresh whenever a handler reads it: a frame whose first byte is
   a command holds at least that byte and its FRAME_END. *)
ProcessMessage(msg) ==
  /\ activeMute' = CASE msg[1] = ACTIVE_MODE_CMD -> TRUE
                     [] msg[1] = MUTE_MODE_CMD -> FALSE
                     [] OTHER -> activeMute
  /\ ledStatus' = IF LedMessage(msg) THEN ToggledLeds(msg) ELSE ledStatus
  /\ \E answer \in Answers(msg) : tx' = tx \o answer

-----------------------------------------------------------------------------
(* loop *)

(* while(Serial.available() > 0) *)
ReadByte ==
  /\ phase = "read"
  /\ serialIn # <<>>
  /\ serialIn' = Tail(serialIn)
  /\ IF Head(serialIn) = FRAME_END
     THEN ProcessMessage(Append(rx, FRAME_END)) /\ rx' = <<>>
     ELSE rx' = Append(rx, Head(serialIn)) /\ UNCHANGED <<tx, activeMute, ledStatus>>
  /\ UNCHANGED <<serialOut, phase, buttonBuff, pin, awake>>

(* tempBuffer of buttonProcess *)
Sample(b) == IF b = BUTTON_ACTION_TX THEN 1 - pin[b] ELSE pin[b]

(* A report carries the sample before the change: 1 when the button goes down. *)
Report(b) == <<b, buttonBuff[b], FRAME_END>>

(* buttonProcess, in the order of the array buttonLabel *)
ButtonProcess ==
  /\ tx' = tx \o FlattenSeq([i \in 1..5 |->
        LET b == 175 + i
        IN  IF b \in Buttons /\ Sample(b) # buttonBuff[b] THEN Report(b) ELSE <<>>])
  /\ buttonBuff' = [b \in Buttons |-> Sample(b)]

(* Mutant: the buttons are sampled while the remote is mute. *)
MutSampleButtons ==
  /\ phase = "read"
  /\ serialIn = <<>>
  /\ IF ~ activeMute THEN ButtonProcess ELSE UNCHANGED <<tx, buttonBuff>>
  /\ phase' = "wait"
  /\ UNCHANGED <<serialIn, serialOut, rx, activeMute, ledStatus, pin, awake>>

(* The reading loop found no byte; skipProcessFlag is never set. *)
SampleButtons ==
  /\ phase = "read"
  /\ serialIn = <<>>
  /\ IF activeMute THEN ButtonProcess ELSE UNCHANGED <<tx, buttonBuff>>
  /\ phase' = "wait"
  /\ UNCHANGED <<serialIn, serialOut, rx, activeMute, ledStatus, pin, awake>>

(* Mutant: the transmit index is not reset. *)
MutTransmitTx ==
  /\ phase = "wait"
  /\ awake
  /\ serialOut' = serialOut \o tx
  /\ phase' = "read"
  /\ UNCHANGED <<serialIn, rx, tx, activeMute, ledStatus, buttonBuff, pin, awake>>

(* transmitTx, once PIN_ON_SLEEP reads 1 *)
TransmitTx ==
  /\ phase = "wait"
  /\ awake
  /\ serialOut' = serialOut \o tx
  /\ tx' = <<>>
  /\ phase' = "read"
  /\ UNCHANGED <<serialIn, rx, activeMute, ledStatus, buttonBuff, pin, awake>>

LoopStep == ReadByte \/ SampleButtons \/ TransmitTx

-----------------------------------------------------------------------------
(* The surroundings *)

(* A button is pressed or released. *)
MoveButton(b) ==
  /\ pin' = [pin EXCEPT ![b] = 1 - @]
  /\ UNCHANGED <<serialIn, serialOut, rx, tx, phase, activeMute, ledStatus, buttonBuff, awake>>

(* The XBee goes to sleep or wakes up. *)
ToggleSleep ==
  /\ awake' = ~ awake
  /\ UNCHANGED <<serialIn, serialOut, rx, tx, phase, activeMute, ledStatus, buttonBuff, pin>>

-----------------------------------------------------------------------------
Byte == 0..255

(* The variables hold bytes and levels. *)
FirmwareTypeOK ==
  /\ \A s \in {serialIn, serialOut, rx, tx} : s \in Seq(Byte)
  /\ phase \in {"read", "wait"}
  /\ activeMute \in BOOLEAN /\ awake \in BOOLEAN
  /\ ledStatus \in [1..3 -> 0..254]
  /\ buttonBuff \in [Buttons -> {0, 1}] /\ pin \in [Buttons -> {0, 1}]

(* TxToBuffer never writes past BufferTx: the answer to one command and the
   reports of the five buttons fit in a pass of loop(). *)
TxInBounds == Len(tx) <= BufferSize
=============================================================================
