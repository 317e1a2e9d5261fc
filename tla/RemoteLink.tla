----------------------------- MODULE RemoteLink -----------------------------
(***************************************************************************)
(* A remote and the daemon, joined by the radio: what a client sets in the *)
(* model goes through the proxy's map and the radio to the firmware, and   *)
(* the moves of the buttons come back to the model.  The radio keeps the   *)
(* order of its packets and cuts the remote's byte stream anywhere.        *)
(***************************************************************************)
EXTENDS Firmware, RemoteProxy

CONSTANT UpBound  \* bound: bytes on their way up while a button still moves

ASSUME LinkAssumption == ButtonLabels = Buttons /\ UpBound \in Nat

linkVars == <<firmwareVars, proxyVars>>

LinkInit == FirmwareInit /\ ProxyInit

(* A packet of the daemon reaches the UART of the remote. *)
DeliverDown ==
  /\ awake
  /\ air # <<>>
  /\ serialIn' = serialIn \o Head(air)
  /\ air' = Tail(air)
  /\ UNCHANGED <<serialOut, rx, tx, phase, activeMute, ledStatus, buttonBuff, pin, awake>>
  /\ UNCHANGED <<safeSendMap, sending, rxBuffer, client, sets, modelLed, modelState, modelButton>>

(* A packet of n bytes of the remote reaches XBeeInterface::xbeeTX. *)
DeliverUp(n) ==
  /\ ReceiveRX(SubSeq(serialOut, 1, n))
  /\ serialOut' = SubSeq(serialOut, n + 1, Len(serialOut))
  /\ UNCHANGED <<serialIn, rx, tx, phase, activeMute, ledStatus, buttonBuff, pin, awake>>

FirmwareStep == LoopStep /\ UNCHANGED proxyVars
DaemonStep == ProxyStep /\ UNCHANGED firmwareVars
DeliverSome == \E n \in 1..Len(serialOut) : DeliverUp(n)

(* The audience's thumbs are slower than the link. *)
MoveSome ==
  /\ Len(tx) + Len(serialOut) <= UpBound
  /\ \E b \in Buttons : MoveButton(b)
  /\ UNCHANGED proxyVars

LinkNext ==
  \/ FirmwareStep
  \/ DaemonStep
  \/ DeliverDown
  \/ DeliverSome
  \/ MoveSome
  \/ ToggleSleep /\ UNCHANGED proxyVars

LinkSpec == LinkInit /\ [][LinkNext]_linkVars

(* The loop of the firmware never stops, the threads of the daemon run, and a
   sleeping XBee wakes up again and again. *)
FairLinkSpec ==
  /\ LinkSpec
  /\ SF_linkVars(TransmitTx /\ UNCHANGED proxyVars)
  /\ WF_linkVars(FirmwareStep)
  /\ SF_linkVars(DeliverDown)
  /\ WF_linkVars(DeliverSome)
  /\ WF_linkVars(SetModel /\ UNCHANGED firmwareVars)
  /\ WF_linkVars((TickSend \/ TickErase) /\ UNCHANGED firmwareVars)
  /\ WF_linkVars(ToggleSleep /\ UNCHANGED proxyVars)

-----------------------------------------------------------------------------
(* The firmware and the proxy hold bytes, levels and states, and no end of a frame
   stays in rxBuffer. *)
LinkTypeOK == FirmwareTypeOK /\ ProxyTypeOK

(* Nothing is on its way from the model to the firmware. *)
DownQuiet ==
  /\ client = NoSet /\ sending = "none"
  /\ \A k \in ToSet(KeySeq) : ~ Waiting(k)
  /\ air = <<>> /\ serialIn = <<>> /\ rx = <<>>

(* Nothing is on its way from the firmware to the model. *)
UpQuiet == tx = <<>> /\ serialOut = <<>> /\ rxBuffer = <<>>

(* The frames between the two that set LED n, those the radio has before those of the
   map; the one tick() has sent and not erased is already in the air. *)
Unsent(k) == IF k = sending THEN <<>> ELSE safeSendMap[k]
DownBytes == rx \o serialIn \o FlattenSeq(air) \o Unsent("L") \o Unsent("L1") \o Unsent("L2") \o Unsent("L3")

(* What byte i of a byte string says to LED n: a message for it that starts there says
   its value. *)
Said(bytes, n, i) ==
  IF bytes[i] \in {LED_CMD, LEDn_CMD[n]} /\ (i = 1 \/ bytes[i - 1] = FrameEnd) THEN <<bytes[i + 1]>> ELSE <<>>

ValuesIn(bytes, n) == FlattenSeq([i \in 1..Len(bytes) |-> Said(bytes, n, i)])
ValuesFor(n) == ValuesIn(DownBytes, n)

WantedFor(n) == IF client.key \in {"L", LedKeys[n]} THEN client.value ELSE modelLed[n]

Channel1 == INSTANCE LedChannel WITH
  Values <- Levels, wanted <- WantedFor(1), queue <- ValuesFor(1), shown <- ledStatus[1]
Channel2 == INSTANCE LedChannel WITH
  Values <- Levels, wanted <- WantedFor(2), queue <- ValuesFor(2), shown <- ledStatus[2]
Channel3 == INSTANCE LedChannel WITH
  Values <- Levels, wanted <- WantedFor(3), queue <- ValuesFor(3), shown <- ledStatus[3]

(* Each LED is a channel of values: what a client sets is shown in the order it was
   set, or gives way to a newer value before it leaves; the value the model ends with
   is the one the LED ends with, whatever is sent for the other LEDs and the mode
   (RealRemote::fastTrigger, XBeeRemote::tick, toggleLED). *)
LedsAreChannels == Channel1!Spec /\ Channel2!Spec /\ Channel3!Spec

(* Once every message has arrived, the remote is in the mode the model names. *)
ModeConverges ==
  DownQuiet => /\ modelState = "active" => activeMute
               /\ modelState = "mute" => ~ activeMute

(* Once every report has arrived, the model holds for each button what the
   firmware sampled last, wherever the radio cut the reports. *)
ButtonsConverge ==
  UpQuiet => \A b \in Buttons : modelButton[b] = (IF buttonBuff[b] = 0 THEN "down" ELSE "up")

(* A button of an active remote that stays down is down in the model in the end. *)
HeldButtonSeen ==
  \A b \in Buttons :
    <>[](activeMute /\ pin[b] # Released(b)) => <>[](modelButton[b] = "down")

(* A value that a client set reaches the firmware or is replaced by another. *)
SetsArrive == (client # NoSet) ~> DownQuiet
=============================================================================
