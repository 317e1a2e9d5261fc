---------------------------- MODULE RemoteProxy ----------------------------
(***************************************************************************)
(* One remote as the daemon sees it: XBeeRemote (xbee/xbeeremote.cpp),     *)
(* which frames and unframes its traffic on the XBee thread, and Remote    *)
(* and RealRemote (model/networkmodel.cpp), its values in the model, that  *)
(* the clients set on the main thread.  The map of messages to send is     *)
(* filled by the main thread and emptied by the XBee thread, without a     *)
(* lock; a handler is cut into steps where the other thread can run.       *)
(***************************************************************************)
EXTENDS Integers, Sequences, SequencesExt

CONSTANTS
  ButtonLabels,     \* the labels of the buttons that are used, 0xB0 .. 0xB4
  Levels,           \* the LED intensities the clients choose
  MaxSets,          \* bound: how many times the clients set a value
  MayMixKeys,       \* clients may call LED( ) while a message for a single LED waits
  MaySetDuringTick  \* clients may set a value while tick() sends

ASSUME ProxyAssumption ==
  /\ ButtonLabels \subseteq 176..180
  /\ Levels \subseteq 0..255
  /\ MaxSets \in Nat
  /\ MayMixKeys \in BOOLEAN
  /\ MaySetDuringTick \in BOOLEAN

VARIABLES
  safeSendMap,   \* _safeSendMap: the message waiting under each key, or <<>>
  sending,       \* the key whose message tick() sent and has not erased, or "none"
  air,           \* the messages handed to the radio, oldest first
  rxBuffer,      \* rxBuffer
  client,        \* the value a client is setting, between safeSendMsg and the model
  sets,          \* how many values the clients have set
  modelLed,      \* LED1, LED2, LED3 in the model
  modelState,    \* State in the model
  modelButton    \* "up" or "down", by button, in the model

proxyVars == <<safeSendMap, sending, air, rxBuffer, client, sets, modelLed, modelState, modelButton>>

(* The keys in the order of a std::map<std::string, ...>. *)
KeySeq == <<"L", "L1", "L2", "L3", "S">>
LedKeys == <<"L1", "L2", "L3">>
FrameEnd == 255
NoSet == [key |-> "none", value |-> 0]

ProxyInit ==
  /\ safeSendMap = [k \in ToSet(KeySeq) |-> <<>>]
  /\ sending = "none"
  /\ air = <<>>
  /\ rxBuffer = <<>>
  /\ client = NoSet
  /\ sets = 0
  /\ modelLed = <<0, 0, 0>>
  /\ modelState = "Initializing"
  /\ modelButton = [b \in ButtonLabels |-> "up"]

-----------------------------------------------------------------------------
(* Main thread: a client sets a LED or the state *)

(* Mutant: both modes have the type of ACTIVE_MODE. *)
MutMsgType(key, value) ==
  CASE key = "L" -> 32
    [] key = "L1" -> 33
    [] key = "L2" -> 34
    [] key = "L3" -> 35
    [] key = "S" -> 150

(* XBEE_MSG_TYPE of a key; ACTIVE_MODE and MUTE_MODE share the key "S". *)
MsgType(key, value) ==
  CASE key = "L" -> 32
    [] key = "L1" -> 33
    [] key = "L2" -> 34
    [] key = "L3" -> 35
    [] key = "S" -> IF value = "active" THEN 150 ELSE 100

(* XBeeRemote::prepareMsg *)
PrepareMsg(key, value) ==
  IF key = "S" THEN <<MsgType(key, value), FrameEnd>> ELSE <<MsgType(key, value), value, FrameEnd>>

(* With MayMixKeys off, LED( ) waits until no message for a single LED waits. *)
Settable ==
  ToSet(LedKeys) \cup (IF MayMixKeys \/ \A k \in ToSet(LedKeys) : safeSendMap[k] = <<>> THEN {"L"} ELSE {})

MayStartSet ==
  /\ client = NoSet
  /\ sets < MaxSets
  /\ MaySetDuringTick \/ sending = "none"

SafeSendMsg(key, value) ==
  /\ safeSendMap' = [safeSendMap EXCEPT ![key] = PrepareMsg(key, value)]
  /\ client' = [key |-> key, value |-> value]
  /\ sets' = sets + 1
  /\ UNCHANGED <<sending, air, rxBuffer, modelLed, modelState, modelButton>>

(* RealRemote::fastTrigger, reached from Remote::setValue and execFunction("LED"):
   the message is prepared before the model changes. *)
FastTriggerLed ==
  /\ MayStartSet
  /\ \E key \in Settable, level \in Levels : SafeSendMsg(key, level)

(* RealRemote::setValue("State", ...) *)
SetState ==
  /\ MayStartSet
  /\ \E state \in {"active", "mute"} : SafeSendMsg("S", state)

(* Remote::fastTrigger and JSonNode::setString: the model takes the value. *)
SetModel ==
  /\ client # NoSet
  /\ modelLed' = [n \in 1..3 |->
        IF client.key \in {"L", LedKeys[n]} THEN client.value ELSE modelLed[n]]
  /\ modelState' = IF client.key = "S" THEN client.value ELSE modelState
  /\ client' = NoSet
  /\ UNCHANGED <<safeSendMap, sending, air, rxBuffer, sets, modelButton>>

-----------------------------------------------------------------------------
(* XBee thread *)

Waiting(k) == safeSendMap[k] # <<>>

(* Mutant: the messages of the mode are never sent. *)
MutTickSend ==
  /\ sending = "none"
  /\ MaySetDuringTick \/ client = NoSet
  /\ \E i \in 1..4 :
       /\ Waiting(KeySeq[i])
       /\ \A j \in 1..(i - 1) : ~ Waiting(KeySeq[j])
       /\ sending' = KeySeq[i]
       /\ air' = Append(air, safeSendMap[KeySeq[i]])
  /\ UNCHANGED <<safeSendMap, rxBuffer, client, sets, modelLed, modelState, modelButton>>

(* XBeeRemote::tick up to sendTX: the first key of the map is sent. *)
TickSend ==
  /\ sending = "none"
  /\ MaySetDuringTick \/ client = NoSet
  /\ \E i \in 1..5 :
       /\ Waiting(KeySeq[i])
       /\ \A j \in 1..(i - 1) : ~ Waiting(KeySeq[j])
       /\ sending' = KeySeq[i]
       /\ air' = Append(air, safeSendMap[KeySeq[i]])
  /\ UNCHANGED <<safeSendMap, rxBuffer, client, sets, modelLed, modelState, modelButton>>

(* Mutant: the whole map is cleared. *)
MutTickErase ==
  /\ sending # "none"
  /\ safeSendMap' = [k \in ToSet(KeySeq) |-> <<>>]
  /\ sending' = "none"
  /\ UNCHANGED <<air, rxBuffer, client, sets, modelLed, modelState, modelButton>>

(* The rest of tick: whatever the entry holds by now is erased. *)
TickErase ==
  /\ sending # "none"
  /\ safeSendMap' = [safeSendMap EXCEPT ![sending] = <<>>]
  /\ sending' = "none"
  /\ UNCHANGED <<air, rxBuffer, client, sets, modelLed, modelState, modelButton>>

(* The messages of a byte string: its maximal runs of other bytes that a
   FRAME_END follows. *)
EndsOf(bytes) == {i \in 1..Len(bytes) : bytes[i] = FrameEnd}
StartAfter(bytes, i) == CHOOSE j \in 0..(i - 1) :
  /\ j = 0 \/ bytes[j] = FrameEnd
  /\ \A k \in (j + 1)..(i - 1) : bytes[k] # FrameEnd
MessageEndingAt(bytes, i) == SubSeq(bytes, StartAfter(bytes, i) + 1, i - 1)

(* Mutant: the buffer keeps the FRAME_END of the last message. *)
MutRest(bytes) ==
  SubSeq(bytes, IF StartAfter(bytes, Len(bytes) + 1) = 0 THEN 1 ELSE StartAfter(bytes, Len(bytes) + 1), Len(bytes))

(* What is left in rxBuffer. *)
Rest(bytes) == SubSeq(bytes, StartAfter(bytes, Len(bytes) + 1) + 1, Len(bytes))

(* XBeeRemote::handleMessage and Remote::setButtonState: any byte but 0 is down. *)
IsButtonMessage(msg, b) == msg # <<>> /\ msg[1] = b

ButtonAfter(bytes, b) ==
  LET ends == {i \in EndsOf(bytes) : IsButtonMessage(MessageEndingAt(bytes, i), b)}
      last == CHOOSE i \in ends : \A j \in ends : j <= i
  IN  IF ends = {} THEN modelButton[b]
      ELSE IF MessageEndingAt(bytes, last)[2] # 0 THEN "down" ELSE "up"

(* Mutant: an unfinished message is dropped at the end of a packet. *)
MutReceiveRX(data) ==
  /\ rxBuffer' = <<>>
  /\ modelButton' = [b \in ButtonLabels |-> ButtonAfter(rxBuffer \o data, b)]
  /\ UNCHANGED <<safeSendMap, sending, air, client, sets, modelLed, modelState>>

(* XBeeRemote::receiveRX *)
ReceiveRX(data) ==
  /\ rxBuffer' = Rest(rxBuffer \o data)
  /\ modelButton' = [b \in ButtonLabels |-> ButtonAfter(rxBuffer \o data, b)]
  /\ UNCHANGED <<safeSendMap, sending, air, client, sets, modelLed, modelState>>

ProxyStep == FastTriggerLed \/ SetState \/ SetModel \/ TickSend \/ TickErase

(* The variables hold what their C++ counterparts can hold. *)
ProxyTypeOK ==
  /\ safeSendMap \in [ToSet(KeySeq) -> Seq(0..255)]
  /\ sending \in ToSet(KeySeq) \cup {"none"}
  /\ air \in Seq(Seq(0..255)) /\ rxBuffer \in Seq(0..254)
  /\ sets \in 0..MaxSets
  /\ modelLed \in [1..3 -> Levels \cup {0}]
  /\ modelState \in {"Initializing", "active", "mute"}
  /\ modelButton \in [ButtonLabels -> {"up", "down"}]
=============================================================================
