-------------------------- MODULE RemoteLinkProofs --------------------------
(* The bytes between a remote and the daemon: what the one reads is what the other
   means, for any LED intensities, any buttons and however the radio cuts the stream. *)
EXTENDS RemoteLink, MCFirmware, SequenceTheorems, WellFoundedInduction, TLAPS

-----------------------------------------------------------------------------
(* The inductive invariant: the way down *)

ModeCmds == {ACTIVE_MODE_CMD, MUTE_MODE_CMD}
LedCmds == {32, 33, 34, 35}
ModeFrame(m) == m = <<ACTIVE_MODE_CMD, FRAME_END>> \/ m = <<MUTE_MODE_CMD, FRAME_END>>
LedFrame(m) == \E c \in LedCmds, level \in 0..254 : m = <<c, level, FRAME_END>>

(* A byte string made of whole frames of these two kinds. *)
StartsAt(s, j) == j = 1 \/ s[j - 1] = FRAME_END
FrameAt(s, j) ==
  \/ s[j] \in ModeCmds /\ j + 1 <= Len(s) /\ s[j + 1] = FRAME_END
  \/ s[j] \in LedCmds /\ j + 2 <= Len(s) /\ s[j + 1] \in 0..254 /\ s[j + 2] = FRAME_END
Stream(s) ==
  /\ s \in Seq(Byte)
  /\ s = <<>> \/ s[Len(s)] = FRAME_END
  /\ \A j \in 1..Len(s) : StartsAt(s, j) => FrameAt(s, j)

Keys == {"L", "L1", "L2", "L3", "S"}
Clients ==
  {NoSet} \cup [key : Keys \ {"S"}, value : Levels] \cup [key : {"S"}, value : {"active", "mute"}]

(* Every message on its way down is a frame, wherever it is. *)
DownInv ==
  /\ client \in Clients
  /\ \A k \in Keys \ {"S"} : safeSendMap[k] = <<>> \/ LedFrame(safeSendMap[k])
  /\ safeSendMap["S"] = <<>> \/ ModeFrame(safeSendMap["S"])
  /\ \A i \in 1..Len(air) : ModeFrame(air[i]) \/ LedFrame(air[i])
  /\ \A i \in 1..Len(rx) : rx[i] # FRAME_END
  /\ Stream(rx \o serialIn)

(* The mode that is still to come: in the map, else the last one of the air, else the
   last one of the bytes, else the one the remote is in. *)
LastOf(P) == {i \in P : \A j \in P : j <= i}
ModeMessages(a) == {i \in 1..Len(a) : ModeFrame(a[i])}
ModeStarts(s) == {j \in 1..Len(s) : StartsAt(s, j) /\ s[j] \in ModeCmds}
CmdOf(state) == IF state = "active" THEN ACTIVE_MODE_CMD ELSE MUTE_MODE_CMD
Comes(pending, a, s, mode, state) ==
  /\ pending # <<>> => pending = <<CmdOf(state), FRAME_END>>
  /\ pending = <<>> => \A i \in LastOf(ModeMessages(a)) : a[i] = <<CmdOf(state), FRAME_END>>
  /\ pending = <<>> /\ ModeMessages(a) = {} => \A j \in LastOf(ModeStarts(s)) : s[j] = CmdOf(state)
  /\ pending = <<>> /\ ModeMessages(a) = {} /\ ModeStarts(s) = {} =>
       (state = "active" => mode) /\ (state = "mute" => ~ mode)

WantedState == IF client.key = "S" THEN client.value ELSE modelState
ModeInv ==
  /\ sending # "none" => client = NoSet
  /\ Comes(Unsent("S"), air, rx \o serialIn, activeMute, WantedState)

-----------------------------------------------------------------------------
(* The inductive invariant: the way up *)

(* A byte string made of whole reports. *)
ReportAt(s, j) ==
  /\ s[j] \in Buttons /\ j + 2 <= Len(s)
  /\ s[j + 1] \in {0, 1} /\ s[j + 2] = FRAME_END
Reports(s) ==
  /\ s \in Seq(Byte)
  /\ s = <<>> \/ s[Len(s)] = FRAME_END
  /\ \A j \in 1..Len(s) : StartsAt(s, j) => ReportAt(s, j)

(* The last report of a button on its way, or else the model, agrees with the sample. *)
ReportsOf(s, b) == {j \in 1..Len(s) : StartsAt(s, j) /\ s[j] = b}
Arrives(s, b, shown, sample) ==
  /\ \A j \in LastOf(ReportsOf(s, b)) : s[j + 1] = 1 - sample
  /\ ReportsOf(s, b) = {} => shown = (IF sample = 0 THEN "down" ELSE "up")

UpInv ==
  /\ Len(tx) <= 15
  /\ phase = "read" => tx = <<>>
  /\ Reports(rxBuffer \o (serialOut \o tx))
  /\ \A b \in Buttons : Arrives(rxBuffer \o (serialOut \o tx), b, modelButton[b], buttonBuff[b])

-----------------------------------------------------------------------------
(* Byte strings *)

LEMMA KeySet == ToSet(KeySeq) = Keys
BY DEF ToSet, KeySeq, Keys

LEMMA FrameTyped ==
  ASSUME NEW m, ModeFrame(m) \/ LedFrame(m)
  PROVE  /\ m \in Seq(Byte) /\ Len(m) \in {2, 3} /\ m[Len(m)] = FRAME_END /\ FrameAt(m, 1)
         /\ \A j \in 1..Len(m) : StartsAt(m, j) => j = 1
         /\ ModeFrame(m) <=> m[1] \in ModeCmds
<1> USE DEF FRAME_END, ACTIVE_MODE_CMD, MUTE_MODE_CMD, ModeCmds, LedCmds, Byte
<1>1. CASE ModeFrame(m)
  <2>1. PICK c \in ModeCmds : m = <<c, 255>>
    BY <1>1 DEF ModeFrame
  <2> QED BY <1>1, <2>1 DEF FrameAt, StartsAt
<1>2. CASE LedFrame(m)
  <2>1. PICK c \in LedCmds, level \in 0..254 : m = <<c, level, 255>>
    BY <1>2 DEF LedFrame
  <2> QED BY <2>1 DEF FrameAt, StartsAt, ModeFrame
<1> QED BY <1>1, <1>2

(* The bytes of two strings, one behind the other. *)
LEMMA Joined ==
  ASSUME NEW T, NEW s \in Seq(T), NEW t \in Seq(T)
  PROVE  /\ s \o t \in Seq(T) /\ Len(s) \in Nat /\ Len(t) \in Nat
         /\ Len(s \o t) = Len(s) + Len(t)
         /\ \A i \in 1..Len(s) : (s \o t)[i] = s[i]
         /\ \A i \in 1..Len(t) : (s \o t)[Len(s) + i] = t[i]
<1>1. Len(s) \in Nat /\ Len(t) \in Nat
  BY LenProperties
<1>2. ASSUME NEW i \in 1..Len(t) PROVE (s \o t)[Len(s) + i] = t[i]
  <2>1. Len(s) + i \in 1..(Len(s) + Len(t)) /\ ~ (Len(s) + i <= Len(s)) /\ (Len(s) + i) - Len(s) = i
    BY <1>1
  <2> QED BY <2>1, ConcatProperties
<1>3. ASSUME NEW i \in 1..Len(s) PROVE (s \o t)[i] = s[i]
  <2>1. i \in 1..(Len(s) + Len(t)) /\ i <= Len(s)
    BY <1>1
  <2> QED BY <2>1, ConcatProperties
<1> QED BY <1>1, <1>2, <1>3, ConcatProperties

(* A byte is read: the string is the same. *)
LEMMA ByteRead ==
  ASSUME NEW T, NEW s \in Seq(T), NEW t \in Seq(T), t # <<>>
  PROVE  Append(s, Head(t)) \o Tail(t) = s \o t
<1>1. Head(t) \in T /\ Tail(t) \in Seq(T) /\ Append(s, Head(t)) = s \o <<Head(t)>>
  BY HeadTailProperties, AppendIsConcat
<1>2. <<Head(t)>> \in Seq(T) /\ t = <<Head(t)>> \o Tail(t)
  <2>1. <<Head(t)>> \in Seq(T) /\ Len(<<Head(t)>>) = 1 /\ <<Head(t)>>[1] = Head(t)
    BY <1>1
  <2>2. Len(t) \in Nat /\ Len(t) # 0 /\ Len(Tail(t)) = Len(t) - 1 /\ Head(t) = t[1]
        /\ \A i \in 1..Len(Tail(t)) : Tail(t)[i] = t[i + 1]
    BY HeadTailProperties, LenProperties, EmptySeq
  <2> DEFINE u == <<Head(t)>> \o Tail(t)
  <2>3. u \in Seq(T) /\ Len(u) = Len(t) /\ u[1] = t[1]
        /\ \A i \in 1..Len(Tail(t)) : u[1 + i] = Tail(t)[i]
    BY <1>1, <2>1, <2>2, Joined
  <2> HIDE DEF u
  <2>4. ASSUME NEW i \in 1..Len(t) PROVE u[i] = t[i]
    <3>1. i = 1 \/ (i - 1 \in 1..Len(Tail(t)) /\ 1 + (i - 1) = i /\ (i - 1) + 1 = i)
      BY <2>2
    <3> QED BY <3>1, <2>2, <2>3
  <2>5. u = t
    BY <2>3, <2>4, SeqEqual
  <2> QED BY <2>1, <2>5 DEF u
<1> QED BY <1>1, <1>2, ConcatAssociative

LEMMA OneBack ==
  ASSUME NEW l \in Nat, NEW n \in Nat, NEW j \in 1..l, j # 1
  PROVE  j - 1 \in 1..l /\ (n + j) - 1 = n + (j - 1) /\ n + j # 1
OBVIOUS

(* Frames are joined where one ends. *)
LEMMA Glue ==
  ASSUME NEW s \in Seq(Byte), NEW m \in Seq(Byte), s = <<>> \/ s[Len(s)] = FRAME_END
  PROVE  /\ \A j \in 1..Len(s) : StartsAt(s \o m, j) <=> StartsAt(s, j)
         /\ \A j \in 1..Len(m) : StartsAt(s \o m, Len(s) + j) <=> StartsAt(m, j)
<1> DEFINE u == s \o m
<1>1. /\ u \in Seq(Byte) /\ Len(s) \in Nat /\ Len(m) \in Nat
      /\ \A i \in 1..Len(s) : u[i] = s[i]
      /\ \A i \in 1..Len(m) : u[Len(s) + i] = m[i]
  BY Joined
<1>0. s = <<>> <=> Len(s) = 0
  BY EmptySeq
<1> HIDE DEF u
<1>2. ASSUME NEW j \in 1..Len(s) PROVE StartsAt(u, j) <=> StartsAt(s, j)
  <2>1. j = 1 \/ j - 1 \in 1..Len(s)
    BY <1>1
  <2> QED BY <2>1, <1>1 DEF StartsAt
<1>3. ASSUME NEW j \in 1..Len(m) PROVE StartsAt(u, Len(s) + j) <=> StartsAt(m, j)
  <2>1. CASE j = 1
    <3>1. CASE Len(s) = 0
      BY <2>1, <3>1 DEF StartsAt
    <3>2. CASE Len(s) # 0
      <4>1. Len(s) \in 1..Len(s) /\ (Len(s) + j) - 1 = Len(s)
        BY <1>1, <2>1, <3>2
      <4>2. u[(Len(s) + j) - 1] = FRAME_END
        BY <4>1, <1>1, <1>0, <3>2
      <4> QED BY <4>2, <2>1 DEF StartsAt
    <3> QED BY <3>1, <3>2
  <2>2. CASE j # 1
    <3>1. j - 1 \in 1..Len(m) /\ (Len(s) + j) - 1 = Len(s) + (j - 1) /\ Len(s) + j # 1
      BY <1>1, <2>2, OneBack
    <3>2. u[(Len(s) + j) - 1] = m[j - 1]
      BY <3>1, <1>1
    <3> QED BY <3>1, <3>2, <2>2 DEF StartsAt
  <2> QED BY <2>1, <2>2
<1> QED BY <1>2, <1>3 DEF u

(* What follows the end of a frame starts where a frame starts. *)
LEMMA Cut ==
  ASSUME NEW s, NEW t, Len(s) \in Nat, NEW n \in 0..Len(s), n = 0 \/ s[n] = FRAME_END,
         Len(t) = Len(s) - n, \A i \in 1..Len(t) : t[i] = s[n + i]
  PROVE  \A j \in 1..Len(t) : StartsAt(t, j) <=> StartsAt(s, n + j)
<1> SUFFICES ASSUME NEW j \in 1..Len(t)
             PROVE  StartsAt(t, j) <=> StartsAt(s, n + j)
  OBVIOUS
<1>1. CASE j = 1
  <2>1. n + j = 1 \/ s[(n + j) - 1] = FRAME_END
    <3>1. CASE n = 0
      BY <1>1, <3>1
    <3>2. CASE n # 0
      <4>1. (n + j) - 1 = n
        BY <1>1
      <4> QED BY <4>1, <3>2
    <3> QED BY <3>1, <3>2
  <2> QED BY <2>1, <1>1 DEF StartsAt
<1>2. CASE j # 1
  <2>1. j - 1 \in 1..Len(t) /\ (n + j) - 1 = n + (j - 1) /\ n + j # 1
    <3>1. Len(t) \in Nat /\ n \in Nat
      OBVIOUS
    <3> QED BY <3>1, <1>2, OneBack
  <2>2. t[j - 1] = s[(n + j) - 1]
    BY <2>1
  <2> QED BY <2>1, <2>2, <1>2 DEF StartsAt
<1> QED BY <1>1, <1>2

(* The radio puts a frame behind the bytes. *)
LEMMA FrameJoins ==
  ASSUME NEW s, Stream(s), NEW m, ModeFrame(m) \/ LedFrame(m)
  PROVE  /\ Stream(s \o m) /\ Len(s) + 1 \in 1..Len(s \o m)
         /\ (s \o m)[Len(s) + 1] = m[1]
         /\ \A j \in 1..Len(s) : (s \o m)[j] = s[j]
         /\ ModeStarts(s \o m) = ModeStarts(s) \cup (IF ModeFrame(m) THEN {Len(s) + 1} ELSE {})
<1> DEFINE u == s \o m
<1>1. /\ s \in Seq(Byte) /\ (s = <<>> \/ s[Len(s)] = FRAME_END)
      /\ \A j \in 1..Len(s) : StartsAt(s, j) => FrameAt(s, j)
  BY DEF Stream
<1>2. /\ m \in Seq(Byte) /\ Len(m) \in {2, 3} /\ m[Len(m)] = FRAME_END /\ FrameAt(m, 1)
      /\ \A j \in 1..Len(m) : StartsAt(m, j) => j = 1
      /\ ModeFrame(m) <=> m[1] \in ModeCmds
  BY FrameTyped
<1>3. /\ u \in Seq(Byte) /\ Len(s) \in Nat /\ Len(u) = Len(s) + Len(m)
      /\ \A i \in 1..Len(s) : u[i] = s[i]
      /\ \A i \in 1..Len(m) : u[Len(s) + i] = m[i]
  BY Joined, <1>1, <1>2
<1>4. /\ \A j \in 1..Len(s) : StartsAt(u, j) <=> StartsAt(s, j)
      /\ \A j \in 1..Len(m) : StartsAt(u, Len(s) + j) <=> StartsAt(m, j)
  BY Glue, <1>1, <1>2
<1> HIDE DEF u
<1>5. 1 \in 1..Len(m) /\ Len(m) \in 1..Len(m) /\ Len(s) + 1 \in 1..Len(u)
  BY <1>2, <1>3
<1>6. u[Len(u)] = FRAME_END /\ u[Len(s) + 1] = m[1]
  BY <1>2, <1>3, <1>5
<1>7. StartsAt(u, Len(s) + 1)
  BY <1>4, <1>5 DEF StartsAt
<1>8. ASSUME NEW j \in 1..Len(u), StartsAt(u, j)
      PROVE  j = Len(s) + 1 \/ (j \in 1..Len(s) /\ StartsAt(s, j))
  <2>1. j \in 1..Len(s) \/ (j - Len(s) \in 1..Len(m) /\ Len(s) + (j - Len(s)) = j)
    BY <1>2, <1>3
  <2>2. CASE j \in 1..Len(s)
    BY <2>2, <1>4, <1>8
  <2>3. CASE j - Len(s) \in 1..Len(m) /\ Len(s) + (j - Len(s)) = j
    <3>1. StartsAt(m, j - Len(s))
      BY <2>3, <1>4, <1>8
    <3>2. j - Len(s) = 1
      BY <3>1, <2>3, <1>2
    <3> QED BY <3>2, <1>3
  <2> QED BY <2>1, <2>2, <2>3
<1>9. ASSUME NEW j \in 1..Len(u), StartsAt(u, j) PROVE FrameAt(u, j)
  <2>1. CASE j = Len(s) + 1
    <3>0. Len(m) = 2 \/ Len(m) = 3
      BY <1>2
    <3>1. 2 \in 1..Len(m) /\ (Len(m) = 3 => 3 \in 1..Len(m))
      <4>1. 2 \in 1..2 /\ 2 \in 1..3 /\ 3 \in 1..3 /\ 2 # 3
        OBVIOUS
      <4> QED BY <3>0, <4>1, Zenon
    <3>2. u[j] = m[1] /\ u[j + 1] = m[2] /\ (Len(m) = 3 => u[j + 2] = m[3])
      BY <3>1, <2>1, <1>3, <1>6
    <3>3. (1 + 1 <= Len(m) => j + 1 <= Len(u)) /\ (1 + 2 <= Len(m) => Len(m) = 3 /\ j + 2 <= Len(u))
      BY <2>1, <1>2, <1>3
    <3>4. CASE m[1] \in ModeCmds /\ 1 + 1 <= Len(m) /\ m[1 + 1] = FRAME_END
      BY <3>2, <3>3, <3>4 DEF FrameAt
    <3>5. CASE m[1] \in LedCmds /\ 1 + 2 <= Len(m) /\ m[1 + 1] \in 0..254 /\ m[1 + 2] = FRAME_END
      BY <3>2, <3>3, <3>5 DEF FrameAt
    <3> QED BY <3>4, <3>5, <1>2 DEF FrameAt
  <2>2. CASE j \in 1..Len(s) /\ StartsAt(s, j)
    <3>1. FrameAt(s, j)
      BY <2>2, <1>1
    <3>2. CASE s[j] \in ModeCmds /\ j + 1 <= Len(s) /\ s[j + 1] = FRAME_END
      <4>1. j + 1 \in 1..Len(s) /\ j + 1 <= Len(u)
        BY <3>2, <2>2, <1>3, <1>2
      <4> QED BY <4>1, <3>2, <2>2, <1>3 DEF FrameAt
    <3>3. CASE s[j] \in LedCmds /\ j + 2 <= Len(s) /\ s[j + 1] \in 0..254 /\ s[j + 2] = FRAME_END
      <4>1. j + 1 \in 1..Len(s) /\ j + 2 \in 1..Len(s) /\ j + 2 <= Len(u)
        BY <3>3, <2>2, <1>3, <1>2
      <4> QED BY <4>1, <3>3, <2>2, <1>3 DEF FrameAt
    <3> QED BY <3>1, <3>2, <3>3 DEF FrameAt
  <2> QED BY <2>1, <2>2, <1>8, <1>9
<1>10. Stream(u)
  BY <1>3, <1>6, <1>9 DEF Stream
<1>11. ModeStarts(u) = ModeStarts(s) \cup (IF ModeFrame(m) THEN {Len(s) + 1} ELSE {})
  <2>1. ASSUME NEW j \in ModeStarts(u)
        PROVE  j \in ModeStarts(s) \cup (IF ModeFrame(m) THEN {Len(s) + 1} ELSE {})
    <3>1. j \in 1..Len(u) /\ StartsAt(u, j) /\ u[j] \in ModeCmds
      BY <2>1 DEF ModeStarts
    <3> QED BY <3>1, <1>8, <1>6, <1>2, <1>3 DEF ModeStarts
  <2>2. ASSUME NEW j \in ModeStarts(s) PROVE j \in ModeStarts(u)
    <3>1. j \in 1..Len(s) /\ StartsAt(s, j) /\ s[j] \in ModeCmds
      BY <2>2 DEF ModeStarts
    <3>2. j \in 1..Len(u)
      BY <3>1, <1>2, <1>3
    <3> QED BY <3>1, <3>2, <1>4, <1>3 DEF ModeStarts
  <2>3. ASSUME ModeFrame(m) PROVE Len(s) + 1 \in ModeStarts(u)
    BY <2>3, <1>2, <1>5, <1>6, <1>7 DEF ModeStarts
  <2> QED BY <2>1, <2>2, <2>3
<1> QED BY <1>3, <1>5, <1>6, <1>10, <1>11 DEF u

(* The firmware reads the end of the first frame: what it has read is that frame, and
   whole frames remain. *)
LEMMA FrameRead ==
  ASSUME NEW r \in Seq(Byte), NEW t \in Seq(Byte), Stream(r \o t),
         \A i \in 1..Len(r) : r[i] # FRAME_END, t # <<>>, Head(t) = FRAME_END
  PROVE  /\ \/ Len(r) = 1 /\ r[1] \in ModeCmds
            \/ Len(r) = 2 /\ r[1] \in LedCmds /\ r[2] \in 0..254
         /\ Stream(Tail(t))
         /\ Len(r) + 1 \in Nat /\ (r \o t)[1] = r[1] /\ (1 \in ModeStarts(r \o t) <=> r[1] \in ModeCmds)
         /\ \A j \in ModeStarts(Tail(t)) :
              /\ j \in Nat /\ Len(r) + 1 + j \in ModeStarts(r \o t)
              /\ Tail(t)[j] = (r \o t)[Len(r) + 1 + j]
         /\ \A j \in ModeStarts(r \o t) : j = 1 \/ j - (Len(r) + 1) \in ModeStarts(Tail(t))
<1> DEFINE s == r \o t
           n == Len(r) + 1
           v == Tail(t)
<1>1. /\ s \in Seq(Byte) /\ (s = <<>> \/ s[Len(s)] = FRAME_END)
      /\ \A j \in 1..Len(s) : StartsAt(s, j) => FrameAt(s, j)
  BY DEF Stream
<1>2. /\ Len(r) \in Nat /\ Len(t) \in Nat /\ Len(s) = Len(r) + Len(t)
      /\ \A i \in 1..Len(r) : s[i] = r[i]
      /\ \A i \in 1..Len(t) : s[Len(r) + i] = t[i]
  BY Joined
<1>3. /\ Len(t) # 0 /\ v \in Seq(Byte) /\ Len(v) = Len(t) - 1 /\ t[1] = FRAME_END
      /\ \A i \in 1..Len(v) : v[i] = t[i + 1]
  BY HeadTailProperties, EmptySeq
<1> HIDE DEF s, v
<1>4. 1 \in 1..Len(t) /\ n \in 1..Len(s) /\ 1 \in 1..Len(s)
  BY <1>2, <1>3
<1>5. s[n] = FRAME_END /\ \A i \in 1..(n - 1) : s[i] # FRAME_END
  <2>1. s[n] = FRAME_END
    BY <1>2, <1>3, <1>4
  <2>2. n - 1 = Len(r)
    BY <1>2
  <2> QED BY <2>1, <2>2, <1>2
<1>6. Len(v) \in Nat /\ Len(v) = Len(s) - n /\ \A i \in 1..Len(v) : v[i] = s[n + i]
  <2>1. Len(v) \in Nat /\ Len(v) = Len(s) - n
    BY <1>2, <1>3
  <2>2. ASSUME NEW i \in 1..Len(v) PROVE v[i] = s[n + i]
    <3>1. i + 1 \in 1..Len(t) /\ Len(r) + (i + 1) = n + i
      BY <1>2, <1>3
    <3> QED BY <3>1, <1>2, <1>3
  <2> QED BY <2>1, <2>2
<1>7. n \in Nat /\ Len(s) \in Nat
  BY <1>2
<1>8. Len(r) = n - 1
  BY <1>2
<1> HIDE DEF n
<1>9. \A j \in 1..Len(v) : StartsAt(v, j) <=> StartsAt(s, n + j)
  <2>1. n \in 0..Len(s)
    BY <1>4, <1>7
  <2> QED BY <2>1, <1>5, <1>6, <1>7, Cut
<1>10. FrameAt(s, 1) /\ StartsAt(s, 1)
  BY <1>1, <1>4 DEF StartsAt
<1>11. n # 1
  BY <1>5, <1>10 DEF FrameAt, FRAME_END, ModeCmds, LedCmds, ACTIVE_MODE_CMD, MUTE_MODE_CMD
<1>12. s[1] = r[1]
  <2>1. 1 \in 1..Len(r)
    BY <1>7, <1>8, <1>11
  <2> QED BY <2>1, <1>2
<1>13. \/ Len(r) = 1 /\ r[1] \in ModeCmds
       \/ Len(r) = 2 /\ r[1] \in LedCmds /\ r[2] \in 0..254
  <2>1. CASE s[1] \in ModeCmds /\ 1 + 1 <= Len(s) /\ s[1 + 1] = FRAME_END
    <3>1. ~ (2 \in 1..(n - 1))
      BY <1>5, <2>1
    <3>2. Len(r) = 1
      BY <3>1, <1>7, <1>8, <1>11
    <3> QED BY <3>2, <2>1, <1>12
  <2>2. CASE s[1] \in LedCmds /\ 1 + 2 <= Len(s) /\ s[1 + 1] \in 0..254 /\ s[1 + 2] = FRAME_END
    <3>1. ~ (3 \in 1..(n - 1))
      BY <1>5, <2>2
    <3>2. n # 2
      <4>1. s[2] \in 0..254 /\ s[n] = 255
        BY <1>5, <2>2 DEF FRAME_END
      <4>2. s[2] # s[n]
        <5>1. \A x \in 0..254 : x # 255
          OBVIOUS
        <5> QED BY <4>1, <5>1, Zenon
      <4> QED BY <4>2
    <3>3. Len(r) = 2
      BY <3>1, <3>2, <1>7, <1>8, <1>11
    <3>4. r[2] = s[2]
      BY <3>3, <1>2
    <3> QED BY <3>3, <3>4, <2>2, <1>12
  <2> QED BY <2>1, <2>2, <1>10 DEF FrameAt
<1>14. v = <<>> \/ v[Len(v)] = FRAME_END
  <2> SUFFICES ASSUME v # <<>> PROVE v[Len(v)] = FRAME_END
    OBVIOUS
  <2>1. Len(v) \in 1..Len(v) /\ n + Len(v) = Len(s)
    BY <1>3, <1>6, <1>7, EmptySeq
  <2>2. s # <<>>
    BY <1>4, <1>7, EmptySeq
  <2> QED BY <2>1, <2>2, <1>1, <1>6
<1>15. ASSUME NEW j \in 1..Len(v), StartsAt(v, j) PROVE FrameAt(v, j)
  <2>1. n + j \in 1..Len(s) /\ (n + j) + 1 = n + (j + 1) /\ (n + j) + 2 = n + (j + 2)
    BY <1>6, <1>7
  <2>2. FrameAt(s, n + j)
    BY <2>1, <1>1, <1>9, <1>15
  <2>3. v[j] = s[n + j]
    BY <1>6
  <2>4. CASE s[n + j] \in ModeCmds /\ (n + j) + 1 <= Len(s) /\ s[(n + j) + 1] = FRAME_END
    <3>1. j + 1 \in 1..Len(v)
      BY <2>4, <1>6, <1>7
    <3> QED BY <3>1, <2>1, <2>3, <2>4, <1>6 DEF FrameAt
  <2>5. CASE s[n + j] \in LedCmds /\ (n + j) + 2 <= Len(s)
             /\ s[(n + j) + 1] \in 0..254 /\ s[(n + j) + 2] = FRAME_END
    <3>1. j + 1 \in 1..Len(v) /\ j + 2 \in 1..Len(v)
      BY <2>5, <1>6, <1>7
    <3>2. v[j + 1] = s[(n + j) + 1] /\ v[j + 2] = s[(n + j) + 2]
      BY <3>1, <2>1, <1>6
    <3>3. j + 2 <= Len(v)
      BY <3>1, <1>6
    <3> QED BY <3>2, <3>3, <2>3, <2>5 DEF FrameAt
  <2> QED BY <2>2, <2>4, <2>5 DEF FrameAt
<1>16. Stream(v)
  BY <1>3, <1>14, <1>15 DEF Stream
<1>17. 1 \in ModeStarts(s) <=> r[1] \in ModeCmds
  BY <1>4, <1>10, <1>12 DEF ModeStarts
<1>18. ASSUME NEW j \in ModeStarts(v)
       PROVE  j \in Nat /\ n + j \in ModeStarts(s) /\ v[j] = s[n + j]
  <2>1. j \in 1..Len(v) /\ StartsAt(v, j) /\ v[j] \in ModeCmds
    BY <1>18 DEF ModeStarts
  <2>2. n + j \in 1..Len(s) /\ j \in Nat
    BY <2>1, <1>6, <1>7
  <2> QED BY <2>1, <2>2, <1>6, <1>9 DEF ModeStarts
<1>19. ASSUME NEW j \in ModeStarts(s) PROVE j = 1 \/ j - n \in ModeStarts(v)
  <2>1. j \in 1..Len(s) /\ StartsAt(s, j) /\ s[j] \in ModeCmds
    BY <1>19 DEF ModeStarts
  <2>2. CASE j # 1
    <3>1. s[j - 1] = FRAME_END
      BY <2>1, <2>2 DEF StartsAt
    <3>2. ~ (j - 1 \in 1..(n - 1))
      BY <3>1, <1>5
    <3>3. j # n
      BY <2>1, <1>5 DEF FRAME_END, ModeCmds, ACTIVE_MODE_CMD, MUTE_MODE_CMD
    <3>4. j - n \in 1..Len(v) /\ n + (j - n) = j
      BY <3>2, <3>3, <2>1, <2>2, <1>6, <1>7
    <3> QED BY <3>4, <2>1, <1>6, <1>9 DEF ModeStarts
  <2> QED BY <2>2
<1> QED BY <1>7, <1>12, <1>13, <1>16, <1>17, <1>18, <1>19 DEF s, n, v

(* The mode that is to come is the same after a frame was read. *)
LEMMA ComesRead ==
  ASSUME NEW p, NEW a, NEW s, NEW t, NEW n \in Nat, NEW mode \in BOOLEAN, NEW mode2 \in BOOLEAN, NEW w,
         n >= 1, ModeStarts(s) \subseteq Nat,
         Comes(p, a, s, mode, w),
         \A j \in ModeStarts(t) : j \in Nat /\ n + j \in ModeStarts(s) /\ t[j] = s[n + j],
         \A j \in ModeStarts(s) : j = 1 \/ j - n \in ModeStarts(t),
         mode2 = IF 1 \in ModeStarts(s) THEN s[1] = ACTIVE_MODE_CMD ELSE mode
  PROVE  Comes(p, a, t, mode2, w)
<1> SUFFICES ASSUME p = <<>>, ModeMessages(a) = {}
             PROVE  /\ \A j \in LastOf(ModeStarts(t)) : t[j] = CmdOf(w)
                    /\ ModeStarts(t) = {} => (w = "active" => mode2) /\ (w = "mute" => ~ mode2)
  BY DEF Comes
<1>1. /\ \A j \in LastOf(ModeStarts(s)) : s[j] = CmdOf(w)
      /\ ModeStarts(s) = {} => (w = "active" => mode) /\ (w = "mute" => ~ mode)
  BY DEF Comes
<1>2. ASSUME NEW j \in LastOf(ModeStarts(t)) PROVE t[j] = CmdOf(w)
  <2>1. j \in Nat /\ n + j \in ModeStarts(s) /\ t[j] = s[n + j] /\ \A i \in ModeStarts(t) : i <= j
    BY <1>2 DEF LastOf
  <2>2. ASSUME NEW i \in ModeStarts(s) PROVE i <= n + j
    <3>1. CASE i = 1
      BY <3>1, <2>1
    <3>2. CASE i - n \in ModeStarts(t)
      <4>1. i - n <= j /\ i \in Nat
        BY <3>2, <2>1
      <4> QED BY <4>1, <2>1
    <3> QED BY <3>1, <3>2
  <2>3. n + j \in LastOf(ModeStarts(s))
    BY <2>1, <2>2 DEF LastOf
  <2> QED BY <2>1, <2>3, <1>1
<1>3. ASSUME ModeStarts(t) = {} PROVE (w = "active" => mode2) /\ (w = "mute" => ~ mode2)
  <2>1. \A j \in ModeStarts(s) : j = 1
    BY <1>3
  <2>2. CASE 1 \in ModeStarts(s)
    <3>1. 1 \in LastOf(ModeStarts(s))
      BY <2>1, <2>2 DEF LastOf
    <3>2. s[1] = CmdOf(w) /\ mode2 = (s[1] = ACTIVE_MODE_CMD)
      BY <3>1, <1>1, <2>2
    <3> QED BY <3>2 DEF CmdOf, ACTIVE_MODE_CMD, MUTE_MODE_CMD
  <2>3. CASE 1 \notin ModeStarts(s)
    BY <2>1, <2>3, <1>1
  <2> QED BY <2>2, <2>3
<1> QED BY <1>2, <1>3

LEMMA LedIsNotMode ==
  ASSUME NEW m, LedFrame(m)
  PROVE  ~ ModeFrame(m)
BY DEF LedFrame, ModeFrame, LedCmds, ACTIVE_MODE_CMD, MUTE_MODE_CMD, FRAME_END

(* A message passes from the air to the UART. *)
LEMMA ComesDelivered ==
  ASSUME NEW T, NEW p, NEW a \in Seq(T), NEW s, NEW mode, NEW w,
         a # <<>>, Stream(s), ModeFrame(Head(a)) \/ LedFrame(Head(a)), Comes(p, a, s, mode, w)
  PROVE  Comes(p, Tail(a), s \o Head(a), mode, w)
<1> DEFINE b == Tail(a)
           u == s \o Head(a)
<1>1. /\ Len(a) \in Nat /\ Len(a) # 0 /\ Len(b) = Len(a) - 1 /\ Head(a) = a[1]
      /\ \A i \in 1..Len(b) : b[i] = a[i + 1]
  BY HeadTailProperties, EmptySeq, LenProperties
<1>2. /\ Len(s) + 1 \in 1..Len(u) /\ u[Len(s) + 1] = a[1][1]
      /\ \A j \in 1..Len(s) : u[j] = s[j]
      /\ ModeStarts(u) = ModeStarts(s) \cup (IF ModeFrame(a[1]) THEN {Len(s) + 1} ELSE {})
  BY <1>1, FrameJoins
<1>3. Len(s) \in Nat
  BY LenProperties DEF Stream
<1> HIDE DEF b, u
<1>4. ASSUME NEW i \in ModeMessages(b) PROVE i \in Nat /\ i + 1 \in ModeMessages(a) /\ b[i] = a[i + 1]
  <2>1. i \in 1..Len(b) /\ ModeFrame(b[i])
    BY <1>4 DEF ModeMessages
  <2>2. i + 1 \in 1..Len(a) /\ i \in Nat
    BY <2>1, <1>1
  <2> QED BY <2>1, <2>2, <1>1 DEF ModeMessages
<1>5. ASSUME NEW i \in ModeMessages(a) PROVE i \in Nat /\ (i = 1 \/ i - 1 \in ModeMessages(b))
  <2>1. i \in 1..Len(a) /\ ModeFrame(a[i])
    BY <1>5 DEF ModeMessages
  <2>2. i = 1 \/ (i - 1 \in 1..Len(b) /\ (i - 1) + 1 = i)
    BY <2>1, <1>1
  <2> QED BY <2>1, <2>2, <1>1 DEF ModeMessages
<1>6. 1 \in ModeMessages(a) <=> ModeFrame(a[1])
  <2>1. 1 \in 1..Len(a)
    BY <1>1
  <2> QED BY <2>1 DEF ModeMessages
<1>7. ASSUME p = <<>>, NEW i \in LastOf(ModeMessages(b))
      PROVE  b[i] = <<CmdOf(w), FRAME_END>>
  <2>1. i \in Nat /\ i + 1 \in ModeMessages(a) /\ b[i] = a[i + 1] /\ \A j \in ModeMessages(b) : j <= i
    BY <1>4, <1>7 DEF LastOf
  <2>2. ASSUME NEW k \in ModeMessages(a) PROVE k <= i + 1
    <3>1. CASE k = 1
      BY <3>1, <2>1
    <3>2. CASE k - 1 \in ModeMessages(b)
      <4>1. k - 1 <= i /\ k \in Nat
        BY <3>2, <2>1, <1>5
      <4> QED BY <4>1, <2>1
    <3> QED BY <3>1, <3>2, <1>5
  <2>3. i + 1 \in LastOf(ModeMessages(a))
    BY <2>1, <2>2 DEF LastOf
  <2> QED BY <2>1, <2>3, <1>7 DEF Comes
<1>8. ASSUME p = <<>>, ModeMessages(b) = {}, NEW j \in LastOf(ModeStarts(u)) PROVE u[j] = CmdOf(w)
  <2>1. \A i \in ModeMessages(a) : i = 1
    BY <1>5, <1>8
  <2>2. CASE ModeFrame(a[1])
    <3>1. 1 \in LastOf(ModeMessages(a))
      BY <2>1, <2>2, <1>6 DEF LastOf
    <3>2. a[1] = <<CmdOf(w), FRAME_END>>
      BY <3>1, <1>8 DEF Comes
    <3>3. j = Len(s) + 1
      <4>1. Len(s) + 1 <= j /\ j \in ModeStarts(u)
        BY <2>2, <1>2, <1>8 DEF LastOf
      <4>2. j \in ModeStarts(s) => j \in Nat /\ j <= Len(s)
        BY <1>3 DEF ModeStarts
      <4>3. CASE j \in ModeStarts(s)
        BY <4>1, <4>2, <4>3, <1>3
      <4>4. CASE j \notin ModeStarts(s)
        BY <4>1, <4>4, <1>2
      <4> QED BY <4>3, <4>4
    <3> QED BY <3>2, <3>3, <1>2
  <2>3. CASE ~ ModeFrame(a[1])
    <3>1. ModeMessages(a) = {} /\ ModeStarts(u) = ModeStarts(s)
      BY <2>1, <2>3, <1>2, <1>6
    <3>2. j \in LastOf(ModeStarts(s)) /\ j \in 1..Len(s)
      BY <3>1, <1>8 DEF LastOf, ModeStarts
    <3> QED BY <3>1, <3>2, <1>2, <1>8 DEF Comes
  <2> QED BY <2>2, <2>3
<1>9. ASSUME p = <<>>, ModeMessages(b) = {}, ModeStarts(u) = {}
      PROVE  (w = "active" => mode) /\ (w = "mute" => ~ mode)
  <2>1. ~ ModeFrame(a[1]) /\ ModeStarts(s) = {}
    BY <1>2, <1>9
  <2>2. ModeMessages(a) = {}
    BY <2>1, <1>5, <1>6, <1>9
  <2> QED BY <2>1, <2>2, <1>9 DEF Comes
<1>10. p # <<>> => p = <<CmdOf(w), FRAME_END>>
  BY DEF Comes
<1> QED BY <1>7, <1>8, <1>9, <1>10 DEF Comes, b, u

(* tick() hands a message to the radio. *)
LEMMA ComesSent ==
  ASSUME NEW T, NEW p, NEW a \in Seq(T), NEW s, NEW mode, NEW w, NEW m \in T, Comes(p, a, s, mode, w)
  PROVE  /\ LedFrame(m) => Comes(p, Append(a, m), s, mode, w)
         /\ p # <<>> /\ ModeFrame(m) /\ m = p => Comes(<<>>, Append(a, m), s, mode, w)
<1> DEFINE b == Append(a, m)
<1>1. /\ Len(a) \in Nat /\ Len(b) = Len(a) + 1
      /\ \A i \in 1..Len(a) : b[i] = a[i]
      /\ b[Len(a) + 1] = m
  BY AppendProperties, LenProperties
<1> HIDE DEF b
<1>2. ASSUME LedFrame(m) PROVE Comes(p, b, s, mode, w)
  <2>1. ~ ModeFrame(m)
    BY <1>2, LedIsNotMode
  <2>2. ASSUME NEW i \in ModeMessages(b) PROVE i \in ModeMessages(a)
    <3>1. i \in 1..Len(b) /\ ModeFrame(b[i])
      BY <2>2 DEF ModeMessages
    <3>2. i # Len(a) + 1
      BY <3>1, <2>1, <1>1
    <3>3. i \in 1..Len(a)
      BY <3>1, <3>2, <1>1
    <3> QED BY <3>1, <3>3, <1>1 DEF ModeMessages
  <2>3. ASSUME NEW i \in ModeMessages(a) PROVE i \in ModeMessages(b)
    <3>1. i \in 1..Len(a) /\ ModeFrame(a[i])
      BY <2>3 DEF ModeMessages
    <3>2. i \in 1..Len(b)
      BY <3>1, <1>1
    <3> QED BY <3>1, <3>2, <1>1 DEF ModeMessages
  <2>4. ModeMessages(b) = ModeMessages(a)
    BY <2>2, <2>3
  <2>5. \A i \in LastOf(ModeMessages(a)) : b[i] = a[i]
    BY <1>1 DEF LastOf, ModeMessages
  <2> QED BY <2>4, <2>5 DEF Comes
<1>3. ASSUME p # <<>>, ModeFrame(m), m = p PROVE Comes(<<>>, b, s, mode, w)
  <2>1. Len(a) + 1 \in ModeMessages(b)
    <3>1. Len(a) + 1 \in 1..Len(b)
      BY <1>1
    <3> QED BY <3>1, <1>1, <1>3 DEF ModeMessages
  <2>2. m = <<CmdOf(w), FRAME_END>>
    BY <1>3 DEF Comes
  <2>3. ASSUME NEW i \in LastOf(ModeMessages(b)) PROVE b[i] = m
    <3>1. i \in 1..Len(b) /\ Len(a) + 1 <= i
      BY <2>1, <2>3 DEF LastOf, ModeMessages
    <3>2. i = Len(a) + 1
      BY <3>1, <1>1
    <3> QED BY <3>2, <1>1
  <2> QED BY <2>1, <2>2, <2>3 DEF Comes
<1> QED BY <1>2, <1>3 DEF b

-----------------------------------------------------------------------------
(* The steps, on the way down *)

LEMMA PreparedLed ==
  ASSUME NEW k \in Keys \ {"S"}, NEW level \in 0..254
  PROVE  LedFrame(PrepareMsg(k, level))
<1>1. MsgType(k, level) \in LedCmds
  BY DEF MsgType, Keys, LedCmds
<1>2. PrepareMsg(k, level) = <<MsgType(k, level), level, FRAME_END>>
  BY DEF PrepareMsg, FrameEnd, FRAME_END
<1> QED BY <1>1, <1>2 DEF LedFrame

LEMMA PreparedMode ==
  ASSUME NEW state \in {"active", "mute"}
  PROVE  PrepareMsg("S", state) = <<CmdOf(state), FRAME_END>> /\ ModeFrame(PrepareMsg("S", state))
BY DEF PrepareMsg, MsgType, CmdOf, ModeFrame, FrameEnd, FRAME_END, ACTIVE_MODE_CMD, MUTE_MODE_CMD

(* On this link no frame asks for an answer: the mode or the LEDs change. *)
LEMMA FrameProcessed ==
  ASSUME NEW r \in Seq(Byte), FirmwareTypeOK,
         \/ Len(r) = 1 /\ r[1] \in ModeCmds
         \/ Len(r) = 2 /\ r[1] \in LedCmds /\ r[2] \in 0..254,
         ProcessMessage(Append(r, FRAME_END))
  PROVE  /\ tx' = tx /\ ledStatus' \in [1..3 -> 0..254] /\ activeMute' \in BOOLEAN
         /\ activeMute' = IF r[1] \in ModeCmds THEN r[1] = ACTIVE_MODE_CMD ELSE activeMute
<1> DEFINE m == Append(r, FRAME_END)
<1>1. m[1] = r[1] /\ (Len(r) = 2 => m[2] = r[2])
  <2>1. FRAME_END \in Byte /\ Len(r) \in Nat
    BY LenProperties DEF FRAME_END, Byte
  <2>2. \A i \in 1..Len(r) : m[i] = r[i]
    BY <2>1, AppendProperties
  <2> HIDE DEF m
  <2> QED BY <2>1, <2>2
<1> HIDE DEF m
<1>2. ProcessMessage(m)
  BY DEF m
<1>3. tx \o <<>> = tx
  BY ConcatEmptySeq DEF FirmwareTypeOK
<1>4. ledStatus \in [1..3 -> 0..254] /\ activeMute \in BOOLEAN
  BY DEF FirmwareTypeOK
<1> USE DEF ACTIVE_MODE_CMD, MUTE_MODE_CMD, ASK_MODE_CMD, SLEEP_CMD, BATT_STATUS_CMD, LED_CMD, LEDn_CMD
<1>5. CASE Len(r) = 1 /\ r[1] \in ModeCmds
  <2>1. m[1] \in {100, 150}
    BY <1>1, <1>5 DEF ModeCmds
  <2>2. ~ LedMessage(m)
    BY <2>1 DEF LedMessage, IsLedCmd
  <2>3. Answers(m) = {<<>>}
    BY <2>1, <2>2 DEF Answers
  <2>4. tx' = tx /\ ledStatus' = ledStatus
    BY <1>2, <1>3, <2>2, <2>3 DEF ProcessMessage
  <2>0. activeMute' = CASE m[1] = 150 -> TRUE [] m[1] = 100 -> FALSE [] OTHER -> activeMute
    BY <1>2 DEF ProcessMessage
  <2>5. CASE m[1] = 150
    <3>1. activeMute' = TRUE
      BY <2>0, <2>5
    <3> QED BY <3>1, <2>4, <2>5, <1>1, <1>4, <1>5
  <2>6. CASE m[1] = 100
    <3>1. activeMute' = FALSE
      BY <2>0, <2>6
    <3>2. (r[1] = ACTIVE_MODE_CMD) = FALSE
      BY <2>6, <1>1
    <3> QED BY <3>1, <3>2, <2>4, <1>4, <1>5
  <2> QED BY <2>1, <2>5, <2>6
<1>6. CASE Len(r) = 2 /\ r[1] \in LedCmds /\ r[2] \in 0..254
  <2>1. m[1] \in {32, 33, 34, 35} /\ m[2] \in 0..254
    BY <1>1, <1>6 DEF LedCmds
  <2>2. LedMessage(m)
    BY <2>1 DEF LedMessage, IsLedCmd
  <2>3. m[2] # 255
    <3>1. \A x \in 0..254 : x # 255
      OBVIOUS
    <3> QED BY <2>1, <3>1, ZenonT(40)
  <2>4. Answers(m) = {<<>>}
    <3>1. Answers(m) = {LedAnswer(m)}
      BY <2>1, <2>2 DEF Answers
    <3> QED BY <3>1, <2>3 DEF LedAnswer
  <2>5. tx' = tx
    BY <1>2, <1>3, <2>4 DEF ProcessMessage
  <2>6. ledStatus' \in [1..3 -> 0..254]
    <3>1. ledStatus' = ToggledLeds(m)
      BY <1>2, <2>2 DEF ProcessMessage
    <3> QED BY <3>1, <2>1, <2>3, <1>4 DEF ToggledLeds
  <2>7. activeMute' = activeMute
    <3>1. activeMute' = CASE m[1] = 150 -> TRUE [] m[1] = 100 -> FALSE [] OTHER -> activeMute
      BY <1>2 DEF ProcessMessage
    <3>2. m[1] # 150 /\ m[1] # 100
      BY <2>1
    <3> QED BY <3>1, <3>2
  <2> QED BY <2>5, <2>6, <2>7, <2>1, <1>1, <1>4 DEF ModeCmds
<1> QED BY <1>5, <1>6

(* A byte is read. *)
LEMMA ReadByteDown ==
  ASSUME FirmwareTypeOK, DownInv, ReadByte
  PROVE  /\ tx' = tx
         /\ rx' \in Seq(Byte) /\ serialIn' \in Seq(Byte)
         /\ ledStatus' \in [1..3 -> 0..254] /\ activeMute' \in BOOLEAN
         /\ \A i \in 1..Len(rx') : rx'[i] # FRAME_END
         /\ Stream(rx' \o serialIn')
         /\ \A p, a, w : Comes(p, a, rx \o serialIn, activeMute, w) =>
                         Comes(p, a, rx' \o serialIn', activeMute', w)
<1>1. rx \in Seq(Byte) /\ serialIn \in Seq(Byte) /\ serialIn # <<>> /\ serialIn' = Tail(serialIn)
  BY DEF FirmwareTypeOK, ReadByte
<1>2. Head(serialIn) \in Byte /\ Tail(serialIn) \in Seq(Byte)
  BY <1>1, HeadTailProperties
<1>3. Stream(rx \o serialIn) /\ \A i \in 1..Len(rx) : rx[i] # FRAME_END
  BY DEF DownInv
<1>4. ledStatus \in [1..3 -> 0..254] /\ activeMute \in BOOLEAN
  BY DEF FirmwareTypeOK
<1>5. CASE Head(serialIn) # FRAME_END
  <2>1. rx' = Append(rx, Head(serialIn)) /\ UNCHANGED <<tx, activeMute, ledStatus>>
    BY <1>5 DEF ReadByte
  <2>2. rx' \o serialIn' = rx \o serialIn
    BY <2>1, <1>1, ByteRead
  <2>3. /\ rx' \in Seq(Byte) /\ Len(rx) \in Nat /\ Len(rx') = Len(rx) + 1
        /\ \A i \in 1..Len(rx) : rx'[i] = rx[i]
        /\ rx'[Len(rx) + 1] = Head(serialIn)
    BY <2>1, <1>1, <1>2, AppendProperties, LenProperties
  <2>4. ASSUME NEW i \in 1..Len(rx') PROVE rx'[i] # FRAME_END
    <3>1. i \in 1..Len(rx) \/ i = Len(rx) + 1
      BY <2>3
    <3> QED BY <3>1, <2>3, <1>3, <1>5
  <2> QED BY <2>1, <2>2, <2>3, <2>4, <1>1, <1>2, <1>3, <1>4
<1>6. CASE Head(serialIn) = FRAME_END
  <2>1. rx' = <<>> /\ ProcessMessage(Append(rx, FRAME_END))
    BY <1>6 DEF ReadByte
  <2>2. rx' \o serialIn' = Tail(serialIn)
    BY <2>1, <1>1, <1>2, ConcatEmptySeq
  <2> DEFINE s == rx \o serialIn
             n == Len(rx) + 1
             t == Tail(serialIn)
  <2>3. /\ \/ Len(rx) = 1 /\ rx[1] \in ModeCmds
           \/ Len(rx) = 2 /\ rx[1] \in LedCmds /\ rx[2] \in 0..254
        /\ Stream(t)
        /\ n \in Nat /\ s[1] = rx[1] /\ (1 \in ModeStarts(s) <=> rx[1] \in ModeCmds)
        /\ \A j \in ModeStarts(t) : j \in Nat /\ n + j \in ModeStarts(s) /\ t[j] = s[n + j]
        /\ \A j \in ModeStarts(s) : j = 1 \/ j - n \in ModeStarts(t)
    BY <1>1, <1>3, <1>6, FrameRead
  <2>4. /\ tx' = tx /\ ledStatus' \in [1..3 -> 0..254] /\ activeMute' \in BOOLEAN
        /\ activeMute' = IF rx[1] \in ModeCmds THEN rx[1] = ACTIVE_MODE_CMD ELSE activeMute
    BY <1>1, <2>1, <2>3, FrameProcessed
  <2>5. ASSUME NEW p, NEW a, NEW w, Comes(p, a, s, activeMute, w)
        PROVE  Comes(p, a, t, activeMute', w)
    <3>1. n >= 1
      BY <2>3
    <3>2. ModeStarts(s) \subseteq Nat
      BY DEF ModeStarts
    <3>3. activeMute' = IF 1 \in ModeStarts(s) THEN s[1] = ACTIVE_MODE_CMD ELSE activeMute
      BY <2>3, <2>4
    <3> HIDE DEF s, t, n
    <3> QED BY <3>1, <3>2, <3>3, <2>3, <2>4, <2>5, <1>4, ComesRead
  <2>6. \A i \in 1..Len(rx') : rx'[i] # FRAME_END
    BY <2>1
  <2>7. rx' \in Seq(Byte)
    BY <2>1
  <2> QED BY <2>2, <2>3, <2>4, <2>5, <2>6, <2>7, <1>1, <1>2
<1> QED BY <1>5, <1>6

(* A client sets a value. *)
LEMMA SetDown ==
  ASSUME LinkTypeOK, DownInv, NEW k \in Keys, NEW v, MayStartSet, SafeSendMsg(k, v), UNCHANGED firmwareVars,
         \/ k # "S" /\ v \in Levels /\ LedFrame(PrepareMsg(k, v))
         \/ k = "S" /\ v \in {"active", "mute"} /\ ModeFrame(PrepareMsg(k, v))
  PROVE  DownInv' /\ ProxyTypeOK'
<1> USE KeySet
<1>1. /\ safeSendMap \in [Keys -> Seq(0..255)] /\ safeSendMap' = [safeSendMap EXCEPT ![k] = PrepareMsg(k, v)]
      /\ client' = [key |-> k, value |-> v] /\ sets' = sets + 1
      /\ UNCHANGED <<sending, air, rxBuffer, modelLed, modelState, modelButton, rx, serialIn>>
  BY DEF LinkTypeOK, ProxyTypeOK, SafeSendMsg, firmwareVars
<1>2. PrepareMsg(k, v) \in Seq(0..255)
  BY FrameTyped DEF Byte
<1>3. safeSendMap' \in [Keys -> Seq(0..255)]
  BY <1>1, <1>2
<1>4. client' \in Clients
  <2>1. CASE k # "S" /\ v \in Levels
    BY <2>1, <1>1 DEF Clients, Keys
  <2>2. CASE k = "S" /\ v \in {"active", "mute"}
    BY <2>2, <1>1 DEF Clients
  <2> QED BY <2>1, <2>2
<1>5. /\ \A x \in Keys \ {"S"} : safeSendMap'[x] = <<>> \/ LedFrame(safeSendMap'[x])
      /\ safeSendMap'["S"] = <<>> \/ ModeFrame(safeSendMap'["S"])
  <2>1. \A x \in Keys : safeSendMap'[x] = IF x = k THEN PrepareMsg(k, v) ELSE safeSendMap[x]
    BY <1>1
  <2>2. "S" \in Keys
    BY DEF Keys
  <2> QED BY <2>1, <2>2 DEF DownInv
<1>6. DownInv'
  BY <1>1, <1>4, <1>5 DEF DownInv
<1>7. sets' \in 0..MaxSets
  BY <1>1, ProxyAssumption DEF MayStartSet, LinkTypeOK, ProxyTypeOK
<1> QED BY <1>1, <1>3, <1>6, <1>7 DEF LinkTypeOK, ProxyTypeOK

LEMMA ClientFields ==
  ASSUME NEW c \in Clients
  PROVE  /\ c = NoSet => c.key = "none"
         /\ c # NoSet => c.key \in Keys
         /\ c # NoSet /\ c.key # "S" => c.value \in Levels
         /\ c # NoSet /\ c.key = "S" => c.value \in {"active", "mute"}
BY DEF Clients, NoSet, Keys

(* The steps of the daemon that send keep every message a frame. *)
LEMMA DaemonDown ==
  ASSUME LinkTypeOK, DownInv, 255 \notin Levels, ProxyStep, UNCHANGED firmwareVars
  PROVE  DownInv' /\ ProxyTypeOK'
<1> USE KeySet
<1>0. Levels \subseteq 0..254
  <2>1. ASSUME NEW l \in Levels PROVE l \in 0..254
    <3>1. l \in 0..255 /\ l # 255
      BY ProxyAssumption
    <3> QED BY <3>1
  <2> QED BY <2>1
<1>1. ASSUME FastTriggerLed PROVE DownInv' /\ ProxyTypeOK'
  <2>1. PICK k \in Settable, level \in Levels : SafeSendMsg(k, level)
    BY <1>1 DEF FastTriggerLed
  <2>2. k \in Keys \ {"S"}
    BY DEF Settable, LedKeys, ToSet, Keys
  <2>3. LedFrame(PrepareMsg(k, level))
    BY <2>2, <1>0, PreparedLed
  <2>4. MayStartSet
    BY <1>1 DEF FastTriggerLed
  <2>5. k \in Keys /\ k # "S"
    BY <2>2
  <2> QED BY <2>1, <2>3, <2>4, <2>5, SetDown
<1>2. ASSUME SetState PROVE DownInv' /\ ProxyTypeOK'
  <2>1. PICK state \in {"active", "mute"} : SafeSendMsg("S", state)
    BY <1>2 DEF SetState
  <2>2. "S" \in Keys /\ MayStartSet
    BY <1>2 DEF SetState, Keys
  <2> QED BY <2>1, <2>2, PreparedMode, SetDown
<1>3. ASSUME SetModel PROVE DownInv' /\ ProxyTypeOK'
  <2>1. /\ client # NoSet /\ client' = NoSet
        /\ modelLed' = [n \in 1..3 |-> IF client.key \in {"L", LedKeys[n]} THEN client.value ELSE modelLed[n]]
        /\ modelState' = IF client.key = "S" THEN client.value ELSE modelState
        /\ UNCHANGED <<safeSendMap, sending, air, rxBuffer, sets, modelButton, rx, serialIn>>
    BY <1>3 DEF SetModel, firmwareVars
  <2>2. client \in Clients
    BY DEF DownInv
  <2>3. modelState' \in {"Initializing", "active", "mute"}
    BY <2>1, <2>2, ClientFields DEF LinkTypeOK, ProxyTypeOK
  <2>4. ASSUME NEW n \in 1..3 PROVE modelLed'[n] \in Levels \cup {0}
    <3>1. modelLed[n] \in Levels \cup {0}
      BY DEF LinkTypeOK, ProxyTypeOK
    <3>2. modelLed'[n] = IF client.key \in {"L", LedKeys[n]} THEN client.value ELSE modelLed[n]
      BY <2>1
    <3>3. "S" \notin {"L", LedKeys[n]}
      BY DEF LedKeys
    <3> QED BY <3>1, <3>2, <3>3, <2>1, <2>2, ClientFields
  <2>5. modelLed' \in [1..3 -> Levels \cup {0}]
    BY <2>1, <2>4
  <2>6. client' \in Clients
    BY <2>1 DEF Clients
  <2>7. DownInv'
    BY <2>1, <2>6 DEF DownInv
  <2> QED BY <2>1, <2>3, <2>5, <2>7 DEF LinkTypeOK, ProxyTypeOK
<1>4. ASSUME TickSend PROVE DownInv' /\ ProxyTypeOK'
  <2>1. PICK i \in 1..5 : /\ Waiting(KeySeq[i]) /\ sending' = KeySeq[i]
                          /\ air' = Append(air, safeSendMap[KeySeq[i]])
    BY <1>4 DEF TickSend
  <2>2. UNCHANGED <<safeSendMap, rxBuffer, client, sets, modelLed, modelState, modelButton, rx, serialIn>>
    BY <1>4 DEF TickSend, firmwareVars
  <2>3. PICK k \in Keys : k = KeySeq[i]
    BY DEF KeySeq, Keys
  <2>4. ModeFrame(safeSendMap[k]) \/ LedFrame(safeSendMap[k])
    BY <2>1, <2>3 DEF DownInv, Waiting
  <2>5. air \in Seq(Seq(0..255)) /\ safeSendMap[k] \in Seq(0..255)
    BY DEF LinkTypeOK, ProxyTypeOK
  <2>6. /\ air' \in Seq(Seq(0..255)) /\ Len(air) \in Nat /\ Len(air') = Len(air) + 1
        /\ \A j \in 1..Len(air) : air'[j] = air[j]
        /\ air'[Len(air) + 1] = safeSendMap[k]
    BY <2>1, <2>3, <2>5, AppendProperties, LenProperties
  <2>7. ASSUME NEW j \in 1..Len(air') PROVE ModeFrame(air'[j]) \/ LedFrame(air'[j])
    <3>1. j \in 1..Len(air) \/ j = Len(air) + 1
      BY <2>6
    <3> QED BY <3>1, <2>4, <2>6 DEF DownInv
  <2>8. DownInv'
    BY <2>2, <2>7 DEF DownInv
  <2> QED BY <2>1, <2>2, <2>3, <2>6, <2>8 DEF LinkTypeOK, ProxyTypeOK
<1>5. ASSUME TickErase PROVE DownInv' /\ ProxyTypeOK'
  <2>1. /\ safeSendMap' = [safeSendMap EXCEPT ![sending] = <<>>] /\ sending' = "none"
        /\ UNCHANGED <<air, rxBuffer, client, sets, modelLed, modelState, modelButton, rx, serialIn>>
    BY <1>5 DEF TickErase, firmwareVars
  <2>2. safeSendMap \in [Keys -> Seq(0..255)] /\ <<>> \in Seq(0..255)
    BY EmptySeq DEF LinkTypeOK, ProxyTypeOK
  <2>3. safeSendMap' \in [Keys -> Seq(0..255)]
    BY <2>1, <2>2
  <2>4. \A x \in Keys : safeSendMap'[x] = IF x = sending THEN <<>> ELSE safeSendMap[x]
    BY <2>1, <2>2
  <2>5. "S" \in Keys
    BY DEF Keys
  <2>6. /\ \A x \in Keys \ {"S"} : safeSendMap'[x] = <<>> \/ LedFrame(safeSendMap'[x])
        /\ safeSendMap'["S"] = <<>> \/ ModeFrame(safeSendMap'["S"])
    BY <2>4, <2>5 DEF DownInv
  <2>7. DownInv'
    BY <2>1, <2>6 DEF DownInv
  <2> QED BY <2>1, <2>3, <2>7 DEF LinkTypeOK, ProxyTypeOK
<1> QED BY <1>1, <1>2, <1>3, <1>4, <1>5 DEF ProxyStep

(* With no value set while tick() sends, the steps of the daemon keep the mode to come. *)
LEMMA DaemonMode ==
  ASSUME LinkTypeOK, DownInv, ModeInv, ~ MaySetDuringTick, ProxyStep, UNCHANGED firmwareVars
  PROVE  ModeInv'
<1> USE KeySet
<1> DEFINE s == rx \o serialIn
<1>0. /\ client \in Clients /\ safeSendMap \in [Keys -> Seq(0..255)] /\ "S" \in Keys
      /\ rx' = rx /\ serialIn' = serialIn /\ activeMute' = activeMute
  BY DEF DownInv, LinkTypeOK, ProxyTypeOK, firmwareVars, Keys
<1>a. sending # "none" => client = NoSet
  BY DEF ModeInv
<1>b. Comes(Unsent("S"), air, s, activeMute, WantedState)
  BY DEF ModeInv
<1>c. s' = s
  BY <1>0
<1> HIDE DEF s
<1>1. ASSUME FastTriggerLed PROVE ModeInv'
  <2>1. PICK k \in Settable, level \in Levels : SafeSendMsg(k, level)
    BY <1>1 DEF FastTriggerLed
  <2>2. k \in Keys \ {"S"}
    BY DEF Settable, LedKeys, ToSet, Keys
  <2>3. client = NoSet /\ sending = "none"
    BY <1>1 DEF FastTriggerLed, MayStartSet
  <2>4. /\ safeSendMap'["S"] = safeSendMap["S"] /\ client'.key # "S"
        /\ UNCHANGED <<sending, air, modelState>>
    BY <2>1, <2>2, <1>0 DEF SafeSendMsg
  <2>5. WantedState' = WantedState /\ Unsent("S")' = Unsent("S")
    BY <2>3, <2>4 DEF WantedState, Unsent, NoSet
  <2>6. Comes(Unsent("S")', air', s', activeMute', WantedState')
    BY <2>4, <2>5, <1>0, <1>b, <1>c
  <2> QED BY <2>3, <2>4, <2>6 DEF ModeInv, s
<1>2. ASSUME SetState PROVE ModeInv'
  <2>1. PICK state \in {"active", "mute"} : SafeSendMsg("S", state)
    BY <1>2 DEF SetState
  <2>3. client = NoSet /\ sending = "none"
    BY <1>2 DEF SetState, MayStartSet
  <2>4. /\ safeSendMap'["S"] = PrepareMsg("S", state) /\ client'.key = "S" /\ client'.value = state
        /\ sending' = "none"
    BY <2>1, <2>3, <1>0 DEF SafeSendMsg
  <2>5. WantedState' = state /\ Unsent("S")' = <<CmdOf(state), FRAME_END>>
    BY <2>3, <2>4, PreparedMode DEF WantedState, Unsent
  <2>6. Unsent("S")' # <<>>
    BY <2>5
  <2>7. Comes(Unsent("S")', air', s', activeMute', WantedState')
    BY <2>5, <2>6 DEF Comes
  <2> QED BY <2>4, <2>7 DEF ModeInv, s
<1>3. ASSUME SetModel PROVE ModeInv'
  <2>1. /\ client # NoSet /\ client' = NoSet
        /\ modelState' = IF client.key = "S" THEN client.value ELSE modelState
        /\ UNCHANGED <<safeSendMap, sending, air>>
    BY <1>3 DEF SetModel
  <2>2. WantedState' = WantedState /\ Unsent("S")' = Unsent("S")
    BY <2>1 DEF WantedState, Unsent, NoSet
  <2>3. Comes(Unsent("S")', air', s', activeMute', WantedState')
    BY <2>1, <2>2, <1>0, <1>b, <1>c
  <2> QED BY <2>1, <2>3 DEF ModeInv, s
<1>4. ASSUME TickSend PROVE ModeInv'
  <2>1. PICK i \in 1..5 : /\ Waiting(KeySeq[i]) /\ sending' = KeySeq[i]
                          /\ air' = Append(air, safeSendMap[KeySeq[i]])
    BY <1>4 DEF TickSend
  <2>2. sending = "none" /\ client = NoSet /\ UNCHANGED <<safeSendMap, client, modelState>>
    BY <1>4 DEF TickSend
  <2>3. PICK k \in Keys : k = KeySeq[i]
    BY DEF KeySeq, Keys
  <2>4. WantedState' = WantedState
    BY <2>2 DEF WantedState
  <2>5. air \in Seq(Seq(0..255)) /\ safeSendMap[k] \in Seq(0..255)
    BY DEF LinkTypeOK, ProxyTypeOK
  <2>6. Unsent("S") = safeSendMap["S"]
    BY <2>2 DEF Unsent
  <2>7. CASE k = "S"
    <3>1. ModeFrame(safeSendMap[k]) /\ safeSendMap[k] # <<>> /\ Unsent("S")' = <<>>
      BY <2>1, <2>3, <2>7 DEF DownInv, Waiting, Unsent
    <3>2. Comes(<<>>, Append(air, safeSendMap[k]), s, activeMute, WantedState)
      BY <3>1, <2>5, <2>6, <2>7, <1>b, ComesSent, ZenonT(40)
    <3>3. Comes(Unsent("S")', air', s', activeMute', WantedState')
      BY <3>1, <3>2, <2>1, <2>3, <2>4, <1>0, <1>c
    <3> QED BY <3>3, <2>2 DEF ModeInv, s
  <2>8. CASE k # "S"
    <3>1. LedFrame(safeSendMap[k]) /\ Unsent("S")' = Unsent("S")
      BY <2>1, <2>2, <2>3, <2>6, <2>8 DEF DownInv, Waiting, Unsent
    <3>2. Comes(Unsent("S"), Append(air, safeSendMap[k]), s, activeMute, WantedState)
      BY <3>1, <2>5, <1>b, ComesSent
    <3>3. Comes(Unsent("S")', air', s', activeMute', WantedState')
      BY <3>1, <3>2, <2>1, <2>3, <2>4, <1>0, <1>c
    <3> QED BY <3>3, <2>2 DEF ModeInv, s
  <2> QED BY <2>7, <2>8
<1>5. ASSUME TickErase PROVE ModeInv'
  <2>1. /\ safeSendMap' = [safeSendMap EXCEPT ![sending] = <<>>] /\ sending' = "none"
        /\ UNCHANGED <<air, client, modelState>>
    BY <1>5 DEF TickErase
  <2>2. safeSendMap'["S"] = IF "S" = sending THEN <<>> ELSE safeSendMap["S"]
    BY <2>1, <1>0
  <2>3. Unsent("S")' = Unsent("S") /\ WantedState' = WantedState
    BY <2>1, <2>2 DEF Unsent, WantedState
  <2>4. Comes(Unsent("S")', air', s', activeMute', WantedState')
    BY <2>1, <2>3, <1>0, <1>b, <1>c
  <2> QED BY <2>1, <2>4 DEF ModeInv, s
<1> QED BY <1>1, <1>2, <1>3, <1>4, <1>5 DEF ProxyStep

(* A message reaches the UART of the remote. *)
LEMMA DeliveredDown ==
  ASSUME LinkTypeOK, DownInv, DeliverDown
  PROVE  DownInv' /\ LinkTypeOK' /\ (ModeInv => ModeInv')
<1>1. /\ air # <<>> /\ serialIn' = serialIn \o Head(air) /\ air' = Tail(air)
      /\ UNCHANGED <<serialOut, rx, tx, phase, activeMute, ledStatus, buttonBuff, pin, awake>>
      /\ UNCHANGED <<safeSendMap, sending, rxBuffer, client, sets, modelLed, modelState, modelButton>>
  BY DEF DeliverDown
<1>2. air \in Seq(Seq(0..255)) /\ rx \in Seq(Byte) /\ serialIn \in Seq(Byte)
  BY DEF LinkTypeOK, ProxyTypeOK, FirmwareTypeOK
<1>3. /\ Len(air) \in Nat /\ Len(air) # 0 /\ Len(air') = Len(air) - 1 /\ Head(air) = air[1]
      /\ air' \in Seq(Seq(0..255)) /\ \A i \in 1..Len(air') : air'[i] = air[i + 1]
  BY <1>1, <1>2, HeadTailProperties, EmptySeq, LenProperties
<1>4. ModeFrame(Head(air)) \/ LedFrame(Head(air))
  <2>1. 1 \in 1..Len(air)
    BY <1>3
  <2> QED BY <2>1, <1>3 DEF DownInv
<1>5. Head(air) \in Seq(Byte)
  BY <1>4, FrameTyped
<1>6. ASSUME NEW i \in 1..Len(air') PROVE ModeFrame(air'[i]) \/ LedFrame(air'[i])
  <2>1. i + 1 \in 1..Len(air)
    BY <1>3
  <2> QED BY <2>1, <1>3 DEF DownInv
<1>7. rx' \o serialIn' = (rx \o serialIn) \o Head(air)
  <2>1. (rx \o serialIn) \o Head(air) = rx \o (serialIn \o Head(air))
    <3>1. PICK r \in Seq(Byte), t \in Seq(Byte), h \in Seq(Byte) : r = rx /\ t = serialIn /\ h = Head(air)
      BY <1>2, <1>5
    <3>2. (r \o t) \o h = r \o (t \o h)
      BY ConcatAssociative
    <3> QED BY <3>1, <3>2
  <2>2. rx' = rx /\ serialIn' = serialIn \o Head(air)
    BY <1>1
  <2> QED BY <2>1, <2>2
<1>8. Stream(rx \o serialIn)
  BY DEF DownInv
<1>9. Stream(rx' \o serialIn')
  BY <1>4, <1>7, <1>8, FrameJoins
<1>10. DownInv'
  BY <1>1, <1>6, <1>9 DEF DownInv
<1>11. LinkTypeOK'
  <2>1. serialIn' \in Seq(Byte)
    BY <1>1, <1>2, <1>5, ConcatProperties
  <2>2. FirmwareTypeOK'
    BY <2>1, <1>1, SMTT(30) DEF LinkTypeOK, FirmwareTypeOK
  <2>3. ProxyTypeOK'
    BY <1>1, <1>3 DEF LinkTypeOK, ProxyTypeOK
  <2> QED BY <2>2, <2>3 DEF LinkTypeOK
<1>12. ASSUME ModeInv PROVE ModeInv'
  <2>1. (sending # "none" => client = NoSet) /\ Comes(Unsent("S"), air, rx \o serialIn, activeMute, WantedState)
    BY <1>12 DEF ModeInv
  <2>2. Unsent("S")' = Unsent("S") /\ WantedState' = WantedState
    BY <1>1 DEF Unsent, WantedState
  <2>3. Comes(Unsent("S"), Tail(air), (rx \o serialIn) \o Head(air), activeMute, WantedState)
    BY <2>1, <1>1, <1>2, <1>4, <1>8, ComesDelivered
  <2>4. Comes(Unsent("S")', air', rx' \o serialIn', activeMute', WantedState')
    BY <2>2, <2>3, <1>1, <1>7
  <2> QED BY <2>1, <2>4, <1>1 DEF ModeInv
<1> QED BY <1>10, <1>11, <1>12

-----------------------------------------------------------------------------
(* The steps, on the way up *)

(* A report of a button is put behind the others. *)
LEMMA ReportJoins ==
  ASSUME NEW s, Reports(s), NEW b \in Buttons, NEW old \in {0, 1}
  PROVE  LET u == s \o <<b, old, FRAME_END>>
         IN  /\ Reports(u)
             /\ \A shown : Arrives(u, b, shown, 1 - old)
             /\ \A c \in Buttons \ {b} : \A shown, sample : Arrives(s, c, shown, sample)
                  => Arrives(u, c, shown, sample)
<1> DEFINE m == <<b, old, FRAME_END>>
           u == s \o m
<1>0. b \in Byte /\ b # FRAME_END /\ old \in Byte /\ old # FRAME_END /\ FRAME_END \in Byte
  BY ButtonsAssumption DEF Byte, FRAME_END
<1>1. /\ s \in Seq(Byte) /\ (s = <<>> \/ s[Len(s)] = FRAME_END)
      /\ \A j \in 1..Len(s) : StartsAt(s, j) => ReportAt(s, j)
  BY DEF Reports
<1>2. /\ m \in Seq(Byte) /\ Len(m) = 3 /\ m[1] = b /\ m[2] = old /\ m[3] = FRAME_END
  BY <1>0
<1> HIDE DEF m
<1>3. /\ u \in Seq(Byte) /\ Len(s) \in Nat /\ Len(u) = Len(s) + 3
      /\ \A i \in 1..Len(s) : u[i] = s[i]
      /\ \A i \in 1..3 : u[Len(s) + i] = m[i]
  <2>1. /\ u \in Seq(Byte) /\ Len(s) \in Nat /\ Len(u) = Len(s) + Len(m)
        /\ \A i \in 1..Len(s) : u[i] = s[i]
        /\ \A i \in 1..Len(m) : u[Len(s) + i] = m[i]
    <3>1. s \in Seq(Byte) /\ m \in Seq(Byte)
      BY <1>1, <1>2
    <3> QED BY <3>1, Joined
  <2> HIDE DEF u
  <2> QED BY <2>1, <1>2
<1>4. /\ \A j \in 1..Len(s) : StartsAt(u, j) <=> StartsAt(s, j)
      /\ \A j \in 1..3 : StartsAt(u, Len(s) + j) <=> StartsAt(m, j)
  BY Glue, <1>1, <1>2
<1> HIDE DEF u
<1>5. PICK n \in Nat : n = Len(s)
  BY <1>3
<1>6. u[n + 1] = b /\ u[n + 2] = old /\ u[n + 3] = FRAME_END
  BY <1>2, <1>3, <1>5
<1>7. StartsAt(u, n + 1) /\ ~ StartsAt(u, n + 2) /\ ~ StartsAt(u, n + 3)
  <2>1. StartsAt(u, n + 1)
    BY <1>4, <1>5 DEF StartsAt
  <2>2. (n + 2) - 1 = n + 1 /\ (n + 3) - 1 = n + 2 /\ n + 2 # 1 /\ n + 3 # 1
    OBVIOUS
  <2> QED BY <2>1, <2>2, <1>0, <1>6 DEF StartsAt
<1>8. \A j \in 1..Len(u) : j \in 1..n \/ j = n + 1 \/ j = n + 2 \/ j = n + 3
  BY <1>3, <1>5
<1>9. ASSUME NEW j \in 1..Len(u), StartsAt(u, j) PROVE ReportAt(u, j)
  <2>1. CASE j = n + 1
    <3>1. j + 2 <= Len(u) /\ j + 1 = n + 2 /\ j + 2 = n + 3
      BY <2>1, <1>3, <1>5
    <3> QED BY <3>1, <2>1, <1>6 DEF ReportAt
  <2>2. CASE j \in 1..n
    <3>1. ReportAt(s, j)
      BY <2>2, <1>1, <1>4, <1>5, <1>9
    <3>2. j + 1 \in 1..n /\ j + 2 \in 1..n /\ j + 2 <= Len(u)
      BY <3>1, <2>2, <1>3, <1>5 DEF ReportAt
    <3> QED BY <3>1, <3>2, <2>2, <1>3, <1>5 DEF ReportAt
  <2> QED BY <2>1, <2>2, <1>7, <1>8, <1>9
<1>10. Reports(u)
  <2>1. Len(u) = n + 3
    BY <1>3, <1>5
  <2> QED BY <2>1, <1>3, <1>6, <1>9 DEF Reports
<1>11. n + 1 \in 1..Len(u) /\ 1..n \subseteq 1..Len(u)
  BY <1>3, <1>5
<1>12. ASSUME NEW j \in LastOf(ReportsOf(u, b)) PROVE u[j + 1] = 1 - (1 - old)
  <2>1. n + 1 \in ReportsOf(u, b)
    BY <1>6, <1>7, <1>11 DEF ReportsOf
  <2>2. j \in 1..Len(u) /\ StartsAt(u, j) /\ n + 1 <= j
    BY <2>1, <1>12 DEF LastOf, ReportsOf
  <2>3. ~ (j \in 1..n)
    BY <2>2
  <2>4. j = n + 1
    BY <2>2, <2>3, <1>7, <1>8
  <2>5. j + 1 = n + 2 /\ 1 - (1 - old) = old
    BY <2>4
  <2> QED BY <2>5, <1>6
<1>13. ReportsOf(u, b) # {}
  BY <1>6, <1>7, <1>11 DEF ReportsOf
<1>14. ASSUME NEW c \in Buttons \ {b}, NEW shown, NEW sample, Arrives(s, c, shown, sample)
       PROVE  Arrives(u, c, shown, sample)
  <2>1. ASSUME NEW j \in ReportsOf(u, c) PROVE j \in ReportsOf(s, c)
    <3>1. j \in 1..Len(u) /\ StartsAt(u, j) /\ u[j] = c
      BY <2>1 DEF ReportsOf
    <3>2. j \in 1..n
      BY <3>1, <1>6, <1>7, <1>8
    <3> QED BY <3>1, <3>2, <1>3, <1>4, <1>5 DEF ReportsOf
  <2>2. ASSUME NEW j \in ReportsOf(s, c) PROVE j \in ReportsOf(u, c)
    <3>1. j \in 1..n /\ StartsAt(s, j) /\ s[j] = c
      BY <2>2, <1>5 DEF ReportsOf
    <3> QED BY <3>1, <1>3, <1>4, <1>5, <1>11 DEF ReportsOf
  <2>3. ReportsOf(u, c) = ReportsOf(s, c)
    BY <2>1, <2>2
  <2>4. ASSUME NEW j \in ReportsOf(s, c) PROVE u[j + 1] = s[j + 1]
    <3>1. j \in 1..n /\ ReportAt(s, j)
      BY <2>4, <1>1, <1>5 DEF ReportsOf
    <3>2. j + 1 \in 1..n
      BY <3>1, <1>5 DEF ReportAt
    <3> QED BY <3>2, <1>3, <1>5
  <2> QED BY <2>3, <2>4, <1>14 DEF Arrives, LastOf
<1>15. \A shown : Arrives(u, b, shown, 1 - old)
  BY <1>12, <1>13 DEF Arrives
<1> QED BY <1>10, <1>14, <1>15 DEF u, m

(* Five pieces are put together: the steps one by one. *)
Unfolding(f, g, p) == \A i \in 1..5 : f[i] = IF i = 1 THEN p[i] ELSE g[i - 1] \o p[i]
Unfolded(f, g, p) ==
  /\ f[1] = p[1] /\ f[2] = g[1] \o p[2] /\ f[3] = g[2] \o p[3]
  /\ f[4] = g[3] \o p[4] /\ f[5] = g[4] \o p[5]

LEMMA FiveSteps ==
  ASSUME NEW f, NEW g, NEW p, Unfolding(f, g, p)
  PROVE  Unfolded(f, g, p)
<1>1. /\ 1 \in 1..5 /\ 2 \in 1..5 /\ 3 \in 1..5 /\ 4 \in 1..5 /\ 5 \in 1..5
      /\ 2 # 1 /\ 3 # 1 /\ 4 # 1 /\ 5 # 1
      /\ 2 - 1 = 1 /\ 3 - 1 = 2 /\ 4 - 1 = 3 /\ 5 - 1 = 4
  BY SMT
<1>2. f[1] = p[1]
  BY <1>1, Zenon DEF Unfolding
<1>3. f[2] = g[2 - 1] \o p[2] /\ f[3] = g[3 - 1] \o p[3]
  BY <1>1, Zenon DEF Unfolding
<1>4. f[4] = g[4 - 1] \o p[4] /\ f[5] = g[5 - 1] \o p[5]
  BY <1>1, Zenon DEF Unfolding
<1> QED BY <1>1, <1>2, <1>3, <1>4, Zenon DEF Unfolded

(* Five pieces, one behind the other. *)
LEMMA FlattenFive ==
  ASSUME NEW T, NEW p \in [1..5 -> Seq(T)]
  PROVE  FlattenSeq(p) = (((p[1] \o p[2]) \o p[3]) \o p[4]) \o p[5]
<1> DEFINE Unfolds(f) == f = [i \in 1..5 |-> IF i = 1 THEN p[i] ELSE f[i - 1] \o p[i]]
           f == CHOOSE f : Unfolds(f)
<1>0. p[1] \in Seq(T) /\ p[2] \in Seq(T) /\ p[3] \in Seq(T) /\ p[4] \in Seq(T) /\ p[5] \in Seq(T)
  OBVIOUS
<1>1. Len(p) = 5
  OBVIOUS
<1>2. PICK c2 \in Seq(T) : c2 = p[1] \o p[2]
  <2>1. p[1] \o p[2] \in Seq(T)
    BY <1>0, ConcatProperties
  <2> QED BY <2>1
<1>3. PICK c3 \in Seq(T) : c3 = c2 \o p[3]
  <2>1. c2 \o p[3] \in Seq(T)
    BY <1>0, ConcatProperties
  <2> QED BY <2>1
<1>4. PICK c4 \in Seq(T) : c4 = c3 \o p[4]
  <2>1. c3 \o p[4] \in Seq(T)
    BY <1>0, ConcatProperties
  <2> QED BY <2>1
<1>5. PICK c5 \in Seq(T) : c5 = c4 \o p[5]
  <2>1. c4 \o p[5] \in Seq(T)
    BY <1>0, ConcatProperties
  <2> QED BY <2>1
<1>6. \E g : Unfolds(g)
  <2> DEFINE g == [i \in 1..5 |-> IF i = 1 THEN p[1] ELSE IF i = 2 THEN c2 ELSE IF i = 3 THEN c3
                                  ELSE IF i = 4 THEN c4 ELSE c5]
             h == [i \in 1..5 |-> IF i = 1 THEN p[i] ELSE g[i - 1] \o p[i]]
  <2>1. g[1] = p[1] /\ g[2] = c2 /\ g[3] = c3 /\ g[4] = c4 /\ g[5] = c5
    OBVIOUS
  <2>2. DOMAIN g = 1..5 /\ g = [i \in 1..5 |-> g[i]]
    OBVIOUS
  <2> HIDE DEF g
  <2>3. Unfolding(h, g, p)
    BY DEF Unfolding
  <2>4. DOMAIN h = 1..5 /\ h = [i \in 1..5 |-> h[i]]
    OBVIOUS
  <2> HIDE DEF h
  <2>5. Unfolded(h, g, p)
    BY <2>3, FiveSteps, Zenon
  <2>10. \A i \in 1..5 : i = 1 \/ i = 2 \/ i = 3 \/ i = 4 \/ i = 5
    OBVIOUS
  <2>11. g[1] = h[1] /\ g[2] = h[2] /\ g[3] = h[3] /\ g[4] = h[4] /\ g[5] = h[5]
    BY <2>1, <2>5, <1>2, <1>3, <1>4, <1>5, Zenon DEF Unfolded
  <2>12. \A i \in 1..5 : g[i] = h[i]
    BY <2>10, <2>11, Zenon
  <2>13. g = h
    <3>1. [i \in 1..5 |-> g[i]] = [i \in 1..5 |-> h[i]]
      BY <2>12
    <3> QED BY <2>2, <2>4, <3>1, Zenon
  <2> QED BY <2>13 DEF h
<1>7. Unfolds(f)
  BY <1>6, Zenon
<1>8. FlattenSeq(p) = f[5]
  BY <1>1 DEF FlattenSeq
<1> HIDE DEF f
<1>9. Unfolding(f, f, p)
  BY <1>7 DEF Unfolding
<1>10. Unfolded(f, f, p)
  BY <1>9, FiveSteps, Zenon
<1> QED BY <1>8, <1>10, Zenon DEF Unfolded

(* The sample of button c before pass i of that loop. *)
Sampled(i, next, buff, c) == IF c < 175 + i THEN next[c] ELSE buff[c]

(* One pass of the loop of buttonProcess: button b is sampled. *)
LEMMA ButtonSampled ==
  ASSUME NEW s, Reports(s), NEW i \in 1..5, NEW buff, NEW next, NEW shown, NEW piece,
         buff \in [Buttons -> {0, 1}], next \in [Buttons -> {0, 1}],
         piece = IF 175 + i \in Buttons /\ next[175 + i] # buff[175 + i]
                 THEN <<175 + i, buff[175 + i], FRAME_END>> ELSE <<>>,
         \A c \in Buttons : Arrives(s, c, shown[c], Sampled(i, next, buff, c))
  PROVE  /\ piece \in Seq(Byte) /\ Len(piece) \in Nat /\ Len(piece) <= 3 /\ Reports(s \o piece)
         /\ \A c \in Buttons : Arrives(s \o piece, c, shown[c], Sampled(i + 1, next, buff, c))
<1> USE DEF Sampled
<1>0. s \in Seq(Byte) /\ Buttons \subseteq 176..180
  BY ButtonsAssumption DEF Reports
<1>1. ASSUME NEW c \in Buttons, c # 175 + i
      PROVE  (IF c < 175 + (i + 1) THEN next[c] ELSE buff[c]) = (IF c < 175 + i THEN next[c] ELSE buff[c])
  <2>1. c \in 176..180
    BY <1>0
  <2>2. c < 175 + (i + 1) <=> c < 175 + i
    BY <2>1, <1>1
  <2> QED BY <2>2
<1>2. ~ (175 + i < 175 + i) /\ 175 + i < 175 + (i + 1)
  OBVIOUS
<1>3. CASE 175 + i \in Buttons /\ next[175 + i] # buff[175 + i]
  <2>1. PICK b \in Buttons : b = 175 + i
    BY <1>3
  <2>2. PICK old \in {0, 1} : old = buff[b]
    OBVIOUS
  <2>3. next[b] = 1 - old
    <3>1. next[b] \in {0, 1} /\ next[b] # old
      BY <1>3, <2>1, <2>2
    <3> QED BY <3>1
  <2>4. piece = <<b, old, FRAME_END>>
    BY <1>3, <2>1, <2>2
  <2>5. /\ Reports(s \o piece)
        /\ \A x : Arrives(s \o piece, b, x, 1 - old)
        /\ \A c \in Buttons \ {b} : \A x, sample : Arrives(s, c, x, sample) => Arrives(s \o piece, c, x, sample)
    BY <2>4, ReportJoins, ZenonT(40)
  <2>6. piece \in Seq(Byte) /\ Len(piece) = 3
    <3>1. b \in Byte /\ old \in Byte /\ FRAME_END \in Byte
      BY <1>0 DEF Byte, FRAME_END
    <3> QED BY <3>1, <2>4
  <2>7. ASSUME NEW c \in Buttons
        PROVE  Arrives(s \o piece, c, shown[c], IF c < 175 + (i + 1) THEN next[c] ELSE buff[c])
    <3>1. CASE c = b
      <4>1. (IF c < 175 + (i + 1) THEN next[c] ELSE buff[c]) = 1 - old
        BY <3>1, <2>1, <2>3, <1>2
      <4> QED BY <4>1, <3>1, <2>5
    <3>2. CASE c # b
      <4>1. Arrives(s \o piece, c, shown[c], IF c < 175 + i THEN next[c] ELSE buff[c])
        BY <3>2, <2>5
      <4> QED BY <4>1, <3>2, <2>1, <1>1
    <3> QED BY <3>1, <3>2
  <2> QED BY <2>5, <2>6, <2>7
<1>4. CASE ~ (175 + i \in Buttons /\ next[175 + i] # buff[175 + i])
  <2>1. piece = <<>>
    BY <1>4
  <2>2. s \o piece = s /\ piece \in Seq(Byte) /\ Len(piece) = 0
    BY <2>1, <1>0, ConcatEmptySeq, EmptySeq
  <2>3. ASSUME NEW c \in Buttons
        PROVE  Arrives(s, c, shown[c], IF c < 175 + (i + 1) THEN next[c] ELSE buff[c])
    <3>1. CASE c = 175 + i
      <4>1. next[c] = buff[c]
        BY <3>1, <1>4
      <4> QED BY <4>1
    <3>2. CASE c # 175 + i
      BY <3>2, <1>1
    <3> QED BY <3>1, <3>2
  <2>4. Len(piece) \in Nat /\ Len(piece) <= 3
    BY <2>2
  <2>5. Reports(s \o piece)
    BY <2>2
  <2>6. \A c \in Buttons :
          Arrives(s \o piece, c, shown[c], IF c < 175 + (i + 1) THEN next[c] ELSE buff[c])
    <3>1. \A c \in Buttons : Arrives(s, c, shown[c], Sampled(i + 1, next, buff, c))
      BY <2>3
    <3> HIDE DEF Sampled
    <3>2. \A c \in Buttons : Arrives(s \o piece, c, shown[c], Sampled(i + 1, next, buff, c))
      <4>1. s \o piece = s
        BY <2>2
      <4> QED BY <4>1, <3>1, ZenonT(40)
    <3> QED BY <3>2 DEF Sampled
  <2> QED BY <2>2, <2>4, <2>5, <2>6, Zenon
<1> QED BY <1>3, <1>4

(* s \o t, for the provers not to look into. *)
Cat(s, t) == s \o t

LEMMA Concatenated ==
  \A s, t, u \in Seq(Byte) : Cat(s, t) \in Seq(Byte) /\ Cat(s, Cat(t, u)) = Cat(Cat(s, t), u)
<1>1. ASSUME NEW s \in Seq(Byte), NEW t \in Seq(Byte), NEW u \in Seq(Byte)
      PROVE  Cat(s, t) \in Seq(Byte) /\ Cat(s, Cat(t, u)) = Cat(Cat(s, t), u)
  BY ConcatAssociative, ConcatProperties DEF Cat
<1> QED BY <1>1

LEMMA Regroup ==
  ASSUME NEW u \in Seq(Byte), NEW p1 \in Seq(Byte), NEW p2 \in Seq(Byte), NEW p3 \in Seq(Byte),
         NEW p4 \in Seq(Byte), NEW p5 \in Seq(Byte)
  PROVE  Cat(u, Cat(Cat(Cat(Cat(p1, p2), p3), p4), p5)) = Cat(Cat(Cat(Cat(Cat(u, p1), p2), p3), p4), p5)
<1>1. Cat(u, Cat(p1, p2)) = Cat(Cat(u, p1), p2)
  BY Concatenated
<1>2. PICK c2 \in Seq(Byte) : c2 = Cat(p1, p2)
  BY Concatenated
<1>3. PICK c3 \in Seq(Byte) : c3 = Cat(c2, p3)
  BY Concatenated
<1>4. PICK c4 \in Seq(Byte) : c4 = Cat(c3, p4)
  BY Concatenated
<1>5. Cat(u, Cat(c2, p3)) = Cat(Cat(u, c2), p3)
  BY Concatenated
<1>6. Cat(u, Cat(c3, p4)) = Cat(Cat(u, c3), p4)
  BY Concatenated
<1>7. Cat(u, Cat(c4, p5)) = Cat(Cat(u, c4), p5)
  BY Concatenated
<1> QED BY <1>1, <1>2, <1>3, <1>4, <1>5, <1>6, <1>7

LEMMA Behind ==
  ASSUME NEW r \in Seq(Byte), NEW s \in Seq(Byte), NEW t \in Seq(Byte), NEW v \in Seq(Byte)
  PROVE  Cat(r, Cat(s, Cat(t, v))) = Cat(Cat(r, Cat(s, t)), v)
<1>1. PICK st \in Seq(Byte) : st = Cat(s, t)
  BY Concatenated
<1>2. Cat(s, Cat(t, v)) = Cat(st, v)
  BY <1>1, Concatenated
<1>3. Cat(r, Cat(st, v)) = Cat(Cat(r, st), v)
  BY Concatenated
<1> QED BY <1>1, <1>2, <1>3

(* buttonProcess: at most one report of each button is put behind tx, and what arrives
   is right for the new samples. *)
LEMMA ButtonsSampled ==
  ASSUME FirmwareTypeOK, ButtonProcess
  PROVE  /\ buttonBuff' \in [Buttons -> {0, 1}]
         /\ tx' \in Seq(Byte) /\ Len(tx') \in Nat /\ Len(tx') <= Len(tx) + 15
         /\ \A r \in Seq(Byte) : \A shown :
              /\ Reports(r \o (serialOut \o tx))
              /\ \A c \in Buttons : Arrives(r \o (serialOut \o tx), c, shown[c], buttonBuff[c])
              => /\ Reports(r \o (serialOut \o tx'))
                 /\ \A c \in Buttons : Arrives(r \o (serialOut \o tx'), c, shown[c], buttonBuff'[c])
<1> DEFINE piece(i) == IF 175 + i \in Buttons /\ Sample(175 + i) # buttonBuff[175 + i]
                       THEN Report(175 + i) ELSE <<>>
           q == [i \in 1..5 |-> piece(i)]
<1>0. /\ buttonBuff \in [Buttons -> {0, 1}] /\ pin \in [Buttons -> {0, 1}]
      /\ tx \in Seq(Byte) /\ serialOut \in Seq(Byte) /\ Buttons \subseteq 176..180
  BY ButtonsAssumption DEF FirmwareTypeOK
<1>1. tx' = tx \o FlattenSeq(q) /\ buttonBuff' = [b \in Buttons |-> Sample(b)]
  BY DEF ButtonProcess
<1>2. buttonBuff' \in [Buttons -> {0, 1}]
  <2>1. ASSUME NEW b \in Buttons PROVE Sample(b) \in {0, 1}
    <3>1. pin[b] \in {0, 1}
      BY <1>0
    <3> QED BY <3>1 DEF Sample
  <2> QED BY <2>1, <1>1
<1>3. PICK next : next = buttonBuff' /\ next \in [Buttons -> {0, 1}]
  BY <1>2
<1>4. PICK buff : buff = buttonBuff /\ buff \in [Buttons -> {0, 1}]
  BY <1>0
<1>5. \A i \in 1..5 : piece(i) = IF 175 + i \in Buttons /\ next[175 + i] # buff[175 + i]
                                 THEN <<175 + i, buff[175 + i], FRAME_END>> ELSE <<>>
  BY <1>1, <1>3, <1>4 DEF Report
<1> HIDE DEF piece
<1>6. ASSUME NEW i \in 1..5 PROVE piece(i) \in Seq(Byte) /\ Len(piece(i)) \in Nat /\ Len(piece(i)) <= 3
  <2>1. CASE 175 + i \in Buttons /\ next[175 + i] # buff[175 + i]
    <3>0. buff[175 + i] \in {0, 1}
      BY <2>1, <1>4
    <3>a. PICK b \in Byte : b = 175 + i
      BY DEF Byte
    <3>b. PICK old \in Byte : old = buff[175 + i]
      BY <3>0 DEF Byte
    <3>1. b = 175 + i /\ old = buff[175 + i]
      BY <3>a, <3>b
    <3>2. piece(i) = <<b, old, FRAME_END>> /\ FRAME_END \in Byte
      BY <2>1, <3>1, <1>5 DEF FRAME_END, Byte
    <3>3. piece(i) \in Seq(Byte) /\ Len(piece(i)) = 3
      BY <3>2
    <3> QED BY <3>3
  <2>2. CASE ~ (175 + i \in Buttons /\ next[175 + i] # buff[175 + i])
    <3>1. piece(i) = <<>>
      BY <2>2, <1>5
    <3> QED BY <3>1
  <2> QED BY <2>1, <2>2
<1>7. q \in [1..5 -> Seq(Byte)] /\ q[1] = piece(1) /\ q[2] = piece(2) /\ q[3] = piece(3)
      /\ q[4] = piece(4) /\ q[5] = piece(5)
  BY <1>6
<1> HIDE DEF q
<1>8. PICK p1 \in Seq(Byte), p2 \in Seq(Byte), p3 \in Seq(Byte), p4 \in Seq(Byte), p5 \in Seq(Byte) :
        p1 = piece(1) /\ p2 = piece(2) /\ p3 = piece(3) /\ p4 = piece(4) /\ p5 = piece(5)
  BY <1>6
<1>9. FlattenSeq(q) = (((p1 \o p2) \o p3) \o p4) \o p5
  BY <1>7, <1>8, FlattenFive
<1>10. PICK v \in Seq(Byte) : v = FlattenSeq(q)
  <2>1. PICK c2 \in Seq(Byte) : c2 = p1 \o p2
    BY ConcatProperties
  <2>2. PICK c3 \in Seq(Byte) : c3 = c2 \o p3
    BY ConcatProperties
  <2>3. PICK c4 \in Seq(Byte) : c4 = c3 \o p4
    BY ConcatProperties
  <2>4. PICK c5 \in Seq(Byte) : c5 = c4 \o p5
    BY ConcatProperties
  <2> QED BY <2>1, <2>2, <2>3, <2>4, <1>9
<1>11. tx' \in Seq(Byte) /\ Len(tx') = Len(tx) + Len(v) /\ Len(v) \in Nat /\ Len(tx) \in Nat
  BY <1>0, <1>1, <1>10, ConcatProperties, LenProperties
<1>12. Len(v) <= 15
  <2>1. PICK c2 \in Seq(Byte) : c2 = p1 \o p2 /\ Len(c2) = Len(p1) + Len(p2)
    BY ConcatProperties
  <2>2. PICK c3 \in Seq(Byte) : c3 = c2 \o p3 /\ Len(c3) = Len(c2) + Len(p3)
    BY ConcatProperties
  <2>3. PICK c4 \in Seq(Byte) : c4 = c3 \o p4 /\ Len(c4) = Len(c3) + Len(p4)
    BY ConcatProperties
  <2>4. v = c4 \o p5 /\ Len(v) = Len(c4) + Len(p5)
    BY <2>1, <2>2, <2>3, <1>9, <1>10, ConcatProperties
  <2>5. /\ Len(p1) \in Nat /\ Len(p1) <= 3 /\ Len(p2) \in Nat /\ Len(p2) <= 3 /\ Len(p3) \in Nat /\ Len(p3) <= 3
        /\ Len(p4) \in Nat /\ Len(p4) <= 3 /\ Len(p5) \in Nat /\ Len(p5) <= 3
    BY <1>6, <1>8
  <2>6. Len(c2) \in Nat /\ Len(c2) <= 6
    BY <2>1, <2>5
  <2>7. Len(c3) \in Nat /\ Len(c3) <= 9
    BY <2>2, <2>5, <2>6
  <2>8. Len(c4) \in Nat /\ Len(c4) <= 12
    BY <2>3, <2>5, <2>7
  <2> QED BY <2>4, <2>5, <2>8
<1>13. Len(tx') \in Nat /\ Len(tx') <= Len(tx) + 15
  BY <1>11, <1>12
<1>14. ASSUME NEW r \in Seq(Byte), NEW shown, Reports(r \o (serialOut \o tx)),
              \A c \in Buttons : Arrives(r \o (serialOut \o tx), c, shown[c], buttonBuff[c])
       PROVE  /\ Reports(r \o (serialOut \o tx'))
              /\ \A c \in Buttons : Arrives(r \o (serialOut \o tx'), c, shown[c], buttonBuff'[c])
  <2> DEFINE Good(w, i) == Reports(w) /\ \A c \in Buttons : Arrives(w, c, shown[c], Sampled(i, next, buff, c))
  <2>1. PICK u \in Seq(Byte) : u = r \o (serialOut \o tx)
    BY <1>14 DEF Reports
  <2>2. r \o (serialOut \o tx') = u \o v
    <3>1. PICK o \in Seq(Byte), t \in Seq(Byte) : o = serialOut /\ t = tx
      BY <1>0
    <3>0. Cat(r, Cat(o, Cat(t, v))) = Cat(Cat(r, Cat(o, t)), v)
      BY Behind
    <3>2. r \o (o \o (t \o v)) = (r \o (o \o t)) \o v
      BY <3>0 DEF Cat
    <3> QED BY <3>1, <3>2, <2>1, <1>1, <1>10
  <2>3. u \o v = ((((u \o p1) \o p2) \o p3) \o p4) \o p5
    <3>0. Cat(u, Cat(Cat(Cat(Cat(p1, p2), p3), p4), p5)) = Cat(Cat(Cat(Cat(Cat(u, p1), p2), p3), p4), p5)
      BY Regroup, SMTT(90)
    <3>1. u \o ((((p1 \o p2) \o p3) \o p4) \o p5) = ((((u \o p1) \o p2) \o p3) \o p4) \o p5
      BY <3>0 DEF Cat
    <3> QED BY <3>1, <1>9, <1>10
  <2>4. \A c \in Buttons : Sampled(1, next, buff, c) = buttonBuff[c]
    BY <1>0, <1>4 DEF Sampled
  <2>5. \A c \in Buttons : Sampled(6, next, buff, c) = buttonBuff'[c]
    BY <1>0, <1>3 DEF Sampled
  <2>6. Good(u, 1)
    BY <2>1, <2>4, <1>14
  <2>7. ASSUME NEW w, NEW i \in 1..5, Good(w, i) PROVE Good(w \o piece(i), i + 1)
    BY <2>7, <1>3, <1>4, <1>5, ButtonSampled, ZenonT(60)
  <2> HIDE DEF Good
  <2>8. 1 + 1 = 2 /\ 2 + 1 = 3 /\ 3 + 1 = 4 /\ 4 + 1 = 5 /\ 5 + 1 = 6
    OBVIOUS
  <2>9. Good(u \o p1, 2)
    BY <2>6, <2>7, <2>8, <1>8
  <2>10. Good((u \o p1) \o p2, 3)
    BY <2>9, <2>7, <2>8, <1>8
  <2>11. Good(((u \o p1) \o p2) \o p3, 4)
    BY <2>10, <2>7, <2>8, <1>8
  <2>12. Good((((u \o p1) \o p2) \o p3) \o p4, 5)
    BY <2>11, <2>7, <2>8, <1>8
  <2>13. Good(u \o v, 6)
    <3>1. Good(((((u \o p1) \o p2) \o p3) \o p4) \o p5, 6)
      BY <2>12, <2>7, <2>8, <1>8
    <3> QED BY <3>1, <2>3
  <2>14. Good(r \o (serialOut \o tx'), 6)
    BY <2>13, <2>2
  <2> QED BY <2>5, <2>14 DEF Good
<1> QED BY <1>2, <1>11, <1>13, <1>14

LEMMA LeastNatural ==
  ASSUME NEW T \in SUBSET Nat, T # {}
  PROVE  \E m \in T : \A n \in T : m <= n
<1>1. IsWellFoundedOn(OpToRel(<, Nat), Nat)
  BY NatLessThanWellFounded
<1>2. PICK m \in T : \A n \in T : ~ (<<n, m>> \in OpToRel(<, Nat))
  BY <1>1, WFMin
<1>3. \A n \in T : ~ (n < m)
  BY <1>2 DEF OpToRel
<1> QED BY <1>3

LEMMA GreatestUpTo ==
  ASSUME NEW N \in Nat, NEW T \in SUBSET (0..N), T # {}
  PROVE  \E m \in T : \A n \in T : n <= m
<1> DEFINE D == {d \in Nat : \E t \in T : d = N - t}
<1>1. D \in SUBSET Nat /\ D # {}
  <2>1. PICK t \in T : TRUE
    OBVIOUS
  <2>2. N - t \in Nat
    OBVIOUS
  <2> QED BY <2>1, <2>2
<1>2. PICK d \in D : \A x \in D : d <= x
  BY <1>1, LeastNatural
<1>3. PICK m \in T : d = N - m
  BY <1>2
<1>4. ASSUME NEW n \in T PROVE n <= m
  <2>1. N - n \in D
    OBVIOUS
  <2>2. d <= N - n /\ n \in 0..N /\ m \in 0..N
    BY <2>1, <1>2
  <2> QED BY <2>2, <1>3
<1> QED BY <1>4

(* receiveRX finds where a message starts. *)
LEMMA StartFound ==
  ASSUME NEW bytes, NEW i \in Nat \ {0}
  PROVE  LET j == StartAfter(bytes, i)
         IN  /\ j \in 0..(i - 1) /\ (j = 0 \/ bytes[j] = FrameEnd)
             /\ \A k \in (j + 1)..(i - 1) : bytes[k] # FrameEnd
<1> DEFINE T == {j \in 0..(i - 1) : j = 0 \/ bytes[j] = FrameEnd}
           P(j) == /\ j = 0 \/ bytes[j] = FrameEnd
                   /\ \A k \in (j + 1)..(i - 1) : bytes[k] # FrameEnd
<1>1. i - 1 \in Nat /\ T \in SUBSET (0..(i - 1)) /\ 0 \in T
  OBVIOUS
<1>2. PICK m \in T : \A n \in T : n <= m
  BY <1>1, GreatestUpTo
<1>3. m \in 0..(i - 1) /\ (m = 0 \/ bytes[m] = FrameEnd)
  OBVIOUS
<1>4. ASSUME NEW k \in (m + 1)..(i - 1) PROVE bytes[k] # FrameEnd
  <2>1. k \in 0..(i - 1) /\ ~ (k <= m)
    BY <1>3
  <2> QED BY <2>1, <1>2
<1>5. \E j \in 0..(i - 1) : P(j)
  BY <1>3, <1>4
<1>6. StartAfter(bytes, i) = CHOOSE j \in 0..(i - 1) : P(j)
  BY DEF StartAfter
<1> HIDE DEF P
<1>7. StartAfter(bytes, i) \in 0..(i - 1) /\ P(StartAfter(bytes, i))
  BY <1>5, <1>6
<1> QED BY <1>7 DEF P

(* A message that is complete is a report. *)
LEMMA MessageRead ==
  ASSUME NEW u, Reports(u), NEW bytes \in Seq(Byte), Len(bytes) <= Len(u),
         \A i \in 1..Len(bytes) : bytes[i] = u[i], NEW i \in EndsOf(bytes)
  PROVE  /\ i \in 3..Len(bytes) /\ StartsAt(u, i - 2)
         /\ MessageEndingAt(bytes, i) # <<>>
         /\ MessageEndingAt(bytes, i)[1] = u[i - 2] /\ MessageEndingAt(bytes, i)[2] = u[i - 1]
<1> DEFINE j == StartAfter(bytes, i)
<1>0. PICK l \in Nat : l = Len(bytes)
  BY LenProperties
<1>1. i \in 1..l /\ bytes[i] = 255 /\ u[i] = 255
  BY <1>0 DEF EndsOf, FrameEnd
<1>2. /\ j \in 0..(i - 1) /\ (j = 0 \/ bytes[j] = 255)
      /\ \A k \in (j + 1)..(i - 1) : bytes[k] # 255
  BY <1>1, StartFound DEF FrameEnd
<1>3. Len(u) \in Nat /\ l <= Len(u) /\ \A k \in 1..l : bytes[k] = u[k]
  BY <1>0, LenProperties DEF Reports
<1> HIDE DEF j
<1>4. StartsAt(u, j + 1)
  <2>1. CASE j = 0
    BY <2>1 DEF StartsAt
  <2>2. CASE j # 0
    <3>1. j \in 1..l /\ (j + 1) - 1 = j
      BY <2>2, <1>1, <1>2
    <3> QED BY <3>1, <2>2, <1>2, <1>3 DEF StartsAt, FRAME_END
  <2> QED BY <2>1, <2>2
<1>5. /\ u[j + 1] \in Buttons /\ (j + 1) + 2 <= Len(u)
      /\ u[(j + 1) + 1] \in {0, 1} /\ u[(j + 1) + 2] = 255
  <2>1. j + 1 \in 1..Len(u)
    BY <1>1, <1>2, <1>3
  <2> QED BY <2>1, <1>4 DEF Reports, ReportAt, FRAME_END
<1>6. u[j + 1] # 255 /\ u[j + 2] # 255 /\ u[j + 3] = 255
  <2>1. (j + 1) + 1 = j + 2 /\ (j + 1) + 2 = j + 3
    BY <1>2
  <2>2. \A x \in Buttons \cup {0, 1} : x # 255
    BY ButtonsAssumption
  <2> QED BY <2>1, <2>2, <1>5
<1>7. i # j + 1 /\ i # j + 2
  BY <1>1, <1>6
<1>8. ~ (j + 3 \in (j + 1)..(i - 1))
  <2> SUFFICES ASSUME j + 3 \in (j + 1)..(i - 1) PROVE FALSE
    OBVIOUS
  <2>1. j + 3 \in 1..l
    BY <1>1, <1>2
  <2>2. bytes[j + 3] = 255
    BY <2>1, <1>3, <1>6
  <2> QED BY <2>2, <1>2
<1>9. i = j + 3
  BY <1>1, <1>2, <1>7, <1>8
<1>10. j + 1 = i - 2 /\ i \in 3..l /\ j + 2 = i - 1 /\ i - 1 \in 1..l /\ i - 2 \in 1..l
  BY <1>1, <1>2, <1>9
<1>11. MessageEndingAt(bytes, i) = SubSeq(bytes, i - 2, i - 1)
  BY <1>10 DEF MessageEndingAt, j
<1>12. /\ Len(SubSeq(bytes, i - 2, i - 1)) = 2 /\ SubSeq(bytes, i - 2, i - 1)[1] = bytes[i - 2]
       /\ SubSeq(bytes, i - 2, i - 1)[2] = bytes[i - 1]
  <2>1. ASSUME NEW k \in (i - 2)..(i - 1) PROVE bytes[k] \in Byte
    <3>1. k \in 1..Len(bytes)
      BY <1>0, <1>10
    <3> QED BY <3>1, ElementOfSeq
  <2>2. i - 2 \in Int /\ i - 1 \in Int /\ i - 2 <= i - 1 /\ (i - 1) - (i - 2) + 1 = 2
        /\ (i - 2) + 1 - 1 = i - 2 /\ (i - 2) + 2 - 1 = i - 1
    BY <1>10
  <2>3. /\ Len(SubSeq(bytes, i - 2, i - 1)) = IF i - 2 <= i - 1 THEN (i - 1) - (i - 2) + 1 ELSE 0
        /\ \A k \in 1..((i - 1) - (i - 2) + 1) : SubSeq(bytes, i - 2, i - 1)[k] = bytes[(i - 2) + k - 1]
    BY <2>1, <2>2, SubSeqProperties
  <2> QED BY <2>2, <2>3
<1>13. SubSeq(bytes, i - 2, i - 1) # <<>>
  <2>1. Len(<<>>) # 2
    BY EmptySeq
  <2>2. Len(SubSeq(bytes, i - 2, i - 1)) = 2
    BY <1>12
  <2> QED BY <2>1, <2>2, Zenon
<1>14. bytes[i - 2] = u[i - 2] /\ bytes[i - 1] = u[i - 1] /\ StartsAt(u, i - 2)
  BY <1>3, <1>4, <1>10
<1> QED BY <1>0, <1>10, <1>11, <1>12, <1>13, <1>14

LEMMA TwoOn ==
  ASSUME NEW e \in Nat, NEW j \in Nat, NEW m \in Nat, NEW n \in Nat, j >= 1, m = n - e, (e + j) + 2 <= n
  PROVE  j + 1 \in 1..m /\ j + 2 \in 1..m /\ (e + j) + 1 = e + (j + 1) /\ (e + j) + 2 = e + (j + 2)
OBVIOUS

LEMMA PlaceBehind ==
  ASSUME NEW e \in Nat, NEW j \in Nat, NEW m \in Nat, NEW n \in Nat, j <= n, m = n - e, j > e
  PROVE  j - e \in 1..m /\ e + (j - e) = j
OBVIOUS

LEMMA PlaceBefore ==
  ASSUME NEW e \in Nat, NEW j \in Nat, NEW m \in Nat, NEW n \in Nat, e <= n, m = n - e, j \in 1..m
  PROVE  e + j \in 1..n
OBVIOUS

(* receiveRX: the complete messages are taken, and what they say is what their last
   report says. *)
LEMMA UpReceived ==
  ASSUME NEW u, Reports(u), NEW bytes \in Seq(Byte), Len(bytes) <= Len(u),
         \A i \in 1..Len(bytes) : bytes[i] = u[i],
         NEW e, e = StartAfter(bytes, Len(bytes) + 1),
         NEW v \in Seq(Byte), Len(v) = Len(u) - e, \A i \in 1..Len(v) : v[i] = u[e + i]
  PROVE  /\ Reports(v)
         /\ \A b \in Buttons, sample \in {0, 1} :
              Arrives(u, b, modelButton[b], sample) => Arrives(v, b, ButtonAfter(bytes, b), sample)
<1>0. PICK l \in Nat : l = Len(bytes)
  BY LenProperties
<1>1. /\ e \in 0..l /\ (e = 0 \/ bytes[e] = 255)
      /\ \A k \in (e + 1)..l : bytes[k] # 255
  <2>1. l + 1 \in Nat \ {0} /\ (l + 1) - 1 = l
    OBVIOUS
  <2> QED BY <2>1, <1>0, StartFound DEF FrameEnd
<1>2. PICK n \in Nat : n = Len(u) /\ l <= n
  BY <1>0, LenProperties DEF Reports
<1>3. \A k \in 1..l : bytes[k] = u[k]
  BY <1>0
<1>4. /\ u \in Seq(Byte) /\ (u = <<>> \/ u[n] = 255)
      /\ \A j \in 1..n : StartsAt(u, j) => ReportAt(u, j)
  BY <1>2 DEF Reports, FRAME_END
<1>5. e = 0 \/ u[e] = 255
  BY <1>1, <1>3
<1>6. PICK m \in Nat : m = Len(v) /\ m = n - e
  BY <1>1, <1>2
<1>7. \A i \in 1..m : v[i] = u[e + i]
  BY <1>6
<1>8. \A j \in 1..m : StartsAt(v, j) <=> StartsAt(u, e + j)
  <2>1. e \in 0..Len(u) /\ Len(u) \in Nat
    BY <1>1, <1>2
  <2> QED BY <2>1, <1>5, <1>6, Cut, ZenonT(40) DEF FRAME_END
<1>9. ASSUME NEW j \in 1..m, StartsAt(v, j) PROVE ReportAt(v, j) /\ v[j + 1] = u[(e + j) + 1]
  <2>0. e \in Nat /\ e <= n /\ m = n - e /\ j \in Nat
    BY <1>1, <1>2, <1>6
  <2>1. e + j \in 1..n /\ e \in Nat
    BY <2>0, PlaceBefore
  <2>2. /\ u[e + j] \in Buttons /\ (e + j) + 2 <= n
        /\ u[(e + j) + 1] \in {0, 1} /\ u[(e + j) + 2] = 255
    <3>1. StartsAt(u, e + j)
      BY <1>8, <1>9
    <3>2. ReportAt(u, e + j)
      BY <3>1, <2>1, <1>4
    <3> QED BY <3>2, <1>2 DEF ReportAt, FRAME_END
  <2>3. j + 1 \in 1..m /\ j + 2 \in 1..m /\ (e + j) + 1 = e + (j + 1) /\ (e + j) + 2 = e + (j + 2)
    <3>1. (e + j) + 2 <= n /\ e \in Nat /\ j \in Nat /\ j >= 1 /\ m = n - e
      BY <2>1, <2>2, <1>6
    <3> QED BY <3>1, TwoOn, ZenonT(40)
  <2>4. v[j] = u[e + j] /\ v[j + 1] = u[(e + j) + 1] /\ v[j + 2] = u[(e + j) + 2]
    BY <2>3, <1>7
  <2>5. j + 2 <= Len(v)
    BY <2>3, <1>6
  <2> QED BY <2>2, <2>4, <2>5 DEF ReportAt, FRAME_END
<1>10. Reports(v)
  <2>1. v = <<>> \/ v[Len(v)] = FRAME_END
    <3> SUFFICES ASSUME v # <<>> PROVE v[Len(v)] = FRAME_END
      OBVIOUS
    <3>1. m # 0
      BY <1>6, EmptySeq
    <3>2. m \in 1..m /\ e + m = n /\ n # 0
      BY <3>1, <1>1, <1>6
    <3>3. u # <<>>
      BY <3>2, <1>2, EmptySeq
    <3> QED BY <3>2, <3>3, <1>4, <1>6, <1>7 DEF FRAME_END
  <2> QED BY <2>1, <1>6, <1>9 DEF Reports
<1>11. ASSUME NEW b \in Buttons, NEW j \in ReportsOf(v, b) PROVE j \in Nat /\ e + j \in ReportsOf(u, b)
  <2>1. j \in 1..m /\ StartsAt(v, j) /\ v[j] = b
    BY <1>6, <1>11 DEF ReportsOf
  <2>0. e \in Nat /\ e <= n /\ m = n - e /\ j \in Nat
    BY <2>1, <1>1, <1>2, <1>6
  <2>2. e + j \in 1..n /\ j \in Nat
    BY <2>0, <2>1, PlaceBefore
  <2> QED BY <2>1, <2>2, <1>2, <1>7, <1>8 DEF ReportsOf
<1>12. ASSUME NEW b \in Buttons, NEW j \in ReportsOf(u, b)
       PROVE  /\ j \in Nat
              /\ \/ j - e \in ReportsOf(v, b)
                 \/ j + 2 <= e /\ j + 2 \in EndsOf(bytes)
  <2>1. j \in 1..n /\ StartsAt(u, j) /\ u[j] = b
    BY <1>2, <1>12 DEF ReportsOf
  <2>2. u[j] \in Buttons /\ j + 2 <= n /\ u[j + 1] \in {0, 1} /\ u[j + 2] = 255
    BY <2>1, <1>2, <1>4 DEF ReportAt, FRAME_END
  <2>3. CASE j > e
    <3>0. e \in Nat /\ j \in Nat /\ j <= n /\ m = n - e
      BY <2>1, <1>1, <1>6
    <3>1. j - e \in 1..m /\ e + (j - e) = j
      BY <3>0, <2>3, PlaceBehind
    <3>2. j - e \in ReportsOf(v, b)
      BY <3>1, <2>1, <1>6, <1>7, <1>8 DEF ReportsOf
    <3> QED BY <3>2, <2>1
  <2>4. CASE ~ (j > e)
    <3>1. \A x \in Buttons \cup {0, 1} : x # 255
      BY ButtonsAssumption
    <3>2. u[j] # 255 /\ u[j + 1] # 255
      BY <3>1, <2>2
    <3>3. e # 0 /\ e # j /\ e # j + 1
      BY <3>2, <2>1, <2>4, <1>1, <1>5, SMTT(30)
    <3>4. j + 2 <= e /\ j + 2 \in 1..l
      BY <3>3, <2>1, <2>4, <1>1, SMTT(30)
    <3>5. bytes[j + 2] = 255
      BY <3>4, <2>2, <1>3
    <3>6. j + 2 \in EndsOf(bytes)
      BY <3>4, <3>5, <1>0 DEF EndsOf, FrameEnd
    <3> QED BY <3>4, <3>6, <2>1
  <2> QED BY <2>3, <2>4
<1>13. ASSUME NEW b \in Buttons, NEW sample \in {0, 1}, Arrives(u, b, modelButton[b], sample)
       PROVE  Arrives(v, b, ButtonAfter(bytes, b), sample)
  <2>0. /\ \A j \in LastOf(ReportsOf(u, b)) : u[j + 1] = 1 - sample
        /\ ReportsOf(u, b) = {} => modelButton[b] = (IF sample = 0 THEN "down" ELSE "up")
    BY <1>13 DEF Arrives
  <2>1. ASSUME NEW j \in LastOf(ReportsOf(v, b)) PROVE v[j + 1] = 1 - sample
    <3>1. j \in ReportsOf(v, b) /\ \A i \in ReportsOf(v, b) : i <= j
      BY <2>1 DEF LastOf
    <3>2. j \in Nat /\ e + j \in ReportsOf(u, b)
      BY <3>1, <1>11
    <3>3. ASSUME NEW i \in ReportsOf(u, b) PROVE i <= e + j
      <4>1. i \in Nat /\ (i - e \in ReportsOf(v, b) \/ i + 2 <= e)
        BY <1>12
      <4>2. CASE i - e \in ReportsOf(v, b)
        <5>1. i - e <= j
          BY <4>2, <3>1
        <5> QED BY <5>1, <4>1, <3>2, <1>1
      <4>3. CASE i + 2 <= e
        BY <4>1, <4>3, <3>2, <1>1
      <4> QED BY <4>1, <4>2, <4>3
    <3>4. u[(e + j) + 1] = 1 - sample
      BY <3>2, <3>3, <2>0 DEF LastOf
    <3>5. j \in 1..m /\ StartsAt(v, j)
      BY <3>1, <1>6 DEF ReportsOf
    <3> QED BY <3>4, <3>5, <1>9
  <2>2. ASSUME ReportsOf(v, b) = {}
        PROVE  ButtonAfter(bytes, b) = (IF sample = 0 THEN "down" ELSE "up")
    <3> DEFINE ends == {i \in EndsOf(bytes) : IsButtonMessage(MessageEndingAt(bytes, i), b)}
               last == CHOOSE i \in ends : \A j \in ends : j <= i
    <3>1. ASSUME NEW i \in EndsOf(bytes)
          PROVE  /\ i \in 3..l /\ (i \in ends <=> u[i - 2] = b) /\ StartsAt(u, i - 2)
                 /\ MessageEndingAt(bytes, i)[2] = u[i - 1]
      BY <1>0, MessageRead DEF IsButtonMessage
    <3>2. ButtonAfter(bytes, b) = IF ends = {} THEN modelButton[b]
                                  ELSE IF MessageEndingAt(bytes, last)[2] # 0 THEN "down" ELSE "up"
      BY DEF ButtonAfter
    <3>3. ends \subseteq EndsOf(bytes)
      OBVIOUS
    <3> HIDE DEF ends
    <3>4. ASSUME NEW j \in ReportsOf(u, b) PROVE j \in Nat /\ j + 2 \in ends
      <4>1. j \in Nat /\ j + 2 \in EndsOf(bytes)
        BY <2>2, <1>12
      <4>2. (j + 2) - 2 = j /\ u[j] = b
        BY <4>1 DEF ReportsOf
      <4> QED BY <4>1, <4>2, <3>1
    <3>5. ASSUME NEW i \in ends PROVE i \in 3..l /\ i - 2 \in ReportsOf(u, b)
      <4>1. i \in 3..l /\ u[i - 2] = b /\ StartsAt(u, i - 2)
        BY <3>1, <3>3, <3>5
      <4>2. i - 2 \in 1..n
        BY <4>1, <1>2
      <4> QED BY <4>1, <4>2, <1>2 DEF ReportsOf
    <3>6. CASE ends = {}
      <4>1. ReportsOf(u, b) = {}
        BY <3>4, <3>6
      <4> QED BY <4>1, <3>2, <3>6, <2>0
    <3>7. CASE ends # {}
      <4>1. ends \in SUBSET (0..l)
        BY <3>5
      <4>2. \E i \in ends : \A j \in ends : j <= i
        BY <4>1, <3>7, GreatestUpTo
      <4>3. last \in ends /\ \A j \in ends : j <= last
        BY <4>2
      <4> HIDE DEF last
      <4>4. last \in 3..l /\ last - 2 \in ReportsOf(u, b)
        BY <4>3, <3>5
      <4>5. ASSUME NEW j \in ReportsOf(u, b) PROVE j <= last - 2
        <5>1. j \in Nat /\ j + 2 <= last
          BY <4>3, <3>4
        <5> QED BY <5>1, <4>4
      <4>6. u[(last - 2) + 1] = 1 - sample
        BY <4>4, <4>5, <2>0 DEF LastOf
      <4>7. (last - 2) + 1 = last - 1
        BY <4>4
      <4>8. MessageEndingAt(bytes, last)[2] = 1 - sample
        BY <4>3, <4>6, <4>7, <3>1, <3>3
      <4>9. (1 - sample # 0) <=> sample = 0
        OBVIOUS
      <4> QED BY <4>8, <4>9, <3>2, <3>7
    <3> QED BY <3>6, <3>7
  <2> QED BY <2>1, <2>2 DEF Arrives
<1> QED BY <1>10, <1>13

(* w is s, of length a, and t, of length b, behind it; z is s from k + 1 to n. *)
IsJoin(w, s, t, a, b) ==
  /\ w \in Seq(Byte) /\ Len(w) = a + b
  /\ \A i \in 1..a : w[i] = s[i]
  /\ \A i \in 1..b : w[a + i] = t[i]
IsPart(z, T, s, k, n) ==
  /\ z \in Seq(T) /\ Len(z) = n - k
  /\ \A i \in 1..(n - k) : z[i] = s[k + i]

LEMMA JoinedIs ==
  \A s, t \in Seq(Byte) : \A a, b : a = Len(s) /\ b = Len(t) => IsJoin(s \o t, s, t, a, b)
<1> SUFFICES ASSUME NEW s \in Seq(Byte), NEW t \in Seq(Byte)
             PROVE  IsJoin(s \o t, s, t, Len(s), Len(t))
  OBVIOUS
<1>1. /\ s \o t \in Seq(Byte) /\ Len(s \o t) = Len(s) + Len(t)
      /\ \A i \in 1..Len(s) : (s \o t)[i] = s[i]
      /\ \A i \in 1..Len(t) : (s \o t)[Len(s) + i] = t[i]
  BY Joined
<1> QED BY <1>1 DEF IsJoin

LEMMA PartIs ==
  \A T, s : \A k, n \in Nat :
    k <= n /\ (\A i \in (k + 1)..n : s[i] \in T) => IsPart(SubSeq(s, k + 1, n), T, s, k, n)
<1> SUFFICES ASSUME NEW T, NEW s, NEW k \in Nat, NEW n \in Nat, k <= n, \A i \in (k + 1)..n : s[i] \in T
             PROVE  IsPart(SubSeq(s, k + 1, n), T, s, k, n)
  OBVIOUS
<1> DEFINE z == SubSeq(s, k + 1, n)
<1>1. k + 1 \in Int /\ n \in Int /\ n - (k + 1) + 1 = n - k
      /\ (IF k + 1 <= n THEN n - (k + 1) + 1 ELSE 0) = n - k
      /\ \A i \in 1..(n - k) : (k + 1) + i - 1 = k + i
  OBVIOUS
<1>2. /\ z \in Seq(T) /\ Len(z) = IF k + 1 <= n THEN n - (k + 1) + 1 ELSE 0
      /\ \A i \in 1..(n - (k + 1) + 1) : z[i] = s[(k + 1) + i - 1]
  BY <1>1, SubSeqProperties
<1> HIDE DEF z
<1>3. Len(z) = n - k /\ \A i \in 1..(n - k) : z[i] = s[k + i]
  BY <1>1, <1>2
<1> QED BY <1>2, <1>3 DEF z, IsPart

(* A packet of the remote reaches the daemon, cut anywhere. *)
LEMMA DeliveredUp ==
  ASSUME LinkTypeOK, UpInv, NEW n \in 1..Len(serialOut), DeliverUp(n)
  PROVE  LinkTypeOK' /\ UpInv'
<1>1. /\ rxBuffer' = Rest(rxBuffer \o SubSeq(serialOut, 1, n))
      /\ serialOut' = SubSeq(serialOut, n + 1, Len(serialOut))
      /\ modelButton' = [b \in ButtonLabels |-> ButtonAfter(rxBuffer \o SubSeq(serialOut, 1, n), b)]
      /\ UNCHANGED <<safeSendMap, sending, air, client, sets, modelLed, modelState>>
      /\ UNCHANGED <<serialIn, rx, tx, phase, activeMute, ledStatus, buttonBuff, pin, awake>>
  BY DEF DeliverUp, ReceiveRX
<1>2. rxBuffer \in Seq(Byte) /\ serialOut \in Seq(Byte) /\ tx \in Seq(Byte)
  <2>1. Seq(0..254) \subseteq Seq(Byte)
    BY DEF Byte
  <2> QED BY <2>1 DEF LinkTypeOK, FirmwareTypeOK, ProxyTypeOK
<1>3. PICK a \in Nat, o \in Nat, t \in Nat : a = Len(rxBuffer) /\ o = Len(serialOut) /\ t = Len(tx)
  BY <1>2, LenProperties
<1>4. n \in 1..o /\ n \in Nat /\ n <= o /\ o - n \in Nat
  BY <1>3
<1>5. \A i \in 1..o : serialOut[i] \in Byte
  BY <1>2, <1>3, ElementOfSeq
<1>6. PICK data : data = SubSeq(serialOut, 1, n) /\ data \in Seq(Byte) /\ Len(data) = n
                  /\ \A i \in 1..n : data[i] = serialOut[i]
  <2>1. \A i \in (0 + 1)..n : serialOut[i] \in Byte
    BY <1>4, <1>5
  <2>2. 0 \in Nat /\ 0 <= n /\ 0 + 1 = 1 /\ n - 0 = n /\ \A i \in 1..n : 0 + i = i
    BY <1>4
  <2>3. IsPart(SubSeq(serialOut, 0 + 1, n), Byte, serialOut, 0, n)
    BY <2>1, <2>2, <1>4, PartIs, Zenon
  <2>4. PICK z : z = SubSeq(serialOut, 0 + 1, n)
    OBVIOUS
  <2>5. z \in Seq(Byte) /\ Len(z) = n - 0 /\ \A i \in 1..(n - 0) : z[i] = serialOut[0 + i]
    BY <2>3, <2>4 DEF IsPart
  <2> QED BY <2>2, <2>4, <2>5
<1>7. PICK left : left = SubSeq(serialOut, n + 1, o) /\ IsPart(left, Byte, serialOut, n, o)
  <2>1. \A i \in (n + 1)..o : serialOut[i] \in Byte
    BY <1>4, <1>5
  <2>2. IsPart(SubSeq(serialOut, n + 1, o), Byte, serialOut, n, o)
    BY <2>1, <1>4, PartIs, Zenon
  <2> QED BY <2>2
<1>7a. left \in Seq(Byte) /\ Len(left) = o - n /\ \A i \in 1..(o - n) : left[i] = serialOut[n + i]
  BY <1>7 DEF IsPart
<1>8. PICK w : w = serialOut \o tx /\ IsJoin(w, serialOut, tx, o, t)
  <2>1. IsJoin(serialOut \o tx, serialOut, tx, o, t)
    BY <1>2, <1>3, JoinedIs, Zenon
  <2> QED BY <2>1
<1>8a. w \in Seq(Byte) /\ Len(w) = o + t /\ (\A i \in 1..o : w[i] = serialOut[i])
       /\ \A i \in 1..t : w[o + i] = tx[i]
  BY <1>8 DEF IsJoin
<1>9. PICK u : u = rxBuffer \o w /\ IsJoin(u, rxBuffer, w, a, o + t)
  <2>1. IsJoin(rxBuffer \o w, rxBuffer, w, a, o + t)
    BY <1>2, <1>3, <1>8a, JoinedIs, Zenon
  <2> QED BY <2>1
<1>9a. u \in Seq(Byte) /\ Len(u) = a + (o + t) /\ (\A i \in 1..a : u[i] = rxBuffer[i])
       /\ \A i \in 1..(o + t) : u[a + i] = w[i]
  BY <1>9 DEF IsJoin
<1>10. PICK bytes : bytes = rxBuffer \o data /\ IsJoin(bytes, rxBuffer, data, a, n)
  <2>1. IsJoin(rxBuffer \o data, rxBuffer, data, a, n)
    BY <1>2, <1>3, <1>6, JoinedIs, Zenon
  <2> QED BY <2>1
<1>10a. bytes \in Seq(Byte) /\ Len(bytes) = a + n /\ (\A i \in 1..a : bytes[i] = rxBuffer[i])
        /\ \A i \in 1..n : bytes[a + i] = data[i]
  BY <1>10 DEF IsJoin
<1> DEFINE e == StartAfter(bytes, Len(bytes) + 1)
<1>11. Len(bytes) <= Len(u)
  BY <1>4, <1>9a, <1>10a
<1>12. ASSUME NEW i \in 1..Len(bytes) PROVE bytes[i] = u[i]
  <2>1. CASE i \in 1..a
    BY <2>1, <1>9a, <1>10a
  <2>2. CASE ~ (i \in 1..a)
    <3>1. i - a \in 1..n /\ i - a \in 1..o /\ i - a \in 1..(o + t) /\ a + (i - a) = i
      BY <2>2, <1>4, <1>10a
    <3>2. bytes[i] = serialOut[i - a]
      BY <3>1, <1>6, <1>10a
    <3>3. u[i] = serialOut[i - a]
      BY <3>1, <1>8a, <1>9a
    <3> QED BY <3>2, <3>3
  <2> QED BY <2>1, <2>2
<1>13. /\ e \in 0..(a + n) /\ (e = 0 \/ bytes[e] = FrameEnd)
       /\ \A k \in (e + 1)..(a + n) : bytes[k] # FrameEnd
  <2>1. (a + n) + 1 \in Nat \ {0} /\ ((a + n) + 1) - 1 = a + n
    BY <1>4
  <2> QED BY <2>1, <1>10a, StartFound
<1>14. e = StartAfter(bytes, Len(bytes) + 1) /\ rxBuffer' = SubSeq(bytes, e + 1, a + n)
  BY <1>1, <1>6, <1>10, <1>10a DEF Rest
<1> HIDE DEF e
<1>a. serialOut' = left /\ modelButton' = [b \in ButtonLabels |-> ButtonAfter(bytes, b)]
  BY <1>1, <1>3, <1>6, <1>7, <1>10
<1>b. e \in Nat /\ e <= a + n /\ (a + n) - e \in Nat /\ a + n \in Nat
  BY <1>4, <1>13
<1>15. PICK r : r = rxBuffer' /\ IsPart(r, 0..254, bytes, e, a + n)
  <2>1. ASSUME NEW k \in (e + 1)..(a + n) PROVE bytes[k] \in 0..254
    <3>1. k \in 1..Len(bytes)
      BY <1>4, <1>10a, <1>13
    <3>a. bytes[k] \in Byte
      BY <3>1, <1>10a, ElementOfSeq
    <3>2. bytes[k] \in 0..255 /\ bytes[k] # 255
      BY <3>a, <1>13 DEF Byte, FrameEnd
    <3> QED BY <3>2
  <2>2. IsPart(SubSeq(bytes, e + 1, a + n), 0..254, bytes, e, a + n)
    BY <2>1, <1>b, PartIs, Zenon
  <2> QED BY <2>2, <1>14
<1>15a. r \in Seq(0..254) /\ Len(r) = (a + n) - e /\ \A i \in 1..((a + n) - e) : r[i] = bytes[e + i]
  BY <1>15 DEF IsPart
<1>16. r \in Seq(Byte)
  BY <1>15a DEF Byte
<1>17. PICK x : x = left \o tx /\ IsJoin(x, left, tx, o - n, t)
  <2>1. IsJoin(left \o tx, left, tx, o - n, t)
    BY <1>2, <1>3, <1>7a, JoinedIs, Zenon
  <2> QED BY <2>1
<1>17a. x \in Seq(Byte) /\ Len(x) = (o - n) + t /\ (\A i \in 1..(o - n) : x[i] = left[i])
        /\ \A i \in 1..t : x[(o - n) + i] = tx[i]
  BY <1>17 DEF IsJoin
<1>18. PICK v : v = r \o x /\ IsJoin(v, r, x, (a + n) - e, (o - n) + t)
  <2>1. IsJoin(r \o x, r, x, (a + n) - e, (o - n) + t)
    BY <1>15a, <1>16, <1>17a, JoinedIs, Zenon
  <2> QED BY <2>1
<1>18a. v \in Seq(Byte) /\ Len(v) = ((a + n) - e) + ((o - n) + t)
        /\ (\A i \in 1..((a + n) - e) : v[i] = r[i])
        /\ \A i \in 1..((o - n) + t) : v[((a + n) - e) + i] = x[i]
  BY <1>18 DEF IsJoin
<1>19. Len(v) = Len(u) - e
  BY <1>4, <1>9a, <1>13, <1>18a
<1>20. ASSUME NEW i \in 1..Len(v) PROVE v[i] = u[e + i]
  <2>0. i \in 1..(((a + n) - e) + ((o - n) + t)) /\ e \in Nat /\ e <= a + n
    BY <1>4, <1>13, <1>18a, <1>20
  <2>1. CASE i \in 1..((a + n) - e)
    <3>1. e + i \in 1..Len(bytes)
      BY <2>0, <2>1, <1>4, <1>10a
    <3> QED BY <3>1, <2>1, <1>12, <1>15a, <1>18a
  <2>2. CASE ~ (i \in 1..((a + n) - e))
    <3>1. PICK k \in 1..((o - n) + t) : i = ((a + n) - e) + k
      <4>1. i - ((a + n) - e) \in 1..((o - n) + t) /\ i = ((a + n) - e) + (i - ((a + n) - e))
        BY <2>0, <2>2, <1>4
      <4> QED BY <4>1
    <3>2. v[i] = x[k] /\ e + i = a + (n + k) /\ n + k \in 1..(o + t)
      <4>1. e + i = a + (n + k) /\ n + k \in 1..(o + t)
        BY <3>1, <2>0, <1>4
      <4> QED BY <4>1, <3>1, <1>18a
    <3>3. u[e + i] = w[n + k]
      BY <3>2, <1>9a
    <3>4. CASE k \in 1..(o - n)
      <4>1. n + k \in 1..o
        BY <3>4, <1>4
      <4>2. x[k] = serialOut[n + k] /\ w[n + k] = serialOut[n + k]
        BY <4>1, <3>4, <1>7a, <1>8a, <1>17a
      <4> QED BY <4>2, <3>2, <3>3
    <3>5. CASE ~ (k \in 1..(o - n))
      <4>1. PICK h \in 1..t : k = (o - n) + h /\ n + k = o + h
        <5>1. k - (o - n) \in 1..t /\ k = (o - n) + (k - (o - n)) /\ n + k = o + (k - (o - n))
          BY <3>5, <1>4
        <5> QED BY <5>1
      <4>2. x[k] = tx[h] /\ w[n + k] = tx[h]
        BY <4>1, <1>8a, <1>17a
      <4> QED BY <4>2, <3>2, <3>3
    <3> QED BY <3>4, <3>5
  <2> QED BY <2>1, <2>2
<1>21. rxBuffer' \o (serialOut' \o tx') = v
  BY <1>1, <1>15, <1>17, <1>18, <1>a
<1>22. Reports(u) /\ \A b \in Buttons : Arrives(u, b, modelButton[b], buttonBuff[b])
  BY <1>8, <1>9 DEF UpInv
<1>23. /\ Reports(v)
       /\ \A b \in Buttons, sample \in {0, 1} :
            Arrives(u, b, modelButton[b], sample) => Arrives(v, b, ButtonAfter(bytes, b), sample)
  <2>1. bytes \in Seq(Byte) /\ v \in Seq(Byte) /\ Reports(u)
    BY <1>10a, <1>18a, <1>22
  <2>2. \A i \in 1..Len(bytes) : bytes[i] = u[i]
    BY <1>12
  <2>3. \A i \in 1..Len(v) : v[i] = u[e + i]
    BY <1>20
  <2>4. e = StartAfter(bytes, Len(bytes) + 1)
    BY <1>14
  <2> QED BY <2>1, <2>2, <2>3, <2>4, <1>11, <1>19, UpReceived, Zenon
<1>24. buttonBuff \in [Buttons -> {0, 1}] /\ modelButton \in [Buttons -> {"up", "down"}]
  BY LinkAssumption DEF LinkTypeOK, FirmwareTypeOK, ProxyTypeOK
<1>25. ASSUME NEW b \in Buttons PROVE Arrives(v, b, modelButton'[b], buttonBuff'[b])
  <2>1. modelButton'[b] = ButtonAfter(bytes, b) /\ buttonBuff'[b] = buttonBuff[b]
    BY <1>1, <1>a, LinkAssumption
  <2>2. buttonBuff[b] \in {0, 1}
    BY <1>24
  <2> QED BY <2>1, <2>2, <1>22, <1>23
<1>26. UpInv'
  <2>1. Len(tx') <= 15 /\ (phase' = "read" => tx' = <<>>)
    BY <1>1 DEF UpInv
  <2> QED BY <2>1, <1>21, <1>23, <1>25 DEF UpInv
<1>27. modelButton' \in [ButtonLabels -> {"up", "down"}]
  <2>1. ASSUME NEW b \in Buttons PROVE ButtonAfter(bytes, b) \in {"up", "down"}
    BY <1>24 DEF ButtonAfter
  <2> QED BY <2>1, <1>a, LinkAssumption
<1>28. LinkTypeOK'
  <2>1. serialOut' \in Seq(Byte) /\ rxBuffer' \in Seq(0..254)
    BY <1>a, <1>7a, <1>15, <1>15a
  <2>2. FirmwareTypeOK'
    BY <2>1, <1>1 DEF LinkTypeOK, FirmwareTypeOK
  <2>3. ProxyTypeOK'
    BY <2>1, <1>1, <1>27 DEF LinkTypeOK, ProxyTypeOK
  <2> QED BY <2>2, <2>3 DEF LinkTypeOK
<1> QED BY <1>26, <1>28

-----------------------------------------------------------------------------
(* The link *)

LinkInv == LinkTypeOK /\ DownInv /\ UpInv

LEMMA LinkStarts ==
  ASSUME LinkInit
  PROVE  LinkInv /\ ModeInv
<1> USE KeySet DEF LinkInit, FirmwareInit, ProxyInit
<1>0. <<>> \o <<>> = <<>> /\ <<>> \in Seq(Byte) /\ Len(<<>>) = 0
  BY ConcatEmptySeq, EmptySeq
<1>1. LinkTypeOK
  <2>1. \A b \in Buttons : Released(b) \in {0, 1}
    BY DEF Released
  <2>a. ledStatus \in [1..3 -> 0..254]
    OBVIOUS
  <2>b. buttonBuff \in [Buttons -> {0, 1}] /\ pin \in [Buttons -> {0, 1}]
    BY <2>1
  <2>2. FirmwareTypeOK
    BY <2>a, <2>b, <1>0 DEF FirmwareTypeOK
  <2>3. <<>> \in Seq(0..255) /\ <<>> \in Seq(Seq(0..255)) /\ <<>> \in Seq(0..254)
    OBVIOUS
  <2>4. sets \in 0..MaxSets
    BY ProxyAssumption
  <2>5. modelLed \in [1..3 -> Levels \cup {0}]
    OBVIOUS
  <2>6. ProxyTypeOK
    BY <2>3, <2>4, <2>5 DEF ProxyTypeOK
  <2> QED BY <2>2, <2>6 DEF LinkTypeOK
<1>2. DownInv
  <2>1. Stream(<<>>)
    BY <1>0 DEF Stream
  <2>2. client \in Clients
    BY DEF Clients
  <2>3. rx \o serialIn = <<>>
    BY <1>0
  <2>4. \A k \in Keys : safeSendMap[k] = <<>>
    OBVIOUS
  <2>5. "S" \in Keys
    BY DEF Keys
  <2> QED BY <2>1, <2>2, <2>3, <2>4, <2>5, <1>0 DEF DownInv
<1>3. UpInv
  <2>1. Reports(<<>>)
    BY <1>0 DEF Reports
  <2>2. rxBuffer \o (serialOut \o tx) = <<>>
    BY <1>0
  <2>3. ASSUME NEW b \in Buttons PROVE Arrives(<<>>, b, modelButton[b], buttonBuff[b])
    <3>1. ReportsOf(<<>>, b) = {}
      BY <1>0 DEF ReportsOf
    <3>2. modelButton[b] = "up" /\ buttonBuff[b] = 1
      BY LinkAssumption
    <3> QED BY <3>1, <3>2 DEF Arrives, LastOf
  <2>4. Len(tx) <= 15
    BY <1>0
  <2> QED BY <2>1, <2>2, <2>3, <2>4 DEF UpInv
<1>4. ModeInv
  <2>1. ModeStarts(<<>>) = {} /\ ModeMessages(<<>>) = {}
    BY <1>0 DEF ModeStarts, ModeMessages
  <2>2. WantedState = "Initializing"
    BY DEF WantedState, NoSet
  <2>3. Unsent("S") = <<>>
    BY DEF Unsent, Keys
  <2>4. rx \o serialIn = <<>> /\ air = <<>>
    BY <1>0
  <2>5. Comes(<<>>, <<>>, <<>>, activeMute, "Initializing")
    BY <2>1 DEF Comes, LastOf
  <2> QED BY <2>2, <2>3, <2>4, <2>5 DEF ModeInv
<1> QED BY <1>1, <1>2, <1>3, <1>4 DEF LinkInv

(* A step that moves no message of the way down. *)
LEMMA DownUntouched ==
  ASSUME UNCHANGED <<client, safeSendMap, sending, air, rx, serialIn, activeMute, modelState>>
  PROVE  (DownInv => DownInv') /\ (ModeInv => ModeInv')
<1>1. Unsent("S")' = Unsent("S") /\ WantedState' = WantedState
  BY DEF Unsent, WantedState
<1> QED BY <1>1 DEF DownInv, ModeInv

(* The loop of the firmware. *)
LEMMA FirmwareKeeps ==
  ASSUME LinkInv, FirmwareStep
  PROVE  LinkInv' /\ (ModeInv => ModeInv')
<1>0. /\ UNCHANGED <<safeSendMap, sending, air, rxBuffer, client, sets, modelLed, modelState, modelButton>>
      /\ LinkTypeOK /\ FirmwareTypeOK /\ ProxyTypeOK /\ DownInv /\ UpInv
  BY DEF FirmwareStep, proxyVars, LinkInv, LinkTypeOK
<1>p. ProxyTypeOK'
  BY <1>0 DEF ProxyTypeOK
<1>t. serialOut \in Seq(Byte) /\ tx \in Seq(Byte) /\ rxBuffer \in Seq(Byte)
  <2>1. Seq(0..254) \subseteq Seq(Byte)
    BY DEF Byte
  <2> QED BY <2>1, <1>0 DEF FirmwareTypeOK, ProxyTypeOK
<1>1. ASSUME ReadByte PROVE LinkInv' /\ (ModeInv => ModeInv')
  <2>1. /\ tx' = tx
        /\ rx' \in Seq(Byte) /\ serialIn' \in Seq(Byte)
        /\ ledStatus' \in [1..3 -> 0..254] /\ activeMute' \in BOOLEAN
        /\ \A i \in 1..Len(rx') : rx'[i] # FRAME_END
        /\ Stream(rx' \o serialIn')
        /\ \A p, a, w : Comes(p, a, rx \o serialIn, activeMute, w) =>
                        Comes(p, a, rx' \o serialIn', activeMute', w)
    BY <1>0, <1>1, ReadByteDown
  <2>2. UNCHANGED <<serialOut, phase, buttonBuff, pin, awake>>
    BY <1>1 DEF ReadByte
  <2>3. FirmwareTypeOK'
    BY <2>1, <2>2, <1>0 DEF FirmwareTypeOK
  <2>4. DownInv'
    BY <2>1, <1>0 DEF DownInv
  <2>5. UpInv'
    BY <2>1, <2>2, <1>0 DEF UpInv
  <2>6. ASSUME ModeInv PROVE ModeInv'
    <3>1. Unsent("S")' = Unsent("S") /\ WantedState' = WantedState
      BY <1>0 DEF Unsent, WantedState
    <3>2. Comes(Unsent("S"), air, rx \o serialIn, activeMute, WantedState) /\ (sending # "none" => client = NoSet)
      BY <2>6 DEF ModeInv
    <3>3. Comes(Unsent("S"), air, rx' \o serialIn', activeMute', WantedState)
      BY <3>2, <2>1
    <3> QED BY <3>1, <3>2, <3>3, <1>0 DEF ModeInv
  <2> QED BY <2>3, <2>4, <2>5, <2>6, <1>p DEF LinkInv, LinkTypeOK
<1>2. ASSUME SampleButtons PROVE LinkInv' /\ (ModeInv => ModeInv')
  <2>1. /\ phase = "read" /\ phase' = "wait" /\ tx = <<>> /\ Len(tx) = 0
        /\ UNCHANGED <<serialIn, serialOut, rx, activeMute, ledStatus, pin, awake>>
    BY <1>0, <1>2 DEF SampleButtons, UpInv
  <2>2. DownInv' /\ (ModeInv => ModeInv')
    BY <2>1, <1>0, DownUntouched
  <2>3. CASE activeMute
    <3>1. ButtonProcess
      BY <1>2, <2>3 DEF SampleButtons
    <3>2. /\ buttonBuff' \in [Buttons -> {0, 1}]
          /\ tx' \in Seq(Byte) /\ Len(tx') \in Nat /\ Len(tx') <= Len(tx) + 15
          /\ \A r \in Seq(Byte) : \A shown :
               /\ Reports(r \o (serialOut \o tx))
               /\ \A c \in Buttons : Arrives(r \o (serialOut \o tx), c, shown[c], buttonBuff[c])
               => /\ Reports(r \o (serialOut \o tx'))
                  /\ \A c \in Buttons : Arrives(r \o (serialOut \o tx'), c, shown[c], buttonBuff'[c])
      BY <3>1, <1>0, ButtonsSampled
    <3>3. FirmwareTypeOK'
      BY <3>2, <2>1, <1>0 DEF FirmwareTypeOK
    <3>4. Len(tx') <= 15
      BY <3>2, <2>1
    <3>5. /\ Reports(rxBuffer \o (serialOut \o tx))
          /\ \A c \in Buttons : Arrives(rxBuffer \o (serialOut \o tx), c, modelButton[c], buttonBuff[c])
      BY <1>0 DEF UpInv
    <3>6. /\ Reports(rxBuffer \o (serialOut \o tx'))
          /\ \A c \in Buttons : Arrives(rxBuffer \o (serialOut \o tx'), c, modelButton[c], buttonBuff'[c])
      BY <3>2, <3>5, <1>t
    <3>7. UpInv'
      BY <3>4, <3>6, <2>1, <1>0 DEF UpInv
    <3> QED BY <3>3, <3>7, <2>2, <1>p DEF LinkInv, LinkTypeOK
  <2>4. CASE ~ activeMute
    <3>1. UNCHANGED <<tx, buttonBuff>>
      BY <1>2, <2>4 DEF SampleButtons
    <3>2. FirmwareTypeOK'
      BY <3>1, <2>1, <1>0 DEF FirmwareTypeOK
    <3>3. UpInv'
      BY <3>1, <2>1, <1>0 DEF UpInv
    <3> QED BY <3>2, <3>3, <2>2, <1>p DEF LinkInv, LinkTypeOK
  <2> QED BY <2>3, <2>4
<1>3. ASSUME TransmitTx PROVE LinkInv' /\ (ModeInv => ModeInv')
  <2>1. /\ serialOut' = serialOut \o tx /\ tx' = <<>> /\ phase' = "read"
        /\ UNCHANGED <<serialIn, rx, activeMute, ledStatus, buttonBuff, pin, awake>>
    BY <1>3 DEF TransmitTx
  <2>2. DownInv' /\ (ModeInv => ModeInv')
    BY <2>1, <1>0, DownUntouched
  <2>3. PICK w \in Seq(Byte) : w = serialOut \o tx /\ w = serialOut' /\ w \o <<>> = w
    <3>1. PICK o \in Seq(Byte), t \in Seq(Byte) : o = serialOut /\ t = tx
      BY <1>t
    <3>2. PICK w \in Seq(Byte) : w = o \o t
      BY ConcatProperties
    <3>3. w \o <<>> = w
      BY ConcatEmptySeq
    <3> QED BY <3>1, <3>2, <3>3, <2>1
  <2>4. rxBuffer' \o (serialOut' \o tx') = rxBuffer \o (serialOut \o tx)
    BY <2>1, <2>3, <1>0
  <2>5. Len(tx') <= 15 /\ tx' \in Seq(Byte)
    BY <2>1, EmptySeq
  <2>6. FirmwareTypeOK'
    BY <2>1, <2>3, <2>5, <1>0 DEF FirmwareTypeOK
  <2>7. UpInv'
    <3>1. /\ Reports(rxBuffer \o (serialOut \o tx))
          /\ \A c \in Buttons : Arrives(rxBuffer \o (serialOut \o tx), c, modelButton[c], buttonBuff[c])
      BY <1>0 DEF UpInv
    <3>2. modelButton' = modelButton /\ buttonBuff' = buttonBuff
      BY <2>1, <1>0
    <3> QED BY <3>1, <3>2, <2>1, <2>4, <2>5 DEF UpInv
  <2> QED BY <2>2, <2>6, <2>7, <1>p DEF LinkInv, LinkTypeOK
<1> QED BY <1>1, <1>2, <1>3 DEF FirmwareStep, LoopStep

(* Every step keeps the invariant, and the mode to come if no value is set while
   tick() sends. *)
LEMMA LinkKeeps ==
  ASSUME 255 \notin Levels, LinkInv, [LinkNext]_linkVars
  PROVE  LinkInv' /\ (~ MaySetDuringTick /\ ModeInv => ModeInv')
<1>0. LinkTypeOK /\ FirmwareTypeOK /\ ProxyTypeOK /\ DownInv /\ UpInv
  BY DEF LinkInv, LinkTypeOK
<1>1. CASE FirmwareStep
  BY <1>1, FirmwareKeeps
<1>2. CASE DaemonStep
  <2>1. ProxyStep /\ UNCHANGED firmwareVars
    BY <1>2 DEF DaemonStep
  <2>2. DownInv' /\ ProxyTypeOK'
    BY <2>1, <1>0, DaemonDown
  <2>3. ~ MaySetDuringTick /\ ModeInv => ModeInv'
    BY <2>1, <1>0, DaemonMode
  <2>4. FirmwareTypeOK'
    BY <2>1, <1>0 DEF firmwareVars, FirmwareTypeOK
  <2>5. UNCHANGED <<rxBuffer, modelButton>>
    BY <2>1 DEF ProxyStep, FastTriggerLed, SetState, SafeSendMsg, SetModel, TickSend, TickErase
  <2>6. UpInv'
    BY <2>1, <2>5, <1>0 DEF firmwareVars, UpInv
  <2> QED BY <2>2, <2>3, <2>4, <2>6 DEF LinkInv, LinkTypeOK
<1>3. CASE DeliverDown
  <2>1. DownInv' /\ LinkTypeOK' /\ (ModeInv => ModeInv')
    BY <1>0, <1>3, DeliveredDown
  <2>2. UpInv'
    BY <1>0, <1>3 DEF DeliverDown, UpInv
  <2> QED BY <2>1, <2>2 DEF LinkInv
<1>4. CASE DeliverSome
  <2>1. PICK n \in 1..Len(serialOut) : DeliverUp(n)
    BY <1>4 DEF DeliverSome
  <2>2. LinkTypeOK' /\ UpInv'
    BY <2>1, <1>0, DeliveredUp
  <2>3. UNCHANGED <<client, safeSendMap, sending, air, rx, serialIn, activeMute, modelState>>
    BY <2>1 DEF DeliverUp, ReceiveRX
  <2> QED BY <2>2, <2>3, <1>0, DownUntouched DEF LinkInv
<1>5. CASE MoveSome
  <2>1. PICK b \in Buttons : MoveButton(b)
    BY <1>5 DEF MoveSome
  <2>2. pin' = [pin EXCEPT ![b] = 1 - @] /\ pin \in [Buttons -> {0, 1}]
    BY <2>1, <1>0 DEF MoveButton, FirmwareTypeOK
  <2>3. pin' \in [Buttons -> {0, 1}]
    <3>1. 1 - pin[b] \in {0, 1}
      <4>1. pin[b] \in {0, 1}
        BY <2>2
      <4> QED BY <4>1
    <3> QED BY <3>1, <2>2
  <2>4. /\ UNCHANGED <<serialIn, serialOut, rx, tx, phase, activeMute, ledStatus, buttonBuff, awake>>
        /\ UNCHANGED <<safeSendMap, sending, air, rxBuffer, client, sets, modelLed, modelState, modelButton>>
    BY <2>1, <1>5 DEF MoveButton, MoveSome, proxyVars
  <2>5. FirmwareTypeOK' /\ ProxyTypeOK'
    BY <2>3, <2>4, <1>0 DEF FirmwareTypeOK, ProxyTypeOK
  <2>6. UpInv'
    BY <2>4, <1>0 DEF UpInv
  <2> QED BY <2>4, <2>5, <2>6, <1>0, DownUntouched DEF LinkInv, LinkTypeOK
<1>6. CASE ToggleSleep /\ UNCHANGED proxyVars
  <2>1. /\ awake' \in BOOLEAN
        /\ UNCHANGED <<serialIn, serialOut, rx, tx, phase, activeMute, ledStatus, buttonBuff, pin>>
        /\ UNCHANGED <<safeSendMap, sending, air, rxBuffer, client, sets, modelLed, modelState, modelButton>>
    BY <1>6 DEF ToggleSleep, proxyVars
  <2>2. FirmwareTypeOK' /\ ProxyTypeOK'
    BY <2>1, <1>0 DEF FirmwareTypeOK, ProxyTypeOK
  <2>3. UpInv'
    BY <2>1, <1>0 DEF UpInv
  <2> QED BY <2>1, <2>2, <2>3, <1>0, DownUntouched DEF LinkInv, LinkTypeOK
<1>7. CASE UNCHANGED linkVars
  <2>1. /\ UNCHANGED <<serialIn, serialOut, rx, tx, phase, activeMute, ledStatus, buttonBuff, pin, awake>>
        /\ UNCHANGED <<safeSendMap, sending, air, rxBuffer, client, sets, modelLed, modelState, modelButton>>
    BY <1>7 DEF linkVars, firmwareVars, proxyVars
  <2>2. FirmwareTypeOK' /\ ProxyTypeOK'
    BY <2>1, <1>0 DEF FirmwareTypeOK, ProxyTypeOK
  <2>3. UpInv'
    BY <2>1, <1>0 DEF UpInv
  <2> QED BY <2>1, <2>2, <2>3, <1>0, DownUntouched DEF LinkInv, LinkTypeOK
<1> QED BY <1>1, <1>2, <1>3, <1>4, <1>5, <1>6, <1>7 DEF LinkNext

LEMMA LinkInvariant ==
  ASSUME 255 \notin Levels
  PROVE  LinkSpec => []LinkInv
<1>1. LinkInit => LinkInv
  BY LinkStarts
<1>2. LinkInv /\ [LinkNext]_linkVars => LinkInv'
  BY LinkKeeps
<1> QED BY <1>1, <1>2, PTL DEF LinkSpec

(* The firmware and the proxy only hold bytes, levels and states, however the clients,
   the threads, the loop and the radio interleave, for any LED intensities below 255
   (loop, processMessage, XBeeRemote::receiveRX, fastTrigger, tick). *)
THEOREM LinkIsTyped ==
  ASSUME 255 \notin Levels
  PROVE  LinkSpec => []LinkTypeOK
<1>1. LinkInv => LinkTypeOK
  BY DEF LinkInv
<1> QED BY <1>1, LinkInvariant, PTL

(* Once every report of the firmware's buttonProcess has arrived, the model holds for
   each button what was sampled last, wherever the radio cuts the stream and however
   many reports one packet of XBeeRemote::receiveRX holds. *)
THEOREM ButtonsReachTheModel ==
  ASSUME 255 \notin Levels
  PROVE  LinkSpec => []ButtonsConverge
<1>1. LinkInv => ButtonsConverge
  <2> SUFFICES ASSUME LinkInv, UpQuiet, NEW b \in Buttons
               PROVE  modelButton[b] = (IF buttonBuff[b] = 0 THEN "down" ELSE "up")
    BY DEF ButtonsConverge
  <2>1. rxBuffer \o (serialOut \o tx) = <<>>
    BY ConcatEmptySeq, EmptySeq DEF UpQuiet
  <2>2. Arrives(<<>>, b, modelButton[b], buttonBuff[b])
    BY <2>1 DEF LinkInv, UpInv
  <2>3. ReportsOf(<<>>, b) = {}
    BY DEF ReportsOf
  <2> QED BY <2>2, <2>3 DEF Arrives
<1> QED BY <1>1, LinkInvariant, PTL

(* TxToBuffer stays within BufferTx on the link: a pass of loop() queues at most the
   five reports, and the next one starts with an empty buffer. *)
THEOREM LinkTxInBounds ==
  ASSUME 255 \notin Levels
  PROVE  LinkSpec => []TxInBounds
<1>1. LinkInv => TxInBounds
  <2> SUFFICES ASSUME LinkInv PROVE Len(tx) <= 20
    BY DEF TxInBounds, BufferSize
  <2>1. Len(tx) <= 15 /\ tx \in Seq(Byte)
    BY DEF LinkInv, LinkTypeOK, FirmwareTypeOK, UpInv
  <2>2. Len(tx) \in Nat
    BY <2>1, LenProperties
  <2> QED BY <2>1, <2>2
<1> QED BY <1>1, LinkInvariant, PTL

(* Once every message has arrived, the remote is in the mode the model names, if no
   client sets a value while XBeeRemote::tick is between sendTX and the erasure. *)
THEOREM ModeReachesTheRemote ==
  ASSUME 255 \notin Levels, ~ MaySetDuringTick
  PROVE  LinkSpec => []ModeConverges
<1>1. LinkInit => LinkInv /\ ModeInv
  BY LinkStarts
<1>2. LinkInv /\ ModeInv /\ [LinkNext]_linkVars => (LinkInv /\ ModeInv)'
  BY LinkKeeps
<1>3. LinkInv /\ ModeInv => ModeConverges
  <2> SUFFICES ASSUME ModeInv, DownQuiet
               PROVE  (modelState = "active" => activeMute) /\ (modelState = "mute" => ~ activeMute)
    BY DEF ModeConverges
  <2>1. rx \o serialIn = <<>> /\ air = <<>> /\ client = NoSet
    BY ConcatEmptySeq, EmptySeq DEF DownQuiet
  <2>2. Unsent("S") = <<>>
    <3>1. "S" \in ToSet(KeySeq)
      BY KeySet DEF Keys
    <3> QED BY <3>1 DEF DownQuiet, Waiting, Unsent
  <2>3. WantedState = modelState
    BY <2>1 DEF WantedState, NoSet
  <2>4. Comes(<<>>, <<>>, <<>>, activeMute, modelState)
    BY <2>1, <2>2, <2>3 DEF ModeInv
  <2>5. ModeStarts(<<>>) = {} /\ ModeMessages(<<>>) = {}
    BY DEF ModeStarts, ModeMessages
  <2> QED BY <2>4, <2>5 DEF Comes
<1> QED BY <1>1, <1>2, <1>3, PTL DEF LinkSpec

-----------------------------------------------------------------------------
(* The firmware alone, with commands that ask for answers *)

(* The numbers of the commands. *)
LEMMA CommandBytes ==
  /\ ACTIVE_MODE_CMD = 150 /\ MUTE_MODE_CMD = 100 /\ ASK_MODE_CMD = 80 /\ SLEEP_CMD = 200
  /\ BATT_STATUS_CMD = 16 /\ LED_CMD = 32 /\ FRAME_END = 255
  /\ LEDn_CMD[1] = 33 /\ LEDn_CMD[2] = 34 /\ LEDn_CMD[3] = 35
BY DEF ACTIVE_MODE_CMD, MUTE_MODE_CMD, ASK_MODE_CMD, SLEEP_CMD, BATT_STATUS_CMD, LED_CMD, FRAME_END, LEDn_CMD

(* The first byte tells the messages of the LEDs from the others. *)
LEMMA LedMessages ==
  ASSUME NEW m
  PROVE  LedMessage(m) <=> m[1] \in {32, 33, 34, 35}
BY CommandBytes DEF LedMessage, IsLedCmd

(* Three bytes are a sequence of bytes. *)
LEMMA ThreeBytes ==
  ASSUME NEW x \in Byte, NEW y \in Byte, NEW z \in Byte
  PROVE  <<x, y, z>> \in Seq(Byte) /\ Len(<<x, y, z>>) = 3
OBVIOUS

(* The level of the battery is 0 or 254. *)
LEMMA BatteryIsByte ==
  ASSUME NEW l \in BatteryLevels
  PROVE  BatteryByte(l) \in Byte
<1>1. 0 \div 1023 = 0 /\ 512 \div 1023 = 0 /\ 1023 \div 1023 = 1
  OBVIOUS
<1>2. PICK reading \in {0, 512, 1023} : l = (reading \div 1023) * 255
  BY DEF BatteryLevels
<1>3. l = 0 \/ l = 255
  <2>1. CASE reading = 0
    BY <1>1, <1>2, <2>1
  <2>2. CASE reading = 512
    BY <1>1, <1>2, <2>2
  <2>3. CASE reading = 1023
    BY <1>1, <1>2, <2>3
  <2> QED BY <1>2, <2>1, <2>2, <2>3
<1> QED BY <1>3 DEF BatteryByte, Byte

(* The levels of the three LEDs are a sequence of bytes. *)
LEMMA ThreeLevels ==
  ASSUME NEW f \in [1..3 -> Byte]
  PROVE  f \in Seq(Byte) /\ Len(f) = 3
<1>1. 3 \in Nat
  OBVIOUS
<1>2. [1..3 -> Byte] \in {[1..n -> Byte] : n \in Nat}
  BY <1>1
<1>3. f \in UNION {[1..n -> Byte] : n \in Nat}
  BY <1>2, Zenon
<1>4. f \in Seq(Byte)
  BY <1>3, SeqDef, Zenon
<1>5. DOMAIN f = 1..Len(f) /\ Len(f) \in Nat
  BY <1>4, LenProperties
<1>6. DOMAIN f = 1..3
  OBVIOUS
<1>7. \A n \in Nat : 1..n = 1..3 => n = 3
  OBVIOUS
<1> QED BY <1>4, <1>5, <1>6, <1>7, Zenon

(* A label, three levels and the end of the frame are five bytes. *)
LEMMA LevelsInFrame ==
  ASSUME NEW p \in Seq(Byte), NEW q \in Seq(Byte), NEW z \in Seq(Byte),
         Len(p) = 1, Len(q) = 3, Len(z) = 1
  PROVE  (p \o q) \o z \in Seq(Byte) /\ Len((p \o q) \o z) = 5
<1>1. p \o q \in Seq(Byte) /\ Len(p \o q) = 4
  <2>1. p \o q \in Seq(Byte) /\ Len(p \o q) = Len(p) + Len(q)
    BY ConcatProperties
  <2> QED BY <2>1
<1>2. PICK pq \in Seq(Byte) : pq = p \o q /\ Len(pq) = 4
  BY <1>1
<1>3. pq \o z \in Seq(Byte) /\ Len(pq \o z) = 5
  BY <1>2, ConcatProperties
<1> QED BY <1>2, <1>3

(* The answer about the LEDs has at most five bytes. *)
LEMMA LedAnswerFits ==
  ASSUME ledStatus \in [1..3 -> 0..254], NEW m, m[1] \in {32, 33, 34, 35}
  PROVE  LedAnswer(m) \in Seq(Byte) /\ Len(LedAnswer(m)) \in 0..5
<1>1. CASE m[2] # 255
  <2>1. LedAnswer(m) = <<>>
    BY <1>1 DEF LedAnswer
  <2> QED BY <2>1
<1>2. CASE m[2] = 255 /\ m[1] = 32
  <2>1. LedAnswer(m) = (<<32>> \o ledStatus) \o <<255>>
    BY <1>2, CommandBytes DEF LedAnswer
  <2>2. <<32>> \in Seq(Byte) /\ <<255>> \in Seq(Byte) /\ Len(<<32>>) = 1 /\ Len(<<255>>) = 1
    BY DEF Byte
  <2>3. ledStatus \in [1..3 -> Byte]
    BY DEF Byte
  <2>4. ledStatus \in Seq(Byte) /\ Len(ledStatus) = 3
    BY <2>3, ThreeLevels
  <2>5. (<<32>> \o ledStatus) \o <<255>> \in Seq(Byte) /\ Len((<<32>> \o ledStatus) \o <<255>>) = 5
    BY <2>2, <2>4, LevelsInFrame, ZenonT(60)
  <2>6. PICK a : a = (<<32>> \o ledStatus) \o <<255>>
    BY Zenon
  <2>7. a \in Seq(Byte) /\ Len(a) = 5 /\ LedAnswer(m) = a
    BY <2>1, <2>5, <2>6, Zenon
  <2>8. 5 \in 0..5
    OBVIOUS
  <2> QED BY <2>7, <2>8, Zenon
<1>3. CASE m[2] = 255 /\ m[1] # 32
  <2>1. ledStatus[1] \in Byte /\ ledStatus[2] \in Byte /\ ledStatus[3] \in Byte
    BY DEF Byte
  <2>2. 33 \in Byte /\ 34 \in Byte /\ 255 \in Byte
    BY DEF Byte
  <2>3. LedAnswer(m) \in {<<34, ledStatus[2], 255>>, <<33, ledStatus[3], 255>>, <<33, ledStatus[1], 255>>}
    BY <1>3, CommandBytes DEF LedAnswer, IsLedCmd
  <2>4. /\ <<34, ledStatus[2], 255>> \in Seq(Byte) /\ Len(<<34, ledStatus[2], 255>>) = 3
        /\ <<33, ledStatus[3], 255>> \in Seq(Byte) /\ Len(<<33, ledStatus[3], 255>>) = 3
        /\ <<33, ledStatus[1], 255>> \in Seq(Byte) /\ Len(<<33, ledStatus[1], 255>>) = 3
    BY <2>1, <2>2, ThreeBytes
  <2>5. 3 \in 0..5
    OBVIOUS
  <2> QED BY <2>3, <2>4, <2>5, ZenonT(40)
<1> QED BY <1>1, <1>2, <1>3

(* processMessage queues at most five bytes, and none for an empty frame. *)
LEMMA AnswerFits ==
  ASSUME ledStatus \in [1..3 -> 0..254], activeMute \in BOOLEAN, NEW m, m[1] \in Byte,
         NEW answer \in Answers(m)
  PROVE  /\ answer \in Seq(Byte) /\ Len(answer) \in 0..5
         /\ m[1] = 255 => answer = <<>>
<1>0. 0 \in 0..5 /\ 3 \in 0..5 /\ 5 \in 0..5 /\ 80 \in Byte /\ 16 \in Byte /\ 255 \in Byte /\ 0 \in Byte /\ 1 \in Byte
  BY DEF Byte
<1>1. CASE m[1] = 80
  <2>0. ~ LedMessage(m)
    BY <1>1, LedMessages
  <2>1. answer = <<80, BOOLToByte(activeMute), 255>>
    BY <1>1, <2>0, CommandBytes DEF Answers
  <2>2. BOOLToByte(activeMute) \in Byte
    BY <1>0 DEF BOOLToByte
  <2>3. answer \in Seq(Byte) /\ Len(answer) = 3
    BY <1>0, <2>1, <2>2, ThreeBytes
  <2> QED BY <1>0, <1>1, <2>3
<1>2. CASE m[1] = 200
  <2>0. ~ LedMessage(m)
    BY <1>2, LedMessages
  <2>1. answer = SleepAnswer
    BY <1>2, <2>0, CommandBytes DEF Answers
  <2>2. SleepAnswer \in Seq(Byte) /\ Len(SleepAnswer) = 5
    BY DEF SleepAnswer, Byte
  <2> QED BY <1>0, <1>2, <2>1, <2>2
<1>3. CASE m[1] = 16
  <2>0. ~ LedMessage(m)
    BY <1>3, LedMessages
  <2>1. Answers(m) = {<<16, BatteryByte(l), 255>> : l \in BatteryLevels}
    BY <1>3, <2>0, CommandBytes DEF Answers
  <2>2. PICK l \in BatteryLevels : answer = <<16, BatteryByte(l), 255>>
    BY <2>1
  <2>3. answer \in Seq(Byte) /\ Len(answer) = 3
    BY <1>0, <2>2, BatteryIsByte, ThreeBytes
  <2> QED BY <1>0, <1>3, <2>3
<1>4. CASE m[1] \in {32, 33, 34, 35}
  <2>1. LedMessage(m)
    BY <1>4, LedMessages
  <2>2. answer = LedAnswer(m)
    BY <1>4, <2>1, CommandBytes DEF Answers
  <2> QED BY <1>4, <2>2, LedAnswerFits
<1>5. CASE m[1] \notin {80, 200, 16, 32, 33, 34, 35}
  <2>1. ~ LedMessage(m)
    BY <1>5, LedMessages
  <2>2. answer = <<>>
    BY <1>5, <2>1, CommandBytes DEF Answers
  <2> QED BY <1>0, <2>2
<1> QED BY <1>1, <1>2, <1>3, <1>4, <1>5

(* A frame leaves the levels of the LEDs below 255. *)
LEMMA LedsStayTyped ==
  ASSUME ledStatus \in [1..3 -> 0..254], activeMute \in BOOLEAN, NEW m, m[2] \in Byte \/ m[1] = 255, ProcessMessage(m)
  PROVE  ledStatus' \in [1..3 -> 0..254] /\ activeMute' \in BOOLEAN
<1>1. activeMute' \in BOOLEAN
  BY DEF ProcessMessage
<1>2. ledStatus' = IF LedMessage(m) THEN ToggledLeds(m) ELSE ledStatus
  BY DEF ProcessMessage
<1>3. CASE ~ LedMessage(m)
  BY <1>1, <1>2, <1>3
<1>4. CASE LedMessage(m)
  <2>1. m[1] \in {32, 33, 34, 35}
    BY <1>4, LedMessages
  <2>2. m[2] \in 0..255
    BY <2>1 DEF Byte
  <2>3. CASE m[2] = 255
    BY <1>1, <1>2, <1>4, <2>3 DEF ToggledLeds
  <2>4. CASE m[2] \in 0..254
    BY <1>1, <1>2, <1>4, <2>4 DEF ToggledLeds
  <2> QED BY <2>2, <2>3, <2>4
<1> QED BY <1>3, <1>4

(* At most five bytes more. *)
LEMMA UpToFive ==
  \A a \in Nat, b \in 0..5 : a + b \in Nat /\ a + b <= a + 5
OBVIOUS

(* What a frame does to the state of the firmware. *)
LEMMA Processed ==
  ASSUME FirmwareTypeOK, NEW m, m[1] \in Byte, m[2] \in Byte \/ m[1] = 255, ProcessMessage(m)
  PROVE  /\ ledStatus' \in [1..3 -> 0..254] /\ activeMute' \in BOOLEAN
         /\ tx' \in Seq(Byte) /\ Len(tx') \in Nat /\ Len(tx') <= Len(tx) + 5
         /\ m[1] = 255 => tx' = tx
<1>0. ledStatus \in [1..3 -> 0..254] /\ activeMute \in BOOLEAN /\ tx \in Seq(Byte)
  BY DEF FirmwareTypeOK
<1>1. ledStatus' \in [1..3 -> 0..254] /\ activeMute' \in BOOLEAN
  BY <1>0, LedsStayTyped
<1>2. PICK answer \in Answers(m) : tx' = tx \o answer
  BY DEF ProcessMessage
<1>3. answer \in Seq(Byte) /\ Len(answer) \in 0..5 /\ (m[1] = 255 => answer = <<>>)
  BY <1>0, AnswerFits
<1>4. tx \o answer \in Seq(Byte) /\ Len(tx \o answer) = Len(tx) + Len(answer)
  BY <1>0, <1>3, ConcatProperties
<1>5. Len(tx) \in Nat
  BY <1>0, LenProperties
<1>6. m[1] = 255 => tx' = tx
  BY <1>0, <1>2, <1>3, ConcatEmptySeq
<1>7. Len(tx) + Len(answer) \in Nat /\ Len(tx) + Len(answer) <= Len(tx) + 5
  BY <1>3, <1>5, UpToFive, Zenon
<1>8. tx' \in Seq(Byte) /\ Len(tx') \in Nat /\ Len(tx') <= Len(tx) + 5
  BY <1>2, <1>4, <1>7, Zenon
<1> QED BY <1>1, <1>6, <1>8

(* What was read and what is to be read: nothing or the end of a frame, once the
   command is answered, *)
Answered(r, s) == r = <<>> /\ (s = <<>> \/ s = <<255>>)

(* and before, the command, its value if it has one, and the end of the frame. *)
Unanswered(r, s) ==
  \E c \in 0..254, v \in Byte :
    \/ r = <<>> /\ (s = <<c, 255>> \/ s = <<c, v, 255>>)
    \/ r = <<c>> /\ (s = <<255>> \/ s = <<v, 255>>)
    \/ r = <<c, v>> /\ v # 255 /\ s = <<255>>

(* The reading loop begins a command with an empty buffer: the answer of a pass,
   five bytes at most, leaves room for the fifteen of the reports. *)
TxRoom ==
  /\ Len(tx) <= 20
  /\ phase = "read" => Len(tx) <= 5
  /\ phase = "read" /\ Unanswered(rx, serialIn) => tx = <<>>

TxInv == FirmwareTypeOK /\ (Answered(rx, serialIn) \/ Unanswered(rx, serialIn)) /\ TxRoom

(* An answered command and an unanswered one differ. *)
LEMMA AnsweredOrNot ==
  ASSUME NEW r, NEW s, Answered(r, s)
  PROVE  ~ Unanswered(r, s)
<1> SUFFICES ASSUME Unanswered(r, s) PROVE FALSE
  OBVIOUS
<1>1. PICK c \in 0..254, v \in Byte :
        \/ r = <<>> /\ (s = <<c, 255>> \/ s = <<c, v, 255>>)
        \/ r = <<c>> /\ (s = <<255>> \/ s = <<v, 255>>)
        \/ r = <<c, v>> /\ v # 255 /\ s = <<255>>
  BY DEF Unanswered
<1>2. r = <<>> /\ (s = <<>> \/ s = <<255>>)
  BY DEF Answered
<1>3. <<>> # <<c>> /\ <<>> # <<c, v>>
  OBVIOUS
<1>4. s = <<c, 255>> \/ s = <<c, v, 255>>
  BY <1>1, <1>2, <1>3, Zenon
<1>5. Len(s) = 0 \/ Len(s) = 1
  BY <1>2
<1>6. Len(s) = 2 \/ Len(s) = 3
  BY <1>4
<1> QED BY <1>5, <1>6

(* A value is read after its command. *)
LEMMA TwoBytes ==
  ASSUME NEW c \in Byte, NEW v \in Byte
  PROVE  Append(<<c>>, v) = <<c, v>>
<1>1. <<c>> \in Seq(Byte) /\ Len(<<c>>) = 1 /\ <<c>>[1] = c
  OBVIOUS
<1>2. PICK s \in Seq(Byte) : s = <<c>> /\ Len(s) = 1 /\ s[1] = c
  BY <1>1
<1>3. Append(s, v) \in Seq(Byte) /\ Len(Append(s, v)) = 2 /\ Append(s, v)[1] = c /\ Append(s, v)[2] = v
  BY <1>2, AppendProperties
<1>4. <<c, v>> \in Seq(Byte) /\ Len(<<c, v>>) = 2 /\ <<c, v>>[1] = c /\ <<c, v>>[2] = v
  OBVIOUS
<1>5. \A i \in 1..2 : i = 1 \/ i = 2
  OBVIOUS
<1>6. \A i \in 1..Len(Append(s, v)) : Append(s, v)[i] = <<c, v>>[i]
  BY <1>3, <1>4, <1>5, Zenon
<1>7. Append(s, v) = <<c, v>>
  BY <1>3, <1>4, <1>6, SeqEqual, Zenon
<1> QED BY <1>2, <1>7

(* One byte of a command is read. *)
LEMMA CommandByteRead ==
  ASSUME NEW r, NEW s, s # <<>>, Answered(r, s) \/ Unanswered(r, s)
  PROVE  /\ Head(s) = 255 =>
              /\ Append(r, 255)[1] \in Byte
              /\ Append(r, 255)[2] \in Byte \/ Append(r, 255)[1] = 255
              /\ Answered(r, s) => Append(r, 255)[1] = 255
              /\ Answered(<<>>, Tail(s))
         /\ Head(s) # 255 =>
              ~ Answered(r, s) /\ Unanswered(Append(r, Head(s)), Tail(s))
<1>b. 255 \in Byte /\ \A c \in 0..254 : c \in Byte /\ c # 255
  BY DEF Byte
<1>1. CASE Answered(r, s)
  <2>1. r = <<>> /\ s = <<255>>
    BY <1>1 DEF Answered
  <2>2. Head(s) = 255 /\ Tail(s) = <<>> /\ Append(r, 255)[1] = 255
    BY <2>1
  <2> QED BY <1>b, <2>2 DEF Answered
<1>2. CASE Unanswered(r, s)
  <2>a. ~ Answered(r, s)
    BY <1>2, AnsweredOrNot, SMTT(30)
  <2>0. PICK c \in 0..254, v \in Byte :
          \/ r = <<>> /\ (s = <<c, 255>> \/ s = <<c, v, 255>>)
          \/ r = <<c>> /\ (s = <<255>> \/ s = <<v, 255>>)
          \/ r = <<c, v>> /\ v # 255 /\ s = <<255>>
    BY <1>2 DEF Unanswered
  <2>b. c \in Byte /\ c # 255
    BY <1>b, Zenon
  <2>1. CASE r = <<>> /\ s = <<c, 255>>
    <3>1. Head(s) = c /\ Tail(s) = <<255>> /\ Append(r, c) = <<c>>
      BY <2>1
    <3>2. Unanswered(<<c>>, <<255>>)
      BY DEF Unanswered
    <3> QED BY <2>a, <2>b, <3>1, <3>2
  <2>2. CASE r = <<>> /\ s = <<c, v, 255>>
    <3>1. Head(s) = c /\ Tail(s) = <<v, 255>> /\ Append(r, c) = <<c>>
      BY <2>2
    <3>2. Unanswered(<<c>>, <<v, 255>>)
      BY DEF Unanswered
    <3> QED BY <2>a, <2>b, <3>1, <3>2
  <2>3. CASE r = <<c>> /\ s = <<255>>
    <3>1. Head(s) = 255 /\ Tail(s) = <<>> /\ Append(r, 255)[1] = c /\ Append(r, 255)[2] = 255
      BY <2>3
    <3> QED BY <1>b, <2>a, <2>b, <3>1 DEF Answered
  <2>4. CASE r = <<c>> /\ s = <<v, 255>> /\ v = 255
    <3>1. Head(s) = 255 /\ Tail(s) = <<255>> /\ Append(r, 255)[1] = c /\ Append(r, 255)[2] = 255
      BY <2>4
    <3> QED BY <1>b, <2>a, <2>b, <3>1, ZenonT(40) DEF Answered
  <2>5. CASE r = <<c>> /\ s = <<v, 255>> /\ v # 255
    <3>1. Head(s) = v
      BY <2>5
    <3>2. Tail(s) = <<255>>
      BY <2>5
    <3>3. Append(r, v) = <<c, v>>
      BY <2>5, <2>b, TwoBytes, Zenon
    <3>4. Unanswered(<<c, v>>, <<255>>)
      BY <2>5 DEF Unanswered
    <3> QED BY <2>a, <2>5, <3>1, <3>2, <3>3, <3>4, ZenonT(40)
  <2>6. CASE r = <<c, v>> /\ v # 255 /\ s = <<255>>
    <3>1. Head(s) = 255 /\ Tail(s) = <<>> /\ Append(r, 255)[1] = c /\ Append(r, 255)[2] = v
      BY <2>6
    <3> QED BY <2>a, <2>b, <3>1 DEF Answered
  <2> QED BY <2>0, <2>1, <2>2, <2>3, <2>4, <2>5, <2>6
<1> QED BY <1>1, <1>2

(* Every command of the instance is unanswered when it arrives. *)
LEMMA CommandArrives ==
  ASSUME NEW frame \in MCCommands
  PROVE  frame \in Seq(Byte) /\ Unanswered(<<>>, frame)
<1>b. 0..254 \subseteq Byte /\ 255 \in Byte /\ 254 \in Byte /\ 1 \in Byte
  BY DEF Byte
<1>1. /\ 32 \in 0..254 /\ 35 \in 0..254 /\ 34 \in 0..254 /\ 150 \in 0..254 /\ 100 \in 0..254
      /\ 80 \in 0..254 /\ 16 \in 0..254 /\ 200 \in 0..254
  OBVIOUS
<1>2. \/ \E c \in 0..254 : frame = <<c, 255>>
      \/ \E c \in 0..254, v \in Byte : frame = <<c, v, 255>>
  BY <1>b, <1>1, CommandBytes DEF MCCommands
<1>3. CASE \E c \in 0..254 : frame = <<c, 255>>
  <2>1. PICK c \in 0..254 : frame = <<c, 255>>
    BY <1>3
  <2>2. c \in Byte
    BY <1>b
  <2>3. <<c, 255>> \in Seq(Byte)
    BY <1>b, <2>2
  <2> QED BY <1>b, <2>1, <2>3 DEF Unanswered
<1>4. CASE \E c \in 0..254, v \in Byte : frame = <<c, v, 255>>
  <2>1. PICK c \in 0..254, v \in Byte : frame = <<c, v, 255>>
    BY <1>4
  <2>2. c \in Byte
    BY <1>b
  <2>3. <<c, v, 255>> \in Seq(Byte)
    BY <1>b, <2>2, ThreeBytes
  <2> QED BY <1>b, <2>1, <2>3 DEF Unanswered
<1> QED BY <1>2, <1>3, <1>4

(* The first state of the firmware. *)
LEMMA FirmwareStarts ==
  ASSUME FirmwareInit
  PROVE  TxInv
<1>1. FirmwareTypeOK
  <2>1. <<>> \in Seq(Byte)
    OBVIOUS
  <2>2. \A s \in {serialIn, serialOut, rx, tx} : s \in Seq(Byte)
    BY <2>1 DEF FirmwareInit
  <2>3. ledStatus \in [1..3 -> 0..254]
    BY DEF FirmwareInit
  <2>4. buttonBuff \in [Buttons -> {0, 1}] /\ pin \in [Buttons -> {0, 1}]
    BY DEF FirmwareInit, Released
  <2>5. phase \in {"read", "wait"} /\ activeMute \in BOOLEAN /\ awake \in BOOLEAN
    BY DEF FirmwareInit
  <2> QED BY <2>2, <2>3, <2>4, <2>5 DEF FirmwareTypeOK
<1>2. Answered(rx, serialIn)
  BY DEF FirmwareInit, Answered
<1>3. Len(tx) = 0 /\ tx = <<>>
  BY DEF FirmwareInit
<1> QED BY <1>1, <1>2, <1>3 DEF TxInv, TxRoom

(* Every step of the firmware and of its surroundings keeps the invariant. *)
LEMMA FirmwareTxKept ==
  ASSUME TxInv, [FirmwareNext]_firmwareVars
  PROVE  TxInv'
<1>0. FirmwareTypeOK /\ (Answered(rx, serialIn) \/ Unanswered(rx, serialIn)) /\ TxRoom
  BY DEF TxInv
<1>t. /\ serialIn \in Seq(Byte) /\ serialOut \in Seq(Byte) /\ rx \in Seq(Byte) /\ tx \in Seq(Byte)
      /\ phase \in {"read", "wait"} /\ activeMute \in BOOLEAN /\ awake \in BOOLEAN
      /\ ledStatus \in [1..3 -> 0..254]
      /\ buttonBuff \in [Buttons -> {0, 1}] /\ pin \in [Buttons -> {0, 1}]
  BY <1>0 DEF FirmwareTypeOK
<1>l. Len(tx) \in Nat
  BY <1>t, LenProperties
<1>e. Len(<<>>) = 0 /\ <<>> \in Seq(Byte)
  OBVIOUS
<1>1. CASE ReadByte
  <2>0. /\ phase = "read" /\ serialIn # <<>> /\ serialIn' = Tail(serialIn)
        /\ UNCHANGED <<serialOut, phase, buttonBuff, pin, awake>>
    BY <1>1 DEF ReadByte
  <2>h. Head(serialIn) \in Byte /\ Tail(serialIn) \in Seq(Byte)
    BY <1>t, <2>0, HeadTailProperties
  <2>1. CASE Head(serialIn) = 255
    <3>1. ProcessMessage(Append(rx, 255)) /\ rx' = <<>>
      BY <1>1, <2>1, CommandBytes DEF ReadByte
    <3> DEFINE m == Append(rx, 255)
    <3>2. /\ m[1] \in Byte /\ (m[2] \in Byte \/ m[1] = 255)
          /\ Answered(rx, serialIn) => m[1] = 255
          /\ Answered(<<>>, Tail(serialIn))
      BY <1>0, <2>0, <2>1, CommandByteRead
    <3>3. ProcessMessage(m)
      BY <3>1
    <3> HIDE DEF m
    <3>4. /\ ledStatus' \in [1..3 -> 0..254] /\ activeMute' \in BOOLEAN
          /\ tx' \in Seq(Byte) /\ Len(tx') \in Nat /\ Len(tx') <= Len(tx) + 5
          /\ m[1] = 255 => tx' = tx
      BY <1>0, <3>2, <3>3, Processed
    <3>5. FirmwareTypeOK'
      BY <1>t, <1>e, <2>0, <2>h, <3>1, <3>4 DEF FirmwareTypeOK
    <3>6. Answered(rx', serialIn') /\ ~ Unanswered(rx', serialIn')
      BY <2>0, <3>1, <3>2, AnsweredOrNot
    <3>7. Len(tx') <= 5
      <4>1. CASE Answered(rx, serialIn)
        BY <1>0, <2>0, <3>2, <3>4, <4>1 DEF TxRoom
      <4>2. CASE Unanswered(rx, serialIn)
        <5>1. Len(tx) = 0
          BY <1>0, <1>e, <2>0, <4>2 DEF TxRoom
        <5> QED BY <3>4, <5>1
      <4> QED BY <1>0, <4>1, <4>2
    <3>8. Len(tx') <= 20
      BY <3>4, <3>7
    <3> QED BY <3>5, <3>6, <3>7, <3>8 DEF TxInv, TxRoom
  <2>2. CASE Head(serialIn) # 255
    <3>1. rx' = Append(rx, Head(serialIn)) /\ UNCHANGED <<tx, activeMute, ledStatus>>
      BY <1>1, <2>2, CommandBytes DEF ReadByte
    <3>2. Append(rx, Head(serialIn)) \in Seq(Byte)
      BY <1>t, <2>h, AppendProperties
    <3>3. ~ Answered(rx, serialIn) /\ Unanswered(rx', serialIn')
      BY <1>0, <2>0, <2>2, <3>1, CommandByteRead
    <3>4. tx = <<>>
      BY <1>0, <2>0, <3>3 DEF TxRoom
    <3>5. FirmwareTypeOK'
      BY <1>t, <2>0, <2>h, <3>1, <3>2 DEF FirmwareTypeOK
    <3>6. TxRoom'
      BY <1>0, <2>0, <3>1, <3>4 DEF TxRoom
    <3> QED BY <3>3, <3>5, <3>6 DEF TxInv
  <2> QED BY <2>1, <2>2
<1>2. CASE SampleButtons
  <2>1. /\ phase = "read" /\ phase' = "wait"
        /\ UNCHANGED <<serialIn, serialOut, rx, activeMute, ledStatus, pin, awake>>
        /\ ButtonProcess \/ UNCHANGED <<tx, buttonBuff>>
    BY <1>2 DEF SampleButtons
  <2>2. /\ buttonBuff' \in [Buttons -> {0, 1}]
        /\ tx' \in Seq(Byte) /\ Len(tx') \in Nat /\ Len(tx') <= Len(tx) + 15
    <3>1. CASE ButtonProcess
      BY <1>0, <3>1, ButtonsSampled
    <3>2. CASE UNCHANGED <<tx, buttonBuff>>
      BY <1>t, <1>l, <3>2
    <3> QED BY <2>1, <3>1, <3>2
  <2>3. Len(tx) <= 5
    BY <1>0, <2>1 DEF TxRoom
  <2>4. Len(tx') <= 20
    BY <1>l, <2>2, <2>3
  <2>5. FirmwareTypeOK'
    BY <1>t, <2>1, <2>2 DEF FirmwareTypeOK
  <2>6. Answered(rx', serialIn') \/ Unanswered(rx', serialIn')
    BY <1>0, <2>1
  <2> QED BY <2>1, <2>4, <2>5, <2>6 DEF TxInv, TxRoom
<1>3. CASE TransmitTx
  <2>1. /\ serialOut' = serialOut \o tx /\ tx' = <<>> /\ phase' = "read"
        /\ UNCHANGED <<serialIn, rx, activeMute, ledStatus, buttonBuff, pin, awake>>
    BY <1>3 DEF TransmitTx
  <2>2. serialOut \o tx \in Seq(Byte)
    BY <1>t, ConcatProperties
  <2>3. FirmwareTypeOK'
    BY <1>t, <1>e, <2>1, <2>2 DEF FirmwareTypeOK
  <2>4. Answered(rx', serialIn') \/ Unanswered(rx', serialIn')
    BY <1>0, <2>1
  <2> QED BY <1>e, <2>1, <2>3, <2>4 DEF TxInv, TxRoom
<1>4. ASSUME NEW b \in Buttons, MoveButton(b) PROVE TxInv'
  <2>1. pin' = [pin EXCEPT ![b] = 1 - @]
    BY <1>4 DEF MoveButton
  <2>2. UNCHANGED <<serialIn, serialOut, rx, tx, phase, activeMute, ledStatus, buttonBuff, awake>>
    BY <1>4 DEF MoveButton
  <2>3. pin' \in [Buttons -> {0, 1}]
    <3>1. pin[b] \in {0, 1}
      BY <1>t
    <3>2. 1 - pin[b] \in {0, 1}
      BY <3>1
    <3> QED BY <1>t, <2>1, <3>2
  <2> QED BY <1>0, <1>t, <2>2, <2>3 DEF TxInv, TxRoom, FirmwareTypeOK
<1>5. CASE ToggleSleep
  <2>1. UNCHANGED <<serialIn, serialOut, rx, tx, phase, activeMute, ledStatus, buttonBuff, pin>> /\ awake' \in BOOLEAN
    BY <1>5, <1>t DEF ToggleSleep
  <2> QED BY <1>0, <1>t, <2>1 DEF TxInv, TxRoom, FirmwareTypeOK
<1>6. ASSUME NEW frame \in MCCommands, ReceiveFrame(frame) PROVE TxInv'
  <2>1. /\ serialIn = <<>> /\ (tx = <<>> \/ phase = "wait") /\ serialIn' = frame
        /\ UNCHANGED <<serialOut, rx, tx, phase, activeMute, ledStatus, buttonBuff, pin, awake>>
    BY <1>6 DEF ReceiveFrame
  <2>2. frame \in Seq(Byte) /\ Unanswered(<<>>, frame)
    BY CommandArrives
  <2>3. rx = <<>>
    <3>1. ~ Unanswered(rx, serialIn)
      <4>1. \A c, v : <<>> # <<c, 255>> /\ <<>> # <<c, v, 255>> /\ <<>> # <<255>> /\ <<>> # <<v, 255>>
        OBVIOUS
      <4> QED BY <2>1, <4>1 DEF Unanswered
    <3> QED BY <1>0, <3>1 DEF Answered
  <2>4. FirmwareTypeOK'
    BY <1>t, <2>1, <2>2 DEF FirmwareTypeOK
  <2>5. Unanswered(rx', serialIn')
    BY <2>1, <2>2, <2>3
  <2>6. TxRoom'
    BY <1>0, <2>1 DEF TxRoom
  <2> QED BY <2>4, <2>5, <2>6 DEF TxInv
<1>7. CASE Radiate
  <2>1. serialOut' = <<>> /\ UNCHANGED <<serialIn, rx, tx, phase, activeMute, ledStatus, buttonBuff, pin, awake>>
    BY <1>7 DEF Radiate
  <2> QED BY <1>0, <1>t, <1>e, <2>1 DEF TxInv, TxRoom, FirmwareTypeOK
<1>8. CASE UNCHANGED firmwareVars
  <2>1. UNCHANGED <<serialIn, serialOut, rx, tx, phase, activeMute, ledStatus, buttonBuff, pin, awake>>
    BY <1>8 DEF firmwareVars
  <2> QED BY <1>0, <2>1 DEF TxInv, TxRoom, FirmwareTypeOK
<1> QED BY <1>1, <1>2, <1>3, <1>4, <1>5, <1>6, <1>7, <1>8 DEF FirmwareNext, LoopStep

(* TxToBuffer never writes past BufferTx, whatever buttons the remote has, while
   commands that ask for answers arrive one at a time. *)
THEOREM FirmwareTxInBounds ==
  FirmwareSpec => []TxInBounds
<1>1. FirmwareInit => TxInv
  BY FirmwareStarts
<1>2. TxInv /\ [FirmwareNext]_firmwareVars => TxInv'
  BY FirmwareTxKept
<1>3. TxInv => TxInBounds
  BY DEF TxInv, TxRoom, TxInBounds, BufferSize
<1> QED BY <1>1, <1>2, <1>3, PTL DEF FirmwareSpec

-----------------------------------------------------------------------------
(* Sequences of sequences, one behind the other *)

(* What FlattenSeq has put together of p after its i-th step. *)
FlatAt(p, f, i) == IF i = 1 THEN p[i] ELSE f[i - 1] \o p[i]
Flattens(p, f) == f = [i \in 1..Len(p) |-> FlatAt(p, f, i)]

LEMMA FlattensExists ==
  ASSUME NEW T, NEW p \in Seq(Seq(T)), p # <<>>
  PROVE  \E f : Flattens(p, f)
<1> DEFINE Upto(n, f) == f = [i \in 1..n |-> FlatAt(p, f, i)]
           Without == {n \in 1..Len(p) : ~ \E f : Upto(n, f)}
<1>1. Len(p) \in Nat /\ Len(p) # 0
  BY LenProperties, EmptySeq
<1>2. SUFFICES Without = {}
  <2>1. Len(p) \in 1..Len(p)
    BY <1>1
  <2>2. PICK f : Upto(Len(p), f)
    BY <1>2, <2>1
  <2> QED BY <2>2 DEF Flattens
<1>3. SUFFICES ASSUME Without # {} PROVE FALSE
  OBVIOUS
<1>4. PICK n \in Without : \A m \in Without : n <= m
  <2>1. Without \subseteq Nat
    BY <1>1
  <2> HIDE DEF Without
  <2> QED BY <1>3, <2>1, LeastNatural
<1>5. CASE n = 1
  <2> DEFINE f == [i \in 1..1 |-> p[1]]
  <2>1. f = [i \in 1..1 |-> FlatAt(p, f, i)]
    BY DEF FlatAt
  <2>2. Upto(n, f)
    BY <2>1, <1>5
  <2> QED BY <2>2, <1>4
<1>6. CASE n # 1
  <2>1. n - 1 \in 1..Len(p) /\ ~ (n <= n - 1) /\ n \in Nat
    BY <1>1, <1>4, <1>6
  <2>2. PICK f : Upto(n - 1, f)
    BY <2>1, <1>4
  <2> DEFINE g == [i \in 1..n |-> FlatAt(p, f, i)]
  <2>3. ASSUME NEW i \in 1..n
        PROVE  g[i] = FlatAt(p, g, i)
    <3>1. CASE i = 1
      BY <3>1 DEF FlatAt
    <3>2. CASE i # 1
      <4>1. i - 1 \in 1..(n - 1) /\ i - 1 \in 1..n
        BY <3>2, <2>1
      <4>2. f[i - 1] = FlatAt(p, f, i - 1)
        BY <4>1, <2>2
      <4>3. g[i - 1] = f[i - 1]
        BY <4>1, <4>2
      <4> QED BY <3>2, <4>3 DEF FlatAt
    <3> QED BY <3>1, <3>2
  <2>4. g = [i \in 1..n |-> FlatAt(p, g, i)]
    <3>1. g = [i \in 1..n |-> g[i]]
      OBVIOUS
    <3> HIDE DEF g
    <3> QED BY <3>1, <2>3
  <2> HIDE DEF g
  <2>5. Upto(n, g)
    BY <2>4
  <2> QED BY <2>5, <1>4
<1> QED BY <1>5, <1>6

(* The steps of FlattenSeq are sequences, and the last one is its value. *)
LEMMA FlattenSteps ==
  ASSUME NEW T, NEW p \in Seq(Seq(T)), p # <<>>
  PROVE  \E f : /\ \A i \in 1..Len(p) : f[i] \in Seq(T) /\ f[i] = FlatAt(p, f, i)
                /\ FlattenSeq(p) = f[Len(p)]
<1> DEFINE f == CHOOSE g : Flattens(p, g)
<1>1. Flattens(p, f)
  BY FlattensExists
<1>2. Len(p) \in Nat /\ Len(p) # 0
  BY LenProperties, EmptySeq
<1>3. FlattenSeq(p) = f[Len(p)]
  BY <1>2, Zenon DEF FlattenSeq, Flattens, FlatAt
<1> HIDE DEF f
<1>4. \A i \in 1..Len(p) : f[i] = FlatAt(p, f, i)
  BY <1>1 DEF Flattens
<1> DEFINE Bad == {i \in 1..Len(p) : f[i] \notin Seq(T)}
<1>5. ASSUME Bad # {} PROVE FALSE
  <2>1. PICK n \in Bad : \A m \in Bad : n <= m
    <3>1. Bad \subseteq Nat
      BY <1>2
    <3> HIDE DEF Bad
    <3> QED BY <1>5, <3>1, LeastNatural
  <2>2. p[n] \in Seq(T)
    BY <2>1, ElementOfSeq
  <2>3. CASE n = 1
    BY <2>1, <2>2, <2>3, <1>4 DEF FlatAt
  <2>4. CASE n # 1
    <3>1. n - 1 \in 1..Len(p) /\ ~ (n <= n - 1)
      BY <1>2, <2>1, <2>4
    <3>2. f[n - 1] \in Seq(T)
      BY <3>1, <2>1
    <3>3. f[n] = f[n - 1] \o p[n]
      BY <2>1, <2>4, <1>4 DEF FlatAt
    <3> QED BY <3>2, <3>3, <2>1, <2>2, ConcatProperties, ZenonT(60)
  <2> QED BY <2>3, <2>4
<1> QED BY <1>3, <1>4, <1>5

(* One sequence, or none. *)
LEMMA FlattenOne ==
  ASSUME NEW T, NEW s \in Seq(T)
  PROVE  FlattenSeq(<<s>>) = s /\ FlattenSeq(<<>>) = <<>>
<1>1. <<s>> \in Seq(Seq(T)) /\ Len(<<s>>) = 1 /\ <<s>>[1] = s /\ <<s>> # <<>>
  OBVIOUS
<1>2. FlattenSeq(<<s>>) = s
  <2>1. PICK f : /\ \A i \in 1..Len(<<s>>) : f[i] \in Seq(T) /\ f[i] = FlatAt(<<s>>, f, i)
                 /\ FlattenSeq(<<s>>) = f[Len(<<s>>)]
    BY <1>1, FlattenSteps
  <2> QED BY <2>1, <1>1 DEF FlatAt
<1>3. FlattenSeq(<<>>) = <<>>
  BY EmptySeq DEF FlattenSeq
<1> QED BY <1>2, <1>3

(* The steps behind a sequence a are those from nothing, behind a. *)
GoOn(T, k, q, h, l, g) ==
  \A i \in 1..k : q[i] \in Seq(T) /\ h[i] \in Seq(T) /\ h[i] = FlatAt(q, h, i) /\ g[l + i] = g[(l + i) - 1] \o q[i]

LEMMA StepsBehind ==
  ASSUME NEW T, NEW a \in Seq(T), NEW l \in Nat, NEW k \in Nat, NEW q, NEW g, NEW h, g[l] = a,
         GoOn(T, k, q, h, l, g)
  PROVE  \A i \in 1..k : g[l + i] = a \o h[i]
<1> DEFINE Bad == {i \in 1..k : g[l + i] # a \o h[i]}
<1> SUFFICES ASSUME Bad # {} PROVE FALSE
  OBVIOUS
<1>1. PICK n \in Nat : n \in Bad /\ \A m \in Bad : n <= m
  <2>1. Bad \subseteq Nat
    OBVIOUS
  <2> HIDE DEF Bad
  <2> QED BY <2>1, LeastNatural
<1>2. n \in 1..k /\ g[l + n] # a \o h[n]
  BY <1>1
<1>3. \A m \in 1..k : ~ (n <= m) => g[l + m] = a \o h[m]
  BY <1>1
<1> HIDE DEF Bad
<1>4. CASE n = 1
  <2>1. (l + n) - 1 = l
    BY <1>4
  <2> QED BY <2>1, <1>2, <1>4 DEF GoOn, FlatAt
<1>5. CASE n # 1
  <2>1. n - 1 \in 1..k /\ ~ (n <= n - 1) /\ (l + n) - 1 = l + (n - 1)
    BY <1>2, <1>5
  <2>2. g[l + (n - 1)] = a \o h[n - 1]
    BY <2>1, <1>3
  <2>3. h[n] = h[n - 1] \o q[n] /\ h[n - 1] \in Seq(T) /\ q[n] \in Seq(T)
    BY <2>1, <1>2, <1>5 DEF GoOn, FlatAt
  <2>4. PICK x \in Seq(T), y \in Seq(T) : x = h[n - 1] /\ y = q[n]
    BY <2>3
  <2>5. (a \o x) \o y = a \o (x \o y)
    BY ConcatAssociative, SMTT(60)
  <2>6. g[l + n] = (a \o h[n - 1]) \o q[n]
    BY <2>1, <2>2, <1>2 DEF GoOn
  <2> QED BY <2>3, <2>4, <2>5, <2>6, <1>2
<1> QED BY <1>4, <1>5

(* Where one sequence goes on like another, so do the steps of FlattenSeq. *)
LEMMA FlattenGoesOn ==
  ASSUME NEW T, NEW p \in Seq(Seq(T)), NEW q \in Seq(Seq(T)), p # <<>>, q # <<>>
  PROVE  /\ FlattenSeq(p) \in Seq(T) /\ FlattenSeq(q) \in Seq(T)
         /\ FlattenSeq(p \o q) = FlattenSeq(p) \o FlattenSeq(q)
<1> DEFINE r == p \o q
           l == Len(p)
           k == Len(q)
<1>1. /\ r \in Seq(Seq(T)) /\ l \in Nat /\ k \in Nat /\ Len(r) = l + k
      /\ \A i \in 1..l : r[i] = p[i]
      /\ \A i \in 1..k : r[l + i] = q[i]
  BY Joined
<1>2. l # 0 /\ k # 0
  BY EmptySeq
<1>3. r # <<>>
  BY <1>1, <1>2, EmptySeq
<1>4. PICK f : (\A i \in 1..l : f[i] \in Seq(T) /\ f[i] = FlatAt(p, f, i)) /\ FlattenSeq(p) = f[l]
  BY FlattenSteps
<1>5. PICK h : (\A i \in 1..k : h[i] \in Seq(T) /\ h[i] = FlatAt(q, h, i)) /\ FlattenSeq(q) = h[k]
  BY FlattenSteps
<1> HIDE DEF r
<1>6. PICK g : (\A i \in 1..Len(r) : g[i] \in Seq(T) /\ g[i] = FlatAt(r, g, i)) /\ FlattenSeq(r) = g[Len(r)]
  BY <1>1, <1>3, FlattenSteps
<1> HIDE DEF l, k
<1>7. \A i \in 1..l : g[i] = f[i]
  <2> DEFINE Bad == {i \in 1..l : g[i] # f[i]}
  <2> SUFFICES ASSUME Bad # {} PROVE FALSE
    OBVIOUS
  <2>1. PICK n \in Bad : \A m \in Bad : n <= m
    <3>1. Bad \subseteq Nat
      BY <1>1
    <3> HIDE DEF Bad
    <3> QED BY <3>1, LeastNatural
  <2>2. n \in 1..Len(r) /\ g[n] = FlatAt(r, g, n) /\ f[n] = FlatAt(p, f, n) /\ r[n] = p[n]
    BY <2>1, <1>1, <1>4, <1>6
  <2>3. CASE n = 1
    BY <2>1, <2>2, <2>3 DEF FlatAt
  <2>4. CASE n # 1
    <3>1. n - 1 \in 1..l /\ ~ (n <= n - 1)
      BY <1>1, <2>1, <2>4
    <3>2. g[n - 1] = f[n - 1]
      BY <3>1, <2>1
    <3> QED BY <3>2, <2>1, <2>2, <2>4 DEF FlatAt
  <2> QED BY <2>3, <2>4
<1>8. \A i \in 1..k : g[l + i] = f[l] \o h[i]
  <2>1. ASSUME NEW i \in 1..k
        PROVE  q[i] \in Seq(T) /\ g[l + i] = g[(l + i) - 1] \o q[i]
    <3>1. q[i] \in Seq(T)
      BY ElementOfSeq DEF k
    <3>2. l + i \in 1..Len(r) /\ l + i # 1 /\ r[l + i] = q[i]
      BY <1>1, <1>2
    <3> QED BY <3>1, <3>2, <1>6 DEF FlatAt
  <2>2. l \in 1..l
    BY <1>1, <1>2
  <2>3. g[l] = f[l] /\ f[l] \in Seq(T)
    BY <2>2, <1>4, <1>7
  <2>4. GoOn(T, k, q, h, l, g)
    BY <2>1, <1>5 DEF GoOn
  <2>5. PICK a \in Seq(T) : a = f[l]
    BY <2>3
  <2>6. g[l] = a
    BY <2>3, <2>5
  <2>7. \A i \in 1..k : g[l + i] = a \o h[i]
    <3>1. l \in Nat /\ k \in Nat
      BY <1>1
    <3> QED BY <2>4, <2>6, <3>1, StepsBehind, SMTT(60)
  <2> QED BY <2>5, <2>7, Zenon
<1>9. l \in 1..l /\ k \in 1..k
  BY <1>1, <1>2
<1>10. FlattenSeq(r) = g[l + k]
  BY <1>1, <1>6
<1> QED BY <1>4, <1>5, <1>8, <1>9, <1>10 DEF r

LEMMA FlattenJoined ==
  ASSUME NEW T, NEW p \in Seq(Seq(T)), NEW q \in Seq(Seq(T))
  PROVE  /\ FlattenSeq(p) \in Seq(T)
         /\ FlattenSeq(p \o q) = FlattenSeq(p) \o FlattenSeq(q)
<1>1. FlattenSeq(<<>>) = <<>> /\ <<>> \in Seq(T)
  BY FlattenOne, EmptySeq
<1>2. CASE p # <<>> /\ q # <<>>
  BY <1>2, FlattenGoesOn
<1>3. ASSUME NEW s \in Seq(Seq(T)) PROVE FlattenSeq(s) \in Seq(T)
  <2>1. CASE s = <<>>
    BY <2>1, <1>1
  <2>2. CASE s # <<>>
    BY <2>2, FlattenGoesOn
  <2> QED BY <2>1, <2>2
<1>4. CASE q = <<>>
  <2>1. p \o q = p
    BY <1>4, ConcatEmptySeq
  <2>2. FlattenSeq(p) \in Seq(T)
    BY <1>3
  <2>3. FlattenSeq(p) \o <<>> = FlattenSeq(p)
    BY <2>2, ConcatEmptySeq
  <2> QED BY <2>1, <2>2, <2>3, <1>1, <1>4
<1>5. CASE p = <<>>
  <2>1. p \o q = q
    BY <1>5, ConcatEmptySeq
  <2>2. FlattenSeq(q) \in Seq(T)
    BY <1>3
  <2>3. <<>> \o FlattenSeq(q) = FlattenSeq(q)
    BY <2>2, ConcatEmptySeq
  <2> QED BY <2>1, <2>2, <2>3, <1>1, <1>5
<1> QED BY <1>2, <1>4, <1>5

-----------------------------------------------------------------------------
(* The values that a byte string has for a LED *)

(* What every byte says. *)
Sayings(s, n) == [i \in 1..Len(s) |-> Said(s, n, i)]

LEMMA LedCommand ==
  ASSUME NEW n \in 1..3
  PROVE  {LED_CMD, LEDn_CMD[n]} \subseteq LedCmds
<1>1. n = 1 \/ n = 2 \/ n = 3
  OBVIOUS
<1>2. LEDn_CMD[1] = 33 /\ LEDn_CMD[2] = 34 /\ LEDn_CMD[3] = 35
  BY DEF LEDn_CMD
<1> QED BY <1>1, <1>2 DEF LedCmds, LED_CMD

(* A byte that says something starts a frame, and what it says is its value. *)
LEMMA SaidInStream ==
  ASSUME NEW s, Stream(s), NEW n \in 1..3, NEW i \in 1..Len(s)
  PROVE  /\ Said(s, n, i) \in Seq(Byte)
         /\ s[i] \in {LED_CMD, LEDn_CMD[n]} /\ StartsAt(s, i) => i + 1 \in 1..Len(s)
<1>1. CASE s[i] \in {LED_CMD, LEDn_CMD[n]} /\ StartsAt(s, i)
  <2>1. s[i] \in LedCmds /\ FrameAt(s, i)
    BY <1>1, LedCommand DEF Stream
  <2>2. i + 2 <= Len(s) /\ s[i + 1] \in 0..254
    BY <2>1 DEF FrameAt, LedCmds, ModeCmds, ACTIVE_MODE_CMD, MUTE_MODE_CMD
  <2>3. Len(s) \in Nat
    BY LenProperties DEF Stream
  <2>4. i + 1 \in 1..Len(s) /\ s[i + 1] \in Byte
    BY <2>2, <2>3 DEF Byte
  <2>5. Said(s, n, i) = <<s[i + 1]>>
    BY <1>1 DEF Said, StartsAt, FrameEnd, FRAME_END
  <2>6. \A b \in Byte : <<b>> \in Seq(Byte)
    OBVIOUS
  <2> QED BY <2>4, <2>5, <2>6
<1>2. CASE ~ (s[i] \in {LED_CMD, LEDn_CMD[n]} /\ StartsAt(s, i))
  <2>1. Said(s, n, i) = <<>>
    BY <1>2 DEF Said, StartsAt, FrameEnd, FRAME_END
  <2> QED BY <2>1, <1>2, EmptySeq
<1> QED BY <1>1, <1>2

(* The bytes of two streams say what they say on their own. *)
LEMMA SaidJoined ==
  ASSUME NEW s, Stream(s), NEW t, Stream(t), NEW n \in 1..3
  PROVE  /\ \A i \in 1..Len(s) : Said(s \o t, n, i) = Said(s, n, i)
         /\ \A i \in 1..Len(t) : Said(s \o t, n, Len(s) + i) = Said(t, n, i)
<1> DEFINE u == s \o t
           c == {LED_CMD, LEDn_CMD[n]}
<1>1. s \in Seq(Byte) /\ t \in Seq(Byte) /\ (s = <<>> \/ s[Len(s)] = FRAME_END)
  BY DEF Stream
<1>2. /\ u \in Seq(Byte) /\ Len(s) \in Nat /\ Len(t) \in Nat
      /\ \A i \in 1..Len(s) : u[i] = s[i]
      /\ \A i \in 1..Len(t) : u[Len(s) + i] = t[i]
  BY Joined, <1>1
<1>3. /\ \A j \in 1..Len(s) : StartsAt(u, j) <=> StartsAt(s, j)
      /\ \A j \in 1..Len(t) : StartsAt(u, Len(s) + j) <=> StartsAt(t, j)
  BY Glue, <1>1
<1> HIDE DEF u
<1>4. \A v, i : Said(v, n, i) = IF v[i] \in c /\ StartsAt(v, i) THEN <<v[i + 1]>> ELSE <<>>
  BY DEF Said, StartsAt, FrameEnd, FRAME_END
<1> HIDE DEF c
<1>5. ASSUME NEW i \in 1..Len(s) PROVE Said(u, n, i) = Said(s, n, i)
  <2>1. u[i] = s[i] /\ (StartsAt(u, i) <=> StartsAt(s, i))
    BY <1>2, <1>3
  <2>2. CASE s[i] \in c /\ StartsAt(s, i)
    <3>1. Said(s, n, i) = <<s[i + 1]>>
      BY <1>4, <2>2
    <3>2. i + 1 \in 1..Len(s)
      BY <2>2, SaidInStream DEF c
    <3>3. u[i + 1] = s[i + 1]
      BY <3>2, <1>2
    <3> QED BY <3>1, <3>3, <2>1, <2>2, <1>4
  <2>3. CASE ~ (s[i] \in c /\ StartsAt(s, i))
    BY <2>1, <2>3, <1>4
  <2> QED BY <2>2, <2>3
<1>6. ASSUME NEW i \in 1..Len(t) PROVE Said(u, n, Len(s) + i) = Said(t, n, i)
  <2>1. u[Len(s) + i] = t[i] /\ (StartsAt(u, Len(s) + i) <=> StartsAt(t, i))
    BY <1>2, <1>3
  <2>2. CASE t[i] \in c /\ StartsAt(t, i)
    <3>1. Said(t, n, i) = <<t[i + 1]>>
      BY <1>4, <2>2
    <3>2. i + 1 \in 1..Len(t) /\ (Len(s) + i) + 1 = Len(s) + (i + 1)
      <4>1. i + 1 \in 1..Len(t)
        BY <2>2, SaidInStream DEF c
      <4> QED BY <4>1, <1>2
    <3>3. u[(Len(s) + i) + 1] = t[i + 1]
      BY <3>2, <1>2
    <3> QED BY <3>1, <3>3, <2>1, <2>2, <1>4
  <2>3. CASE ~ (t[i] \in c /\ StartsAt(t, i))
    BY <2>1, <2>3, <1>4
  <2> QED BY <2>2, <2>3
<1> QED BY <1>5, <1>6 DEF u

(* Two streams, one behind the other, are a stream. *)
LEMMA StreamsJoin ==
  ASSUME NEW s, Stream(s), NEW t, Stream(t)
  PROVE  Stream(s \o t)
<1> DEFINE u == s \o t
<1>1. /\ s \in Seq(Byte) /\ t \in Seq(Byte)
      /\ s = <<>> \/ s[Len(s)] = FRAME_END
      /\ t = <<>> \/ t[Len(t)] = FRAME_END
      /\ \A j \in 1..Len(s) : StartsAt(s, j) => FrameAt(s, j)
      /\ \A j \in 1..Len(t) : StartsAt(t, j) => FrameAt(t, j)
  BY DEF Stream
<1>2. /\ u \in Seq(Byte) /\ Len(s) \in Nat /\ Len(t) \in Nat /\ Len(u) = Len(s) + Len(t)
      /\ \A i \in 1..Len(s) : u[i] = s[i]
      /\ \A i \in 1..Len(t) : u[Len(s) + i] = t[i]
  BY Joined, <1>1
<1>3. /\ \A j \in 1..Len(s) : StartsAt(u, j) <=> StartsAt(s, j)
      /\ \A j \in 1..Len(t) : StartsAt(u, Len(s) + j) <=> StartsAt(t, j)
  BY Glue, <1>1
<1>4. (s = <<>> <=> Len(s) = 0) /\ (t = <<>> <=> Len(t) = 0)
  BY <1>1, EmptySeq
<1> HIDE DEF u
<1>5. u = <<>> \/ u[Len(u)] = FRAME_END
  <2>1. CASE t # <<>>
    <3>1. Len(t) \in 1..Len(t)
      BY <2>1, <1>2, <1>4
    <3> QED BY <3>1, <2>1, <1>1, <1>2
  <2>2. CASE t = <<>> /\ s # <<>>
    <3>1. Len(s) \in 1..Len(s) /\ Len(u) = Len(s)
      BY <2>2, <1>2, <1>4
    <3> QED BY <3>1, <2>2, <1>1, <1>2
  <2>3. CASE t = <<>> /\ s = <<>>
    <3>1. Len(u) = 0
      BY <2>3, <1>2, <1>4
    <3> QED BY <3>1, <1>2, EmptySeq
  <2> QED BY <2>1, <2>2, <2>3
<1>6. ASSUME NEW j \in 1..Len(u), StartsAt(u, j) PROVE FrameAt(u, j)
  <2>1. j \in 1..Len(s) \/ (j - Len(s) \in 1..Len(t) /\ Len(s) + (j - Len(s)) = j)
    BY <1>2
  <2>2. CASE j \in 1..Len(s)
    <3>1. FrameAt(s, j) /\ u[j] = s[j]
      BY <2>2, <1>1, <1>2, <1>3, <1>6
    <3>2. CASE s[j] \in ModeCmds /\ j + 1 <= Len(s) /\ s[j + 1] = FRAME_END
      <4>1. j + 1 \in 1..Len(s) /\ j + 1 <= Len(u)
        BY <3>2, <2>2, <1>2
      <4> QED BY <4>1, <3>1, <3>2, <1>2 DEF FrameAt
    <3>3. CASE s[j] \in LedCmds /\ j + 2 <= Len(s) /\ s[j + 1] \in 0..254 /\ s[j + 2] = FRAME_END
      <4>1. j + 1 \in 1..Len(s) /\ j + 2 \in 1..Len(s) /\ j + 2 <= Len(u)
        BY <3>3, <2>2, <1>2
      <4> QED BY <4>1, <3>1, <3>3, <1>2 DEF FrameAt
    <3> QED BY <3>1, <3>2, <3>3 DEF FrameAt
  <2>3. CASE j - Len(s) \in 1..Len(t) /\ Len(s) + (j - Len(s)) = j
    <3>1. PICK k \in 1..Len(t) : Len(s) + k = j
      BY <2>3
    <3>2. FrameAt(t, k) /\ u[j] = t[k]
      BY <3>1, <1>1, <1>2, <1>3, <1>6
    <3>3. CASE t[k] \in ModeCmds /\ k + 1 <= Len(t) /\ t[k + 1] = FRAME_END
      <4>1. k + 1 \in 1..Len(t) /\ Len(s) + (k + 1) = j + 1 /\ j + 1 <= Len(u)
        BY <3>1, <3>3, <1>2
      <4> QED BY <4>1, <3>2, <3>3, <1>2 DEF FrameAt
    <3>4. CASE t[k] \in LedCmds /\ k + 2 <= Len(t) /\ t[k + 1] \in 0..254 /\ t[k + 2] = FRAME_END
      <4>1. k + 1 \in 1..Len(t) /\ k + 2 \in 1..Len(t)
        BY <3>4, <1>2
      <4>2. Len(s) + (k + 1) = j + 1 /\ Len(s) + (k + 2) = j + 2 /\ j + 2 <= Len(u)
        <5>1. Len(s) \in Nat /\ Len(t) \in Nat /\ Len(u) = Len(s) + Len(t) /\ k + 2 <= Len(t)
          BY <3>4, <1>2
        <5> QED BY <5>1, <3>1
      <4>3. u[j + 1] = t[k + 1] /\ u[j + 2] = t[k + 2]
        <5>1. u[Len(s) + (k + 1)] = t[k + 1] /\ u[Len(s) + (k + 2)] = t[k + 2]
          BY <4>1, <1>2
        <5> QED BY <5>1, <4>2
      <4> QED BY <4>2, <4>3, <3>2, <3>4 DEF FrameAt
    <3> QED BY <3>2, <3>3, <3>4 DEF FrameAt
  <2> QED BY <2>1, <2>2, <2>3
<1> QED BY <1>2, <1>5, <1>6 DEF Stream, u

LEMMA SayingsTyped ==
  ASSUME NEW s, Stream(s), NEW n \in 1..3
  PROVE  Sayings(s, n) \in Seq(Seq(Byte)) /\ Len(Sayings(s, n)) = Len(s)
         /\ \A i \in 1..Len(s) : Sayings(s, n)[i] = Said(s, n, i)
<1>1. Len(s) \in Nat
  BY LenProperties DEF Stream
<1>2. \A i \in 1..Len(s) : Said(s, n, i) \in Seq(Byte)
  BY SaidInStream
<1>3. Sayings(s, n) \in [1..Len(s) -> Seq(Byte)]
  BY <1>2 DEF Sayings
<1> QED BY <1>1, <1>3 DEF Sayings

(* The values of two streams are those of the first and then those of the second. *)
LEMMA ValuesJoin ==
  ASSUME NEW s, Stream(s), NEW t, Stream(t), NEW n \in 1..3
  PROVE  /\ ValuesIn(s, n) \in Seq(Byte)
         /\ ValuesIn(s \o t, n) = ValuesIn(s, n) \o ValuesIn(t, n)
<1>1. PICK p \in Seq(Seq(Byte)) : p = Sayings(s, n) /\ Len(p) = Len(s) /\ \A i \in 1..Len(s) : p[i] = Said(s, n, i)
  BY SayingsTyped
<1>2. PICK q \in Seq(Seq(Byte)) : q = Sayings(t, n) /\ Len(q) = Len(t) /\ \A i \in 1..Len(t) : q[i] = Said(t, n, i)
  BY SayingsTyped
<1>3. Stream(s \o t)
  BY StreamsJoin
<1>4. PICK r \in Seq(Seq(Byte)) : /\ r = Sayings(s \o t, n) /\ Len(r) = Len(s \o t)
                                  /\ \A i \in 1..Len(s \o t) : r[i] = Said(s \o t, n, i)
  BY <1>3, SayingsTyped
<1>5. Len(s) \in Nat /\ Len(t) \in Nat /\ Len(s \o t) = Len(s) + Len(t)
  BY Joined DEF Stream
<1>6. /\ p \o q \in Seq(Seq(Byte)) /\ Len(p \o q) = Len(s) + Len(t)
      /\ \A i \in 1..Len(s) : (p \o q)[i] = p[i]
      /\ \A i \in 1..Len(t) : (p \o q)[Len(s) + i] = q[i]
  <2>1. /\ p \o q \in Seq(Seq(Byte)) /\ Len(p \o q) = Len(p) + Len(q)
        /\ \A i \in 1..Len(p) : (p \o q)[i] = p[i]
        /\ \A i \in 1..Len(q) : (p \o q)[Len(p) + i] = q[i]
    BY Joined
  <2>2. Len(p) = Len(s) /\ Len(q) = Len(t)
    BY <1>1, <1>2
  <2> QED BY <2>1, <2>2
<1>7. ASSUME NEW i \in 1..(Len(s) + Len(t)) PROVE r[i] = (p \o q)[i]
  <2>0. r[i] = Said(s \o t, n, i)
    BY <1>4, <1>5
  <2>1. i \in 1..Len(s) \/ (i - Len(s) \in 1..Len(t) /\ Len(s) + (i - Len(s)) = i)
    BY <1>5
  <2>2. CASE i \in 1..Len(s)
    <3>1. Said(s \o t, n, i) = Said(s, n, i)
      BY <2>2, SaidJoined
    <3> QED BY <3>1, <2>0, <2>2, <1>1, <1>6
  <2>3. CASE i - Len(s) \in 1..Len(t) /\ Len(s) + (i - Len(s)) = i
    <3>1. PICK k \in 1..Len(t) : Len(s) + k = i
      BY <2>3
    <3>2. Said(s \o t, n, Len(s) + k) = Said(t, n, k)
      BY SaidJoined
    <3> QED BY <3>1, <3>2, <2>0, <1>2, <1>6
  <2> QED BY <2>1, <2>2, <2>3
<1>8. r = p \o q
  BY <1>4, <1>5, <1>6, <1>7, SeqEqual
<1>9. FlattenSeq(p) \in Seq(Byte) /\ FlattenSeq(p \o q) = FlattenSeq(p) \o FlattenSeq(q)
  BY FlattenJoined
<1> QED BY <1>1, <1>2, <1>4, <1>8, <1>9 DEF ValuesIn, Sayings

(* What one message says to LED n. *)
Word(m, n) == IF m # <<>> /\ m[1] \in {LED_CMD, LEDn_CMD[n]} THEN <<m[2]>> ELSE <<>>

LEMMA FrameIsStream ==
  ASSUME NEW m, ModeFrame(m) \/ LedFrame(m)
  PROVE  Stream(m)
<1>1. /\ m \in Seq(Byte) /\ Len(m) \in {2, 3} /\ m[Len(m)] = FRAME_END /\ FrameAt(m, 1)
      /\ \A j \in 1..Len(m) : StartsAt(m, j) => j = 1
  BY FrameTyped
<1> QED BY <1>1 DEF Stream

(* A frame for a LED says its value, and nothing to another LED. *)
LEMMA FrameSays ==
  ASSUME NEW m, ModeFrame(m) \/ LedFrame(m), NEW n \in 1..3
  PROVE  ValuesIn(m, n) = Word(m, n)
<1>1. /\ m \in Seq(Byte) /\ Len(m) \in {2, 3} /\ m # <<>>
      /\ \A j \in 1..Len(m) : StartsAt(m, j) => j = 1
  BY FrameTyped, EmptySeq
<1>2. Stream(m)
  BY FrameIsStream
<1>3. PICK p \in Seq(Seq(Byte)) : p = Sayings(m, n) /\ Len(p) = Len(m) /\ \A i \in 1..Len(m) : p[i] = Said(m, n, i)
  BY <1>2, SayingsTyped
<1>4. p[1] = Word(m, n)
  BY <1>1, <1>3 DEF Said, Word
<1>5. ASSUME NEW i \in 1..Len(m), i # 1 PROVE p[i] = <<>>
  <2>1. ~ StartsAt(m, i)
    BY <1>1, <1>5
  <2> QED BY <2>1, <1>3 DEF Said, StartsAt, FrameEnd, FRAME_END
<1>6. Len(p) \in {2, 3} /\ p # <<>>
  BY <1>1, <1>3, EmptySeq
<1>7. PICK f : /\ \A i \in 1..Len(p) : f[i] \in Seq(Byte) /\ f[i] = FlatAt(p, f, i)
               /\ FlattenSeq(p) = f[Len(p)]
  BY <1>6, FlattenSteps
<1>8. f[1] = Word(m, n) /\ f[1] \in Seq(Byte)
  BY <1>4, <1>6, <1>7 DEF FlatAt
<1>9. f[2] = f[1] /\ (Len(p) = 3 => f[3] = f[1])
  <2>1. f[1] \o <<>> = f[1]
    BY <1>8, ConcatEmptySeq
  <2>2. f[2] = f[1] \o <<>>
    <3>1. 2 \in 1..Len(p) /\ 2 \in 1..Len(m) /\ 2 # 1 /\ 2 - 1 = 1
      <4>1. 2 \in 1..2 /\ 2 \in 1..3 /\ 2 # 1 /\ 2 - 1 = 1
        OBVIOUS
      <4>2. Len(m) = 2 \/ Len(m) = 3
        BY <1>1
      <4> QED BY <4>1, <4>2, <1>3, Zenon
    <3>2. p[2] = <<>> /\ f[2] = FlatAt(p, f, 2)
      BY <3>1, <1>5, <1>7
    <3> QED BY <3>1, <3>2 DEF FlatAt
  <2>3. Len(p) = 3 => f[3] = f[2] \o <<>>
    <3> SUFFICES ASSUME Len(p) = 3 PROVE f[3] = f[2] \o <<>>
      OBVIOUS
    <3>1. 3 \in 1..Len(p) /\ 3 \in 1..Len(m) /\ 3 # 1 /\ 3 - 1 = 2
      <4>1. 3 \in 1..3 /\ 3 # 1 /\ 3 - 1 = 2
        OBVIOUS
      <4>2. Len(p) = 3 /\ Len(m) = 3
        BY <1>3
      <4> QED BY <4>1, <4>2, Zenon
    <3>2. p[3] = <<>> /\ f[3] = FlatAt(p, f, 3)
      BY <3>1, <1>5, <1>7
    <3> QED BY <3>1, <3>2 DEF FlatAt
  <2> QED BY <2>1, <2>2, <2>3
<1> QED BY <1>3, <1>6, <1>7, <1>8, <1>9 DEF ValuesIn, Sayings

LEMMA NothingSaid ==
  ASSUME NEW n \in 1..3
  PROVE  Stream(<<>>) /\ ValuesIn(<<>>, n) = <<>>
<1>1. Stream(<<>>)
  BY EmptySeq DEF Stream
<1>2. Sayings(<<>>, n) \in Seq(Seq(Byte)) /\ Len(Sayings(<<>>, n)) = 0
  BY <1>1, SayingsTyped, EmptySeq
<1>3. Sayings(<<>>, n) = <<>>
  BY <1>2, EmptySeq
<1> QED BY <1>1, <1>3, FlattenOne, EmptySeq DEF ValuesIn, Sayings

-----------------------------------------------------------------------------
(* The queue of a LED *)

(* The bytes that have left the map, and the messages that have not. *)
Way == (rx \o serialIn) \o FlattenSeq(air)
Left == [k \in Keys |-> Unsent(k)]

KeyMessage(k, level) == <<MsgType(k, level), level, FRAME_END>>
KeyFrame(k, m) == m = <<>> \/ \E level \in 0..254 : m = KeyMessage(k, level)
ChannelInv == Stream(Way) /\ \A k \in Keys \ {"S"} : KeyFrame(k, safeSendMap[k])

AllBytes(w, u) == (((w \o u["L"]) \o u["L1"]) \o u["L2"]) \o u["L3"]
Queue(w, u, n) == (ValuesIn(w, n) \o Word(u["L"], n)) \o Word(u[LedKeys[n]], n)

(* The message under a key is for the LED of this key, or for all of them. *)
LEMMA KeySays ==
  ASSUME NEW k \in Keys \ {"S"}, NEW level \in 0..254, NEW n \in 1..3
  PROVE  /\ LedFrame(KeyMessage(k, level))
         /\ k \in {"L", LedKeys[n]} => Word(KeyMessage(k, level), n) = <<level>>
         /\ k \notin {"L", LedKeys[n]} => Word(KeyMessage(k, level), n) = <<>>
<1> DEFINE c == MsgType(k, level)
           m == KeyMessage(k, level)
<1>0. m = <<c, level, FRAME_END>>
  BY DEF m, KeyMessage
<1> HIDE DEF m
<1>1. LedFrame(m)
  <2>1. c \in LedCmds
    BY DEF MsgType, Keys, LedCmds
  <2> QED BY <1>0, <2>1 DEF LedFrame
<1>2. m # <<>> /\ m[1] = c /\ m[2] = level
  BY <1>0
<1>3. c \in {LED_CMD, LEDn_CMD[n]} <=> k \in {"L", LedKeys[n]}
  <2>1. /\ LEDn_CMD[1] = 33 /\ LEDn_CMD[2] = 34 /\ LEDn_CMD[3] = 35 /\ LED_CMD = 32
        /\ LedKeys[1] = "L1" /\ LedKeys[2] = "L2" /\ LedKeys[3] = "L3"
    BY DEF LEDn_CMD, LED_CMD, LedKeys
  <2>2. (k = "L" /\ c = 32) \/ (k = "L1" /\ c = 33) \/ (k = "L2" /\ c = 34) \/ (k = "L3" /\ c = 35)
    BY DEF MsgType, Keys
  <2>3. n = 1 \/ n = 2 \/ n = 3
    OBVIOUS
  <2> HIDE DEF c
  <2> QED BY <2>1, <2>2, <2>3
<1> HIDE DEF c
<1>4. /\ k \in {"L", LedKeys[n]} => Word(m, n) = <<level>>
      /\ k \notin {"L", LedKeys[n]} => Word(m, n) = <<>>
  BY <1>2, <1>3 DEF Word
<1> QED BY <1>1, <1>4 DEF m

LEMMA KeySpeaks ==
  ASSUME NEW k \in Keys \ {"S"}, NEW m, KeyFrame(k, m), NEW n \in 1..3
  PROVE  /\ Stream(m) /\ ValuesIn(m, n) = Word(m, n)
         /\ Word(m, n) = <<>> \/ \E v \in Byte : Word(m, n) = <<v>>
         /\ k \notin {"L", LedKeys[n]} => Word(m, n) = <<>>
<1>1. CASE m = <<>>
  BY <1>1, NothingSaid DEF Word
<1>2. CASE m # <<>>
  <2>1. PICK level \in 0..254 : m = KeyMessage(k, level)
    BY <1>2 DEF KeyFrame
  <2>2. /\ LedFrame(m)
        /\ k \in {"L", LedKeys[n]} => Word(m, n) = <<level>>
        /\ k \notin {"L", LedKeys[n]} => Word(m, n) = <<>>
    <3>1. /\ LedFrame(KeyMessage(k, level))
          /\ k \in {"L", LedKeys[n]} => Word(KeyMessage(k, level), n) = <<level>>
          /\ k \notin {"L", LedKeys[n]} => Word(KeyMessage(k, level), n) = <<>>
      BY KeySays, ZenonT(60)
    <3> QED BY <3>1, <2>1, ZenonT(60)
  <2>3. Stream(m) /\ ValuesIn(m, n) = Word(m, n)
    BY <2>2, FrameIsStream, FrameSays
  <2>4. level \in Byte
    BY DEF Byte
  <2> QED BY <2>2, <2>3, <2>4
<1> QED BY <1>1, <1>2

(* The messages of the map that wait behind the bytes: those of the LED count. *)
LEMMA QueueIs ==
  ASSUME NEW w, Stream(w), NEW u, \A k \in Keys \ {"S"} : KeyFrame(k, u[k]), NEW n \in 1..3
  PROVE  /\ ValuesIn(AllBytes(w, u), n) = Queue(w, u, n)
         /\ ValuesIn(w, n) \in Seq(Byte) /\ Word(u["L"], n) \in Seq(Byte) /\ Word(u[LedKeys[n]], n) \in Seq(Byte)
<1> DEFINE V(s) == ValuesIn(s, n)
<1>0. {"L", "L1", "L2", "L3"} = Keys \ {"S"}
  BY DEF Keys
<1>1. PICK a, b, c, d : a = u["L"] /\ b = u["L1"] /\ c = u["L2"] /\ d = u["L3"]
  OBVIOUS
<1>2. KeyFrame("L", a) /\ KeyFrame("L1", b) /\ KeyFrame("L2", c) /\ KeyFrame("L3", d)
  BY <1>0, <1>1
<1>3. /\ Stream(a) /\ V(a) = Word(a, n) /\ Stream(b) /\ V(b) = Word(b, n)
      /\ Stream(c) /\ V(c) = Word(c, n) /\ Stream(d) /\ V(d) = Word(d, n)
  BY <1>0, <1>2, KeySpeaks
<1>4. Stream(w \o a) /\ V(w \o a) = V(w) \o V(a) /\ V(w) \in Seq(Byte)
  BY <1>3, ValuesJoin, StreamsJoin
<1>5. Stream((w \o a) \o b) /\ V((w \o a) \o b) = V(w \o a) \o V(b)
  BY <1>3, <1>4, ValuesJoin, StreamsJoin
<1>6. Stream(((w \o a) \o b) \o c) /\ V(((w \o a) \o b) \o c) = V((w \o a) \o b) \o V(c)
  BY <1>3, <1>5, ValuesJoin, StreamsJoin
<1>7. V((((w \o a) \o b) \o c) \o d) = V(((w \o a) \o b) \o c) \o V(d)
  BY <1>3, <1>6, ValuesJoin
<1>8. Word(a, n) \in Seq(Byte) /\ Word(b, n) \in Seq(Byte) /\ Word(c, n) \in Seq(Byte) /\ Word(d, n) \in Seq(Byte)
  BY <1>3, ValuesJoin
<1>9. PICK x \in Seq(Byte) : x = V(w) \o Word(a, n) /\ x = V(w \o a)
  <2>1. V(w) \o Word(a, n) \in Seq(Byte)
    BY <1>4, <1>8, ConcatProperties
  <2> QED BY <2>1, <1>3, <1>4
<1>10. V((((w \o a) \o b) \o c) \o d) = ((x \o Word(b, n)) \o Word(c, n)) \o Word(d, n)
  BY <1>3, <1>5, <1>6, <1>7, <1>9
<1>11. \A y \in Seq(Byte) : y \o <<>> = y
  BY ConcatEmptySeq
<1>12. LedKeys[1] = "L1" /\ LedKeys[2] = "L2" /\ LedKeys[3] = "L3"
  BY DEF LedKeys
<1>13. V((((w \o a) \o b) \o c) \o d) = x \o Word(u[LedKeys[n]], n) /\ Word(u[LedKeys[n]], n) \in Seq(Byte)
  <2>0. n = 1 \/ n = 2 \/ n = 3
    OBVIOUS
  <2>1. CASE n = 1
    <3>1. Word(c, n) = <<>> /\ Word(d, n) = <<>>
      <4>1. "L2" \notin {"L", LedKeys[n]} /\ "L3" \notin {"L", LedKeys[n]}
        BY <2>1, <1>12
      <4>2. "L2" \in Keys \ {"S"} /\ "L3" \in Keys \ {"S"}
        BY <1>0
      <4> QED BY <4>1, <4>2, <1>2, KeySpeaks, Zenon
    <3>2. x \o Word(b, n) \in Seq(Byte)
      BY <1>8, ConcatProperties
    <3> QED BY <3>1, <3>2, <2>1, <1>1, <1>8, <1>10, <1>11, <1>12
  <2>2. CASE n = 2
    <3>1. Word(b, n) = <<>> /\ Word(d, n) = <<>>
      <4>1. "L1" \notin {"L", LedKeys[n]} /\ "L3" \notin {"L", LedKeys[n]}
        BY <2>2, <1>12
      <4>2. "L1" \in Keys \ {"S"} /\ "L3" \in Keys \ {"S"}
        BY <1>0
      <4> QED BY <4>1, <4>2, <1>2, KeySpeaks, Zenon
    <3>2. x \o Word(c, n) \in Seq(Byte)
      BY <1>8, ConcatProperties
    <3> QED BY <3>1, <3>2, <2>2, <1>1, <1>8, <1>10, <1>11, <1>12
  <2>3. CASE n = 3
    <3>1. Word(b, n) = <<>> /\ Word(c, n) = <<>>
      <4>1. "L1" \notin {"L", LedKeys[n]} /\ "L2" \notin {"L", LedKeys[n]}
        BY <2>3, <1>12
      <4>2. "L1" \in Keys \ {"S"} /\ "L2" \in Keys \ {"S"}
        BY <1>0
      <4> QED BY <4>1, <4>2, <1>2, KeySpeaks, Zenon
    <3> QED BY <3>1, <2>3, <1>1, <1>8, <1>10, <1>11, <1>12
  <2> QED BY <2>0, <2>1, <2>2, <2>3
<1> QED BY <1>1, <1>4, <1>8, <1>9, <1>13 DEF AllBytes, Queue

LEMMA LeftAt ==
  \A k \in Keys : Left[k] = (IF k = sending THEN <<>> ELSE safeSendMap[k])
BY DEF Left, Unsent

LEMMA LeftFrames ==
  ASSUME ChannelInv
  PROVE  \A k \in Keys \ {"S"} : KeyFrame(k, Left[k])
BY LeftAt DEF ChannelInv, KeyFrame

(* The values on their way to a LED, now and after a step. *)
LEMMA QueueNow ==
  ASSUME ChannelInv, NEW n \in 1..3
  PROVE  /\ ValuesFor(n) = Queue(Way, Left, n)
         /\ ValuesIn(Way, n) \in Seq(Byte) /\ Word(Left["L"], n) \in Seq(Byte) /\ Word(Left[LedKeys[n]], n) \in Seq(Byte)
<1>1. "L" \in Keys /\ "L1" \in Keys /\ "L2" \in Keys /\ "L3" \in Keys
  BY DEF Keys
<1>2. DownBytes = AllBytes(Way, Left)
  BY <1>1 DEF DownBytes, AllBytes, Way, Left
<1>3. Stream(Way)
  BY DEF ChannelInv
<1> QED BY <1>2, <1>3, LeftFrames, QueueIs DEF ValuesFor

LEMMA QueueNext ==
  ASSUME ChannelInv', NEW n \in 1..3
  PROVE  ValuesFor(n)' = Queue(Way', Left', n)
<1>1. "L" \in Keys /\ "L1" \in Keys /\ "L2" \in Keys /\ "L3" \in Keys
  BY DEF Keys
<1>2. DownBytes' = AllBytes(Way', Left')
  BY <1>1 DEF DownBytes, AllBytes, Way, Left
<1>3. Stream(Way')
  BY DEF ChannelInv
<1>4. \A k \in Keys \ {"S"} : KeyFrame(k, Left'[k])
  BY DEF ChannelInv, KeyFrame, Left, Unsent
<1>5. ValuesFor(n)' = ValuesIn(DownBytes', n)
  BY DEF ValuesFor
<1> QED BY <1>2, <1>3, <1>4, <1>5, QueueIs

-----------------------------------------------------------------------------
(* The steps of a channel *)

(* The queues that setting v may leave: behind what waits, or in the place of the last. *)
Replaced(q, v) == {Append(p, v) : p \in {q} \cup (IF q = <<>> THEN {} ELSE {Front(q)})}

ChannelSame(n) ==
  WantedFor(n)' = WantedFor(n) /\ ValuesFor(n)' = ValuesFor(n) /\ ledStatus'[n] = ledStatus[n]
ChannelSet(n) ==
  /\ ledStatus'[n] = ledStatus[n] /\ WantedFor(n)' \in Levels
  /\ ValuesFor(n)' \in Replaced(ValuesFor(n), WantedFor(n)')
ChannelShow(n) ==
  /\ WantedFor(n)' = WantedFor(n) /\ ValuesFor(n) # <<>>
  /\ <<ledStatus'[n]>> \o ValuesFor(n)' = ValuesFor(n)
ChannelStep(n) == ChannelSame(n) \/ ChannelSet(n) \/ ChannelShow(n)

(* A value goes behind the others, or takes the place of the last. *)
LEMMA BehindOrReplaced ==
  ASSUME NEW q \in Seq(Byte), NEW v \in Byte, NEW old, old = <<>> \/ \E x \in Byte : old = <<x>>
  PROVE  q \o <<v>> \in Replaced(q \o old, v)
<1>1. q \o <<v>> = Append(q, v)
  BY AppendIsConcat
<1>2. CASE old = <<>>
  <2>1. q \o old = q
    BY <1>2, ConcatEmptySeq
  <2> QED BY <2>1, <1>1 DEF Replaced
<1>3. CASE \E x \in Byte : old = <<x>>
  <2>1. PICK x \in Byte : old = <<x>>
    BY <1>3
  <2>2. PICK u : u = q \o old
    OBVIOUS
  <2>3. u = Append(q, x)
    BY <2>1, <2>2, AppendIsConcat
  <2>4. /\ u \in Seq(Byte) /\ u # <<>> /\ Len(q) \in Nat /\ Len(u) = Len(q) + 1
        /\ \A i \in 1..Len(q) : u[i] = q[i]
    BY <2>3, AppendProperties, LenProperties
  <2>5. Front(u) = q
    <3>1. Front(u) = SubSeq(u, 1, Len(q))
      <4>1. Len(u) - 1 = Len(q)
        BY <2>4
      <4> QED BY <4>1 DEF Front
    <3>2. /\ SubSeq(u, 1, Len(q)) \in Seq(Byte) /\ Len(SubSeq(u, 1, Len(q))) = Len(q)
          /\ \A i \in 1..Len(q) : SubSeq(u, 1, Len(q))[i] = u[i]
      <4>1. \A i \in 1..Len(q) : u[i] \in Byte
        BY <2>4
      <4> QED BY <2>4, <4>1, SubSeqProperties
    <3>3. PICK f \in Seq(Byte) : f = SubSeq(u, 1, Len(q))
      BY <3>2
    <3>4. Len(f) = Len(q) /\ \A i \in 1..Len(q) : f[i] = q[i]
      BY <2>4, <3>2, <3>3
    <3>5. f = q
      BY <3>4, SeqEqual
    <3> QED BY <3>1, <3>3, <3>5
  <2>6. Append(q, v) \in {Append(p, v) : p \in {u} \cup {Front(u)}}
    BY <2>5
  <2> QED BY <2>2, <2>4, <2>6, <1>1 DEF Replaced
<1> QED BY <1>2, <1>3

LEMMA WayTyped ==
  ASSUME LinkTypeOK
  PROVE  /\ rx \in Seq(Byte) /\ serialIn \in Seq(Byte) /\ rx \o serialIn \in Seq(Byte)
         /\ air \in Seq(Seq(Byte)) /\ FlattenSeq(air) \in Seq(Byte)
         /\ safeSendMap \in [Keys -> Seq(Byte)]
<1>1. rx \in Seq(Byte) /\ serialIn \in Seq(Byte)
  BY DEF LinkTypeOK, FirmwareTypeOK
<1>2. air \in Seq(Seq(Byte)) /\ safeSendMap \in [Keys -> Seq(Byte)]
  BY KeySet DEF LinkTypeOK, ProxyTypeOK, Byte
<1>3. FlattenSeq(air) \in Seq(Byte)
  BY <1>2, FlattenJoined
<1> QED BY <1>1, <1>2, <1>3, ConcatProperties

(* Nothing on the way, in the map or in the LED changes. *)
LEMMA NothingMoves ==
  ASSUME ChannelInv, ChannelInv', Way' = Way, \A k \in Keys \ {"S"} : Left'[k] = Left[k],
         NEW n \in 1..3, WantedFor(n)' = WantedFor(n), ledStatus' = ledStatus
  PROVE  ChannelStep(n)
<1>1. "L" \in Keys \ {"S"} /\ LedKeys[n] \in Keys \ {"S"}
  BY DEF Keys, LedKeys
<1>2. Queue(Way', Left', n) = Queue(Way, Left, n)
  <2>1. Left'["L"] = Left["L"] /\ Left'[LedKeys[n]] = Left[LedKeys[n]]
    BY <1>1
  <2> QED BY <2>1 DEF Queue
<1> QED BY <1>2, QueueNow, QueueNext DEF ChannelStep, ChannelSame

(* The bytes move nearer to the firmware, or nothing does. *)
LEMMA WayKept ==
  ASSUME ChannelInv, Way' = Way, UNCHANGED <<safeSendMap, sending, client, modelLed, ledStatus>>
  PROVE  ChannelInv' /\ \A n \in 1..3 : ChannelStep(n)
<1>1. ChannelInv'
  BY DEF ChannelInv
<1>2. \A k \in Keys \ {"S"} : Left'[k] = Left[k]
  BY DEF Left, Unsent
<1>3. ASSUME NEW n \in 1..3 PROVE ChannelStep(n)
  <2>1. WantedFor(n)' = WantedFor(n)
    BY DEF WantedFor
  <2> QED BY <1>1, <1>2, <2>1, NothingMoves
<1> QED BY <1>1, <1>3

LEMMA FourParts ==
  ASSUME NEW r \in Seq(Byte), NEW s \in Seq(Byte), NEW h \in Seq(Byte), NEW f \in Seq(Byte)
  PROVE  Cat(Cat(r, s), Cat(h, f)) = Cat(Cat(r, Cat(s, h)), f)
<1>1. PICK w \in Seq(Byte) : w = Cat(r, s)
  BY Concatenated
<1>2. Cat(w, Cat(h, f)) = Cat(Cat(w, h), f) /\ Cat(r, Cat(s, h)) = Cat(Cat(r, s), h)
  BY Concatenated
<1> QED BY <1>1, <1>2

LEMMA DeliverDownChannel ==
  ASSUME LinkTypeOK, ChannelInv, DeliverDown
  PROVE  ChannelInv' /\ \A n \in 1..3 : ChannelStep(n)
<1>1. /\ air # <<>> /\ serialIn' = serialIn \o Head(air) /\ air' = Tail(air)
      /\ UNCHANGED <<rx, ledStatus, safeSendMap, sending, client, modelLed>>
  BY DEF DeliverDown
<1>2. /\ rx \in Seq(Byte) /\ serialIn \in Seq(Byte) /\ air \in Seq(Seq(Byte))
  BY WayTyped
<1>3. PICK h \in Seq(Byte), t \in Seq(Seq(Byte)) : h = Head(air) /\ t = Tail(air)
  BY <1>1, <1>2, HeadTailProperties
<1>4. air = <<h>> \o t /\ <<h>> \in Seq(Seq(Byte))
  <2>1. <<>> \o air = air /\ <<>> \in Seq(Seq(Byte)) /\ Append(<<>>, h) = <<h>>
    BY <1>2, ConcatEmptySeq
  <2>2. Append(<<>>, Head(air)) \o Tail(air) = <<>> \o air
    BY <1>1, <1>2, <2>1, ByteRead
  <2> QED BY <2>1, <2>2, <1>3
<1>5. PICK f \in Seq(Byte) : f = FlattenSeq(t)
  BY FlattenJoined
<1>6. FlattenSeq(air) = h \o f
  <2>1. PICK p \in Seq(Seq(Byte)) : p = <<h>>
    BY <1>4
  <2>2. FlattenSeq(p \o t) = FlattenSeq(p) \o FlattenSeq(t)
    BY FlattenJoined
  <2>3. FlattenSeq(p) = h
    BY <2>1, FlattenOne
  <2> QED BY <2>1, <2>2, <2>3, <1>4, <1>5
<1>7. PICK r \in Seq(Byte), s \in Seq(Byte) : r = rx /\ s = serialIn
  BY <1>2
<1>8. Cat(Cat(r, s), Cat(h, f)) = Cat(Cat(r, Cat(s, h)), f)
  BY FourParts
<1>9. Way' = Way
  BY <1>1, <1>3, <1>5, <1>6, <1>7, <1>8 DEF Way, Cat
<1> QED BY <1>1, <1>9, WayKept

(* The message that the firmware has read is a frame. *)
LEMMA FrameMade ==
  ASSUME NEW r \in Seq(Byte),
         \/ Len(r) = 1 /\ r[1] \in ModeCmds
         \/ Len(r) = 2 /\ r[1] \in LedCmds /\ r[2] \in 0..254
  PROVE  LET m == Append(r, FRAME_END) IN
         /\ ModeFrame(m) \/ LedFrame(m)
         /\ m \in Seq(Byte) /\ m # <<>> /\ m[1] = r[1]
         /\ r[1] \in LedCmds => m[2] \in 0..254
<1> DEFINE m == Append(r, FRAME_END)
<1>1. FRAME_END \in Byte /\ Len(r) \in Nat
  BY LenProperties DEF FRAME_END, Byte
<1>2. /\ m \in Seq(Byte) /\ m # <<>> /\ Len(m) = Len(r) + 1
      /\ \A i \in 1..Len(r) : m[i] = r[i]
      /\ m[Len(r) + 1] = FRAME_END
  BY <1>1, AppendProperties
<1> HIDE DEF m
<1>3. CASE Len(r) = 1 /\ r[1] \in ModeCmds
  <2>1. Len(m) = 2 /\ m[1] = r[1] /\ m[2] = FRAME_END
    BY <1>2, <1>3
  <2>2. m = <<r[1], FRAME_END>>
    BY <2>1, <1>2
  <2>3. ModeFrame(m)
    BY <2>2, <1>3 DEF ModeFrame, ModeCmds
  <2>4. r[1] \notin LedCmds
    BY <1>3 DEF ModeCmds, LedCmds, ACTIVE_MODE_CMD, MUTE_MODE_CMD
  <2> QED BY <2>1, <2>3, <2>4, <1>2 DEF m
<1>4. CASE Len(r) = 2 /\ r[1] \in LedCmds /\ r[2] \in 0..254
  <2>1. Len(m) = 3 /\ m[1] = r[1] /\ m[2] = r[2] /\ m[3] = FRAME_END
    BY <1>2, <1>4
  <2>2. m = <<r[1], r[2], FRAME_END>>
    BY <2>1, <1>2
  <2>3. LedFrame(m)
    BY <2>2, <1>4 DEF LedFrame
  <2> QED BY <2>1, <2>3, <1>4, <1>2 DEF m
<1> QED BY <1>3, <1>4

(* The bytes behind a frame. *)
LEMMA FrameSplit ==
  ASSUME NEW r \in Seq(Byte), NEW s \in Seq(Byte), NEW f \in Seq(Byte), s # <<>>
  PROVE  /\ Tail(s) \in Seq(Byte) /\ Cat(Tail(s), f) \in Seq(Byte)
         /\ Append(r, Head(s)) \in Seq(Byte)
         /\ Cat(s, f) # <<>> /\ Head(Cat(s, f)) = Head(s) /\ Tail(Cat(s, f)) = Cat(Tail(s), f)
         /\ Cat(r, Cat(s, f)) = Cat(Append(r, Head(s)), Cat(Tail(s), f))
         /\ Cat(Cat(r, s), f) = Cat(r, Cat(s, f))
<1>1. PICK e \in Byte, t \in Seq(Byte) : e = Head(s) /\ t = Tail(s)
  BY HeadTailProperties
<1>2. PICK o \in Seq(Byte) : o = <<e>>
  <2>1. <<e>> \in Seq(Byte)
    BY <1>1
  <2> QED BY <2>1
<1>3. s = Cat(o, t)
  <2>1. <<>> \o s = s /\ <<>> \in Seq(Byte) /\ Append(<<>>, e) = <<e>>
    BY ConcatEmptySeq
  <2>2. Append(<<>>, Head(s)) \o Tail(s) = <<>> \o s
    BY <2>1, ByteRead
  <2> QED BY <2>1, <2>2, <1>1, <1>2 DEF Cat
<1>4. PICK v \in Seq(Byte) : v = Cat(t, f)
  BY Concatenated
<1>5. Cat(s, f) = Cat(o, v)
  BY <1>3, <1>4, Concatenated
<1>6. PICK u \in Seq(Byte) : u = Cat(s, f)
  BY Concatenated
<1>7. u # <<>> /\ Head(u) = e /\ Tail(u) = v
  <2>1. Len(o) = 1 /\ o[1] = e
    BY <1>2
  <2>2. /\ Len(u) = 1 + Len(v) /\ Len(v) \in Nat /\ u[1] = e
        /\ \A i \in 1..Len(v) : u[1 + i] = v[i]
    <3>1. 1 \in 1..Len(o)
      BY <2>1
    <3>2. u = o \o v
      BY <1>5, <1>6 DEF Cat
    <3>3. /\ Len(u) = Len(o) + Len(v) /\ Len(v) \in Nat
          /\ \A i \in 1..Len(o) : u[i] = o[i]
          /\ \A i \in 1..Len(v) : u[Len(o) + i] = v[i]
      BY <3>2, Joined
    <3> QED BY <2>1, <3>1, <3>3
  <2>3. u # <<>>
    BY <2>2, EmptySeq
  <2>4. PICK x \in Seq(Byte) : x = Tail(u)
    BY <2>3, HeadTailProperties
  <2>5. Head(u) = u[1] /\ Len(x) = Len(u) - 1 /\ \A i \in 1..Len(x) : x[i] = u[i + 1]
    BY <2>3, <2>4, HeadTailProperties
  <2>6. Len(x) = Len(v) /\ \A i \in 1..Len(v) : x[i] = v[i]
    <3>1. Len(x) = Len(v)
      BY <2>2, <2>5
    <3>2. ASSUME NEW i \in 1..Len(v) PROVE x[i] = v[i]
      <4>1. i + 1 = 1 + i
        BY <2>2
      <4> QED BY <4>1, <3>1, <2>2, <2>5
    <3> QED BY <3>1, <3>2
  <2>7. x = v
    BY <2>6, SeqEqual
  <2> QED BY <2>2, <2>3, <2>4, <2>5, <2>7
<1>8. PICK m \in Seq(Byte) : m = Append(r, e) /\ m = Cat(r, o)
  <2>1. Append(r, e) \in Seq(Byte) /\ Append(r, e) = r \o <<e>>
    BY AppendProperties, AppendIsConcat
  <2> QED BY <2>1, <1>2 DEF Cat
<1>9. Cat(r, Cat(o, v)) = Cat(m, v)
  BY <1>8, Concatenated
<1>10. Cat(Cat(r, s), f) = Cat(r, Cat(s, f))
  BY Concatenated
<1> QED BY <1>1, <1>4, <1>5, <1>6, <1>7, <1>8, <1>9, <1>10

(* A LED shows what a frame that is for it says, and nothing else. *)
LEMMA LedShows ==
  ASSUME NEW m, ProcessMessage(m), ledStatus \in [1..3 -> 0..254], m # <<>>,
         ModeFrame(m) \/ LedFrame(m), NEW n \in 1..3
  PROVE  \/ Word(m, n) = <<>> /\ ledStatus'[n] = ledStatus[n]
         \/ Word(m, n) = <<m[2]>> /\ ledStatus'[n] = m[2]
<1>1. ledStatus' = IF LedMessage(m) THEN ToggledLeds(m) ELSE ledStatus
  BY DEF ProcessMessage
<1>2. CASE m[1] \in {LED_CMD, LEDn_CMD[n]}
  <2>1. LedMessage(m)
    BY <1>2 DEF LedMessage, IsLedCmd
  <2>2. m[2] # 255
    <3>1. CASE LedFrame(m)
      BY <3>1 DEF LedFrame
    <3>2. CASE ModeFrame(m)
      <4>1. m[1] \in ModeCmds /\ m[1] \in LedCmds
        BY <3>2, <1>2, LedCommand DEF ModeFrame, ModeCmds
      <4> QED BY <4>1 DEF ModeCmds, LedCmds, ACTIVE_MODE_CMD, MUTE_MODE_CMD
    <3> QED BY <3>1, <3>2
  <2>3. ledStatus' = [i \in 1..3 |-> IF m[1] = LED_CMD \/ IsLedCmd(m, i) THEN m[2] ELSE ledStatus[i]]
    BY <1>1, <2>1, <2>2 DEF ToggledLeds
  <2>4. ledStatus'[n] = m[2]
    BY <2>3, <1>2 DEF IsLedCmd
  <2>5. Word(m, n) = <<m[2]>>
    BY <1>2 DEF Word
  <2> QED BY <2>4, <2>5
<1>3. CASE m[1] \notin {LED_CMD, LEDn_CMD[n]}
  <2>1. Word(m, n) = <<>>
    BY <1>3 DEF Word
  <2>2. ASSUME LedMessage(m) PROVE ledStatus'[n] = ledStatus[n]
    <3>1. CASE m[2] = 255
      BY <3>1, <2>2, <1>1 DEF ToggledLeds
    <3>2. CASE m[2] # 255
      <4>1. ledStatus' = [i \in 1..3 |-> IF m[1] = LED_CMD \/ IsLedCmd(m, i) THEN m[2] ELSE ledStatus[i]]
        BY <1>1, <2>2, <3>2 DEF ToggledLeds
      <4> QED BY <4>1, <1>3 DEF IsLedCmd
    <3> QED BY <3>1, <3>2
  <2> QED BY <2>1, <2>2, <1>1
<1> QED BY <1>2, <1>3

LEMMA ThreeBehind ==
  ASSUME NEW w \in Seq(Byte), NEW v \in Seq(Byte), NEW a \in Seq(Byte), NEW b \in Seq(Byte)
  PROVE  Cat(Cat(Cat(w, v), a), b) = Cat(w, Cat(Cat(v, a), b))
<1>1. PICK x \in Seq(Byte) : x = Cat(v, a)
  BY Concatenated
<1>2. Cat(Cat(w, v), a) = Cat(w, x)
  BY <1>1, Concatenated
<1>3. Cat(Cat(w, x), b) = Cat(w, Cat(x, b))
  BY Concatenated
<1> QED BY <1>1, <1>2, <1>3

LEMMA OneInFront ==
  ASSUME NEW v, NEW q \in Seq(Byte), <<v>> \in Seq(Byte)
  PROVE  Cat(<<v>>, q) # <<>> /\ Cat(<<>>, q) = q
<1>1. Cat(<<>>, q) = q
  BY ConcatEmptySeq DEF Cat
<1>2. PICK o \in Seq(Byte) : o = <<v>>
  OBVIOUS
<1>3. Len(o) = 1
  BY <1>2
<1>4. Len(o \o q) = 1 + Len(q) /\ Len(q) \in Nat
  <2>1. Len(o \o q) = Len(o) + Len(q) /\ Len(q) \in Nat
    BY Joined
  <2> QED BY <2>1, <1>3
<1>5. Len(<<>>) = 0
  OBVIOUS
<1> QED BY <1>1, <1>2, <1>4, <1>5 DEF Cat

LEMMA ReadByteChannel ==
  ASSUME LinkTypeOK, DownInv, ChannelInv, ReadByte, UNCHANGED proxyVars
  PROVE  ChannelInv' /\ \A n \in 1..3 : ChannelStep(n)
<1>0. UNCHANGED <<air, safeSendMap, sending, client, modelLed>>
  BY DEF proxyVars
<1>1. rx \in Seq(Byte) /\ serialIn \in Seq(Byte) /\ serialIn # <<>> /\ serialIn' = Tail(serialIn)
  BY WayTyped DEF ReadByte
<1>2. PICK f \in Seq(Byte) : f = FlattenSeq(air)
  BY WayTyped
<1>3. CASE Head(serialIn) # FRAME_END
  <2>1. rx' = Append(rx, Head(serialIn)) /\ UNCHANGED ledStatus
    BY <1>3 DEF ReadByte
  <2>2. rx' \o serialIn' = rx \o serialIn
    BY <2>1, <1>1, ByteRead
  <2>3. Way' = Way
    BY <2>2, <1>0 DEF Way
  <2> QED BY <2>1, <2>3, <1>0, WayKept
<1>4. CASE Head(serialIn) = FRAME_END
  <2>1. rx' = <<>> /\ ProcessMessage(Append(rx, FRAME_END))
    BY <1>4 DEF ReadByte
  <2>2. PICK m \in Seq(Byte), v \in Seq(Byte), u \in Seq(Byte) :
          m = Append(rx, Head(serialIn)) /\ v = Cat(Tail(serialIn), f) /\ u = Cat(serialIn, f)
    <3>1. Append(rx, Head(serialIn)) \in Seq(Byte) /\ Cat(Tail(serialIn), f) \in Seq(Byte)
      BY <1>1, FrameSplit
    <3>2. Cat(serialIn, f) \in Seq(Byte)
      BY <1>1, Concatenated
    <3> QED BY <3>1, <3>2
  <2>a. m = Append(rx, FRAME_END)
    BY <2>2, <1>4
  <2>3. /\ Tail(serialIn) \in Seq(Byte) /\ u # <<>> /\ Head(u) = FRAME_END /\ Tail(u) = v
        /\ Cat(rx, u) = Cat(m, v) /\ Cat(Cat(rx, serialIn), f) = Cat(rx, u)
    <3>1. PICK r \in Seq(Byte), s \in Seq(Byte) : r = rx /\ s = serialIn
      BY <1>1
    <3>2. s # <<>>
      BY <1>1, <3>1
    <3>3. /\ Tail(s) \in Seq(Byte) /\ Cat(s, f) # <<>> /\ Head(Cat(s, f)) = Head(s)
          /\ Tail(Cat(s, f)) = Cat(Tail(s), f)
          /\ Cat(r, Cat(s, f)) = Cat(Append(r, Head(s)), Cat(Tail(s), f))
          /\ Cat(Cat(r, s), f) = Cat(r, Cat(s, f))
      BY <3>2, FrameSplit, SMTT(60)
    <3> QED BY <3>1, <3>3, <2>2, <1>4
  <2>4. Way = rx \o u /\ Way = m \o v
    BY <2>3, <1>2 DEF Way, Cat
  <2>5. Way' = v
    <3>1. <<>> \o Tail(serialIn) = Tail(serialIn)
      BY <2>3, ConcatEmptySeq
    <3> QED BY <3>1, <2>1, <2>2, <1>0, <1>1, <1>2 DEF Way, Cat
  <2>6. Stream(rx \o u) /\ \A i \in 1..Len(rx) : rx[i] # FRAME_END
    BY <2>4 DEF ChannelInv, DownInv
  <2>7. /\ \/ Len(rx) = 1 /\ rx[1] \in ModeCmds
           \/ Len(rx) = 2 /\ rx[1] \in LedCmds /\ rx[2] \in 0..254
        /\ Stream(v)
    BY <2>3, <2>6, <1>1, FrameRead
  <2>8. (ModeFrame(m) \/ LedFrame(m)) /\ m # <<>>
    BY <2>a, <2>7, <1>1, FrameMade
  <2>9. ChannelInv'
    BY <2>5, <2>7, <1>0 DEF ChannelInv
  <2>10. ASSUME NEW n \in 1..3 PROVE ChannelStep(n)
    <3>1. /\ ValuesFor(n) = Queue(Way, Left, n)
          /\ Word(Left["L"], n) \in Seq(Byte) /\ Word(Left[LedKeys[n]], n) \in Seq(Byte)
      BY QueueNow
    <3>2. PICK a \in Seq(Byte), b \in Seq(Byte) : a = Word(Left["L"], n) /\ b = Word(Left[LedKeys[n]], n)
      BY <3>1
    <3>3. PICK w \in Seq(Byte), q \in Seq(Byte) :
            w = Word(m, n) /\ q = ValuesIn(v, n) /\ ValuesIn(Way, n) = Cat(w, q)
      <4>1. Stream(m) /\ ValuesIn(m, n) = Word(m, n)
        BY <2>8, FrameIsStream, FrameSays
      <4>2. /\ ValuesIn(m, n) \in Seq(Byte) /\ ValuesIn(v, n) \in Seq(Byte)
            /\ ValuesIn(m \o v, n) = ValuesIn(m, n) \o ValuesIn(v, n)
        BY <4>1, <2>7, ValuesJoin
      <4> QED BY <4>1, <4>2, <2>4 DEF Cat
    <3>4. ValuesFor(n) = Cat(Cat(Cat(w, q), a), b)
      BY <3>1, <3>2, <3>3 DEF Queue, Cat
    <3>5. ValuesFor(n)' = Cat(Cat(q, a), b)
      <4>1. Left' = Left
        BY <1>0 DEF Left, Unsent
      <4>2. ValuesFor(n)' = Queue(v, Left, n)
        BY <4>1, <2>5, <2>9, QueueNext
      <4> QED BY <4>2, <3>2, <3>3 DEF Queue, Cat
    <3>6. PICK x \in Seq(Byte) : x = Cat(Cat(q, a), b)
      <4>1. PICK y \in Seq(Byte) : y = Cat(q, a)
        BY Concatenated
      <4> QED BY <4>1, Concatenated
    <3>7. ValuesFor(n) = Cat(w, x) /\ ValuesFor(n)' = x
      BY <3>4, <3>5, <3>6, ThreeBehind
    <3>8. WantedFor(n)' = WantedFor(n)
      BY <1>0 DEF WantedFor
    <3>9. \/ w = <<>> /\ ledStatus'[n] = ledStatus[n]
          \/ w = <<m[2]>> /\ ledStatus'[n] = m[2]
      <4>1. ledStatus \in [1..3 -> 0..254]
        BY DEF LinkTypeOK, FirmwareTypeOK
      <4> QED BY <4>1, <2>1, <2>a, <2>8, <3>3, LedShows
    <3>10. CASE w = <<>> /\ ledStatus'[n] = ledStatus[n]
      <4>1. Cat(w, x) = x
        BY <3>10, ConcatEmptySeq DEF Cat
      <4> QED BY <4>1, <3>7, <3>8, <3>10 DEF ChannelStep, ChannelSame
    <3>11. CASE w = <<m[2]>> /\ ledStatus'[n] = m[2]
      <4>1. PICK l : l = m[2]
        OBVIOUS
      <4>2. w = <<l>> /\ ledStatus'[n] = l
        BY <4>1, <3>11
      <4>3. Cat(<<l>>, x) # <<>>
        BY <4>2, OneInFront
      <4> QED BY <4>2, <4>3, <3>7, <3>8 DEF ChannelStep, ChannelShow, Cat
    <3> QED BY <3>9, <3>10, <3>11
  <2> QED BY <2>9, <2>10
<1> QED BY <1>3, <1>4

(* What a client sets for LED n goes behind its values or replaces the last. *)
LEMMA SetChannel ==
  ASSUME LinkTypeOK, ChannelInv, 255 \notin Levels, ~ MayMixKeys, ~ MaySetDuringTick,
         FastTriggerLed, UNCHANGED firmwareVars
  PROVE  ChannelInv' /\ \A n \in 1..3 : ChannelStep(n)
<1>1. PICK k \in Settable, level \in Levels : SafeSendMsg(k, level)
  BY DEF FastTriggerLed
<1>2. k \in Keys \ {"S"} /\ (k = "L" => \A x \in {"L1", "L2", "L3"} : safeSendMap[x] = <<>>)
  BY DEF Settable, LedKeys, ToSet, Keys
<1>3. level \in 0..254 /\ level \in Byte
  <2>1. level \in 0..255 /\ level # 255
    BY ProxyAssumption
  <2> QED BY <2>1 DEF Byte
<1>4. client = NoSet /\ sending = "none"
  BY DEF FastTriggerLed, MayStartSet
<1>5. /\ safeSendMap' = [safeSendMap EXCEPT ![k] = PrepareMsg(k, level)]
      /\ client' = [key |-> k, value |-> level]
      /\ UNCHANGED <<sending, air, modelLed, rx, serialIn, ledStatus>>
  BY <1>1 DEF SafeSendMsg, firmwareVars
<1>6. PrepareMsg(k, level) = KeyMessage(k, level)
  <2>1. k # "S"
    BY <1>2
  <2> QED BY <2>1 DEF PrepareMsg, KeyMessage, FrameEnd, FRAME_END
<1>7. \A x \in Keys : safeSendMap'[x] = IF x = k THEN KeyMessage(k, level) ELSE safeSendMap[x]
  BY <1>5, <1>6, WayTyped
<1>8. Way' = Way
  BY <1>5 DEF Way
<1>9. \A x \in Keys : Left[x] = safeSendMap[x] /\ Left'[x] = safeSendMap'[x]
  <2>1. "none" \notin Keys
    BY DEF Keys
  <2> QED BY <2>1, <1>4, <1>5 DEF Left, Unsent
<1>10. ChannelInv'
  <2>1. \A x \in Keys \ {"S"} : KeyFrame(x, safeSendMap'[x])
    <3>1. KeyFrame(k, KeyMessage(k, level))
      BY <1>3 DEF KeyFrame
    <3>2. \A x \in Keys \ {"S"} : KeyFrame(x, safeSendMap[x])
      BY DEF ChannelInv
    <3> QED BY <3>1, <3>2, <1>7
  <2> QED BY <2>1, <1>8 DEF ChannelInv
<1>11. ASSUME NEW n \in 1..3 PROVE ChannelStep(n)
  <2>0. /\ LedKeys[n] \in Keys \ {"S", "L"} /\ "L" \in Keys \ {"S"} /\ LedKeys[n] # "L"
        /\ LedKeys[n] \in {"L1", "L2", "L3"}
    BY DEF LedKeys, Keys
  <2>1. /\ ValuesFor(n) = Queue(Way, Left, n) /\ ValuesIn(Way, n) \in Seq(Byte)
        /\ Word(Left["L"], n) \in Seq(Byte) /\ Word(Left[LedKeys[n]], n) \in Seq(Byte)
    BY QueueNow
  <2>2. ValuesFor(n)' = Queue(Way, Left', n)
    BY <1>8, <1>10, QueueNext
  <2>3. PICK v \in Seq(Byte), a \in Seq(Byte), b \in Seq(Byte) :
          v = ValuesIn(Way, n) /\ a = Word(Left["L"], n) /\ b = Word(Left[LedKeys[n]], n)
    BY <2>1
  <2>4. PICK q \in Seq(Byte) : q = v \o a
    BY ConcatProperties
  <2>5. /\ a = <<>> \/ \E x \in Byte : a = <<x>>
        /\ b = <<>> \/ \E x \in Byte : b = <<x>>
    <3>1. KeyFrame("L", Left["L"]) /\ KeyFrame(LedKeys[n], Left[LedKeys[n]])
      BY <2>0, LeftFrames
    <3> QED BY <3>1, <2>0, <2>3, KeySpeaks
  <2>6. ValuesFor(n) = q \o b
    BY <2>1, <2>3, <2>4 DEF Queue
  <2>7. v \o <<>> = v /\ q \o <<>> = q
    BY ConcatEmptySeq
  <2>8. WantedFor(n) = modelLed[n] /\ WantedFor(n)' = IF k \in {"L", LedKeys[n]} THEN level ELSE modelLed[n]
    <3>1. WantedFor(n) = modelLed[n]
      <4>1. client.key = "none"
        BY <1>4 DEF NoSet
      <4> QED BY <4>1, <2>0 DEF WantedFor, Keys
    <3>2. client'.key = k /\ client'.value = level
      BY <1>5
    <3> QED BY <3>1, <3>2, <1>5 DEF WantedFor
  <2>9. k \in {"L", LedKeys[n]} => Word(KeyMessage(k, level), n) = <<level>>
    <3>1. PICK j \in Keys \ {"S"}, l \in 0..254 : j = k /\ l = level
      BY <1>2, <1>3, SMTT(60)
    <3>2. /\ LedFrame(KeyMessage(j, l))
          /\ j \in {"L", LedKeys[n]} => Word(KeyMessage(j, l), n) = <<l>>
          /\ j \notin {"L", LedKeys[n]} => Word(KeyMessage(j, l), n) = <<>>
      BY KeySays, ZenonT(60)
    <3> QED BY <3>1, <3>2
  <2>10. CASE k = "L"
    <3>1. b = <<>> /\ Left'[LedKeys[n]] = <<>>
      <4>1. safeSendMap[LedKeys[n]] = <<>>
        BY <2>10, <2>0, <1>2
      <4> QED BY <4>1, <2>0, <2>3, <2>10, <1>7, <1>9 DEF Word
    <3>2. Word(Left'["L"], n) = <<level>> /\ Word(Left'[LedKeys[n]], n) = <<>>
      BY <3>1, <2>0, <2>9, <2>10, <1>7, <1>9 DEF Word
    <3>3. ValuesFor(n)' = v \o <<level>>
      <4>1. ValuesFor(n)' = (v \o <<level>>) \o <<>>
        BY <2>2, <2>3, <3>2 DEF Queue
      <4>2. PICK y \in Seq(Byte) : y = v \o <<level>>
        <5>1. v \o <<level>> = Append(v, level) /\ Append(v, level) \in Seq(Byte)
          BY <1>3, AppendIsConcat, AppendProperties
        <5> QED BY <5>1
      <4>3. y \o <<>> = y
        BY ConcatEmptySeq
      <4> QED BY <4>1, <4>2, <4>3
    <3>4. ValuesFor(n) = v \o a
      BY <2>4, <2>6, <2>7, <3>1
    <3>5. ValuesFor(n)' \in Replaced(ValuesFor(n), level)
      BY <3>3, <3>4, <2>5, <1>3, BehindOrReplaced
    <3> QED BY <3>5, <2>8, <2>10, <1>5 DEF ChannelStep, ChannelSet
  <2>11. CASE k = LedKeys[n]
    <3>1. Left'["L"] = Left["L"] /\ Word(Left'[LedKeys[n]], n) = <<level>>
      BY <2>0, <2>9, <2>11, <1>7, <1>9
    <3>2. ValuesFor(n)' = q \o <<level>>
      BY <2>2, <2>3, <2>4, <3>1 DEF Queue
    <3>3. ValuesFor(n)' \in Replaced(ValuesFor(n), level)
      BY <3>2, <2>5, <2>6, <1>3, BehindOrReplaced
    <3> QED BY <3>3, <2>8, <2>11, <1>5 DEF ChannelStep, ChannelSet
  <2>12. CASE k \notin {"L", LedKeys[n]}
    <3>1. Left'["L"] = Left["L"] /\ Left'[LedKeys[n]] = Left[LedKeys[n]]
      BY <2>0, <2>12, <1>7, <1>9
    <3>2. ValuesFor(n)' = ValuesFor(n)
      BY <2>1, <2>2, <3>1 DEF Queue
    <3> QED BY <3>2, <2>8, <2>12, <1>5 DEF ChannelStep, ChannelSame
  <2> QED BY <2>10, <2>11, <2>12
<1> QED BY <1>10, <1>11

(* The mode, and the model, are not for the LEDs. *)
LEMMA ModeChannel ==
  ASSUME LinkTypeOK, ChannelInv, ~ MaySetDuringTick, SetState, UNCHANGED firmwareVars
  PROVE  ChannelInv' /\ \A n \in 1..3 : ChannelStep(n)
<1>1. PICK state \in {"active", "mute"} : SafeSendMsg("S", state)
  BY DEF SetState
<1>2. client = NoSet
  BY DEF SetState, MayStartSet
<1>3. /\ safeSendMap' = [safeSendMap EXCEPT !["S"] = PrepareMsg("S", state)]
      /\ client' = [key |-> "S", value |-> state]
      /\ UNCHANGED <<sending, air, modelLed, rx, serialIn, ledStatus>>
  BY <1>1 DEF SafeSendMsg, firmwareVars
<1>4. \A x \in Keys \ {"S"} : safeSendMap'[x] = safeSendMap[x]
  BY <1>3, WayTyped
<1>5. Way' = Way
  BY <1>3 DEF Way
<1>6. ChannelInv'
  BY <1>4, <1>5 DEF ChannelInv
<1>7. \A x \in Keys \ {"S"} : Left'[x] = Left[x]
  BY <1>3, <1>4 DEF Left, Unsent
<1>8. ASSUME NEW n \in 1..3 PROVE ChannelStep(n)
  <2>1. WantedFor(n)' = WantedFor(n)
    <3>1. client.key = "none" /\ client'.key = "S"
      BY <1>2, <1>3 DEF NoSet
    <3>2. "none" \notin {"L", LedKeys[n]} /\ "S" \notin {"L", LedKeys[n]}
      BY DEF LedKeys
    <3> QED BY <3>1, <3>2, <1>3 DEF WantedFor
  <2> QED BY <2>1, <1>3, <1>5, <1>6, <1>7, NothingMoves
<1> QED BY <1>6, <1>8

LEMMA ModelChannel ==
  ASSUME ChannelInv, SetModel, UNCHANGED firmwareVars
  PROVE  ChannelInv' /\ \A n \in 1..3 : ChannelStep(n)
<1>1. /\ client' = NoSet
      /\ modelLed' = [n \in 1..3 |-> IF client.key \in {"L", LedKeys[n]} THEN client.value ELSE modelLed[n]]
      /\ UNCHANGED <<safeSendMap, sending, air, rx, serialIn, ledStatus>>
  BY DEF SetModel, firmwareVars
<1>2. Way' = Way /\ \A x \in Keys \ {"S"} : Left'[x] = Left[x]
  BY <1>1 DEF Way, Left, Unsent
<1>3. ChannelInv'
  BY <1>1, <1>2 DEF ChannelInv
<1>4. ASSUME NEW n \in 1..3 PROVE ChannelStep(n)
  <2>1. WantedFor(n)' = WantedFor(n)
    <3>1. client'.key \notin {"L", LedKeys[n]}
      BY <1>1 DEF NoSet, LedKeys
    <3>2. modelLed'[n] = WantedFor(n)
      BY <1>1 DEF WantedFor
    <3> QED BY <3>1, <3>2 DEF WantedFor
  <2> QED BY <2>1, <1>1, <1>2, <1>3, NothingMoves
<1> QED BY <1>3, <1>4

(* A message that tick() sends goes from the map to the end of the way. *)
LEMMA SentBehind ==
  ASSUME NEW w \in Seq(Byte), NEW a \in Seq(Seq(Byte)), NEW m \in Seq(Byte)
  PROVE  w \o FlattenSeq(Append(a, m)) = (w \o FlattenSeq(a)) \o m
<1>1. PICK p \in Seq(Seq(Byte)) : p = <<m>> /\ Append(a, m) = a \o p
  <2>1. <<m>> \in Seq(Seq(Byte)) /\ Append(a, m) = a \o <<m>>
    BY AppendIsConcat
  <2> QED BY <2>1
<1>2. FlattenSeq(a \o p) = FlattenSeq(a) \o FlattenSeq(p) /\ FlattenSeq(p) = m
  BY <1>1, FlattenJoined, FlattenOne
<1>3. PICK f \in Seq(Byte) : f = FlattenSeq(a)
  BY FlattenJoined
<1>4. Cat(w, Cat(f, m)) = Cat(Cat(w, f), m)
  BY Concatenated
<1> QED BY <1>1, <1>2, <1>3, <1>4 DEF Cat

LEMMA SendChannel ==
  ASSUME LinkTypeOK, DownInv, ChannelInv, TickSend, UNCHANGED firmwareVars
  PROVE  ChannelInv' /\ \A n \in 1..3 : ChannelStep(n)
<1>1. PICK i \in 1..5 : /\ Waiting(KeySeq[i]) /\ \A j \in 1..(i - 1) : ~ Waiting(KeySeq[j])
                        /\ sending' = KeySeq[i] /\ air' = Append(air, safeSendMap[KeySeq[i]])
  BY DEF TickSend
<1>2. sending = "none" /\ UNCHANGED <<safeSendMap, client, modelLed, rx, serialIn, ledStatus>>
  BY DEF TickSend, firmwareVars
<1>3. PICK k \in Keys : k = KeySeq[i]
  BY DEF KeySeq, Keys
<1>4. PICK m \in Seq(Byte) : m = safeSendMap[k]
  BY WayTyped
<1>5. ModeFrame(m) \/ LedFrame(m)
  BY <1>1, <1>3, <1>4 DEF DownInv, Waiting
<1>6. k \in Keys \ {"S", "L"} => safeSendMap["L"] = <<>>
  <2>1. KeySeq[1] = "L" /\ (k # "L" => i # 1)
    BY <1>3 DEF KeySeq
  <2> QED BY <2>1, <1>1 DEF Waiting
<1>7. Way' = Way \o m
  BY <1>1, <1>2, <1>3, <1>4, WayTyped, SentBehind DEF Way
<1>8. Stream(m) /\ Stream(Way')
  BY <1>5, <1>7, FrameIsStream, StreamsJoin DEF ChannelInv
<1>9. ChannelInv'
  BY <1>2, <1>8 DEF ChannelInv
<1>10. \A x \in Keys : Left[x] = safeSendMap[x] /\ Left'[x] = (IF x = k THEN <<>> ELSE safeSendMap[x])
  <2>1. "none" \notin Keys
    BY DEF Keys
  <2> QED BY <2>1, <1>1, <1>2, <1>3 DEF Left, Unsent
<1>11. ASSUME NEW n \in 1..3 PROVE ChannelStep(n)
  <2>0. /\ LedKeys[n] \in Keys \ {"S", "L"} /\ "L" \in Keys \ {"S"} /\ LedKeys[n] # "L"
    BY DEF LedKeys, Keys
  <2>1. /\ ValuesFor(n) = Queue(Way, Left, n) /\ ValuesIn(Way, n) \in Seq(Byte)
        /\ Word(Left["L"], n) \in Seq(Byte) /\ Word(Left[LedKeys[n]], n) \in Seq(Byte)
    BY QueueNow
  <2>2. ValuesFor(n)' = Queue(Way', Left', n)
    BY <1>9, QueueNext
  <2>3. PICK v \in Seq(Byte), a \in Seq(Byte), b \in Seq(Byte), w \in Seq(Byte) :
          v = ValuesIn(Way, n) /\ a = Word(Left["L"], n) /\ b = Word(Left[LedKeys[n]], n) /\ w = Word(m, n)
    <3>1. ValuesIn(m, n) \in Seq(Byte) /\ ValuesIn(m, n) = Word(m, n)
      BY <1>5, <1>8, FrameSays, ValuesJoin
    <3> QED BY <2>1, <3>1
  <2>4. ValuesIn(Way', n) = v \o w
    <3>1. ValuesIn(Way \o m, n) = ValuesIn(Way, n) \o ValuesIn(m, n)
      BY <1>8, ValuesJoin, ZenonT(60) DEF ChannelInv
    <3>2. ValuesIn(m, n) = Word(m, n)
      BY <1>5, FrameSays
    <3> QED BY <3>1, <3>2, <2>3, <1>7
  <2>5. ValuesFor(n) = (v \o a) \o b
    BY <2>1, <2>3 DEF Queue
  <2>6. ValuesFor(n)' = ((v \o w) \o Word(Left'["L"], n)) \o Word(Left'[LedKeys[n]], n)
    BY <2>2, <2>4 DEF Queue
  <2>7. Word(<<>>, n) = <<>>
    BY DEF Word
  <2>8. v \o <<>> = v
    BY ConcatEmptySeq
  <2>9. ValuesFor(n)' = ValuesFor(n)
    <3>1. CASE k = "L"
      <4>1. w = a /\ Word(Left'["L"], n) = <<>> /\ Word(Left'[LedKeys[n]], n) = b
        BY <3>1, <2>0, <2>3, <2>7, <1>4, <1>10
      <4>2. PICK x \in Seq(Byte) : x = v \o a
        BY ConcatProperties
      <4>3. x \o <<>> = x
        BY ConcatEmptySeq
      <4> QED BY <4>1, <4>2, <4>3, <2>5, <2>6
    <3>2. CASE k = LedKeys[n]
      <4>1. w = b /\ a = <<>> /\ Word(Left'["L"], n) = <<>> /\ Word(Left'[LedKeys[n]], n) = <<>>
        BY <3>2, <2>0, <2>3, <2>7, <1>4, <1>6, <1>10
      <4>2. PICK x \in Seq(Byte) : x = v \o b
        BY ConcatProperties
      <4>3. x \o <<>> = x
        BY ConcatEmptySeq
      <4> QED BY <4>1, <4>2, <4>3, <2>5, <2>6, <2>8
    <3>3. CASE k \notin {"L", LedKeys[n]}
      <4>1. Word(Left'["L"], n) = a /\ Word(Left'[LedKeys[n]], n) = b
        BY <3>3, <2>0, <2>3, <1>10
      <4>2. w = <<>>
        <5>1. CASE k = "S"
          <6>1. ModeFrame(m)
            BY <5>1, <1>1, <1>3, <1>4 DEF DownInv, Waiting
          <6>2. m[1] \in ModeCmds
            BY <6>1, FrameTyped
          <6>3. m[1] \notin LedCmds
            BY <6>2 DEF ModeCmds, LedCmds, ACTIVE_MODE_CMD, MUTE_MODE_CMD
          <6> QED BY <6>3, <2>3, LedCommand DEF Word
        <5>2. CASE k # "S"
          <6>1. KeyFrame(k, m)
            BY <5>2, <1>4 DEF ChannelInv
          <6> QED BY <6>1, <5>2, <3>3, <2>3, KeySpeaks
        <5> QED BY <5>1, <5>2
      <4> QED BY <4>1, <4>2, <2>5, <2>6, <2>8
    <3> QED BY <3>1, <3>2, <3>3
  <2>10. WantedFor(n)' = WantedFor(n)
    BY <1>2 DEF WantedFor
  <2> QED BY <2>9, <2>10, <1>2 DEF ChannelStep, ChannelSame
<1> QED BY <1>9, <1>11

LEMMA EraseChannel ==
  ASSUME LinkTypeOK, ChannelInv, TickErase, UNCHANGED firmwareVars
  PROVE  ChannelInv' /\ \A n \in 1..3 : ChannelStep(n)
<1>1. /\ safeSendMap' = [safeSendMap EXCEPT ![sending] = <<>>] /\ sending' = "none"
      /\ UNCHANGED <<air, client, modelLed, rx, serialIn, ledStatus>>
  BY DEF TickErase, firmwareVars
<1>2. \A x \in Keys : safeSendMap'[x] = IF x = sending THEN <<>> ELSE safeSendMap[x]
  BY <1>1, WayTyped
<1>3. Way' = Way /\ \A x \in Keys \ {"S"} : Left'[x] = Left[x]
  <2>1. "none" \notin Keys
    BY DEF Keys
  <2> QED BY <2>1, <1>1, <1>2 DEF Way, Left, Unsent
<1>4. ChannelInv'
  BY <1>2, <1>3 DEF ChannelInv, KeyFrame
<1>5. ASSUME NEW n \in 1..3 PROVE ChannelStep(n)
  <2>1. WantedFor(n)' = WantedFor(n)
    BY <1>1 DEF WantedFor
  <2> QED BY <2>1, <1>1, <1>3, <1>4, NothingMoves
<1> QED BY <1>4, <1>5

(* A step that moves nothing of the way down. *)
LEMMA ChannelUntouched ==
  ASSUME ChannelInv, UNCHANGED <<rx, serialIn, air, safeSendMap, sending, client, modelLed, ledStatus>>
  PROVE  ChannelInv' /\ \A n \in 1..3 : ChannelStep(n)
<1>1. Way' = Way
  BY DEF Way
<1> QED BY <1>1, WayKept

LEMMA ChannelsKeep ==
  ASSUME 255 \notin Levels, ~ MayMixKeys, ~ MaySetDuringTick, LinkInv, ChannelInv, [LinkNext]_linkVars
  PROVE  ChannelInv' /\ \A n \in 1..3 : ChannelStep(n)
<1>0. LinkTypeOK /\ DownInv
  BY DEF LinkInv
<1>1. CASE FirmwareStep
  <2>1. UNCHANGED proxyVars /\ (ReadByte \/ SampleButtons \/ TransmitTx)
    BY <1>1 DEF FirmwareStep, LoopStep
  <2>2. CASE ReadByte
    BY <2>1, <2>2, <1>0, ReadByteChannel
  <2>3. CASE SampleButtons \/ TransmitTx
    BY <2>1, <2>3, ChannelUntouched DEF SampleButtons, TransmitTx, proxyVars
  <2> QED BY <2>1, <2>2, <2>3
<1>2. CASE DaemonStep
  <2>1. UNCHANGED firmwareVars /\ (FastTriggerLed \/ SetState \/ SetModel \/ TickSend \/ TickErase)
    BY <1>2 DEF DaemonStep, ProxyStep
  <2> QED BY <2>1, <1>0, SetChannel, ModeChannel, ModelChannel, SendChannel, EraseChannel
<1>3. CASE DeliverDown
  BY <1>0, <1>3, DeliverDownChannel
<1>4. CASE DeliverSome
  BY <1>4, ChannelUntouched DEF DeliverSome, DeliverUp, ReceiveRX
<1>5. CASE MoveSome
  BY <1>5, ChannelUntouched DEF MoveSome, MoveButton, proxyVars
<1>6. CASE ToggleSleep /\ UNCHANGED proxyVars
  BY <1>6, ChannelUntouched DEF ToggleSleep, proxyVars
<1>7. CASE UNCHANGED linkVars
  BY <1>7, ChannelUntouched DEF linkVars, firmwareVars, proxyVars
<1> QED BY <1>1, <1>2, <1>3, <1>4, <1>5, <1>6, <1>7 DEF LinkNext

LEMMA ChannelsStart ==
  ASSUME LinkInit
  PROVE  /\ ChannelInv
         /\ \A n \in 1..3 : WantedFor(n) = 0 /\ ValuesFor(n) = <<>> /\ ledStatus[n] = 0
<1> USE DEF LinkInit, FirmwareInit, ProxyInit
<1>1. Way = <<>>
  <2>1. FlattenSeq(<<>>) = <<>>
    <3>1. <<>> \in Seq(Byte)
      OBVIOUS
    <3> QED BY <3>1, FlattenOne
  <2>2. <<>> \o <<>> = <<>>
    BY ConcatEmptySeq, EmptySeq
  <2> QED BY <2>1, <2>2 DEF Way
<1>2. \A k \in Keys : safeSendMap[k] = <<>> /\ Left[k] = <<>>
  BY KeySet DEF Left, Unsent
<1>3. Stream(Way)
  <2>1. 1 \in 1..3
    OBVIOUS
  <2> QED BY <2>1, <1>1, NothingSaid
<1>4. ChannelInv
  BY <1>2, <1>3 DEF ChannelInv, KeyFrame
<1>5. ASSUME NEW n \in 1..3 PROVE WantedFor(n) = 0 /\ ValuesFor(n) = <<>> /\ ledStatus[n] = 0
  <2>1. WantedFor(n) = 0
    BY DEF WantedFor, NoSet, LedKeys
  <2>2. "L" \in Keys /\ LedKeys[n] \in Keys
    BY DEF LedKeys, Keys
  <2>3. Word(Left["L"], n) = <<>> /\ Word(Left[LedKeys[n]], n) = <<>> /\ ValuesIn(Way, n) = <<>>
    BY <2>2, <1>1, <1>2, NothingSaid DEF Word
  <2>4. ValuesFor(n) = (<<>> \o <<>>) \o <<>>
    BY <2>3, <1>4, QueueNow DEF Queue
  <2>5. <<>> \o <<>> = <<>>
    BY ConcatEmptySeq, EmptySeq
  <2> QED BY <2>1, <2>4, <2>5
<1> QED BY <1>4, <1>5

(* A LED is the channel it promises to be: for any LED intensities below 255, whatever
   the threads, the loop of the firmware and the radio do, the values that the clients
   set reach it in the order they were set, or give way to a newer one in the map, if no
   client sets a value while XBeeRemote::tick is between sendTX and the erasure and
   LED( ) waits until no message for a single LED does (fastTrigger, tick, toggleLED). *)
THEOREM LedsShowWhatIsSet ==
  ASSUME 255 \notin Levels, ~ MayMixKeys, ~ MaySetDuringTick
  PROVE  LinkSpec => LedsAreChannels
<1>1. LinkInit => ChannelInv /\ Channel1!Init /\ Channel2!Init /\ Channel3!Init
  BY ChannelsStart DEF Channel1!Init, Channel2!Init, Channel3!Init
<1>2. LinkInv /\ ChannelInv /\ [LinkNext]_linkVars => ChannelInv'
  BY ChannelsKeep
<1>3. LinkInv /\ ChannelInv /\ [LinkNext]_linkVars =>
        [Channel1!Next]_<<WantedFor(1), ValuesFor(1), ledStatus[1]>>
  <2> SUFFICES ASSUME LinkInv, ChannelInv, [LinkNext]_linkVars
               PROVE  [Channel1!Next]_<<WantedFor(1), ValuesFor(1), ledStatus[1]>>
    OBVIOUS
  <2>1. ChannelStep(1)
    BY ChannelsKeep
  <2>2. \A q : Channel1!Front(q) = Front(q)
    BY DEF Channel1!Front, Front
  <2>3. ASSUME ChannelSet(1) PROVE Channel1!Set
    BY <2>2, <2>3 DEF ChannelSet, Replaced, Channel1!Set
  <2>4. ASSUME ChannelShow(1) PROVE Channel1!Show
    BY <2>4 DEF ChannelShow, Channel1!Show
  <2>5. ASSUME ChannelSame(1) PROVE UNCHANGED <<WantedFor(1), ValuesFor(1), ledStatus[1]>>
    BY <2>5 DEF ChannelSame
  <2> QED BY <2>1, <2>3, <2>4, <2>5 DEF ChannelStep, Channel1!Next
<1>4. LinkInv /\ ChannelInv /\ [LinkNext]_linkVars =>
        [Channel2!Next]_<<WantedFor(2), ValuesFor(2), ledStatus[2]>>
  <2> SUFFICES ASSUME LinkInv, ChannelInv, [LinkNext]_linkVars
               PROVE  [Channel2!Next]_<<WantedFor(2), ValuesFor(2), ledStatus[2]>>
    OBVIOUS
  <2>1. ChannelStep(2)
    BY ChannelsKeep
  <2>2. \A q : Channel2!Front(q) = Front(q)
    BY DEF Channel2!Front, Front
  <2>3. ASSUME ChannelSet(2) PROVE Channel2!Set
    BY <2>2, <2>3 DEF ChannelSet, Replaced, Channel2!Set
  <2>4. ASSUME ChannelShow(2) PROVE Channel2!Show
    BY <2>4 DEF ChannelShow, Channel2!Show
  <2>5. ASSUME ChannelSame(2) PROVE UNCHANGED <<WantedFor(2), ValuesFor(2), ledStatus[2]>>
    BY <2>5 DEF ChannelSame
  <2> QED BY <2>1, <2>3, <2>4, <2>5 DEF ChannelStep, Channel2!Next
<1>5. LinkInv /\ ChannelInv /\ [LinkNext]_linkVars =>
        [Channel3!Next]_<<WantedFor(3), ValuesFor(3), ledStatus[3]>>
  <2> SUFFICES ASSUME LinkInv, ChannelInv, [LinkNext]_linkVars
               PROVE  [Channel3!Next]_<<WantedFor(3), ValuesFor(3), ledStatus[3]>>
    OBVIOUS
  <2>1. ChannelStep(3)
    BY ChannelsKeep
  <2>2. \A q : Channel3!Front(q) = Front(q)
    BY DEF Channel3!Front, Front
  <2>3. ASSUME ChannelSet(3) PROVE Channel3!Set
    BY <2>2, <2>3 DEF ChannelSet, Replaced, Channel3!Set
  <2>4. ASSUME ChannelShow(3) PROVE Channel3!Show
    BY <2>4 DEF ChannelShow, Channel3!Show
  <2>5. ASSUME ChannelSame(3) PROVE UNCHANGED <<WantedFor(3), ValuesFor(3), ledStatus[3]>>
    BY <2>5 DEF ChannelSame
  <2> QED BY <2>1, <2>3, <2>4, <2>5 DEF ChannelStep, Channel3!Next
<1> QED BY <1>1, <1>2, <1>3, <1>4, <1>5, LinkInvariant, PTL
         DEF LinkSpec, LedsAreChannels, Channel1!Spec, Channel2!Spec, Channel3!Spec

=============================================================================
