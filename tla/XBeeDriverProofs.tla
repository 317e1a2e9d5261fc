-------------------------- MODULE XBeeDriverProofs --------------------------
(***************************************************************************)
(* What TLAPS proves about the XBee driver for every MaxFrameLen, all      *)
(* values of the registers, every noise and every bound: the receiver and  *)
(* the list of commands stay as declared, and on a line without faults     *)
(* every frame of the device is dispatched and every register that was     *)
(* copied has the value of the device.                                     *)
(***************************************************************************)
EXTENDS XBeeDriver, SequenceTheorems, WellFoundedInduction, TLAPS

Byte == 0..255

-----------------------------------------------------------------------------
(* The checksum *)

(* A set of numbers that is not empty has a least one. *)
LEMMA LeastNatural ==
  ASSUME NEW T \in SUBSET Nat, T # {}
  PROVE  \E n \in T : \A m \in T : n <= m
  <1>1. IsWellFoundedOn(OpToRel(<, Nat), Nat)
    BY NatLessThanWellFounded
  <1>2. PICK n \in T : \A m \in T : ~ (<<m, n>> \in OpToRel(<, Nat))
    BY <1>1, WFMin
  <1>3. \A m \in T : ~ (m < n)
    BY <1>2 DEF OpToRel
  <1> QED BY <1>3

(* f[i] is the sum after the first i bytes. *)
SumAt(bytes, initial, f, i) == IF i = 0 THEN initial ELSE (f[i - 1] + 256 - bytes[i]) % 256
IsSum(bytes, initial, f) == f = [i \in 0..Len(bytes) |-> SumAt(bytes, initial, f, i)]

(* The sums of the first n bytes can be written down, for every n up to the length. *)
LEMMA SumsExist ==
  ASSUME NEW bytes \in Seq(Byte), NEW initial \in Byte
  PROVE  \E f : IsSum(bytes, initial, f)
  <1> DEFINE Upto(n, f) == f = [i \in 0..n |-> SumAt(bytes, initial, f, i)]
             Without == {n \in 0..Len(bytes) : ~ \E f : Upto(n, f)}
  <1>1. Len(bytes) \in Nat
    BY LenProperties
  <1>2. SUFFICES Without = {}
    <2>1. Len(bytes) \in 0..Len(bytes)
      BY <1>1
    <2>2. PICK f : Upto(Len(bytes), f)
      BY <1>2, <2>1
    <2> QED BY <2>2 DEF IsSum
  <1>3. SUFFICES ASSUME Without # {} PROVE FALSE
    OBVIOUS
  <1>4. Without \subseteq Nat
    BY <1>1
  <1>5. PICK n \in Without : \A m \in Without : n <= m
    <2> HIDE DEF Without
    <2> QED BY <1>3, <1>4, LeastNatural
  <1>6. CASE n = 0
    <2> DEFINE f == [i \in 0..0 |-> initial]
    <2>1. f = [i \in 0..0 |-> SumAt(bytes, initial, f, i)]
      BY DEF SumAt
    <2>2. Upto(n, f)
      BY <2>1, <1>6
    <2> QED BY <2>2, <1>5
  <1>7. CASE n # 0
    <2>1. n - 1 \in 0..Len(bytes) /\ ~ (n <= n - 1) /\ n \in Nat
      BY <1>1, <1>5, <1>7
    <2>2. PICK f : Upto(n - 1, f)
      BY <2>1, <1>5
    <2> DEFINE g == [i \in 0..n |-> SumAt(bytes, initial, f, i)]
    <2>3. ASSUME NEW i \in 0..n
          PROVE  g[i] = SumAt(bytes, initial, g, i)
      <3>1. CASE i = 0
        BY <3>1 DEF SumAt
      <3>2. CASE i # 0
        <4>1. i - 1 \in 0..(n - 1) /\ i - 1 \in 0..n
          BY <3>2, <2>1
        <4>2. f[i - 1] = SumAt(bytes, initial, f, i - 1)
          BY <4>1, <2>2
        <4>3. g[i - 1] = f[i - 1]
          BY <4>1, <4>2
        <4> QED BY <3>2, <4>3 DEF SumAt
      <3> QED BY <3>1, <3>2
    <2>4. g = [i \in 0..n |-> SumAt(bytes, initial, g, i)]
      <3>1. g = [i \in 0..n |-> g[i]]
        OBVIOUS
      <3> HIDE DEF g
      <3> QED BY <3>1, <2>3
    <2> HIDE DEF g
    <2>5. Upto(n, g)
      BY <2>4
    <2> QED BY <2>5, <1>5
  <1> QED BY <1>6, <1>7

(* The checksum is the last of the sums. *)
LEMMA ChecksumIsSum ==
  ASSUME NEW bytes \in Seq(Byte), NEW initial \in Byte
  PROVE  \E f : IsSum(bytes, initial, f) /\ Checksum(bytes, initial) = f[Len(bytes)]
  <1> DEFINE c == CHOOSE f : IsSum(bytes, initial, f)
  <1>1. IsSum(bytes, initial, c)
    BY SumsExist
  <1>2. Checksum(bytes, initial) = c[Len(bytes)]
    BY Zenon DEF Checksum, IsSum, SumAt
  <1> QED BY <1>1, <1>2

(* Two sums of sequences that begin alike begin alike, and all of them are bytes. *)
LEMMA SumsAgree ==
  ASSUME NEW s \in Seq(Byte), NEW t \in Seq(Byte), NEW initial \in Byte,
         NEW f, IsSum(s, initial, f), NEW g, IsSum(t, initial, g),
         NEW n \in Nat, n <= Len(s), n <= Len(t), \A i \in 1..n : s[i] = t[i]
  PROVE  \A i \in 0..n : f[i] = g[i] /\ f[i] \in Byte
  <1> DEFINE Bad == {i \in 0..n : ~ (f[i] = g[i] /\ f[i] \in Byte)}
  <1>1. Len(s) \in Nat /\ Len(t) \in Nat
    BY LenProperties
  <1>2. ASSUME NEW i \in 0..n
        PROVE  f[i] = SumAt(s, initial, f, i) /\ g[i] = SumAt(t, initial, g, i)
    <2>1. i \in 0..Len(s) /\ i \in 0..Len(t)
      BY <1>1
    <2> QED BY <2>1 DEF IsSum
  <1>3. SUFFICES ASSUME Bad # {} PROVE FALSE
    OBVIOUS
  <1>4. PICK i \in Bad : \A m \in Bad : i <= m
    <2>1. Bad \subseteq Nat
      OBVIOUS
    <2> HIDE DEF Bad
    <2> QED BY <1>3, <2>1, LeastNatural
  <1>5. CASE i = 0
    <2>1. f[i] = initial /\ g[i] = initial
      BY <1>2, <1>4, <1>5 DEF SumAt
    <2> QED BY <2>1, <1>4
  <1>6. CASE i # 0
    <2>1. i - 1 \in 0..n /\ ~ (i <= i - 1) /\ i \in 1..n /\ i \in 1..Len(s)
      BY <1>1, <1>4, <1>6
    <2>2. f[i - 1] = g[i - 1] /\ f[i - 1] \in Byte
      BY <2>1, <1>4
    <2>3. s[i] = t[i] /\ s[i] \in Byte
      BY <2>1, ElementOfSeq
    <2>4. f[i] = (f[i - 1] + 256 - s[i]) % 256 /\ g[i] = (g[i - 1] + 256 - t[i]) % 256
      BY <1>2, <1>4, <1>6 DEF SumAt
    <2>5. (f[i - 1] + 256 - s[i]) % 256 \in Byte
      <3>1. \A x, y \in Byte : (x + 256 - y) % 256 \in Byte
        BY DEF Byte
      <3> QED BY <3>1, <2>2, <2>3
    <2> QED BY <2>2, <2>3, <2>4, <2>5, <1>4
  <1> QED BY <1>5, <1>6

(* A checksum is a byte. *)
LEMMA ChecksumIsByte ==
  ASSUME NEW bytes \in Seq(Byte), NEW initial \in Byte
  PROVE  Checksum(bytes, initial) \in Byte
  <1>1. PICK f : IsSum(bytes, initial, f) /\ Checksum(bytes, initial) = f[Len(bytes)]
    BY ChecksumIsSum
  <1>2. Len(bytes) \in Nat
    BY LenProperties
  <1>3. \A i \in 0..Len(bytes) : f[i] = f[i] /\ f[i] \in Byte
    BY <1>1, <1>2, SumsAgree
  <1> QED BY <1>1, <1>2, <1>3

(* With the checksum behind them the bytes sum up to nothing (_xbee_checksum). *)
LEMMA ChecksumCloses ==
  ASSUME NEW bytes \in Seq(Byte)
  PROVE  Checksum(Append(bytes, Checksum(bytes, 255)), 255) = 0
  <1> DEFINE c == Checksum(bytes, 255)
             t == Append(bytes, c)
             n == Len(bytes)
  <1>1. 255 \in Byte /\ n \in Nat
    BY LenProperties DEF Byte
  <1>2. c \in Byte
    BY <1>1, ChecksumIsByte
  <1>3. t \in Seq(Byte) /\ Len(t) = n + 1 /\ t[n + 1] = c /\ \A i \in 1..n : t[i] = bytes[i]
    BY <1>2, AppendProperties
  <1>4. PICK f : IsSum(bytes, 255, f) /\ c = f[n]
    BY <1>1, ChecksumIsSum
  <1>5. PICK g : IsSum(t, 255, g) /\ Checksum(t, 255) = g[n + 1]
    <2> HIDE DEF t
    <2> QED BY <1>1, <1>3, ChecksumIsSum
  <1> HIDE DEF c, t
  <1>6. \A i \in 0..n : f[i] = g[i] /\ f[i] \in Byte
    <2>1. n <= Len(bytes) /\ n <= Len(t) /\ \A i \in 1..n : bytes[i] = t[i]
      BY <1>1, <1>3
    <2> QED BY <2>1, <1>1, <1>3, <1>4, <1>5, SumsAgree, SMTT(60)
  <1>7. g[n + 1] = (g[n] + 256 - t[n + 1]) % 256
    <2>1. n + 1 \in 0..Len(t) /\ n + 1 # 0 /\ (n + 1) - 1 = n
      BY <1>1, <1>3
    <2> QED BY <2>1, <1>5 DEF IsSum, SumAt
  <1>8. g[n] = c /\ t[n + 1] = c
    BY <1>1, <1>3, <1>4, <1>6
  <1>9. (c + 256 - c) % 256 = 0
    BY <1>2 DEF Byte
  <1> QED BY <1>5, <1>7, <1>8, <1>9 DEF c, t

-----------------------------------------------------------------------------
(* Frames on the line *)

Payloads == {p \in Seq(Byte) : Len(p) \in 2..MaxFrameLen}

(* The bytes of a frame. *)
LEMMA FrameBytes ==
  ASSUME NEW p \in Payloads
  PROVE  /\ Frame(p) \in Seq(Byte) /\ Len(p) \in Nat /\ Len(Frame(p)) = Len(p) + 4
         /\ Frame(p)[1] = Start /\ Frame(p)[2] = 0 /\ Frame(p)[3] = Len(p)
         /\ \A i \in 1..Len(p) : Frame(p)[3 + i] = p[i]
         /\ Frame(p)[Len(p) + 4] = Checksum(p, 255)
  <1> DEFINE h == <<Start, Len(p) \div 256, Len(p) % 256>>
             c == Checksum(p, 255)
  <1>1. p \in Seq(Byte) /\ Len(p) \in Nat /\ Len(p) <= 255 /\ Len(p) >= 2
    BY DriverAssumption DEF Payloads
  <1>2. Len(p) \div 256 = 0 /\ Len(p) % 256 = Len(p)
    BY <1>1
  <1>3. h \in Seq(Byte) /\ Len(h) = 3 /\ h[1] = Start /\ h[2] = 0 /\ h[3] = Len(p)
    <2>1. h = <<126, 0, Len(p)>>
      BY <1>2 DEF Start
    <2>2. 126 \in Byte /\ \A k \in Nat : k <= 255 => k \in Byte
      BY DEF Byte
    <2>3. Len(p) \in Byte /\ 126 \in Byte /\ 0 \in Byte
      BY <1>1, <2>2
    <2> HIDE DEF h
    <2> QED BY <2>1, <2>3 DEF Start
  <1>4. c \in Byte
    <2>1. 255 \in Byte
      BY DEF Byte
    <2> QED BY <1>1, <2>1, ChecksumIsByte
  <1>5. Frame(p) = (h \o p) \o <<c>>
    BY Zenon DEF Frame
  <1> HIDE DEF h, c
  <1>6. h \o p \in Seq(Byte) /\ Len(h \o p) = Len(p) + 3
        /\ \A i \in 1..(Len(p) + 3) : (h \o p)[i] = IF i <= 3 THEN h[i] ELSE p[i - 3]
    <2>1. /\ h \o p \in Seq(Byte) /\ Len(h \o p) = Len(h) + Len(p)
          /\ \A i \in 1..(Len(h) + Len(p)) : (h \o p)[i] = IF i <= Len(h) THEN h[i] ELSE p[i - Len(h)]
      BY <1>1, <1>3, ConcatProperties, ZenonT(60)
    <2>2. Len(h) + Len(p) = Len(p) + 3
      BY <1>1, <1>3
    <2> QED BY <2>1, <2>2, <1>3
  <1> DEFINE k == h \o p
  <1> HIDE DEF k
  <1>7. /\ k \o <<c>> \in Seq(Byte) /\ Len(k \o <<c>>) = Len(p) + 4
        /\ \A i \in 1..(Len(p) + 3) : (k \o <<c>>)[i] = k[i]
        /\ (k \o <<c>>)[Len(p) + 4] = c
    <2>1. k \in Seq(Byte) /\ Len(k) = Len(p) + 3
      BY <1>6 DEF k
    <2> QED BY <2>1, <1>4, <1>1, AppendIsConcat, AppendProperties
  <1>8. \A i \in 1..3 : k[i] = h[i]
    BY <1>6, <1>1 DEF k
  <1>9. \A i \in 1..Len(p) : k[3 + i] = p[i]
    <2> TAKE i \in 1..Len(p)
    <2>1. 3 + i \in 1..(Len(p) + 3) /\ ~ (3 + i <= 3) /\ (3 + i) - 3 = i
      BY <1>1
    <2> QED BY <2>1, <1>6 DEF k
  <1>10. \A i \in 1..Len(p) : 3 + i \in 1..(Len(p) + 3)
    BY <1>1
  <1>11. 1 \in 1..(Len(p) + 3) /\ 2 \in 1..(Len(p) + 3) /\ 3 \in 1..(Len(p) + 3)
    BY <1>1
  <1> QED BY <1>1, <1>3, <1>5, <1>7, <1>8, <1>9, <1>10, <1>11 DEF k, c

(* From a + 1 to b the sequence holds a frame, whose payload is one of P. *)
FrameAt(s, a, b, P) ==
  \E p \in P : b = a + Len(p) + 4 /\ \A i \in 1..(Len(p) + 4) : s[a + i] = Frame(p)[i]

(* The places where n frames end, one behind the other. *)
Cuts(s, n, cut, P) ==
  /\ cut \in [0..n -> 0..Len(s)]
  /\ cut[0] = 0 /\ cut[n] = Len(s)
  /\ \A i, j \in 0..n : i <= j => cut[i] <= cut[j]
  /\ \A i \in 1..n : FrameAt(s, cut[i - 1], cut[i], P)

(* The sequence is n whole frames with payloads of P. *)
Frames(s, n, P) == \E cut : Cuts(s, n, cut, P)

LEMMA NoFrames ==
  ASSUME NEW P
  PROVE  Frames(<<>>, 0, P)
  <1> DEFINE cut == [i \in 0..0 |-> 0]
  <1>1. Len(<<>>) = 0 /\ 0..0 = {0} /\ 1..0 = {}
    BY EmptySeq
  <1>2. Cuts(<<>>, 0, cut, P)
    BY <1>1 DEF Cuts
  <1> QED BY <1>2 DEF Frames

(* Nothing is no bytes. *)
LEMMA NoFramesNoBytes ==
  ASSUME NEW s \in Seq(Byte), NEW P, Frames(s, 0, P)
  PROVE  s = <<>>
  BY EmptySeq DEF Frames, Cuts

(* The device sends one frame more. *)
LEMMA OneFrameMore ==
  ASSUME NEW s \in Seq(Byte), NEW n \in Nat, NEW P \in SUBSET Payloads, Frames(s, n, P), NEW p \in P
  PROVE  Frames(s \o Frame(p), n + 1, P)
  <1> DEFINE m == Len(p) + 4
             t == s \o Frame(p)
             L == Len(s)
  <1>1. PICK cut : Cuts(s, n, cut, P)
    BY DEF Frames
  <1>2. Frame(p) \in Seq(Byte) /\ Len(Frame(p)) = m /\ m \in Nat
    BY FrameBytes
  <1>3. t \in Seq(Byte) /\ Len(t) = L + m /\ L \in Nat
        /\ (\A j \in 1..L : t[j] = s[j])
        /\ (\A j \in 1..m : t[L + j] = Frame(p)[j])
    <2> HIDE DEF m
    <2>1. t \in Seq(Byte) /\ Len(t) = L + m /\ L \in Nat
          /\ \A i \in 1..(L + m) : t[i] = IF i <= L THEN s[i] ELSE Frame(p)[i - L]
      BY <1>2, ConcatProperties, LenProperties
    <2>2. ASSUME NEW i \in 1..m
          PROVE  L + i \in 1..(L + m) /\ ~ (L + i <= L) /\ (L + i) - L = i
      BY <2>1, <1>2
    <2>3. ASSUME NEW i \in 1..L
          PROVE  i \in 1..(L + m) /\ i <= L
      BY <2>1, <1>2
    <2> QED BY <2>1, <2>2, <2>3
  <1> DEFINE cut2 == [i \in 0..(n + 1) |-> IF i <= n THEN cut[i] ELSE L + m]
  <1> HIDE DEF m, t, L
  <1>4. \A i \in 0..n : cut[i] \in 0..L
    BY <1>1 DEF Cuts, L
  <1>5. cut2 \in [0..(n + 1) -> 0..Len(t)]
    BY <1>2, <1>3, <1>4
  <1>6. cut2[0] = 0 /\ cut2[n + 1] = Len(t)
    BY <1>1, <1>3 DEF Cuts
  <1>7. \A i, j \in 0..(n + 1) : i <= j => cut2[i] <= cut2[j]
    <2>1. \A i, j \in 0..n : i <= j => cut[i] <= cut[j]
      BY <1>1 DEF Cuts
    <2> QED BY <2>1, <1>2, <1>3, <1>4
  <1>8. ASSUME NEW i \in 1..(n + 1)
        PROVE  FrameAt(t, cut2[i - 1], cut2[i], P)
    <2>1. CASE i <= n
      <3>1. i \in 1..n /\ i - 1 \in 0..n /\ i \in 0..n
        BY <2>1
      <3>2. cut2[i] = cut[i] /\ cut2[i - 1] = cut[i - 1]
        BY <3>1, <2>1
      <3>3. PICK r \in P : /\ cut[i] = cut[i - 1] + Len(r) + 4
                           /\ \A j \in 1..(Len(r) + 4) : s[cut[i - 1] + j] = Frame(r)[j]
        BY <1>1, <3>1 DEF Cuts, FrameAt
      <3>4. Len(r) \in Nat
        BY FrameBytes
      <3>5. \A j \in 1..(Len(r) + 4) : cut[i - 1] + j \in 1..L
        BY <1>4, <3>1, <3>3, <3>4, <1>3, SMTT(60)
      <3>6. \A j \in 1..(Len(r) + 4) : t[cut[i - 1] + j] = Frame(r)[j]
        BY <3>3, <3>5, <1>3
      <3> QED BY <3>2, <3>3, <3>6 DEF FrameAt
    <2>2. CASE i = n + 1
      <3>1. cut2[i - 1] = L /\ cut2[i] = L + Len(p) + 4
        <4>1. cut2[i] = L + m /\ cut2[i - 1] = cut[n]
          BY <2>2
        <4>2. cut[n] = L
          BY <1>1 DEF Cuts, L
        <4>3. Len(p) \in Nat
          BY FrameBytes
        <4> QED BY <4>1, <4>2, <4>3, <1>3 DEF m
      <3>2. \A j \in 1..m : t[L + j] = Frame(p)[j]
        BY <1>3
      <3> HIDE DEF cut2
      <3> QED BY <3>1, <3>2 DEF FrameAt, m
    <2> QED BY <2>1, <2>2
  <1>9. Cuts(t, n + 1, cut2, P)
    <2> HIDE DEF cut2
    <2>1. ASSUME NEW i \in 1..(n + 1) PROVE FrameAt(t, cut2[i - 1], cut2[i], P)
      BY <1>8
    <2> QED BY <1>5, <1>6, <1>7, <2>1 DEF Cuts
  <1> QED BY <1>9 DEF Frames, t

(* The first frame, and the others behind it. *)
LEMMA FirstFrame ==
  ASSUME NEW s \in Seq(Byte), NEW n \in Nat, n # 0,
         NEW P \in SUBSET Payloads, Frames(s, n, P)
  PROVE  \E p \in P :
           /\ Len(p) + 4 <= Len(s)
           /\ \A i \in 1..(Len(p) + 4) : s[i] = Frame(p)[i]
           /\ Frames(SubSeq(s, Len(p) + 5, Len(s)), n - 1, P)
  <1>1. PICK cut : Cuts(s, n, cut, P)
    BY DEF Frames
  <1>2. Len(s) \in Nat /\ 1 \in 1..n /\ 1 \in 0..n /\ 0 \in 0..n /\ n \in 0..n /\ 1 - 1 = 0
    BY LenProperties
  <1>3. cut[0] = 0 /\ cut[n] = Len(s) /\ \A i \in 0..n : cut[i] \in 0..Len(s)
    BY <1>1 DEF Cuts
  <1>4. PICK p \in P : /\ cut[1] = cut[0] + Len(p) + 4
                       /\ \A i \in 1..(Len(p) + 4) : s[cut[0] + i] = Frame(p)[i]
    <2>1. FrameAt(s, cut[1 - 1], cut[1], P)
      BY <1>1, <1>2 DEF Cuts
    <2> QED BY <2>1, <1>2 DEF FrameAt
  <1> DEFINE m == cut[1]
             t == SubSeq(s, Len(p) + 5, Len(s))
             cut2 == [i \in 0..(n - 1) |-> cut[i + 1] - m]
  <1>5. Len(p) \in Nat /\ m = Len(p) + 4 /\ m <= Len(s) /\ m \in Nat
    BY <1>2, <1>3, <1>4, FrameBytes
  <1>6. \A i \in 1..(Len(p) + 4) : s[i] = Frame(p)[i]
    BY <1>3, <1>4, <1>5
  <1>7. t \in Seq(Byte) /\ Len(t) = Len(s) - m /\ \A i \in 1..(Len(s) - m) : t[i] = s[m + i]
    <2>1. Len(p) + 5 \in 1..(Len(s) + 1) /\ Len(s) \in 0..Len(s) /\ Len(s) \in Nat
      BY <1>2, <1>5
    <2>2. /\ t \in Seq(Byte)
          /\ Len(t) = IF Len(p) + 5 <= Len(s) THEN Len(s) - (Len(p) + 5) + 1 ELSE 0
          /\ \A i \in 1..Len(t) : t[i] = s[Len(p) + 5 + i - 1]
      BY <1>2, <1>5, <2>1, SubSeqProperties
    <2>3. Len(t) = Len(s) - m
      BY <2>2, <1>2, <1>5
    <2>4. ASSUME NEW i \in 1..(Len(s) - m) PROVE Len(p) + 5 + i - 1 = m + i
      BY <1>2, <1>5
    <2> QED BY <2>2, <2>3, <2>4
  <1> HIDE DEF t
  <1>8. \A i \in 0..(n - 1) : i + 1 \in 0..n /\ cut[i + 1] \in 0..Len(s) /\ cut[i + 1] >= m
    <2> TAKE i \in 0..(n - 1)
    <2>1. i + 1 \in 0..n /\ 1 <= i + 1
      BY <1>2
    <2>2. cut[1] <= cut[i + 1]
      BY <1>1, <1>2, <2>1 DEF Cuts
    <2>3. cut[i + 1] \in 0..Len(s) /\ cut[1] \in 0..Len(s)
      BY <1>2, <1>3, <2>1
    <2> QED BY <2>1, <2>2, <2>3, <1>2
  <1> HIDE DEF m
  <1>9. cut2 \in [0..(n - 1) -> 0..Len(t)]
    BY <1>2, <1>5, <1>7, <1>8
  <1>10. cut2[0] = 0 /\ cut2[n - 1] = Len(t)
    <2>1. 0 \in 0..(n - 1) /\ n - 1 \in 0..(n - 1) /\ (n - 1) + 1 = n /\ 0 + 1 = 1
      BY <1>2
    <2> QED BY <2>1, <1>3, <1>5, <1>7 DEF m
  <1>11. \A i, j \in 0..(n - 1) : i <= j => cut2[i] <= cut2[j]
    <2> TAKE i, j \in 0..(n - 1)
    <2> HAVE i <= j
    <2>1. i + 1 \in 0..n /\ j + 1 \in 0..n /\ i + 1 <= j + 1
      BY <1>2
    <2>2. cut[i + 1] <= cut[j + 1]
      BY <1>1, <2>1 DEF Cuts
    <2>3. cut2[i] = cut[i + 1] - m /\ cut2[j] = cut[j + 1] - m
      OBVIOUS
    <2>4. cut[i + 1] \in Nat /\ cut[j + 1] \in Nat
      BY <1>2, <1>8
    <2> HIDE DEF cut2
    <2> QED BY <2>2, <2>3, <2>4, <1>5
  <1>12. ASSUME NEW i \in 1..(n - 1)
         PROVE  FrameAt(t, cut2[i - 1], cut2[i], P)
    <2>1. i + 1 \in 1..n /\ i - 1 \in 0..(n - 1) /\ i \in 0..(n - 1) /\ (i + 1) - 1 = i /\ (i - 1) + 1 = i
      BY <1>2
    <2>2. FrameAt(s, cut[(i + 1) - 1], cut[i + 1], P)
      BY <1>1, <2>1 DEF Cuts
    <2>3. PICK r \in P : /\ cut[i + 1] = cut[i] + Len(r) + 4
                         /\ \A j \in 1..(Len(r) + 4) : s[cut[i] + j] = Frame(r)[j]
      BY <2>1, <2>2 DEF FrameAt
    <2>4. Len(r) \in Nat
      BY FrameBytes
    <2>5. cut2[i - 1] = cut[i] - m /\ cut2[i] = cut[i + 1] - m
      BY <2>1
    <2>6. cut[i] \in 0..Len(s) /\ cut[i] >= m /\ cut[i + 1] \in 0..Len(s)
      BY <2>1, <1>8
    <2> HIDE DEF cut2
    <2>7. ASSUME NEW j \in 1..(Len(r) + 4)
          PROVE  t[cut2[i - 1] + j] = Frame(r)[j]
      <3>1. cut2[i - 1] + j \in 1..(Len(s) - m) /\ m + (cut2[i - 1] + j) = cut[i] + j
        <4>1. j \in Nat /\ 1 <= j /\ j <= Len(r) + 4
          BY <2>4
        <4>2. cut[i] + j <= Len(s) /\ cut[i] \in Nat /\ cut[i] >= m
          BY <4>1, <2>3, <2>4, <2>6, <1>2
        <4>3. \A x \in Nat : x >= m /\ x + j <= Len(s) =>
                (x - m) + j \in 1..(Len(s) - m) /\ m + ((x - m) + j) = x + j
          BY <4>1, <1>2, <1>5
        <4> QED BY <4>2, <4>3, <2>5
      <3> QED BY <3>1, <1>7, <2>3
    <2>8. cut2[i] = cut2[i - 1] + Len(r) + 4
      BY <2>3, <2>4, <2>5, <2>6, <1>2, <1>5
    <2> QED BY <2>7, <2>8 DEF FrameAt
  <1>13. Cuts(t, n - 1, cut2, P)
    <2> HIDE DEF cut2
    <2>1. ASSUME NEW i \in 1..(n - 1) PROVE FrameAt(t, cut2[i - 1], cut2[i], P)
      BY <1>12
    <2> QED BY <1>9, <1>10, <1>11, <2>1 DEF Cuts
  <1>14. Frames(t, n - 1, P)
    BY <1>13 DEF Frames
  <1> QED BY <1>5, <1>6, <1>14 DEF t

-----------------------------------------------------------------------------
(* The invariants *)

RxStates == {"WAITSTART", "LENGTH_MSB", "LENGTH_LSB", "RXFRAME"}
Requests == [frame : 1..MaxAsked, command : {"SL", "AI", "MY"}]

(* The receiver: only a frame whose length was accepted has data, and no more of them
   than that length. *)
RxTyped ==
  /\ line \in Seq(Byte)
  /\ rx \in [state : RxStates, length : Nat, data : Seq(Byte)]
  /\ rx.state \in {"WAITSTART", "LENGTH_MSB"} => rx.length = 0
  /\ rx.state # "RXFRAME" => rx.data = <<>>
  /\ rx.state = "RXFRAME" => rx.length \in 2..MaxFrameLen /\ Len(rx.data) <= rx.length

(* The list: it runs while it has a request, and the commands that are left to it have
   frame identifiers of a byte. *)
QueryTyped ==
  /\ frameId \in 1..MaxAsked /\ index \in 1..3
  /\ request \in Requests \cup {NoRequest} /\ asked \in Requests \cup {NoRequest}
  /\ request # NoRequest => frameId + (3 - index) <= MaxAsked
  /\ status \in {"running", "done", "timeout"}
  /\ (status = "running") <=> (request # NoRequest)
  /\ request # NoRequest => request.command = Registers[index]

WorldTyped == truth \in [SL : Byte, AI : Byte, MY : Byte] /\ got \in Nat /\ sent \in Nat /\ faults \in Nat

DriverInv == RxTyped /\ QueryTyped /\ WorldTyped

(* The bytes of a frame that the receiver has taken. *)
Held(r) ==
  CASE r.state = "WAITSTART" -> <<>>
    [] r.state = "LENGTH_MSB" -> <<Start>>
    [] r.state = "LENGTH_LSB" -> <<Start, 0>>
    [] r.state = "RXFRAME" -> <<Start, 0, r.length>> \o r.data

(* The payloads that are true of a device with the registers w. *)
Honest(w) ==
  {p \in Payloads :
     \/ \E r \in {"SL", "AI", "MY"}, f \in Byte, code \in {0, 1} : p = <<LocalResponse, f, Letters(r), code, w[r]>>
     \/ \E s \in Byte : p = <<ModemStatus, s>> /\ (s = CoordStart => w.MY = Coordinator)}

(* On a line without faults what was taken and what is on its way are the frames that
   were sent and not yet dispatched, one behind the other. *)
WholeFrames ==
  /\ rx.state = "LENGTH_LSB" => rx.length = 0
  /\ \E n \in Nat : sent = got + n /\ Frames(Held(rx) \o line, n, Honest(truth))

(* What a line without faults lets the driver believe.  The association indicator is
   read and not copied. *)
TrueCopies == info \in [SL : {Unset, truth.SL}, AI : {Unset}, MY : {Unset, Undefined, truth.MY}]

GoodLine == faults = 0 => WholeFrames /\ TrueCopies

-----------------------------------------------------------------------------
(* The list keeps its types *)

LEMMA RegisterNames == \A i \in 1..3 : Registers[i] \in {"SL", "AI", "MY"}
  BY DEF Registers

LEMMA LengthOfRegisters == Len(Registers) = 3
  BY DEF Registers

LEMMA IssueKeeps ==
  ASSUME QueryTyped, NEW i \in 1..3, Issue(i), frameId + 1 + (3 - i) <= MaxAsked
  PROVE  QueryTyped'
  <1>1. MaxAsked \in Nat /\ frameId \in Nat
    BY DriverAssumption DEF QueryTyped
  <1>2. frameId + 1 \in 1..MaxAsked
    BY <1>1 DEF QueryTyped
  <1> DEFINE r == [frame |-> frameId + 1, command |-> Registers[i]]
  <1>3. r \in Requests
    BY <1>2, RegisterNames DEF Requests
  <1>4. r # NoRequest /\ r.command = Registers[i]
    BY <1>1 DEF NoRequest
  <1>5. frameId' = frameId + 1 /\ request' = r /\ index' = i /\ status' = "running" /\ asked' \in {r, asked}
    BY DEF Issue
  <1> HIDE DEF r
  <1> QED BY <1>1, <1>2, <1>3, <1>4, <1>5 DEF QueryTyped

LEMMA QueryEndKeeps ==
  ASSUME QueryTyped, NEW result \in {"done", "timeout"}, NEW r, NEW join,
         result = "timeout" => frameId < MaxAsked,
         QueryEnd(result, r, join)
  PROVE  QueryTyped'
  <1>1. MaxAsked \in Nat /\ frameId \in Nat
    BY DriverAssumption DEF QueryTyped
  <1>2. CASE result = "timeout" /\ join /\ r.MY = Undefined
    <2>1. Issue(3)
      BY <1>2 DEF QueryEnd, QueryDevice, RefreshIndex
    <2>2. frameId + 1 + (3 - 3) <= MaxAsked
      BY <1>1, <1>2
    <2> QED BY <2>1, <2>2, IssueKeeps
  <1>3. CASE ~ (result = "timeout" /\ join /\ r.MY = Undefined)
    BY <1>3 DEF QueryEnd, QueryTyped
  <1> QED BY <1>2, <1>3

LEMMA ListCallbackKeeps ==
  ASSUME QueryTyped, request # NoRequest, NEW code, NEW value, ListCallback(code, value)
  PROVE  QueryTyped'
  <1>1. CASE index < Len(Registers)
    <2>1. Issue(index + 1)
      BY <1>1 DEF ListCallback
    <2>2. MaxAsked \in Nat /\ frameId \in Nat /\ index + 1 \in 1..3 /\ frameId + (3 - index) <= MaxAsked
      BY <1>1, LengthOfRegisters, DriverAssumption DEF QueryTyped
    <2>3. frameId + 1 + (3 - (index + 1)) <= MaxAsked
      BY <2>2 DEF QueryTyped
    <2> QED BY <2>1, <2>2, <2>3, IssueKeeps
  <1>2. CASE ~ (index < Len(Registers))
    <2>1. \E r, join : QueryEnd("done", r, join)
      BY <1>2 DEF ListCallback
    <2> QED BY <2>1, QueryEndKeeps
  <1> QED BY <1>1, <1>2

LEMMA DispatchKeeps ==
  ASSUME QueryTyped, got \in Nat, NEW frame, Dispatch(frame)
  PROVE  QueryTyped' /\ got' = got + 1
  <1>1. got' = got + 1
    BY DEF Dispatch
  <1>2. ASSUME HandleStatus(frame[2]) PROVE QueryTyped'
    BY <1>2 DEF HandleStatus, QueryTyped
  <1>3. ASSUME UNCHANGED queryVars PROVE QueryTyped'
    BY <1>3 DEF queryVars, QueryTyped
  <1>4. ASSUME HandleResponse(frame) PROVE QueryTyped'
    <2>1. CASE request # NoRequest /\ Len(frame) = 5 /\ frame[2] = request.frame
               /\ frame[3] = Letters(request.command)
      <3>1. ListCallback(frame[4], frame[5])
        BY <1>4, <2>1 DEF HandleResponse
      <3> QED BY <2>1, <3>1, ListCallbackKeeps
    <2>2. CASE ~ (request # NoRequest /\ Len(frame) = 5 /\ frame[2] = request.frame
                  /\ frame[3] = Letters(request.command))
      <3>1. UNCHANGED queryVars
        BY <1>4, <2>2 DEF HandleResponse
      <3> QED BY <3>1, <1>3
    <2> QED BY <2>1, <2>2
  <1>5. HandleStatus(frame[2]) \/ HandleResponse(frame) \/ UNCHANGED queryVars
    BY DEF Dispatch
  <1> QED BY <1>1, <1>2, <1>3, <1>4, <1>5

(* A byte of the end of a frame is dispatched with it or thrown away with it. *)
LEMMA EndOfFrameKeeps ==
  ASSUME QueryTyped, got \in Nat, NEW d, NEW length, EndOfFrame(d, length)
  PROVE  QueryTyped' /\ got' \in Nat /\ rx' = WaitStart
         /\ (Checksum(d, 255) = 0 => got' = got + 1)
  <1>1. rx' = WaitStart
    BY DEF EndOfFrame
  <1>2. CASE Checksum(d, 255) = 0
    <2>1. Dispatch(SubSeq(d, 1, length))
      BY <1>2 DEF EndOfFrame
    <2> QED BY <1>1, <2>1, DispatchKeeps
  <1>3. CASE Checksum(d, 255) # 0
    <2>1. UNCHANGED queryVars /\ got' = got
      BY <1>3 DEF EndOfFrame, Quiet
    <2> QED BY <1>1, <1>3, <2>1 DEF QueryTyped, queryVars
  <1> QED BY <1>2, <1>3

-----------------------------------------------------------------------------
(* The actions keep the types *)

LEMMA ReadByteKeepsTypes ==
  ASSUME DriverInv, ReadByte
  PROVE  DriverInv'
  <1> DEFINE c == Head(line)
  <1>1. /\ line # <<>> /\ line \in Seq(Byte) /\ c \in Byte /\ Tail(line) \in Seq(Byte)
        /\ line' = Tail(line) /\ truth' = truth /\ sent' = sent /\ faults' = faults
    BY HeadTailProperties DEF ReadByte, DriverInv, RxTyped
  <1>2. /\ rx \in [state : RxStates, length : Nat, data : Seq(Byte)]
        /\ rx.state \in {"WAITSTART", "LENGTH_MSB"} => rx.length = 0
        /\ rx.state # "RXFRAME" => rx.data = <<>>
        /\ rx.state = "RXFRAME" => rx.length \in 2..MaxFrameLen /\ Len(rx.data) <= rx.length
    BY DEF DriverInv, RxTyped
  <1>3. Start \in Nat /\ <<>> \in Seq(Byte) /\ \A x \in Byte : x \in Nat
    BY DEF Start, Byte
  <1>4. ASSUME Quiet PROVE QueryTyped' /\ got' \in Nat
    BY <1>4 DEF Quiet, queryVars, DriverInv, QueryTyped, WorldTyped
  <1>5. CASE rx.state = "WAITSTART"
    <2>1. rx' = (IF c = Start THEN [rx EXCEPT !.state = "LENGTH_MSB"] ELSE rx) /\ Quiet
      BY <1>5 DEF ReadByte
    <2> HIDE DEF c
    <2>2. RxTyped'
      BY <1>1, <1>2, <1>3, <1>5, <2>1 DEF RxTyped, RxStates
    <2> QED BY <1>1, <1>4, <2>1, <2>2 DEF DriverInv, WorldTyped
  <1>6. CASE rx.state = "LENGTH_MSB"
    <2>1. rx' = (IF c = Start THEN rx ELSE [rx EXCEPT !.state = "LENGTH_LSB", !.length = 256 * c]) /\ Quiet
      BY <1>6 DEF ReadByte
    <2>2. 256 * c \in Nat
      BY <1>1, <1>3
    <2> HIDE DEF c
    <2>3. RxTyped'
      BY <1>1, <1>2, <1>3, <1>6, <2>1, <2>2, ZenonT(60) DEF RxTyped, RxStates
    <2> QED BY <1>1, <1>4, <2>1, <2>3 DEF DriverInv, WorldTyped
  <1>7. CASE rx.state = "LENGTH_LSB"
    <2>1. /\ rx' = (IF ~ BadLength(rx.length + c)
                    THEN [state |-> "RXFRAME", length |-> rx.length + c, data |-> <<>>]
                    ELSE IF c = Start THEN [WaitStart EXCEPT !.state = "LENGTH_MSB"] ELSE WaitStart)
          /\ Quiet
      BY <1>7 DEF ReadByte
    <2>2. rx.length + c \in Nat /\ rx.length \in Nat
      BY <1>1, <1>2, <1>3
    <2> HIDE DEF c
    <2>3. RxTyped'
      <3>1. CASE ~ BadLength(rx.length + c)
        <4>1. rx.length + c \in 2..MaxFrameLen
          BY <3>1, <2>2, DriverAssumption DEF BadLength
        <4>2. rx' = [state |-> "RXFRAME", length |-> rx.length + c, data |-> <<>>]
          BY <2>1, <3>1
        <4>3. \A k \in 2..MaxFrameLen : Len(<<>>) <= k
          BY EmptySeq, DriverAssumption
        <4> QED BY <1>1, <1>3, <2>2, <4>1, <4>2, <4>3 DEF RxTyped, RxStates
      <3>2. CASE BadLength(rx.length + c)
        BY <1>1, <1>3, <2>1, <3>2 DEF RxTyped, RxStates, WaitStart
      <3> QED BY <3>1, <3>2
    <2> QED BY <1>1, <1>4, <2>1, <2>3 DEF DriverInv, WorldTyped
  <1>8. CASE rx.state = "RXFRAME"
    <2>1. InFrame(c)
      BY <1>8 DEF ReadByte
    <2> HIDE DEF c
    <2>2. CASE Len(rx.data) = rx.length
      <3>1. QueryTyped' /\ got' \in Nat /\ rx' = WaitStart
        BY <2>1, <2>2, EndOfFrameKeeps DEF InFrame, DriverInv, WorldTyped
      <3>2. RxTyped'
        BY <1>1, <1>3, <3>1 DEF RxTyped, RxStates, WaitStart
      <3> QED BY <1>1, <3>1, <3>2 DEF DriverInv, WorldTyped
    <2>3. CASE Len(rx.data) # rx.length
      <3>1. rx' = [rx EXCEPT !.data = Append(@, c)] /\ Quiet
        BY <2>1, <2>3 DEF InFrame
      <3>2. Append(rx.data, c) \in Seq(Byte) /\ Len(Append(rx.data, c)) = Len(rx.data) + 1 /\ Len(rx.data) \in Nat
        BY <1>1, <1>2, AppendProperties, LenProperties
      <3>3. Len(Append(rx.data, c)) <= rx.length
        BY <1>2, <1>8, <2>3, <3>2
      <3>4. RxTyped'
        BY <1>1, <1>2, <1>8, <3>1, <3>2, <3>3 DEF RxTyped, RxStates
      <3> QED BY <1>1, <1>4, <3>1, <3>4 DEF DriverInv, WorldTyped
    <2> QED BY <2>2, <2>3
  <1> QED BY <1>2, <1>5, <1>6, <1>7, <1>8 DEF RxStates

LEMMA TimeoutKeepsTypes ==
  ASSUME DriverInv, Timeout
  PROVE  DriverInv'
  <1>1. QueryTyped'
    BY QueryEndKeeps DEF Timeout, DriverInv
  <1>2. RxTyped' /\ WorldTyped'
    BY DEF Timeout, DriverInv, RxTyped, WorldTyped
  <1> QED BY <1>1, <1>2 DEF DriverInv

(* What the device sends are payloads of bytes. *)
LEMMA ResponseIsPayload ==
  ASSUME DriverInv, asked # NoRequest, NEW code \in {0, 1}
  PROVE  <<LocalResponse, asked.frame, Letters(asked.command), code, truth[asked.command]>> \in Payloads
  <1>1. asked \in Requests /\ truth \in [SL : Byte, AI : Byte, MY : Byte]
    BY DEF DriverInv, QueryTyped, WorldTyped
  <1>2. asked.frame \in Byte
    <2>1. \A k \in 1..MaxAsked : k \in Byte
      BY DriverAssumption DEF Byte
    <2> QED BY <1>1, <2>1 DEF Requests
  <1>3. Letters(asked.command) \in Byte /\ LocalResponse \in Byte /\ code \in Byte
    BY DEF Letters, LocalResponse, Byte
  <1>4. truth[asked.command] \in Byte
    BY <1>1 DEF Requests
  <1>5. 5 \in 2..MaxFrameLen
    BY DriverAssumption
  <1> DEFINE a == asked.frame
             b == Letters(asked.command)
             v == truth[asked.command]
  <1> HIDE DEF a, b, v
  <1>6. <<LocalResponse, a, b, code, v>> \in Seq(Byte) /\ Len(<<LocalResponse, a, b, code, v>>) = 5
    BY <1>2, <1>3, <1>4 DEF a, b, v
  <1> QED BY <1>5, <1>6 DEF Payloads, a, b, v

LEMMA StatusIsPayload ==
  ASSUME NEW s \in {2, 3, CoordStart}
  PROVE  <<ModemStatus, s>> \in Payloads
  <1>1. s \in Byte /\ ModemStatus \in Byte
    BY DEF CoordStart, ModemStatus, Byte
  <1>2. 2 \in 2..MaxFrameLen
    BY DriverAssumption
  <1>3. <<ModemStatus, s>> \in Seq(Byte) /\ Len(<<ModemStatus, s>>) = 2
    BY <1>1
  <1> QED BY <1>2, <1>3 DEF Payloads

LEMMA HonestArePayloads ==
  ASSUME NEW w
  PROVE  Honest(w) \in SUBSET Payloads
  BY DEF Honest

(* What the device sends is true. *)
LEMMA ResponseIsHonest ==
  ASSUME DriverInv, asked # NoRequest, NEW code \in {0, 1}
  PROVE  <<LocalResponse, asked.frame, Letters(asked.command), code, truth[asked.command]>> \in Honest(truth)
  <1>1. asked.command \in {"SL", "AI", "MY"} /\ asked.frame \in 1..MaxAsked
    BY DEF DriverInv, QueryTyped, Requests
  <1>2. asked.frame \in Byte
    BY <1>1, DriverAssumption DEF Byte
  <1> QED BY <1>1, <1>2, ResponseIsPayload DEF Honest

LEMMA StatusIsHonest ==
  ASSUME NEW s \in {2, 3, CoordStart}, s = CoordStart => truth.MY = Coordinator
  PROVE  <<ModemStatus, s>> \in Honest(truth)
  <1>1. s \in Byte
    BY DEF CoordStart, Byte
  <1> QED BY <1>1, StatusIsPayload DEF Honest

(* A frame more on the line. *)
LEMMA PutKeepsTypes ==
  ASSUME RxTyped, NEW p \in Payloads, Put(Frame(p)), rx' = rx
  PROVE  RxTyped'
  <1>1. line \in Seq(Byte) /\ Frame(p) \in Seq(Byte)
    BY FrameBytes DEF RxTyped
  <1>2. line' \in Seq(Byte)
    BY <1>1, ConcatProperties DEF Put
  <1> QED BY <1>2 DEF RxTyped

LEMMA AnswerKeepsTypes ==
  ASSUME DriverInv, Answer
  PROVE  DriverInv'
  <1>1. PICK code \in {0, 1} :
          Put(Frame(<<LocalResponse, asked.frame, Letters(asked.command), code, truth[asked.command]>>))
    BY DEF Answer
  <1>2. RxTyped'
    BY <1>1, ResponseIsPayload, PutKeepsTypes DEF Answer, DriverInv
  <1>3. QueryTyped'
    BY DEF Answer, DriverInv, QueryTyped
  <1>4. WorldTyped'
    BY DEF Answer, DriverInv, WorldTyped
  <1> QED BY <1>2, <1>3, <1>4 DEF DriverInv

LEMMA ReportStatusKeepsTypes ==
  ASSUME DriverInv, ReportStatus
  PROVE  DriverInv'
  <1>1. PICK s \in {2, 3, CoordStart} : Put(Frame(<<ModemStatus, s>>))
    BY DEF ReportStatus
  <1>2. RxTyped'
    BY <1>1, StatusIsPayload, PutKeepsTypes DEF ReportStatus, DriverInv
  <1>3. QueryTyped'
    BY DEF ReportStatus, DriverInv, QueryTyped, queryVars
  <1>4. WorldTyped'
    BY DEF ReportStatus, DriverInv, WorldTyped
  <1> QED BY <1>2, <1>3, <1>4 DEF DriverInv

LEMMA HarmLineKeepsTypes ==
  ASSUME DriverInv, HarmLine
  PROVE  DriverInv' /\ faults' > 0
  <1>1. line \in Seq(Byte) /\ Len(line) \in Nat /\ Noise \subseteq Byte
    BY LenProperties, DriverAssumption DEF DriverInv, RxTyped, Byte
  <1>2. PICK i \in 1..Len(line), c \in Noise :
          \/ line' = [line EXCEPT ![i] = c]
          \/ line' = RemoveAt(line, i)
          \/ line' = InsertAt(line, i, c)
    BY DEF HarmLine
  <1>3. c \in Byte
    BY <1>1
  <1>4. SubSeq(line, 1, i - 1) \in Seq(Byte) /\ SubSeq(line, i, Len(line)) \in Seq(Byte)
        /\ SubSeq(line, i + 1, Len(line)) \in Seq(Byte)
    <2>1. 1 \in 1..(Len(line) + 1) /\ i - 1 \in 0..Len(line) /\ i \in 1..(Len(line) + 1)
          /\ i + 1 \in 1..(Len(line) + 1) /\ Len(line) \in 0..Len(line)
      BY <1>1
    <2> QED BY <1>1, <2>1, SubSeqProperties
  <1>5. line' \in Seq(Byte)
    <2>1. CASE line' = [line EXCEPT ![i] = c]
      BY <1>1, <1>3, <2>1, ExceptSeq
    <2>2. CASE line' = RemoveAt(line, i)
      BY <1>4, <2>2, ConcatProperties DEF RemoveAt
    <2>3. CASE line' = InsertAt(line, i, c)
      <3>1. <<c>> \in Seq(Byte)
        BY <1>3
      <3>2. SubSeq(line, 1, i - 1) \o <<c>> \in Seq(Byte)
        BY <1>4, <3>1, ConcatProperties
      <3>3. (SubSeq(line, 1, i - 1) \o <<c>>) \o SubSeq(line, i, Len(line)) \in Seq(Byte)
        BY <1>4, <3>2, ConcatProperties
      <3> QED BY <2>3, <3>3 DEF InsertAt
    <2> QED BY <1>2, <2>1, <2>2, <2>3
  <1>6. RxTyped'
    BY <1>5 DEF HarmLine, DriverInv, RxTyped
  <1>7. QueryTyped'
    BY DEF HarmLine, DriverInv, QueryTyped, queryVars
  <1>8. WorldTyped' /\ faults' > 0
    BY DEF HarmLine, DriverInv, WorldTyped
  <1> QED BY <1>6, <1>7, <1>8 DEF DriverInv

-----------------------------------------------------------------------------
(* A line without faults *)

(* What has been taken is bytes. *)
LEMMA HeldIsBytes ==
  ASSUME RxTyped
  PROVE  /\ Held(rx) \in Seq(Byte)
         /\ rx.state = "WAITSTART" => Held(rx) = <<>> /\ Len(Held(rx)) = 0
         /\ rx.state = "LENGTH_MSB" => Held(rx) = <<Start>> /\ Len(Held(rx)) = 1
         /\ rx.state = "LENGTH_LSB" => Held(rx) = <<Start, 0>> /\ Len(Held(rx)) = 2
         /\ rx.state = "RXFRAME" =>
              /\ Held(rx) = <<Start, 0, rx.length>> \o rx.data
              /\ Len(Held(rx)) = 3 + Len(rx.data) /\ Held(rx)[3] = rx.length
              /\ \A i \in 1..Len(rx.data) : Held(rx)[3 + i] = rx.data[i]
  <1>1. Start \in Byte /\ 0 \in Byte /\ \A k \in 2..MaxFrameLen : k \in Byte
    BY DriverAssumption DEF Byte, Start
  <1>2. rx.state \in RxStates
    BY DEF RxTyped
  <1>3. CASE rx.state = "WAITSTART"
    BY <1>3 DEF Held
  <1>4. CASE rx.state = "LENGTH_MSB"
    BY <1>1, <1>4 DEF Held
  <1>5. CASE rx.state = "LENGTH_LSB"
    BY <1>1, <1>5 DEF Held
  <1>6. CASE rx.state = "RXFRAME"
    <2> DEFINE h == <<Start, 0, rx.length>>
               d == rx.data
    <2>1. Held(rx) = h \o d
      BY <1>6 DEF Held
    <2>2. rx.length \in Byte /\ d \in Seq(Byte) /\ Len(d) \in Nat
      BY <1>1, <1>6, LenProperties DEF RxTyped
    <2>3. h \in Seq(Byte) /\ Len(h) = 3 /\ h[3] = rx.length
      BY <1>1, <2>2
    <2> HIDE DEF h, d
    <2>4. /\ h \o d \in Seq(Byte) /\ Len(h \o d) = Len(h) + Len(d)
          /\ \A i \in 1..(Len(h) + Len(d)) : (h \o d)[i] = IF i <= Len(h) THEN h[i] ELSE d[i - Len(h)]
      BY <2>2, <2>3, ConcatProperties
    <2>5. \A i \in 1..Len(d) : 3 + i \in 1..(3 + Len(d)) /\ ~ (3 + i <= 3) /\ (3 + i) - 3 = i
      BY <2>2
    <2>6. 3 \in 1..(3 + Len(d)) /\ 3 <= 3
      BY <2>2
    <2>7. \A i \in 1..Len(d) : (h \o d)[3 + i] = d[i]
      BY <2>3, <2>4, <2>5
    <2>8. (h \o d)[3] = rx.length
      BY <2>3, <2>4, <2>6
    <2> QED BY <1>6, <2>1, <2>3, <2>4, <2>7, <2>8 DEF h, d
  <1> QED BY <1>2, <1>3, <1>4, <1>5, <1>6 DEF RxStates

(* A byte that is taken changes its place, and nothing else. *)
LEMMA ByteTaken ==
  ASSUME NEW h \in Seq(Byte), NEW s \in Seq(Byte), s # <<>>
  PROVE  Append(h, Head(s)) \o Tail(s) = h \o s
  <1>1. Head(s) \in Byte /\ Tail(s) \in Seq(Byte) /\ <<Head(s)>> \o Tail(s) = s /\ <<Head(s)>> \in Seq(Byte)
    <2>1. Head(s) \in Byte /\ Tail(s) \in Seq(Byte) /\ Len(Tail(s)) = Len(s) - 1 /\ Len(s) \in Nat
          /\ \A i \in 1..Len(Tail(s)) : Tail(s)[i] = s[i + 1]
      BY HeadTailProperties, LenProperties
    <2> QED BY <2>1
  <1>2. Append(h, Head(s)) = h \o <<Head(s)>>
    BY <1>1, AppendIsConcat
  <1> QED BY <1>1, <1>2, ConcatAssociative

(* The frame that is read, at a byte that is taken with h before it. *)
LEMMA NextByte ==
  ASSUME NEW h \in Seq(Byte), NEW s \in Seq(Byte), s # <<>>, NEW n \in Nat,
         NEW P \in SUBSET Payloads, Frames(h \o s, n, P)
  PROVE  /\ n # 0
         /\ \E p \in P :
              /\ \A i \in 1..(Len(p) + 4) : i <= Len(h) => h[i] = Frame(p)[i]
              /\ Len(h) < Len(p) + 4 => Head(s) = Frame(p)[Len(h) + 1]
              /\ Frames(SubSeq(h \o s, Len(p) + 5, Len(h) + Len(s)), n - 1, P)
  <1>1. Len(h) \in Nat /\ Len(s) \in Nat /\ Len(s) # 0 /\ Head(s) = s[1]
    BY EmptySeq, LenProperties, HeadTailProperties
  <1>2. /\ h \o s \in Seq(Byte) /\ Len(h \o s) = Len(h) + Len(s)
        /\ \A i \in 1..(Len(h) + Len(s)) : (h \o s)[i] = IF i <= Len(h) THEN h[i] ELSE s[i - Len(h)]
    BY ConcatProperties
  <1>3. n # 0
    <2>1. Len(h \o s) # 0
      BY <1>1, <1>2
    <2> QED BY <1>2, <2>1, NoFramesNoBytes, EmptySeq
  <1>4. PICK p \in P :
          /\ Len(p) + 4 <= Len(h \o s)
          /\ \A i \in 1..(Len(p) + 4) : (h \o s)[i] = Frame(p)[i]
          /\ Frames(SubSeq(h \o s, Len(p) + 5, Len(h \o s)), n - 1, P)
    BY <1>2, <1>3, FirstFrame
  <1>5. Len(p) \in Nat
    BY FrameBytes
  <1>6. \A i \in 1..(Len(p) + 4) : i <= Len(h) => h[i] = Frame(p)[i]
    BY <1>1, <1>2, <1>4, <1>5
  <1>7. ASSUME Len(h) < Len(p) + 4 PROVE Head(s) = Frame(p)[Len(h) + 1]
    <2>1. Len(h) + 1 \in 1..(Len(h) + Len(s)) /\ Len(h) + 1 \in 1..(Len(p) + 4)
          /\ ~ (Len(h) + 1 <= Len(h)) /\ (Len(h) + 1) - Len(h) = 1
      BY <1>1, <1>5, <1>7
    <2> QED BY <1>1, <1>2, <1>4, <2>1
  <1> QED BY <1>2, <1>3, <1>4, <1>6, <1>7

(* Behind the frame that was read whole comes what was not read. *)
LEMMA BehindFrame ==
  ASSUME NEW h \in Seq(Byte), NEW s \in Seq(Byte), s # <<>>
  PROVE  SubSeq(h \o s, Len(h) + 2, Len(h) + Len(s)) = Tail(s)
  <1> DEFINE t == SubSeq(h \o s, Len(h) + 2, Len(h) + Len(s))
  <1>1. Len(h) \in Nat /\ Len(s) \in Nat /\ Len(s) # 0
    BY EmptySeq, LenProperties
  <1>2. /\ h \o s \in Seq(Byte) /\ Len(h \o s) = Len(h) + Len(s)
        /\ \A i \in 1..(Len(h) + Len(s)) : (h \o s)[i] = IF i <= Len(h) THEN h[i] ELSE s[i - Len(h)]
    BY ConcatProperties
  <1>3. /\ Tail(s) \in Seq(Byte) /\ Len(Tail(s)) = Len(s) - 1
        /\ \A i \in 1..Len(Tail(s)) : Tail(s)[i] = s[i + 1]
    BY HeadTailProperties
  <1>4. /\ t \in Seq(Byte)
        /\ Len(t) = IF Len(h) + 2 <= Len(h) + Len(s) THEN Len(h) + Len(s) - (Len(h) + 2) + 1 ELSE 0
        /\ \A i \in 1..Len(t) : t[i] = (h \o s)[Len(h) + 2 + i - 1]
    <2>1. Len(h) + 2 \in 1..(Len(h \o s) + 1) /\ Len(h) + Len(s) \in 0..Len(h \o s)
      BY <1>1, <1>2
    <2> QED BY <1>2, <2>1, SubSeqProperties
  <1> HIDE DEF t
  <1>5. Len(t) = Len(s) - 1
    <2>1. \A a, b \in Nat : b # 0 => (IF a + 2 <= a + b THEN a + b - (a + 2) + 1 ELSE 0) = b - 1
      BY SMTT(60)
    <2> QED BY <1>1, <1>4, <2>1
  <1>6. ASSUME NEW i \in 1..Len(t) PROVE t[i] = Tail(s)[i]
    <2>1. Len(h) + 2 + i - 1 = Len(h) + 1 + i /\ Len(h) + 1 + i \in 1..(Len(h) + Len(s))
          /\ ~ (Len(h) + 1 + i <= Len(h)) /\ (Len(h) + 1 + i) - Len(h) = i + 1 /\ i \in 1..Len(Tail(s))
      BY <1>1, <1>3, <1>5
    <2> QED BY <1>2, <1>3, <1>4, <2>1, ZenonT(60)
  <1>7. t = Tail(s)
    BY <1>3, <1>4, <1>5, <1>6, SeqEqual
  <1> QED BY <1>7 DEF t

(* A byte inside a frame. *)
LEMMA TakenKeepsFrames ==
  ASSUME RxTyped, line # <<>>, line' = Tail(line), got' = got, sent' = sent, truth' = truth, WholeFrames,
         Held(rx)' = Append(Held(rx), Head(line)), rx'.state = "LENGTH_LSB" => rx'.length = 0
  PROVE  WholeFrames'
  <1>1. Held(rx) \in Seq(Byte) /\ line \in Seq(Byte)
    BY HeldIsBytes DEF RxTyped
  <1>2. Held(rx)' \o line' = Held(rx) \o line
    BY <1>1, ByteTaken
  <1> QED BY <1>2 DEF WholeFrames

LEMMA HeadersKeepFrames ==
  ASSUME DriverInv, WholeFrames, ReadByte, rx.state # "RXFRAME"
  PROVE  WholeFrames'
  <1> DEFINE c == Head(line)
             h == Held(rx)
  <1>1. line # <<>> /\ line \in Seq(Byte) /\ c \in Byte /\ line' = Tail(line) /\ sent' = sent /\ truth' = truth
    BY HeadTailProperties DEF ReadByte, DriverInv, RxTyped
  <1>2. h \in Seq(Byte)
    BY HeldIsBytes DEF DriverInv
  <1>3. PICK n \in Nat : sent = got + n /\ Frames(h \o line, n, Honest(truth))
    BY DEF WholeFrames
  <1> HIDE DEF h
  <1>4. PICK p \in Honest(truth) : Len(h) < Len(p) + 4 => c = Frame(p)[Len(h) + 1]
    BY <1>1, <1>2, <1>3, NextByte, HonestArePayloads
  <1>5. Len(p) \in 2..MaxFrameLen /\ Frame(p)[1] = Start /\ Frame(p)[2] = 0 /\ Frame(p)[3] = Len(p)
    <2>1. p \in Payloads
      BY HonestArePayloads
    <2> QED BY <2>1, FrameBytes DEF Payloads
  <1>6. Len(p) \in Nat /\ 2 <= Len(p)
    BY <1>5, DriverAssumption
  <1>7. CASE rx.state = "WAITSTART"
    <2>1. h = <<>> /\ c = Start
      BY <1>4, <1>5, <1>6, <1>7, HeldIsBytes DEF DriverInv, h
    <2>2. rx' = [rx EXCEPT !.state = "LENGTH_MSB"] /\ got' = got
      BY <1>7, <2>1 DEF ReadByte, Quiet
    <2>3. rx'.state = "LENGTH_MSB"
      BY <2>2 DEF DriverInv, RxTyped
    <2>4. Held(rx)' = <<Start>>
      BY <2>3 DEF Held
    <2>5. Held(rx)' = Append(Held(rx), Head(line))
      BY <2>1, <2>4 DEF h
    <2> QED BY <1>1, <2>2, <2>3, <2>5, TakenKeepsFrames DEF DriverInv
  <1>8. CASE rx.state = "LENGTH_MSB"
    <2>1. h = <<Start>> /\ c = 0 /\ c # Start
      <3>1. h = <<Start>> /\ Len(h) = 1
        BY <1>8, HeldIsBytes DEF DriverInv, h
      <3>2. Len(h) < Len(p) + 4 /\ Len(h) + 1 = 2 /\ Start # 0
        BY <3>1, <1>6 DEF Start
      <3> QED BY <3>1, <3>2, <1>4, <1>5
    <2>2. rx' = [rx EXCEPT !.state = "LENGTH_LSB", !.length = 256 * c] /\ got' = got
      BY <1>8, <2>1 DEF ReadByte, Quiet
    <2>3. rx'.state = "LENGTH_LSB" /\ rx'.length = 0
      BY <2>1, <2>2 DEF DriverInv, RxTyped
    <2>4. Held(rx)' = <<Start, 0>>
      BY <2>3 DEF Held
    <2>5. Held(rx)' = Append(Held(rx), Head(line))
      BY <2>1, <2>4 DEF h
    <2> QED BY <1>1, <2>2, <2>3, <2>5, TakenKeepsFrames DEF DriverInv
  <1>9. CASE rx.state = "LENGTH_LSB"
    <2>1. h = <<Start, 0>> /\ c = Len(p)
      <3>1. h = <<Start, 0>> /\ Len(h) = 2
        BY <1>9, HeldIsBytes DEF DriverInv, h
      <3>2. Len(h) < Len(p) + 4 /\ Len(h) + 1 = 3
        BY <3>1, <1>6
      <3> QED BY <3>1, <3>2, <1>4, <1>5
    <2>2. rx.length = 0 /\ rx.length + c = c
      BY <1>6, <1>9, <2>1 DEF WholeFrames
    <2>3. ~ BadLength(rx.length + c)
      BY <1>5, <2>1, <2>2, DriverAssumption DEF BadLength
    <2>4. rx' = [state |-> "RXFRAME", length |-> c, data |-> <<>>] /\ got' = got
      BY <1>9, <2>2, <2>3 DEF ReadByte, Quiet
    <2>5. Held(rx)' = <<Start, 0, c>> \o <<>>
      BY <2>4 DEF Held
    <2>6. Held(rx)' = Append(Held(rx), Head(line))
      BY <2>1, <2>5 DEF h
    <2>7. rx'.state = "RXFRAME"
      BY <2>4
    <2> QED BY <1>1, <2>4, <2>6, <2>7, TakenKeepsFrames DEF DriverInv
  <1> QED BY <1>7, <1>8, <1>9 DEF DriverInv, RxTyped, RxStates

(* The frame that the last byte completes is the first that was sent and not dispatched. *)
LEMMA FrameCollected ==
  ASSUME DriverInv, WholeFrames, line # <<>>, rx.state = "RXFRAME", Len(rx.data) = rx.length
  PROVE  /\ Head(line) \in Byte /\ Head(line) = Checksum(rx.data, 255)
         /\ rx.data \in Honest(truth)
         /\ \E n \in Nat : n # 0 /\ sent = got + n /\ Frames(Tail(line), n - 1, Honest(truth))
  <1> DEFINE c == Head(line)
             h == Held(rx)
  <1>1. line \in Seq(Byte) /\ c \in Byte
    BY HeadTailProperties DEF DriverInv, RxTyped
  <1>2. /\ h \in Seq(Byte) /\ Len(h) = 3 + Len(rx.data) /\ h[3] = rx.length
        /\ \A i \in 1..Len(rx.data) : h[3 + i] = rx.data[i]
    BY HeldIsBytes DEF DriverInv
  <1>3. rx.length \in 2..MaxFrameLen /\ Len(rx.data) \in Nat /\ rx.data \in Seq(Byte)
    BY LenProperties DEF DriverInv, RxTyped
  <1>4. PICK n \in Nat : sent = got + n /\ Frames(h \o line, n, Honest(truth))
    BY DEF WholeFrames
  <1> HIDE DEF h, c
  <1>5. PICK p \in Honest(truth) :
          /\ \A i \in 1..(Len(p) + 4) : i <= Len(h) => h[i] = Frame(p)[i]
          /\ Len(h) < Len(p) + 4 => c = Frame(p)[Len(h) + 1]
          /\ Frames(SubSeq(h \o line, Len(p) + 5, Len(h) + Len(line)), n - 1, Honest(truth))
    BY <1>1, <1>2, <1>4, NextByte, HonestArePayloads DEF c
  <1>6. n # 0
    BY <1>1, <1>2, <1>4, NextByte, HonestArePayloads
  <1>7. /\ Len(p) \in Nat /\ p \in Seq(Byte) /\ Frame(p)[3] = Len(p)
        /\ \A i \in 1..Len(p) : Frame(p)[3 + i] = p[i]
        /\ Frame(p)[Len(p) + 4] = Checksum(p, 255)
    <2>1. p \in Payloads
      BY HonestArePayloads
    <2> QED BY <2>1, FrameBytes DEF Payloads
  <1>8. Len(p) = rx.length
    <2>1. 3 \in 1..(Len(p) + 4) /\ 3 <= Len(h)
      BY <1>2, <1>3, <1>7
    <2> QED BY <2>1, <1>2, <1>5, <1>7
  <1>9. p = rx.data
    <2>1. ASSUME NEW i \in 1..Len(p) PROVE p[i] = rx.data[i]
      <3>1. 3 + i \in 1..(Len(p) + 4) /\ 3 + i <= Len(h) /\ i \in 1..Len(rx.data)
        BY <1>2, <1>3, <1>7, <1>8
      <3> QED BY <3>1, <1>2, <1>5, <1>7
    <2>2. Len(p) = Len(rx.data)
      BY <1>8
    <2> QED BY <1>3, <1>7, <2>1, <2>2, SeqEqual
  <1>10. c = Checksum(rx.data, 255)
    <2>1. Len(h) < Len(p) + 4 /\ Len(h) + 1 = Len(p) + 4
      BY <1>2, <1>3, <1>7, <1>9
    <2> QED BY <2>1, <1>5, <1>7, <1>9
  <1>11. Frames(Tail(line), n - 1, Honest(truth))
    <2>1. Len(p) + 5 = Len(h) + 2
      BY <1>2, <1>3, <1>9
    <2> QED BY <2>1, <1>1, <1>2, <1>5, BehindFrame
  <1> QED BY <1>1, <1>4, <1>5, <1>6, <1>9, <1>10, <1>11 DEF c

LEMMA InFrameKeepsFrames ==
  ASSUME DriverInv, WholeFrames, ReadByte, rx.state = "RXFRAME"
  PROVE  WholeFrames'
  <1> DEFINE c == Head(line)
             h == Held(rx)
  <1>1. line # <<>> /\ line \in Seq(Byte) /\ c \in Byte /\ line' = Tail(line) /\ sent' = sent /\ truth' = truth
        /\ InFrame(c)
    BY HeadTailProperties DEF ReadByte, DriverInv, RxTyped
  <1>2. /\ h \in Seq(Byte) /\ h = <<Start, 0, rx.length>> \o rx.data
        /\ Len(h) = 3 + Len(rx.data) /\ h[3] = rx.length
        /\ \A i \in 1..Len(rx.data) : h[3 + i] = rx.data[i]
    BY HeldIsBytes DEF DriverInv
  <1>3. /\ rx \in [state : RxStates, length : Nat, data : Seq(Byte)]
        /\ rx.length \in 2..MaxFrameLen /\ Len(rx.data) <= rx.length /\ Len(rx.data) \in Nat /\ rx.data \in Seq(Byte)
    BY LenProperties DEF DriverInv, RxTyped
  <1>4. CASE Len(rx.data) # rx.length
    <2>1. rx' = [rx EXCEPT !.data = Append(@, c)] /\ got' = got
      BY <1>1, <1>4 DEF InFrame, Quiet
    <2>2. rx'.state = "RXFRAME" /\ rx'.length = rx.length /\ rx'.data = Append(rx.data, c)
      BY <1>3, <2>1
    <2>3. Held(rx)' = <<Start, 0, rx.length>> \o Append(rx.data, c)
      BY <2>2 DEF Held
    <2>4. <<Start, 0, rx.length>> \o Append(rx.data, c) = Append(<<Start, 0, rx.length>> \o rx.data, c)
      <3> DEFINE k == <<Start, 0, rx.length>>
                 d == rx.data
      <3>1. k \in Seq(Nat) /\ d \in Seq(Nat) /\ c \in Nat
        <4>1. \A x \in Byte : x \in Nat
          BY DEF Byte
        <4>2. Start \in Nat /\ rx.length \in Nat
          BY <1>3 DEF Start
        <4> QED BY <1>1, <1>3, <4>1, <4>2, SeqMonotonic
      <3> HIDE DEF k, d, c
      <3>2. Append(d, c) = d \o <<c>> /\ k \o d \in Seq(Nat) /\ <<c>> \in Seq(Nat)
        BY <3>1, AppendIsConcat, ConcatProperties
      <3>3. Append(k \o d, c) = (k \o d) \o <<c>>
        BY <3>1, <3>2, AppendIsConcat
      <3>4. (k \o d) \o <<c>> = k \o (d \o <<c>>)
        BY <3>1, <3>2, ConcatAssociative, SMTT(60)
      <3> QED BY <3>2, <3>3, <3>4 DEF k, d, c
    <2>5. Held(rx)' = Append(Held(rx), Head(line))
      BY <1>2, <2>3, <2>4
    <2> QED BY <1>1, <2>1, <2>2, <2>5, TakenKeepsFrames DEF DriverInv
  <1>5. CASE Len(rx.data) = rx.length
    <2>1. EndOfFrame(Append(rx.data, c), rx.length)
      BY <1>1, <1>5 DEF InFrame
    <2>2. PICK n \in Nat : n # 0 /\ sent = got + n /\ Frames(Tail(line), n - 1, Honest(truth))
      BY <1>1, <1>5, FrameCollected
    <2>3. Checksum(Append(rx.data, c), 255) = 0
      <3>1. c = Checksum(rx.data, 255)
        BY <1>1, <1>5, FrameCollected
      <3> QED BY <1>3, <3>1, ChecksumCloses
    <2> HIDE DEF h, c
    <2>4. rx' = WaitStart /\ got' = got + 1
      BY <2>1, <2>3, EndOfFrameKeeps DEF DriverInv, WorldTyped
    <2>5. Held(rx)' \o line' = Tail(line)
      <3>1. Held(rx)' = <<>>
        BY <2>4 DEF Held, WaitStart
      <3>2. Tail(line) \in Seq(Byte)
        BY <1>1, HeadTailProperties
      <3> QED BY <1>1, <3>1, <3>2, ConcatEmptySeq
    <2>6. n - 1 \in Nat /\ sent' = got' + (n - 1)
      BY <1>1, <2>2, <2>4 DEF DriverInv, WorldTyped
    <2>7. rx'.state # "LENGTH_LSB"
      BY <2>4 DEF WaitStart
    <2> QED BY <1>1, <2>2, <2>5, <2>6, <2>7 DEF WholeFrames
  <1> QED BY <1>4, <1>5

LEMMA PutKeepsFrames ==
  ASSUME DriverInv, WholeFrames, NEW p \in Honest(truth), Put(Frame(p)), sent' = sent + 1, got' = got, rx' = rx,
         truth' = truth
  PROVE  WholeFrames'
  <1> DEFINE h == Held(rx)
  <1>1. PICK n \in Nat : sent = got + n /\ Frames(h \o line, n, Honest(truth))
    BY DEF WholeFrames
  <1>2. h \in Seq(Byte) /\ line \in Seq(Byte) /\ Frame(p) \in Seq(Byte)
    <2>1. p \in Payloads
      BY HonestArePayloads
    <2> QED BY <2>1, HeldIsBytes, FrameBytes DEF DriverInv, RxTyped
  <1>3. Held(rx)' = h
    BY DEF Held
  <1> HIDE DEF h
  <1>4. h \o line \in Seq(Byte) /\ (h \o line) \o Frame(p) = h \o (line \o Frame(p))
    BY <1>2, ConcatProperties, ConcatAssociative, SMTT(60)
  <1>5. Frames((h \o line) \o Frame(p), n + 1, Honest(truth))
    BY <1>1, <1>4, OneFrameMore, HonestArePayloads
  <1>6. Frames(Held(rx)' \o line', n + 1, Honest(truth))
    BY <1>3, <1>4, <1>5 DEF Put
  <1>7. n + 1 \in Nat /\ sent' = got' + (n + 1)
    BY <1>1 DEF DriverInv, WorldTyped
  <1> QED BY <1>6, <1>7 DEF WholeFrames

-----------------------------------------------------------------------------
(* What is dispatched on a line without faults is true *)

(* The letters of a command name its register. *)
LEMMA LettersTell ==
  \A q, r \in {"SL", "AI", "MY"} : Letters(q) = Letters(r) => q = r
  BY DEF Letters

(* The payload is what comes before the checksum. *)
LEMMA BeforeChecksum ==
  ASSUME NEW p \in Seq(Byte), NEW c \in Byte
  PROVE  SubSeq(Append(p, c), 1, Len(p)) = p
  <1> DEFINE t == Append(p, c)
             u == SubSeq(t, 1, Len(p))
  <1>1. Len(p) \in Nat /\ t \in Seq(Byte) /\ Len(t) = Len(p) + 1 /\ \A i \in 1..Len(p) : t[i] = p[i]
    BY LenProperties, AppendProperties
  <1> HIDE DEF t
  <1>2. /\ u \in Seq(Byte)
        /\ Len(u) = IF 1 <= Len(p) THEN Len(p) - 1 + 1 ELSE 0
        /\ \A i \in 1..Len(u) : u[i] = t[1 + i - 1]
    <2>1. 1 \in 1..(Len(t) + 1) /\ Len(p) \in 0..Len(t)
      BY <1>1
    <2> QED BY <1>1, <2>1, SubSeqProperties
  <1> HIDE DEF u
  <1>3. Len(u) = Len(p)
    BY <1>1, <1>2
  <1>4. ASSUME NEW i \in 1..Len(p) PROVE u[i] = p[i]
    <2>1. 1 + i - 1 = i /\ i \in 1..Len(u)
      BY <1>1, <1>3
    <2> QED BY <2>1, <1>1, <1>2
  <1>5. u = p
    BY <1>2, <1>3, <1>4, SeqEqual
  <1> QED BY <1>5 DEF t, u

(* The value of a response goes to the register that its letters name, and a status says
   what the device has become (_xbee_cmd_list_callback, _xbee_dev_modem_status). *)
LEMMA DispatchKeepsCopies ==
  ASSUME DriverInv, TrueCopies, NEW p \in Honest(truth), Dispatch(p), truth' = truth
  PROVE  TrueCopies'
  <1>1. ASSUME UNCHANGED queryVars PROVE TrueCopies'
    BY <1>1 DEF queryVars, TrueCopies
  <1>2. ASSUME NEW r \in {"SL", "AI", "MY"}, NEW f \in Byte, NEW code \in {0, 1},
               p = <<LocalResponse, f, Letters(r), code, truth[r]>>
        PROVE  TrueCopies'
    <2>1. p[1] = LocalResponse /\ p[3] = Letters(r) /\ p[4] = code /\ p[5] = truth[r]
      BY <1>2
    <2>2. HandleResponse(p)
      BY <2>1 DEF Dispatch, LocalResponse, ModemStatus
    <2>3. CASE request # NoRequest /\ Len(p) = 5 /\ p[2] = request.frame /\ p[3] = Letters(request.command)
      <3>1. ListCallback(code, truth[r])
        BY <2>1, <2>2, <2>3 DEF HandleResponse
      <3>2. request.command \in {"SL", "AI", "MY"} /\ request.command = Registers[index]
        BY <2>3 DEF DriverInv, QueryTyped, Requests
      <3>3. Registers[index] = r
        BY <2>1, <2>3, <3>2, LettersTell
      <3>4. info' = IF code = 0 /\ r # "AI" THEN [info EXCEPT ![r] = truth[r]] ELSE info
        BY <3>1, <3>3 DEF ListCallback
      <3> QED BY <1>2, <3>4 DEF TrueCopies
    <2>4. CASE ~ (request # NoRequest /\ Len(p) = 5 /\ p[2] = request.frame /\ p[3] = Letters(request.command))
      BY <1>1, <2>2, <2>4 DEF HandleResponse
    <2> QED BY <2>3, <2>4
  <1>3. ASSUME NEW s \in Byte, p = <<ModemStatus, s>>, s = CoordStart => truth.MY = Coordinator
        PROVE  TrueCopies'
    <2>1. p[1] = ModemStatus /\ p[2] = s
      BY <1>3
    <2>2. HandleStatus(s)
      BY <2>1 DEF Dispatch
    <2>3. info' = [info EXCEPT !.MY = IF s \in LeftStatus THEN Undefined
                                      ELSE IF s = CoordStart THEN Coordinator ELSE @]
      BY <2>2 DEF HandleStatus
    <2> QED BY <1>3, <2>3 DEF TrueCopies
  <1> QED BY <1>2, <1>3 DEF Honest

LEMMA ReadByteKeepsCopies ==
  ASSUME DriverInv, WholeFrames, TrueCopies, ReadByte
  PROVE  TrueCopies'
  <1> DEFINE c == Head(line)
  <1>1. line # <<>> /\ truth' = truth
    BY DEF ReadByte
  <1>2. ASSUME Quiet PROVE TrueCopies'
    BY <1>1, <1>2 DEF Quiet, queryVars, TrueCopies
  <1>3. CASE rx.state # "RXFRAME"
    <2>1. rx.state \in {"WAITSTART", "LENGTH_MSB", "LENGTH_LSB"}
      BY <1>3 DEF DriverInv, RxTyped, RxStates
    <2>2. Quiet
      BY <2>1 DEF ReadByte
    <2> QED BY <1>2, <2>2
  <1>4. CASE rx.state = "RXFRAME" /\ Len(rx.data) # rx.length
    <2>1. InFrame(c)
      BY <1>4 DEF ReadByte
    <2>2. Quiet
      BY <1>4, <2>1 DEF InFrame
    <2> QED BY <1>2, <2>2
  <1>5. CASE rx.state = "RXFRAME" /\ Len(rx.data) = rx.length
    <2>1. EndOfFrame(Append(rx.data, c), rx.length)
      <3>1. InFrame(c)
        BY <1>5 DEF ReadByte
      <3> QED BY <1>5, <3>1 DEF InFrame
    <2>2. c \in Byte /\ c = Checksum(rx.data, 255) /\ rx.data \in Honest(truth)
      BY <1>1, <1>5, FrameCollected
    <2>3. rx.data \in Seq(Byte)
      BY DEF DriverInv, RxTyped
    <2> HIDE DEF c
    <2>4. Checksum(Append(rx.data, c), 255) = 0
      BY <2>2, <2>3, ChecksumCloses
    <2>5. SubSeq(Append(rx.data, c), 1, rx.length) = rx.data
      BY <1>5, <2>2, <2>3, BeforeChecksum
    <2>6. Dispatch(rx.data)
      BY <2>1, <2>4, <2>5 DEF EndOfFrame
    <2> QED BY <1>1, <2>2, <2>6, DispatchKeepsCopies
  <1> QED BY <1>3, <1>4, <1>5

-----------------------------------------------------------------------------
(* The theorems *)

LEMMA StartsWell ==
  ASSUME DriverInit
  PROVE  DriverInv /\ GoodLine
  <1>1. RxTyped
    <2>1. <<>> \in Seq(Byte)
      OBVIOUS
    <2> QED BY <2>1 DEF DriverInit, RxTyped, WaitStart, RxStates
  <1>2. request \in Requests /\ request # NoRequest /\ request.command = Registers[index]
    BY DriverAssumption DEF DriverInit, Requests, Registers, NoRequest
  <1>3. QueryTyped
    BY <1>2, DriverAssumption DEF DriverInit, QueryTyped
  <1>4. WorldTyped
    <2>1. Values \subseteq Byte /\ {0, 255} \subseteq Byte /\ Coordinator \in Byte
      BY DriverAssumption DEF Byte, Coordinator
    <2>2. truth \in [SL : Byte, AI : Byte, MY : Byte]
      BY <2>1 DEF DriverInit
    <2> QED BY <2>2 DEF DriverInit, WorldTyped
  <1>5. Frames(Held(rx) \o line, 0, Honest(truth))
    <2>1. Held(rx) = <<>> /\ line = <<>>
      BY DEF DriverInit, Held, WaitStart
    <2>2. <<>> \in Seq(Byte)
      OBVIOUS
    <2>3. <<>> \o <<>> = <<>>
      BY <2>2, ConcatEmptySeq
    <2> QED BY <2>1, <2>3, NoFrames
  <1>6. WholeFrames
    BY <1>5 DEF WholeFrames, DriverInit, WaitStart
  <1>7. TrueCopies
    BY DEF DriverInit, TrueCopies
  <1> QED BY <1>1, <1>3, <1>4, <1>6, <1>7 DEF DriverInv, GoodLine

LEMMA TypesAreKept ==
  ASSUME DriverInv, [DriverNext]_driverVars
  PROVE  DriverInv'
  <1>1. ASSUME UNCHANGED driverVars PROVE DriverInv'
    BY <1>1 DEF driverVars, DriverInv, RxTyped, QueryTyped, WorldTyped
  <1> QED BY <1>1, ReadByteKeepsTypes, TimeoutKeepsTypes, AnswerKeepsTypes, ReportStatusKeepsTypes,
             HarmLineKeepsTypes DEF DriverNext

LEMMA FramesAreKept ==
  ASSUME DriverInv, GoodLine, [DriverNext]_driverVars
  PROVE  GoodLine'
  <1>1. CASE ReadByte
    <2>1. faults' = faults
      BY <1>1 DEF ReadByte
    <2> QED BY <1>1, <2>1, HeadersKeepFrames, InFrameKeepsFrames, ReadByteKeepsCopies DEF GoodLine
  <1>2. CASE Timeout
    BY <1>2 DEF Timeout, GoodLine, WholeFrames, TrueCopies, Held
  <1>3. CASE Answer
    <2>1. PICK code \in {0, 1} :
            Put(Frame(<<LocalResponse, asked.frame, Letters(asked.command), code, truth[asked.command]>>))
      BY <1>3 DEF Answer
    <2>2. /\ sent' = sent + 1 /\ got' = got /\ rx' = rx /\ faults' = faults /\ asked # NoRequest
          /\ truth' = truth /\ info' = info
      BY <1>3 DEF Answer
    <2> QED BY <2>1, <2>2, ResponseIsHonest, PutKeepsFrames DEF GoodLine, TrueCopies
  <1>4. CASE ReportStatus
    <2>1. PICK s \in {2, 3, CoordStart} :
            (s = CoordStart => truth.MY = Coordinator) /\ Put(Frame(<<ModemStatus, s>>))
      BY <1>4 DEF ReportStatus
    <2>2. sent' = sent + 1 /\ got' = got /\ rx' = rx /\ faults' = faults /\ truth' = truth /\ info' = info
      BY <1>4 DEF ReportStatus, queryVars
    <2> QED BY <2>1, <2>2, StatusIsHonest, PutKeepsFrames DEF GoodLine, TrueCopies
  <1>5. CASE HarmLine
    BY <1>5, HarmLineKeepsTypes DEF GoodLine
  <1>6. CASE UNCHANGED driverVars
    BY <1>6 DEF driverVars, GoodLine, WholeFrames, TrueCopies, Held
  <1> QED BY <1>1, <1>2, <1>3, <1>4, <1>5, <1>6 DEF DriverNext

LEMMA InvariantsImply ==
  ASSUME DriverInv, GoodLine
  PROVE  DriverTypeOK /\ NothingLostOnGoodLine /\ (faults = 0 => CopiesAreTrue)
  <1>1. rx.data \in Seq(0..255) /\ Len(rx.data) \in Nat
    BY LenProperties DEF DriverInv, RxTyped, Byte
  <1>2. Len(rx.data) <= MaxFrameLen
    <2>1. CASE rx.state = "RXFRAME"
      BY <1>1, <2>1, DriverAssumption DEF DriverInv, RxTyped
    <2>2. CASE rx.state # "RXFRAME"
      BY <2>2, EmptySeq, DriverAssumption DEF DriverInv, RxTyped
    <2> QED BY <2>1, <2>2
  <1>3. status \in {"running", "done", "timeout"} /\ ((status = "running") = (request # NoRequest))
    BY DEF DriverInv, QueryTyped
  <1>4. ASSUME faults = 0, line = <<>> PROVE rx = WaitStart /\ got = sent
    <2>1. PICK n \in Nat : sent = got + n /\ Frames(Held(rx) \o line, n, Honest(truth))
      BY <1>4 DEF GoodLine, WholeFrames
    <2>2. Held(rx) \in Seq(Byte)
      BY HeldIsBytes DEF DriverInv
    <2>3. Frames(Held(rx), n, Honest(truth))
      BY <1>4, <2>1, <2>2, ConcatEmptySeq
    <2>4. n = 0
      <3>1. SUFFICES ASSUME n # 0 PROVE FALSE
        OBVIOUS
      <3>2. PICK p \in Honest(truth) :
              /\ Len(p) + 4 <= Len(Held(rx))
              /\ \A i \in 1..(Len(p) + 4) : Held(rx)[i] = Frame(p)[i]
        BY <2>2, <2>3, <3>1, FirstFrame, HonestArePayloads
      <3>3. Len(p) \in Nat /\ Frame(p)[3] = Len(p)
        BY FrameBytes, HonestArePayloads
      <3>4. CASE rx.state = "RXFRAME"
        <4>1. Held(rx)[3] = rx.length /\ Len(Held(rx)) = 3 + Len(rx.data) /\ Len(rx.data) <= rx.length
          BY <3>4, HeldIsBytes DEF DriverInv, RxTyped
        <4>2. 3 \in 1..(Len(p) + 4)
          BY <3>3
        <4>3. rx.length = Len(p)
          BY <3>2, <3>3, <4>1, <4>2
        <4> QED BY <1>1, <3>2, <3>3, <4>1, <4>3
      <3>5. CASE rx.state # "RXFRAME"
        <4>1. Len(Held(rx)) \in {0, 1, 2}
          BY <3>5, HeldIsBytes DEF DriverInv, RxTyped, RxStates
        <4> QED BY <3>2, <3>3, <4>1
      <3> QED BY <3>4, <3>5
    <2>5. got = sent
      BY <2>1, <2>4 DEF DriverInv, WorldTyped
    <2>6. Len(Held(rx)) = 0
      BY <2>2, <2>3, <2>4, NoFramesNoBytes, EmptySeq
    <2>7. rx.state = "WAITSTART"
      <3>1. rx.state = "RXFRAME" => Len(Held(rx)) # 0
        BY <1>1, HeldIsBytes DEF DriverInv
      <3>2. rx.state \in RxStates /\ (rx.state = "LENGTH_MSB" => Len(Held(rx)) = 1)
                                  /\ (rx.state = "LENGTH_LSB" => Len(Held(rx)) = 2)
        BY HeldIsBytes DEF DriverInv, RxTyped
      <3> QED BY <2>6, <3>1, <3>2 DEF RxStates
    <2>8. rx = WaitStart
      BY <2>7 DEF DriverInv, RxTyped, WaitStart
    <2> QED BY <2>5, <2>8
  <1>5. faults = 0 => CopiesAreTrue
    BY DEF GoodLine, TrueCopies, CopiesAreTrue
  <1> QED BY <1>1, <1>2, <1>3, <1>4, <1>5 DEF DriverTypeOK, NothingLostOnGoodLine

LEMMA DriverInvariant == DriverSpec => [](DriverInv /\ GoodLine)
  <1>1. DriverInit => DriverInv /\ GoodLine
    BY StartsWell
  <1>2. DriverInv /\ GoodLine /\ [DriverNext]_driverVars => (DriverInv /\ GoodLine)'
    BY TypesAreKept, FramesAreKept
  <1> QED BY <1>1, <1>2, PTL DEF DriverSpec

(* Whatever length the line makes the receiver believe, the frame that it collects fits
   into frame_data, and the list of commands waits for a request as long as it runs
   (_xbee_frame_load, _xbee_cmd_list_callback). *)
THEOREM DriverIsTyped == DriverSpec => []DriverTypeOK
  <1>1. DriverInv /\ GoodLine => DriverTypeOK
    BY InvariantsImply
  <1> QED BY <1>1, DriverInvariant, PTL

(* On a line without faults no frame of the device is lost or taken for another, whatever
   bytes are in it (_xbee_frame_load, _xbee_checksum). *)
THEOREM GoodLineLosesNothing == DriverSpec => []NothingLostOnGoodLine
  <1>1. DriverInv /\ GoodLine => NothingLostOnGoodLine
    BY InvariantsImply
  <1> QED BY <1>1, DriverInvariant, PTL

(* As long as the line has had no fault, the driver believes nothing of the device that is
   not so: a response that comes after its command timed out, or while another one is
   asked, is not copied to the wrong register (_xbee_cmd_list_callback, _xbee_frame_load).
   A wrong copy needs a fault. *)
THEOREM GoodLineCopiesAreTrue == DriverSpec => [](faults = 0 => CopiesAreTrue)
  <1>1. DriverInv /\ GoodLine => (faults = 0 => CopiesAreTrue)
    BY InvariantsImply
  <1> QED BY <1>1, DriverInvariant, PTL

=============================================================================
