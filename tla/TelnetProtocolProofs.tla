------------------------ MODULE TelnetProtocolProofs ------------------------
(***************************************************************************)
(* What TLAPS proves about the telnet protocol for any data, any size of   *)
(* the buffer and any number of requests, toggles and subnegotiations: the *)
(* data of a client arrive as they were typed, both ends agree on every    *)
(* option once nothing is on its way, and the echo follows the command     *)
(* line.                                                                   *)
(***************************************************************************)
EXTENDS TelnetProtocol, SequenceTheorems, TLAPS

-----------------------------------------------------------------------------
(* The negotiation of one option between its two ends *)

States == {"NO", "YES", "WANTNO", "WANTNO_OP", "WANTYES", "WANTYES_OP"}
WantsNo == {"WANTNO", "WANTNO_OP"}
WantsYes == {"WANTYES", "WANTYES_OP"}
Answers == {"none", "yes", "no"}
Words == {"yes", "no"}

(* A channel behind what was written for an answer. *)
Push(channel, answer) == IF answer = "none" THEN channel ELSE Append(channel, answer)

Nothing == <<>>
No == <<"no">>
Yes == <<"yes">>
NoYes == <<"no", "yes">>
YesNo == <<"yes", "no">>

(* One half of the states x and y two ends can be in with the words ab from the one to
   the other and ba the other way; what an end that wants something changes its mind to
   does not matter. *)
Half(x, y, ab, ba) ==
  \/ x \in {"NO", "YES"} /\ y = x /\ ab = Nothing /\ ba = Nothing
  \/ x = "NO" /\ y \in WantsNo /\ ab = No /\ ba = Nothing
  \/ x = "NO" /\ y \in WantsYes /\ ab = No /\ ba = Nothing
  \/ x = "NO" /\ y \in WantsYes /\ ab = Nothing /\ ba = Yes
  \/ x = "YES" /\ y \in WantsNo /\ ab = Nothing /\ ba = No
  \/ x = "YES" /\ y \in WantsYes /\ ab = Yes /\ ba = Nothing
  \/ x \in WantsNo /\ y \in WantsNo /\ ab = No /\ ba = No
  \/ x \in WantsYes /\ y \in WantsYes /\ ab = Yes /\ ba = Yes
  \/ x \in WantsYes /\ y \in WantsYes /\ ab = NoYes /\ ba = Nothing
  \/ x \in WantsNo /\ y \in WantsYes /\ ab = YesNo /\ ba = Nothing
  \/ x \in WantsNo /\ y \in WantsYes /\ ab = Nothing /\ ba = NoYes

(* The relation of the two ends of an option, the same from both. *)
Related(x, y, ab, ba) == Half(x, y, ab, ba) \/ Half(y, x, ba, ab)

LEMMA RelatedIsSymmetric ==
  ASSUME NEW x, NEW y, NEW ab, NEW ba, Related(x, y, ab, ba)
  PROVE  Related(y, x, ba, ab)
  BY DEF Related

(* What is written onto a channel of at most one word, and read from one of two. *)
LEMMA ChannelFacts ==
  /\ Push(Nothing, "no") = No /\ Push(Nothing, "yes") = Yes
  /\ Push(No, "yes") = NoYes /\ Push(Yes, "no") = YesNo
  /\ \A c : Push(c, "none") = c
  /\ Head(No) = "no" /\ Head(Yes) = "yes" /\ Head(NoYes) = "no" /\ Head(YesNo) = "yes"
  /\ Tail(No) = Nothing /\ Tail(Yes) = Nothing /\ Tail(NoYes) = Yes /\ Tail(YesNo) = No
  <1>1. Push(Nothing, "no") = No /\ Push(Nothing, "yes") = Yes
    BY DEF Push, Nothing, No, Yes
  <1>2. Push(No, "yes") = NoYes /\ Push(Yes, "no") = YesNo
    <2>1. ASSUME NEW v \in Words, NEW w \in Words
          PROVE  Append(<<v>>, w) = <<v, w>>
      <3>1. <<v>> \in Seq(Words) /\ Len(<<v>>) = 1 /\ <<v, w>> \in Seq(Words) /\ Len(<<v, w>>) = 2
        OBVIOUS
      <3>2. /\ Append(<<v>>, w) \in Seq(Words) /\ Len(Append(<<v>>, w)) = 2
            /\ Append(<<v>>, w)[1] = v /\ Append(<<v>>, w)[2] = w
        BY <3>1, AppendProperties
      <3>3. \A i \in 1..2 : Append(<<v>>, w)[i] = <<v, w>>[i]
        <4>1. \A i \in 1..2 : i = 1 \/ i = 2
          OBVIOUS
        <4> QED BY <4>1, <3>2
      <3> QED BY <3>1, <3>2, <3>3, SeqEqual
    <2>2. "yes" # "none" /\ "no" # "none" /\ "yes" \in Words /\ "no" \in Words
      BY DEF Words
    <2> QED BY <2>1, <2>2 DEF Push, No, Yes, NoYes, YesNo
  <1>3. \A c : Push(c, "none") = c
    BY DEF Push
  <1>4. Head(No) = "no" /\ Head(Yes) = "yes" /\ Head(NoYes) = "no" /\ Head(YesNo) = "yes"
    BY DEF No, Yes, NoYes, YesNo
  <1>5. Tail(No) = Nothing /\ Tail(Yes) = Nothing
    BY DEF No, Yes, Nothing
  <1>6. Tail(NoYes) = Yes /\ Tail(YesNo) = No
    BY DEF No, Yes, NoYes, YesNo
  <1> QED BY <1>1, <1>2, <1>3, <1>4, <1>5, <1>6

LEMMA AskTyped ==
  ASSUME NEW s \in States, NEW yes \in BOOLEAN
  PROVE  Ask(s, yes)[1] \in States /\ Ask(s, yes)[2] \in Answers
  BY DEF States, Answers, Ask

LEMMA AnswerTyped ==
  ASSUME NEW s \in States, NEW yes \in BOOLEAN, NEW agree \in BOOLEAN
  PROVE  Answer(s, yes, agree)[1] \in States /\ Answer(s, yes, agree)[2] \in Answers
  BY DEF States, Answers, Answer

(* A request keeps the two ends in the relation. *)
LEMMA AskKeepsRelated ==
  ASSUME NEW x \in States, NEW y \in States, NEW ab, NEW ba, Related(x, y, ab, ba), NEW yes \in BOOLEAN
  PROVE  Related(Ask(x, yes)[1], y, Push(ab, Ask(x, yes)[2]), ba)
  <1>1. CASE Half(x, y, ab, ba)
    BY <1>1, ChannelFacts DEF Half, Related, Ask, WantsNo, WantsYes
  <1>2. CASE Half(y, x, ba, ab)
    BY <1>2, ChannelFacts DEF Half, Related, Ask, WantsNo, WantsYes
  <1> QED BY <1>1, <1>2 DEF Related

(* An answer of the first end keeps the two ends in the relation. *)
LEMMA AnswerKeepsRelated ==
  ASSUME NEW x \in States, NEW y \in States, NEW ab, NEW ba, Related(x, y, ab, ba), ba # <<>>,
         NEW agree \in BOOLEAN
  PROVE  LET r == Answer(x, Head(ba) = "yes", agree)
         IN  Related(r[1], y, Push(ab, r[2]), Tail(ba))
  <1>1. ba # Nothing
    BY DEF Nothing
  <1>2. CASE Half(x, y, ab, ba)
    BY <1>1, <1>2, ChannelFacts, ZenonT(60) DEF Half, Related, Answer, WantsNo, WantsYes
  <1>3. CASE Half(y, x, ba, ab)
    BY <1>1, <1>3, ChannelFacts DEF Half, Related, Answer, WantsNo, WantsYes
  <1> QED BY <1>2, <1>3 DEF Related

(* With nothing on its way both ends hold the same, and neither wants another. *)
LEMMA QuietEndsAgree ==
  ASSUME NEW x \in States, NEW y \in States, Related(x, y, <<>>, <<>>)
  PROVE  x = y /\ x \in {"NO", "YES"}
  <1>1. <<>> # No /\ <<>> # Yes /\ <<>> # NoYes /\ <<>> # YesNo
    BY DEF No, Yes, NoYes, YesNo
  <1> QED BY <1>1 DEF Related, Half, Nothing

-----------------------------------------------------------------------------
(* Sequences of tokens, and what some of them say *)

Sides == {"us", "him"}

DataTokens == [kind : {"data"}, option : {0}, val : 0..255]
CommandTokens == [kind : Sides, option : Options, val : Words]
SubTokens == [kind : {"sub"}, option : {0}, val : {SE, IAC}]
EndTokens == [kind : {"end"}, option : {0}, val : {SE}]
Tokens == DataTokens \cup CommandTokens \cup SubTokens \cup EndTokens

Says(t, kind, option) == t.kind = kind /\ t.option = option

(* n[i] is how many of the first i tokens are of the kind and about the option; what
   they say are the elements of out, in this order. *)
Counts(s, kind, option, out, n) ==
  /\ n \in [0..Len(s) -> 0..Len(out)]
  /\ n[0] = 0 /\ n[Len(s)] = Len(out)
  /\ \A i, j \in 0..Len(s) : i <= j => n[i] <= n[j]
  /\ \A i \in 1..Len(s) :
       IF Says(s[i], kind, option) THEN n[i] = n[i - 1] + 1 /\ out[n[i]] = s[i].val ELSE n[i] = n[i - 1]

Saying(s, kind, option, out) == \E n : Counts(s, kind, option, out, n)

LEMMA NothingSaid ==
  ASSUME NEW kind, NEW option
  PROVE  Saying(<<>>, kind, option, <<>>)
  <1> DEFINE n == [i \in 0..0 |-> 0]
  <1>1. Len(<<>>) = 0 /\ 0..0 = {0} /\ 1..0 = {}
    BY EmptySeq
  <1>2. Counts(<<>>, kind, option, <<>>, n)
    BY <1>1 DEF Counts
  <1> QED BY <1>2 DEF Saying

LEMMA NoTokenSaysNothing ==
  ASSUME NEW T, NEW out \in Seq(T), NEW kind, NEW option, Saying(<<>>, kind, option, out)
  PROVE  out = <<>>
  BY EmptySeq DEF Saying, Counts

(* A token behind the others. *)
LEMMA SayingAppend ==
  ASSUME NEW S, NEW T, NEW s \in Seq(S), NEW out \in Seq(T), NEW kind, NEW option, NEW t \in S,
         Says(t, kind, option) => t.val \in T,
         Saying(s, kind, option, out)
  PROVE  Saying(Append(s, t), kind, option, IF Says(t, kind, option) THEN Append(out, t.val) ELSE out)
  <1> DEFINE a == Append(s, t)
             more == IF Says(t, kind, option) THEN Append(out, t.val) ELSE out
             L == Len(s)
             M == Len(out)
             K == IF Says(t, kind, option) THEN M + 1 ELSE M
  <1>1. PICK n : Counts(s, kind, option, out, n)
    BY DEF Saying
  <1>2. /\ L \in Nat /\ M \in Nat /\ a \in Seq(S) /\ Len(a) = L + 1 /\ a[L + 1] = t
        /\ \A i \in 1..L : a[i] = s[i]
    BY AppendProperties, LenProperties
  <1>3. /\ Len(more) = K
        /\ Says(t, kind, option) => more[M + 1] = t.val
        /\ \A i \in 1..M : more[i] = out[i]
    <2>1. CASE Says(t, kind, option)
      BY <2>1, AppendProperties
    <2>2. CASE ~ Says(t, kind, option)
      BY <2>2
    <2> QED BY <2>1, <2>2
  <1>4. K \in Nat /\ M <= K
    BY <1>2
  <1>5. /\ \A i \in 0..L : n[i] \in 0..M
        /\ n[0] = 0 /\ n[L] = M
        /\ \A i, j \in 0..L : i <= j => n[i] <= n[j]
    BY <1>1 DEF Counts
  <1> DEFINE n2 == [i \in 0..(L + 1) |-> IF i <= L THEN n[i] ELSE K]
  <1> HIDE DEF L, M, K, a, more
  <1>6. n2 \in [0..(L + 1) -> 0..K]
    BY <1>2, <1>4, <1>5
  <1>7. n2[0] = 0 /\ n2[L + 1] = K
    BY <1>2, <1>5
  <1>8. \A i, j \in 0..(L + 1) : i <= j => n2[i] <= n2[j]
    BY <1>2, <1>4, <1>5
  <1>9. ASSUME NEW i \in 1..(L + 1)
        PROVE  IF Says(a[i], kind, option) THEN n2[i] = n2[i - 1] + 1 /\ more[n2[i]] = a[i].val
               ELSE n2[i] = n2[i - 1]
    <2>1. CASE i <= L
      <3>1. i \in 1..L /\ i - 1 \in 0..L /\ i \in 0..L
        BY <1>2, <2>1
      <3>2. a[i] = s[i] /\ n2[i] = n[i] /\ n2[i - 1] = n[i - 1]
        BY <3>1, <2>1, <1>2
      <3>3. IF Says(s[i], kind, option) THEN n[i] = n[i - 1] + 1 /\ out[n[i]] = s[i].val ELSE n[i] = n[i - 1]
        BY <1>1, <3>1 DEF Counts, L
      <3>4. n[i] \in 0..M /\ n[i - 1] \in 0..M
        BY <3>1, <1>5
      <3>5. CASE Says(s[i], kind, option)
        <4>1. n[i] \in 1..M
          BY <3>3, <3>4, <3>5
        <4>2. more[n[i]] = out[n[i]]
          BY <4>1, <1>3
        <4> QED BY <3>2, <3>3, <3>5, <4>2
      <3>6. CASE ~ Says(s[i], kind, option)
        BY <3>2, <3>3, <3>6
      <3> QED BY <3>5, <3>6
    <2>2. CASE i = L + 1
      <3>1. a[i] = t /\ n2[i] = K /\ n2[i - 1] = M
        BY <1>2, <1>5, <2>2
      <3> HIDE DEF n2
      <3>2. CASE Says(t, kind, option)
        BY <3>1, <3>2, <1>3 DEF K
      <3>3. CASE ~ Says(t, kind, option)
        BY <3>1, <3>3 DEF K
      <3> QED BY <3>2, <3>3
    <2> QED BY <1>2, <2>1, <2>2
  <1>10. Counts(a, kind, option, more, n2)
    <2> HIDE DEF n2
    <2>1. \A i \in 1..Len(a) :
            IF Says(a[i], kind, option) THEN n2[i] = n2[i - 1] + 1 /\ more[n2[i]] = a[i].val
            ELSE n2[i] = n2[i - 1]
      BY <1>2, <1>9
    <2> QED BY <1>2, <1>3, <1>6, <1>7, <1>8, <2>1 DEF Counts
  <1> QED BY <1>10 DEF Saying, a, more

(* The first token away. *)
LEMMA SayingTail ==
  ASSUME NEW S, NEW T, NEW s \in Seq(S), NEW out \in Seq(T), NEW kind, NEW option, s # <<>>,
         Saying(s, kind, option, out)
  PROVE  /\ Says(Head(s), kind, option) =>
              out # <<>> /\ Head(out) = Head(s).val /\ Saying(Tail(s), kind, option, Tail(out))
         /\ ~ Says(Head(s), kind, option) => Saying(Tail(s), kind, option, out)
  <1> DEFINE L == Len(s)
             M == Len(out)
             u == Tail(s)
             hit == Says(Head(s), kind, option)
             d == IF hit THEN 1 ELSE 0
             rest == IF hit THEN Tail(out) ELSE out
  <1>1. PICK n : Counts(s, kind, option, out, n)
    BY DEF Saying
  <1>2. /\ L \in Nat /\ L # 0 /\ M \in Nat /\ Head(s) = s[1]
        /\ u \in Seq(S) /\ Len(u) = L - 1
        /\ \A i \in 1..Len(u) : u[i] = s[i + 1]
    BY HeadTailProperties, LenProperties, EmptySeq
  <1>3. /\ \A i \in 0..L : n[i] \in 0..M
        /\ n[0] = 0 /\ n[L] = M
        /\ \A i, j \in 0..L : i <= j => n[i] <= n[j]
    BY <1>1 DEF Counts
  <1>4. n[1] = d /\ (hit => out[1] = Head(s).val)
    <2>1. 1 \in 1..L /\ 1 - 1 = 0
      BY <1>2
    <2>2. IF Says(s[1], kind, option) THEN n[1] = n[1 - 1] + 1 /\ out[n[1]] = s[1].val ELSE n[1] = n[1 - 1]
      BY <1>1, <2>1 DEF Counts
    <2> QED BY <1>2, <1>3, <2>1, <2>2
  <1>5. 1 \in 0..L /\ L \in 0..L /\ 0 \in 0..L /\ d <= M
    <2>1. 1 \in 0..L /\ L \in 0..L /\ 0 \in 0..L
      BY <1>2
    <2>2. n[1] \in 0..M
      BY <1>3, <2>1
    <2> QED BY <1>2, <1>4, <2>1, <2>2
  <1>6. /\ Len(rest) = M - d
        /\ hit => out # <<>> /\ Head(out) = out[1]
        /\ \A i \in 1..(M - d) : rest[i] = out[i + d]
    <2>1. CASE hit
      <3>1. out # <<>>
        BY <2>1, <1>5, EmptySeq
      <3>2. /\ Len(Tail(out)) = M - 1 /\ Head(out) = out[1]
            /\ \A i \in 1..Len(Tail(out)) : Tail(out)[i] = out[i + 1]
        BY <3>1, HeadTailProperties
      <3> QED BY <2>1, <3>1, <3>2
    <2>2. CASE ~ hit
      BY <2>2, <1>2
    <2> QED BY <2>1, <2>2
  <1> DEFINE n2 == [i \in 0..(L - 1) |-> n[i + 1] - d]
  <1>7. d \in {0, 1}
    OBVIOUS
  <1> HIDE DEF L, M, u, d, rest, hit
  <1>8. \A i \in 0..(L - 1) : i + 1 \in 0..L /\ n[i + 1] \in 0..M /\ n[i + 1] >= d
    <2> TAKE i \in 0..(L - 1)
    <2>1. i + 1 \in 0..L /\ 1 <= i + 1
      BY <1>2
    <2>2. n[1] <= n[i + 1]
      BY <1>3, <1>5, <2>1
    <2>3. n[i + 1] \in 0..M /\ n[1] \in 0..M
      BY <1>3, <1>5, <2>1
    <2> QED BY <2>1, <2>2, <2>3, <1>2, <1>4
  <1>9. n2 \in [0..(L - 1) -> 0..(M - d)]
    BY <1>2, <1>7, <1>8, <1>5
  <1>10. n2[0] = 0 /\ n2[L - 1] = M - d
    <2>1. 0 \in 0..(L - 1) /\ L - 1 \in 0..(L - 1) /\ (L - 1) + 1 = L /\ 0 + 1 = 1
      BY <1>2
    <2> QED BY <2>1, <1>3, <1>4, <1>7
  <1>11. \A i, j \in 0..(L - 1) : i <= j => n2[i] <= n2[j]
    <2> TAKE i, j \in 0..(L - 1)
    <2> HAVE i <= j
    <2>1. i + 1 \in 0..L /\ j + 1 \in 0..L /\ i + 1 <= j + 1
      BY <1>2
    <2>2. n[i + 1] <= n[j + 1]
      BY <1>3, <2>1
    <2> QED BY <2>2, <1>8, <1>7, <1>2
  <1>12. ASSUME NEW i \in 1..(L - 1)
         PROVE  IF Says(u[i], kind, option) THEN n2[i] = n2[i - 1] + 1 /\ rest[n2[i]] = u[i].val
                ELSE n2[i] = n2[i - 1]
    <2>1. i + 1 \in 1..L /\ i - 1 \in 0..(L - 1) /\ i \in 0..(L - 1) /\ (i + 1) - 1 = i /\ (i - 1) + 1 = i
      BY <1>2
    <2>2. IF Says(s[i + 1], kind, option) THEN n[i + 1] = n[(i + 1) - 1] + 1 /\ out[n[i + 1]] = s[i + 1].val
          ELSE n[i + 1] = n[(i + 1) - 1]
      BY <1>1, <2>1 DEF Counts, L
    <2>3. u[i] = s[i + 1]
      BY <1>2
    <2>4. n2[i - 1] = n[i] - d /\ n2[i] = n[i + 1] - d
      BY <2>1
    <2>5. n[i] \in 0..M /\ n[i] >= d /\ n[i + 1] \in 0..M
      <3>1. (i - 1) + 1 \in 0..L /\ n[(i - 1) + 1] \in 0..M /\ n[(i - 1) + 1] >= d
        BY <2>1, <1>8
      <3> QED BY <3>1, <2>1, <1>8
    <2> HIDE DEF n2
    <2>6. CASE Says(u[i], kind, option)
      <3>1. n[i + 1] = n[i] + 1 /\ out[n[i + 1]] = u[i].val
        BY <2>1, <2>2, <2>3, <2>6
      <3>2. n2[i] = n2[i - 1] + 1 /\ n2[i] \in 1..(M - d) /\ n2[i] + d = n[i + 1]
        <4>1. \A a, b \in 0..M : a >= d /\ b = a + 1 =>
                b - d = (a - d) + 1 /\ b - d \in 1..(M - d) /\ (b - d) + d = b
          BY <1>2, <1>7
        <4> QED BY <3>1, <2>4, <2>5, <4>1
      <3> QED BY <2>6, <3>1, <3>2, <1>6
    <2>7. CASE ~ Says(u[i], kind, option)
      BY <2>1, <2>2, <2>3, <2>4, <2>7
    <2> QED BY <2>6, <2>7
  <1>13. Counts(u, kind, option, rest, n2)
    <2> HIDE DEF n2
    <2>1. \A i \in 1..Len(u) :
            IF Says(u[i], kind, option) THEN n2[i] = n2[i - 1] + 1 /\ rest[n2[i]] = u[i].val
            ELSE n2[i] = n2[i - 1]
      BY <1>2, <1>12
    <2> QED BY <1>2, <1>6, <1>9, <1>10, <1>11, <2>1 DEF Counts
  <1>14. Saying(u, kind, option, rest)
    BY <1>13 DEF Saying
  <1> QED BY <1>4, <1>6, <1>14 DEF u, rest, hit

-----------------------------------------------------------------------------
(* The bytes of tokens *)

Byte == 0..255

(* Byte strings, one behind the other. *)
LEMMA Regrouped ==
  ASSUME NEW a \in Seq(Byte), NEW b \in Seq(Byte), NEW c \in Seq(Byte)
  PROVE  (a \o b) \o c = a \o (b \o c)
BY ConcatAssociative, SMTT(60)

(* The command of the client about its side of an option. *)
TheCommand(t) ==
  IF t.kind = "us" THEN IF t.val = "yes" THEN "DO" ELSE "DONT" ELSE IF t.val = "yes" THEN "WILL" ELSE "WONT"

(* A subnegotiation that fits ends with SE; of one that does not, the parser leaves the
   end behind, which is a token of its own. *)
Size(t) ==
  CASE t.kind = "data" -> IF t.val = IAC THEN 2 ELSE 1
    [] t.kind \in Sides -> 3
    [] t.kind = "sub" -> 2 * BufferLimit + 5
    [] t.kind = "end" -> 2

ByteOf(t, j) ==
  CASE t.kind = "data" -> t.val
    [] t.kind \in Sides -> IF j = 1 THEN IAC ELSE IF j = 2 THEN Code(TheCommand(t)) ELSE t.option
    [] t.kind = "sub" ->
         IF j = 2 THEN SB ELSE IF j = 3 THEN LINEMODE ELSE IF j = 2 * BufferLimit + 5 THEN t.val ELSE IAC
    [] t.kind = "end" -> IF j = 1 THEN IAC ELSE SE

LEMMA SizeFacts ==
  ASSUME NEW t \in Tokens
  PROVE  Size(t) \in Nat \ {0}
  <1>1. BufferLimit \in Nat
    BY ProtocolAssumption
  <1>2. CASE t \in DataTokens
    BY <1>2 DEF DataTokens, Size
  <1>3. CASE t \in CommandTokens
    BY <1>3 DEF CommandTokens, Size, Sides
  <1>4. CASE t \in SubTokens
    <2>1. Size(t) = 2 * BufferLimit + 5
      BY <1>4 DEF SubTokens, Size, Sides
    <2> QED BY <1>1, <2>1
  <1>5. CASE t \in EndTokens
    BY <1>5 DEF EndTokens, Size, Sides
  <1> QED BY <1>2, <1>3, <1>4, <1>5 DEF Tokens

(* From a + 1 on the sequence holds the token. *)
TokenAt(s, a, t) == \A j \in 1..Size(t) : s[a + j] = ByteOf(t, j)

(* The places where the tokens end, one behind the other. *)
Cuts(s, tokens, cut) ==
  /\ cut \in [0..Len(tokens) -> 0..Len(s)]
  /\ cut[0] = 0 /\ cut[Len(tokens)] = Len(s)
  /\ \A i, j \in 0..Len(tokens) : i <= j => cut[i] <= cut[j]
  /\ \A i \in 1..Len(tokens) : cut[i] = cut[i - 1] + Size(tokens[i]) /\ TokenAt(s, cut[i - 1], tokens[i])

Coded(s, tokens) == \E cut : Cuts(s, tokens, cut)

LEMMA NothingCoded == Coded(<<>>, <<>>)
  <1> DEFINE cut == [i \in 0..0 |-> 0]
  <1>1. Len(<<>>) = 0 /\ 0..0 = {0} /\ 1..0 = {}
    BY EmptySeq
  <1>2. Cuts(<<>>, <<>>, cut)
    BY <1>1 DEF Cuts
  <1> QED BY <1>2 DEF Coded

(* Without a token there is no byte. *)
LEMMA NoTokenNoByte ==
  ASSUME NEW s \in Seq(Byte), Coded(s, <<>>)
  PROVE  s = <<>>
  BY EmptySeq DEF Coded, Cuts

(* A token more. *)
LEMMA CodedAppend ==
  ASSUME NEW s \in Seq(Byte), NEW tokens \in Seq(Tokens), NEW t \in Tokens, NEW e \in Seq(Byte),
         Coded(s, tokens), Len(e) = Size(t), TokenAt(e, 0, t)
  PROVE  Coded(s \o e, Append(tokens, t))
  <1> DEFINE m == Size(t)
             b == s \o e
             a == Append(tokens, t)
             L == Len(s)
             n == Len(tokens)
  <1>1. PICK cut : Cuts(s, tokens, cut)
    BY DEF Coded
  <1>2. m \in Nat /\ L \in Nat /\ n \in Nat
    BY SizeFacts, LenProperties
  <1>3. /\ b \in Seq(Byte) /\ Len(b) = L + m
        /\ \A i \in 1..L : b[i] = s[i]
        /\ \A i \in 1..m : b[L + i] = ByteOf(t, i)
    <2>1. /\ b \in Seq(Byte) /\ Len(b) = L + Len(e)
          /\ \A i \in 1..(L + Len(e)) : b[i] = IF i <= L THEN s[i] ELSE e[i - L]
      BY ConcatProperties
    <2> HIDE DEF m, b, L
    <2>2. Len(e) = m
      BY DEF m
    <2>3. ASSUME NEW i \in 1..m
          PROVE  b[L + i] = ByteOf(t, i)
      <3>1. L + i \in 1..(L + m) /\ ~ (L + i <= L) /\ (L + i) - L = i /\ 0 + i = i
        BY <1>2
      <3>2. e[0 + i] = ByteOf(t, i)
        BY DEF TokenAt, m
      <3> QED BY <2>1, <2>2, <3>1, <3>2
    <2>4. ASSUME NEW i \in 1..L
          PROVE  b[i] = s[i]
      <3>1. i \in 1..(L + m) /\ i <= L
        BY <1>2
      <3> QED BY <2>1, <2>2, <3>1
    <2> QED BY <2>1, <2>2, <2>3, <2>4
  <1>4. /\ a \in Seq(Tokens) /\ Len(a) = n + 1 /\ a[n + 1] = t
        /\ \A i \in 1..n : a[i] = tokens[i]
    BY AppendProperties
  <1> DEFINE cut2 == [i \in 0..(n + 1) |-> IF i <= n THEN cut[i] ELSE L + m]
  <1>5. /\ \A i \in 0..n : cut[i] \in 0..L
        /\ cut[0] = 0 /\ cut[n] = L
        /\ \A i, j \in 0..n : i <= j => cut[i] <= cut[j]
    BY <1>1 DEF Cuts
  <1> HIDE DEF m, b, a, L, n
  <1>6. cut2 \in [0..(n + 1) -> 0..(L + m)]
    BY <1>2, <1>5
  <1>7. cut2[0] = 0 /\ cut2[n + 1] = L + m
    BY <1>2, <1>5
  <1>8. \A i, j \in 0..(n + 1) : i <= j => cut2[i] <= cut2[j]
    BY <1>2, <1>5
  <1>9. ASSUME NEW i \in 1..(n + 1)
        PROVE  cut2[i] = cut2[i - 1] + Size(a[i]) /\ TokenAt(b, cut2[i - 1], a[i])
    <2>1. CASE i <= n
      <3>1. i \in 1..n /\ i - 1 \in 0..n /\ i \in 0..n
        BY <1>2, <2>1
      <3>2. a[i] = tokens[i] /\ cut2[i] = cut[i] /\ cut2[i - 1] = cut[i - 1]
        BY <3>1, <2>1, <1>4
      <3>3. cut[i] = cut[i - 1] + Size(tokens[i]) /\ TokenAt(s, cut[i - 1], tokens[i])
        BY <1>1, <3>1 DEF Cuts, n
      <3>4. Size(tokens[i]) \in Nat
        <4>1. tokens[i] \in Tokens
          BY <3>1, ElementOfSeq DEF n
        <4> QED BY <4>1, SizeFacts
      <3>5. \A j \in 1..Size(tokens[i]) : cut[i - 1] + j \in 1..L
        <4>1. cut[i] \in 0..L /\ cut[i - 1] \in 0..L
          BY <1>5, <3>1
        <4> QED BY <4>1, <3>3, <3>4, <1>2
      <3>6. TokenAt(b, cut[i - 1], tokens[i])
        BY <3>3, <3>5, <1>3 DEF TokenAt
      <3> QED BY <3>2, <3>3, <3>6
    <2>2. CASE i = n + 1
      <3>1. a[i] = t /\ cut2[i - 1] = L /\ cut2[i] = L + m
        BY <1>2, <1>4, <1>5, <2>2
      <3> HIDE DEF cut2
      <3>2. TokenAt(b, L, t)
        BY <1>3 DEF TokenAt, m
      <3> QED BY <3>1, <3>2 DEF m
    <2> QED BY <1>2, <2>1, <2>2
  <1>10. Cuts(b, a, cut2)
    <2> HIDE DEF cut2
    <2>1. \A i \in 1..(n + 1) : cut2[i] = cut2[i - 1] + Size(a[i]) /\ TokenAt(b, cut2[i - 1], a[i])
      BY <1>9
    <2> QED BY <1>3, <1>4, <1>6, <1>7, <1>8, <2>1 DEF Cuts
  <1> QED BY <1>10 DEF Coded, b, a

(* The first token, and the others behind it. *)
LEMMA CodedFirst ==
  ASSUME NEW s \in Seq(Byte), NEW tokens \in Seq(Tokens), tokens # <<>>, Coded(s, tokens)
  PROVE  /\ Size(Head(tokens)) <= Len(s)
         /\ TokenAt(s, 0, Head(tokens))
         /\ Coded(SubSeq(s, Size(Head(tokens)) + 1, Len(s)), Tail(tokens))
  <1> DEFINE t == Head(tokens)
             u == Tail(tokens)
             n == Len(tokens)
             L == Len(s)
             m == Size(t)
             b == SubSeq(s, m + 1, L)
  <1>1. PICK cut : Cuts(s, tokens, cut)
    BY DEF Coded
  <1>2. /\ n \in Nat /\ n # 0 /\ L \in Nat /\ t = tokens[1] /\ t \in Tokens /\ u \in Seq(Tokens) /\ Len(u) = n - 1
        /\ \A i \in 1..Len(u) : u[i] = tokens[i + 1]
    BY HeadTailProperties, LenProperties, EmptySeq
  <1>3. /\ \A i \in 0..n : cut[i] \in 0..L
        /\ cut[0] = 0 /\ cut[n] = L
        /\ \A i, j \in 0..n : i <= j => cut[i] <= cut[j]
    BY <1>1 DEF Cuts
  <1>4. m \in Nat
    BY <1>2, SizeFacts
  <1>5. cut[1] = m /\ m <= L /\ TokenAt(s, 0, t) /\ 1 \in 0..n
    <2>1. 1 \in 1..n /\ 1 \in 0..n /\ 1 - 1 = 0
      BY <1>2
    <2>2. cut[1] = cut[1 - 1] + Size(tokens[1]) /\ TokenAt(s, cut[1 - 1], tokens[1])
      BY <1>1, <2>1 DEF Cuts
    <2>3. cut[1] \in 0..L
      BY <1>3, <2>1
    <2> QED BY <1>2, <1>3, <1>4, <2>1, <2>2, <2>3
  <1> HIDE DEF m, n
  <1>6. /\ b \in Seq(Byte) /\ Len(b) = L - m
        /\ \A i \in 1..(L - m) : b[i] = s[m + i]
    <2>1. m + 1 \in 1..(L + 1) /\ L \in 0..L
      BY <1>2, <1>4, <1>5
    <2>2. /\ b \in Seq(Byte)
          /\ Len(b) = IF m + 1 <= L THEN L - (m + 1) + 1 ELSE 0
          /\ \A i \in 1..Len(b) : b[i] = s[m + 1 + i - 1]
      BY <1>2, <2>1, SubSeqProperties
    <2> HIDE DEF b, L
    <2>3. Len(b) = L - m
      BY <2>2, <1>2, <1>4, <1>5
    <2>4. ASSUME NEW i \in 1..(L - m) PROVE m + 1 + i - 1 = m + i
      BY <1>2, <1>4
    <2> QED BY <2>2, <2>3, <2>4
  <1> DEFINE cut2 == [i \in 0..(n - 1) |-> cut[i + 1] - m]
  <1> HIDE DEF b, L, t, u
  <1>7. \A i \in 0..(n - 1) : i + 1 \in 0..n /\ cut[i + 1] \in 0..L /\ cut[i + 1] >= m
    <2> TAKE i \in 0..(n - 1)
    <2>1. i + 1 \in 0..n /\ 1 <= i + 1
      BY <1>2
    <2>2. cut[1] <= cut[i + 1]
      BY <1>3, <1>5, <2>1
    <2>3. cut[i + 1] \in 0..L
      BY <1>3, <2>1
    <2> QED BY <2>1, <2>2, <2>3, <1>5, <1>2
  <1>8. cut2 \in [0..(n - 1) -> 0..(L - m)]
    BY <1>2, <1>4, <1>5, <1>7
  <1>9. cut2[0] = 0 /\ cut2[n - 1] = L - m
    <2>1. 0 \in 0..(n - 1) /\ n - 1 \in 0..(n - 1) /\ (n - 1) + 1 = n /\ 0 + 1 = 1
      BY <1>2
    <2> QED BY <2>1, <1>3, <1>4, <1>5
  <1>10. \A i, j \in 0..(n - 1) : i <= j => cut2[i] <= cut2[j]
    <2> TAKE i, j \in 0..(n - 1)
    <2> HAVE i <= j
    <2>1. i + 1 \in 0..n /\ j + 1 \in 0..n /\ i + 1 <= j + 1
      BY <1>2
    <2>2. cut[i + 1] <= cut[j + 1]
      BY <1>3, <2>1
    <2> QED BY <2>2, <1>7, <1>4, <1>2
  <1>11. ASSUME NEW i \in 1..(n - 1)
         PROVE  cut2[i] = cut2[i - 1] + Size(u[i]) /\ TokenAt(b, cut2[i - 1], u[i])
    <2>1. i + 1 \in 1..n /\ i - 1 \in 0..(n - 1) /\ i \in 0..(n - 1) /\ (i + 1) - 1 = i /\ (i - 1) + 1 = i
      BY <1>2
    <2>2. cut[i + 1] = cut[(i + 1) - 1] + Size(tokens[i + 1]) /\ TokenAt(s, cut[(i + 1) - 1], tokens[i + 1])
      BY <1>1, <2>1 DEF Cuts, n
    <2>3. u[i] = tokens[i + 1] /\ Size(u[i]) \in Nat
      <3>1. i \in 1..Len(u)
        BY <1>2
      <3>2. u[i] \in Tokens
        BY <3>1, <1>2, ElementOfSeq
      <3> QED BY <3>1, <3>2, <1>2, SizeFacts
    <2>4. cut2[i - 1] = cut[i] - m /\ cut2[i] = cut[i + 1] - m
      BY <2>1
    <2>5. cut[i] \in 0..L /\ cut[i] >= m /\ cut[i + 1] \in 0..L
      <3>1. cut[(i - 1) + 1] \in 0..L /\ cut[(i - 1) + 1] >= m
        BY <2>1, <1>7
      <3> QED BY <3>1, <2>1, <1>7
    <2>6. cut[i + 1] = cut[i] + Size(u[i]) /\ TokenAt(s, cut[i], u[i])
      BY <2>1, <2>2, <2>3
    <2> HIDE DEF cut2
    <2>7. cut2[i] = cut2[i - 1] + Size(u[i])
      BY <2>3, <2>4, <2>5, <2>6, <1>2, <1>4, SMTT(60)
    <2>8. ASSUME NEW j \in 1..Size(u[i])
          PROVE  b[cut2[i - 1] + j] = ByteOf(u[i], j)
      <3>1. cut2[i - 1] + j \in 1..(L - m) /\ m + (cut2[i - 1] + j) = cut[i] + j
        <4>1. j \in Nat /\ 1 <= j /\ j <= Size(u[i])
          BY <2>3
        <4>2. cut[i] + j <= L /\ cut[i] \in Nat /\ cut[i] >= m
          BY <4>1, <2>3, <2>5, <2>6, <1>2, SMTT(60)
        <4>3. \A x \in Nat : x >= m /\ x + j <= L =>
                (x - m) + j \in 1..(L - m) /\ m + ((x - m) + j) = x + j
          BY <4>1, <1>2, <1>4
        <4> QED BY <4>2, <4>3, <2>4
      <3> QED BY <3>1, <1>6, <2>6 DEF TokenAt
    <2> QED BY <2>7, <2>8 DEF TokenAt
  <1>12. Cuts(b, u, cut2)
    <2> HIDE DEF cut2
    <2>1. \A i \in 1..(n - 1) : cut2[i] = cut2[i - 1] + Size(u[i]) /\ TokenAt(b, cut2[i - 1], u[i])
      BY <1>11
    <2> QED BY <1>2, <1>6, <1>8, <1>9, <1>10, <2>1 DEF Cuts
  <1>13. Coded(b, u)
    BY <1>12 DEF Coded
  <1> QED BY <1>5, <1>13 DEF b, u, t, m, L

-----------------------------------------------------------------------------
(* What the parser has taken of the first token *)

LEMMA DataBytes ==
  ASSUME NEW t \in DataTokens
  PROVE  /\ t.kind = "data" /\ t.option = 0 /\ t.val \in Byte /\ ByteOf(t, 1) = t.val
         /\ t.val = IAC => Size(t) = 2 /\ ByteOf(t, 2) = IAC
         /\ t.val # IAC => Size(t) = 1
  <1>1. t.kind = "data" /\ t.option = 0 /\ t.val \in Byte
    BY DEF DataTokens, Byte
  <1>2. Size(t) = IF t.val = IAC THEN 2 ELSE 1
    BY <1>1 DEF Size, Sides
  <1>3. \A j : ByteOf(t, j) = t.val
    BY <1>1 DEF ByteOf, Sides
  <1> QED BY <1>1, <1>2, <1>3

LEMMA CommandBytes ==
  ASSUME NEW t \in CommandTokens
  PROVE  /\ t.kind \in Sides /\ t.option \in Options /\ t.val \in Words /\ Size(t) = 3
         /\ ByteOf(t, 1) = IAC /\ ByteOf(t, 2) = Code(TheCommand(t)) /\ ByteOf(t, 3) = t.option
         /\ TheCommand(t) \in Commands /\ Code(TheCommand(t)) \in {251, 252, 253, 254}
         /\ CommandOf(Code(TheCommand(t))) = TheCommand(t)
  <1>1. t.kind \in Sides /\ t.option \in Options /\ t.val \in Words
    BY DEF CommandTokens
  <1>2. t.kind # "data" /\ t.kind # "sub" /\ t.kind # "end"
    BY <1>1 DEF Sides
  <1>3. Size(t) = 3 /\ ByteOf(t, 1) = IAC /\ ByteOf(t, 2) = Code(TheCommand(t)) /\ ByteOf(t, 3) = t.option
    BY <1>1, <1>2 DEF Size, ByteOf
  <1>4. TheCommand(t) \in Commands
    BY DEF TheCommand, Commands
  <1>5. \A c \in Commands : Code(c) \in {251, 252, 253, 254}
    BY DEF Commands, Code
  <1>6. \A c, d \in Commands : Code(c) = Code(d) => c = d
    BY DEF Commands, Code
  <1>7. CommandOf(Code(TheCommand(t))) = TheCommand(t)
    BY <1>4, <1>6 DEF CommandOf
  <1> QED BY <1>1, <1>3, <1>4, <1>5, <1>7

LEMMA SubBytes ==
  ASSUME NEW t \in SubTokens
  PROVE  /\ t.kind = "sub" /\ t.option = 0 /\ t.val \in {SE, IAC} /\ Size(t) = 2 * BufferLimit + 5
         /\ ByteOf(t, 1) = IAC /\ ByteOf(t, 2) = SB /\ ByteOf(t, 3) = LINEMODE
         /\ \A j \in 4..(2 * BufferLimit + 4) : ByteOf(t, j) = IAC
         /\ ByteOf(t, 2 * BufferLimit + 5) = t.val
  <1>1. BufferLimit \in Nat
    BY ProtocolAssumption
  <1>2. t.kind = "sub" /\ t.option = 0 /\ t.val \in {SE, IAC}
    BY DEF SubTokens
  <1>3. Size(t) = 2 * BufferLimit + 5
    BY <1>2 DEF Size, Sides
  <1>4. \A j : ByteOf(t, j) = IF j = 2 THEN SB ELSE IF j = 3 THEN LINEMODE
                              ELSE IF j = 2 * BufferLimit + 5 THEN t.val ELSE IAC
    BY <1>2 DEF ByteOf, Sides
  <1>5. 2 * BufferLimit + 5 \notin {1, 2, 3} /\ \A j \in 4..(2 * BufferLimit + 4) : j \notin {2, 3, 2 * BufferLimit + 5}
    BY <1>1
  <1> QED BY <1>2, <1>3, <1>4, <1>5

LEMMA EndBytes ==
  ASSUME NEW t \in EndTokens
  PROVE  t.kind = "end" /\ t.option = 0 /\ Size(t) = 2 /\ ByteOf(t, 1) = IAC /\ ByteOf(t, 2) = SE
  BY DEF EndTokens, Size, ByteOf, Sides

(* The first two bytes tell the kinds of tokens apart. *)
LEMMA FirstByte ==
  ASSUME NEW t \in Tokens
  PROVE  /\ ByteOf(t, 1) # IAC => t \in DataTokens /\ t.val # IAC
         /\ ByteOf(t, 1) = IAC => Size(t) >= 2 /\ (t \in DataTokens => t.val = IAC)
  <1>1. BufferLimit \in Nat /\ SE # IAC
    BY ProtocolAssumption DEF SE, IAC
  <1> QED BY <1>1, DataBytes, CommandBytes, SubBytes, EndBytes DEF Tokens

LEMMA SecondByte ==
  ASSUME NEW t \in Tokens, ByteOf(t, 1) = IAC
  PROVE  /\ ByteOf(t, 2) = IAC => t \in DataTokens
         /\ ByteOf(t, 2) = SB => t \in SubTokens
         /\ ByteOf(t, 2) = SE => t \in EndTokens
         /\ ByteOf(t, 2) \in {251, 252, 253, 254} => t \in CommandTokens
         /\ ByteOf(t, 2) \in {IAC, SB, SE, 251, 252, 253, 254}
  <1>1. t \in DataTokens => t.val = IAC
    BY FirstByte
  <1> QED BY <1>1, DataBytes, CommandBytes, SubBytes, EndBytes DEF Tokens, IAC, SB, SE

(* How many bytes of the first token the parser has taken in a state, with n bytes in the
   buffer, and which ones. *)
TakenSize(st, n) ==
  CASE st = "DATA" -> 0
    [] st = "IAC" -> 1
    [] st \in Commands \cup {"SB"} -> 2
    [] st = "SB_DATA" -> 3 + 2 * n
    [] st = "SB_DATA_IAC" -> 4 + 2 * n

TakenByte(st, j) ==
  IF j = 2 THEN IF st \in Commands THEN Code(st) ELSE SB ELSE IF j = 3 THEN LINEMODE ELSE IAC

Taken(st, n) == [j \in 1..TakenSize(st, n) |-> TakenByte(st, j)]

ParserStates == {"DATA", "IAC", "SB", "SB_DATA", "SB_DATA_IAC"} \cup Commands

LEMMA TakenSizes ==
  ASSUME NEW n \in Nat
  PROVE  /\ TakenSize("DATA", n) = 0 /\ TakenSize("IAC", n) = 1 /\ TakenSize("SB", n) = 2
         /\ TakenSize("SB_DATA", n) = 3 + 2 * n /\ TakenSize("SB_DATA_IAC", n) = 4 + 2 * n
         /\ \A c \in Commands : TakenSize(c, n) = 2
         /\ \A st \in ParserStates : TakenSize(st, n) \in Nat
  <1>1. /\ TakenSize("DATA", n) = 0 /\ TakenSize("IAC", n) = 1 /\ TakenSize("SB", n) = 2
        /\ TakenSize("SB_DATA", n) = 3 + 2 * n /\ TakenSize("SB_DATA_IAC", n) = 4 + 2 * n
        /\ \A c \in Commands : TakenSize(c, n) = 2
    BY DEF TakenSize, Commands
  <1> QED BY <1>1 DEF ParserStates

LEMMA TakenIsBytes ==
  ASSUME NEW st \in ParserStates, NEW n \in Nat
  PROVE  /\ Taken(st, n) \in Seq(Byte) /\ Len(Taken(st, n)) = TakenSize(st, n) /\ TakenSize(st, n) \in Nat
         /\ \A j \in 1..TakenSize(st, n) : Taken(st, n)[j] = TakenByte(st, j)
  <1>1. TakenSize(st, n) \in Nat
    BY TakenSizes
  <1>2. \A j : TakenByte(st, j) \in Byte
    BY DEF TakenByte, Byte, Commands, Code, SB, LINEMODE, IAC
  <1>3. Taken(st, n) \in [1..TakenSize(st, n) -> Byte]
    BY <1>2 DEF Taken
  <1>4. Taken(st, n) \in Seq(Byte)
    BY <1>1, <1>3, IsASeq
  <1>5. Len(Taken(st, n)) = TakenSize(st, n)
    BY <1>1, <1>3, <1>4, LenProperties
  <1> QED BY <1>1, <1>4, <1>5 DEF Taken

(* A byte more of the same token. *)
LEMMA TakenGrows ==
  ASSUME NEW st \in ParserStates, NEW n \in Nat, NEW st2 \in ParserStates, NEW n2 \in Nat, NEW b \in Byte,
         TakenSize(st2, n2) = TakenSize(st, n) + 1,
         \A j \in 1..TakenSize(st, n) : TakenByte(st2, j) = TakenByte(st, j),
         TakenByte(st2, TakenSize(st, n) + 1) = b
  PROVE  Taken(st2, n2) = Append(Taken(st, n), b)
  <1> DEFINE m == TakenSize(st, n)
             a == Append(Taken(st, n), b)
  <1>1. m \in Nat /\ Taken(st, n) \in Seq(Byte) /\ Len(Taken(st, n)) = m
    BY TakenIsBytes
  <1>2. /\ a \in Seq(Byte) /\ Len(a) = m + 1 /\ a[m + 1] = b
        /\ \A j \in 1..m : a[j] = Taken(st, n)[j]
    BY <1>1, AppendProperties
  <1>3. /\ Taken(st2, n2) \in Seq(Byte) /\ Len(Taken(st2, n2)) = m + 1
        /\ \A j \in 1..(m + 1) : Taken(st2, n2)[j] = TakenByte(st2, j)
    BY TakenIsBytes
  <1>4. \A j \in 1..m : Taken(st, n)[j] = TakenByte(st, j)
    BY TakenIsBytes
  <1>5. ASSUME NEW j \in 1..(m + 1) PROVE Taken(st2, n2)[j] = a[j]
    <2>1. CASE j = m + 1
      BY <2>1, <1>2, <1>3
    <2>2. CASE j # m + 1
      <3> HIDE DEF m, a
      <3>1. j \in 1..m
        BY <2>2, <1>1
      <3>2. TakenByte(st2, j) = TakenByte(st, j)
        BY <3>1 DEF m
      <3> QED BY <3>1, <3>2, <1>2, <1>3, <1>4
    <2> QED BY <2>1, <2>2
  <1> QED BY <1>2, <1>3, <1>5, SeqEqual

(* A byte that is taken changes its place, and nothing else. *)
LEMMA ByteTaken ==
  ASSUME NEW h \in Seq(Byte), NEW s \in Seq(Byte), s # <<>>
  PROVE  Append(h, Head(s)) \o Tail(s) = h \o s
  <1>1. Head(s) \in Byte /\ Tail(s) \in Seq(Byte) /\ <<Head(s)>> \o Tail(s) = s /\ <<Head(s)>> \in Seq(Byte)
    <2>1. /\ Head(s) \in Byte /\ Tail(s) \in Seq(Byte) /\ Len(Tail(s)) = Len(s) - 1 /\ Len(s) \in Nat
          /\ \A i \in 1..Len(Tail(s)) : Tail(s)[i] = s[i + 1]
      BY HeadTailProperties, LenProperties
    <2> QED BY <2>1
  <1>2. Append(h, Head(s)) = h \o <<Head(s)>>
    BY <1>1, AppendIsConcat
  <1> QED BY <1>1, <1>2, ConcatAssociative

(* Behind a token that was read whole comes what was not read. *)
LEMMA BehindToken ==
  ASSUME NEW h \in Seq(Byte), NEW s \in Seq(Byte), s # <<>>
  PROVE  SubSeq(h \o s, Len(h) + 2, Len(h) + Len(s)) = Tail(s)
  <1> DEFINE t == SubSeq(h \o s, Len(h) + 2, Len(h) + Len(s))
  <1>1. Len(h) \in Nat /\ Len(s) \in Nat /\ Len(s) # 0
    BY EmptySeq, LenProperties
  <1>2. /\ h \o s \in Seq(Byte) /\ Len(h \o s) = Len(h) + Len(s)
        /\ \A i \in 1..(Len(h) + Len(s)) : (h \o s)[i] = IF i <= Len(h) THEN h[i] ELSE s[i - Len(h)]
    BY ConcatProperties
  <1>3. /\ Tail(s) \in Seq(Byte) /\ Len(Tail(s)) = Len(s) - 1
        /\ \A i \in 1..Len(Tail(s)) : Tail(s)[i] = s[i + 1]
    BY HeadTailProperties
  <1>4. /\ t \in Seq(Byte)
        /\ Len(t) = IF Len(h) + 2 <= Len(h) + Len(s) THEN Len(h) + Len(s) - (Len(h) + 2) + 1 ELSE 0
        /\ \A i \in 1..Len(t) : t[i] = (h \o s)[Len(h) + 2 + i - 1]
    <2>1. Len(h) + 2 \in 1..(Len(h \o s) + 1) /\ Len(h) + Len(s) \in 0..Len(h \o s)
      BY <1>1, <1>2
    <2> QED BY <1>2, <2>1, SubSeqProperties
  <1> HIDE DEF t
  <1>5. Len(t) = Len(s) - 1
    <2>1. \A a, b \in Nat : b # 0 => (IF a + 2 <= a + b THEN a + b - (a + 2) + 1 ELSE 0) = b - 1
      BY SMTT(60)
    <2> QED BY <1>1, <1>4, <2>1
  <1>6. ASSUME NEW i \in 1..Len(t) PROVE t[i] = Tail(s)[i]
    <2>1. Len(h) + 2 + i - 1 = Len(h) + 1 + i /\ Len(h) + 1 + i \in 1..(Len(h) + Len(s))
          /\ ~ (Len(h) + 1 + i <= Len(h)) /\ (Len(h) + 1 + i) - Len(h) = i + 1 /\ i \in 1..Len(Tail(s))
      BY <1>1, <1>3, <1>5
    <2> QED BY <1>2, <1>3, <1>4, <2>1, ZenonT(60)
  <1>7. t = Tail(s)
    BY <1>3, <1>4, <1>5, <1>6, SeqEqual, ZenonT(60)
  <1> QED BY <1>7 DEF t

(* The first token, at a byte that is taken with h before it. *)
LEMMA NextByte ==
  ASSUME NEW h \in Seq(Byte), NEW s \in Seq(Byte), s # <<>>, NEW tokens \in Seq(Tokens), Coded(h \o s, tokens)
  PROVE  /\ tokens # <<>> /\ Head(tokens) \in Tokens
         /\ \A j \in 1..Size(Head(tokens)) : j <= Len(h) => h[j] = ByteOf(Head(tokens), j)
         /\ Len(h) < Size(Head(tokens)) => Head(s) = ByteOf(Head(tokens), Len(h) + 1)
         /\ Len(h) + 1 = Size(Head(tokens)) => Coded(Tail(s), Tail(tokens))
  <1> DEFINE t == Head(tokens)
  <1>1. Len(h) \in Nat /\ Len(s) \in Nat /\ Len(s) # 0 /\ Head(s) = s[1]
    BY EmptySeq, LenProperties, HeadTailProperties
  <1>2. /\ h \o s \in Seq(Byte) /\ Len(h \o s) = Len(h) + Len(s)
        /\ \A i \in 1..(Len(h) + Len(s)) : (h \o s)[i] = IF i <= Len(h) THEN h[i] ELSE s[i - Len(h)]
    BY ConcatProperties
  <1>3. tokens # <<>> /\ t \in Tokens
    <2>1. tokens # <<>>
      <3>1. Len(h \o s) # 0
        BY <1>1, <1>2
      <3> QED BY <1>2, <3>1, NoTokenNoByte, EmptySeq
    <2> QED BY <2>1, HeadTailProperties
  <1>4. /\ Size(t) <= Len(h \o s)
        /\ TokenAt(h \o s, 0, t)
        /\ Coded(SubSeq(h \o s, Size(t) + 1, Len(h \o s)), Tail(tokens))
    BY <1>2, <1>3, CodedFirst
  <1>5. Size(t) \in Nat
    BY <1>3, SizeFacts
  <1> HIDE DEF t
  <1>6. \A j \in 1..Size(t) : (h \o s)[j] = ByteOf(t, j)
    BY <1>4, <1>5 DEF TokenAt
  <1>7. \A j \in 1..Size(t) : j <= Len(h) => h[j] = ByteOf(t, j)
    BY <1>1, <1>2, <1>4, <1>5, <1>6
  <1>8. ASSUME Len(h) < Size(t) PROVE Head(s) = ByteOf(t, Len(h) + 1)
    <2>1. Len(h) + 1 \in 1..(Len(h) + Len(s)) /\ Len(h) + 1 \in 1..Size(t)
          /\ ~ (Len(h) + 1 <= Len(h)) /\ (Len(h) + 1) - Len(h) = 1
      BY <1>1, <1>5, <1>8
    <2> QED BY <1>1, <1>2, <1>6, <2>1
  <1>9. ASSUME Len(h) + 1 = Size(t) PROVE Coded(Tail(s), Tail(tokens))
    <2>1. Size(t) + 1 = Len(h) + 2
      BY <1>1, <1>9
    <2> QED BY <1>2, <1>4, <2>1, BehindToken
  <1> QED BY <1>3, <1>7, <1>8, <1>9 DEF t

-----------------------------------------------------------------------------
(* The parser reads a byte *)

ParserTyped ==
  /\ up \in Seq(Byte) /\ state \in ParserStates
  /\ buffer \in Seq({IAC}) /\ Len(buffer) <= BufferLimit
  /\ pending \in Seq(Byte) /\ data \in Seq(Byte)

(* What was taken and what is on its way are these tokens. *)
Wire(tokens) == Coded(Taken(state, Len(buffer)) \o up, tokens)

(* The data that the daemon has been given or is about to be. *)
Delivered == data \o (IF state = "DATA" THEN pending ELSE <<>>)

(* What a byte does: it leaves the first token unfinished, or finishes it. *)
TokenRead(t) ==
  \/ t \in DataTokens /\ Delivered' = Append(Delivered, t.val) /\ NoAnswer
  \/ t \in SubTokens \cup EndTokens /\ Delivered' = Delivered /\ NoAnswer
  \/ t \in CommandTokens /\ Delivered' = Delivered /\ state = TheCommand(t) /\ Negotiate(t.option)

ByteRead(tokens) ==
  /\ ParserTyped'
  /\ \/ Wire(tokens)' /\ Delivered' = Delivered /\ NoAnswer
     \/ tokens # <<>> /\ Wire(Tail(tokens))' /\ TokenRead(Head(tokens))

(* The facts that every state of the parser needs. *)
LEMMA AtByte ==
  ASSUME ParserTyped, ProcessByte, NEW tokens \in Seq(Tokens), Wire(tokens)
  PROVE  /\ up # <<>> /\ up' = Tail(up) /\ Head(up) \in Byte /\ Tail(up) \in Seq(Byte) /\ Len(buffer) \in Nat
         /\ Append(pending, Head(up)) \in Seq(Byte)
         /\ tokens # <<>> /\ Head(tokens) \in Tokens /\ Size(Head(tokens)) \in Nat \ {0}
         /\ LET m == TakenSize(state, Len(buffer))
                t == Head(tokens)
            IN  /\ \A j \in 1..Size(t) : j <= m => TakenByte(state, j) = ByteOf(t, j)
                /\ m < Size(t) => Head(up) = ByteOf(t, m + 1)
                /\ m + 1 = Size(t) => Coded(Tail(up), Tail(tokens))
  <1> DEFINE n == Len(buffer)
             h == Taken(state, n)
             t == Head(tokens)
  <1>1. up # <<>> /\ up' = Tail(up)
    BY DEF ProcessByte
  <1>2. Head(up) \in Byte /\ Tail(up) \in Seq(Byte) /\ n \in Nat /\ state \in ParserStates
    BY <1>1, HeadTailProperties, LenProperties DEF ParserTyped
  <1>3. Append(pending, Head(up)) \in Seq(Byte)
    BY <1>2, AppendProperties DEF ParserTyped
  <1>4. /\ h \in Seq(Byte) /\ Len(h) = TakenSize(state, n) /\ Len(h) \in Nat
        /\ \A j \in 1..TakenSize(state, n) : h[j] = TakenByte(state, j)
    BY <1>2, TakenIsBytes
  <1>5. Coded(h \o up, tokens)
    BY DEF Wire
  <1> HIDE DEF h, n
  <1>6. /\ tokens # <<>> /\ t \in Tokens
        /\ \A j \in 1..Size(t) : j <= Len(h) => h[j] = ByteOf(t, j)
        /\ Len(h) < Size(t) => Head(up) = ByteOf(t, Len(h) + 1)
        /\ Len(h) + 1 = Size(t) => Coded(Tail(up), Tail(tokens))
    BY <1>1, <1>4, <1>5, NextByte DEF ParserTyped
  <1>7. Size(t) \in Nat \ {0}
    BY <1>6, SizeFacts
  <1> HIDE DEF t
  <1>8. \A j \in 1..Size(t) : j <= TakenSize(state, n) => TakenByte(state, j) = ByteOf(t, j)
    <2> TAKE j \in 1..Size(t)
    <2> HAVE j <= TakenSize(state, n)
    <2>1. j \in 1..TakenSize(state, n)
      BY <1>4, <1>7
    <2> QED BY <2>1, <1>4, <1>6
  <1> QED BY <1>1, <1>2, <1>3, <1>4, <1>6, <1>7, <1>8 DEF n, t

(* The token goes on. *)
LEMMA TokenGoesOn ==
  ASSUME ParserTyped, NEW tokens \in Seq(Tokens), Wire(tokens), up # <<>>, up' = Tail(up),
         state' \in ParserStates, Len(buffer') \in Nat, Head(up) \in Byte, Len(buffer) \in Nat,
         TakenSize(state', Len(buffer')) = TakenSize(state, Len(buffer)) + 1,
         \A j \in 1..TakenSize(state, Len(buffer)) : TakenByte(state', j) = TakenByte(state, j),
         TakenByte(state', TakenSize(state, Len(buffer)) + 1) = Head(up)
  PROVE  Wire(tokens)'
  <1>1. Taken(state', Len(buffer')) = Append(Taken(state, Len(buffer)), Head(up))
    BY TakenGrows DEF ParserTyped
  <1>2. Taken(state, Len(buffer)) \in Seq(Byte)
    BY TakenIsBytes DEF ParserTyped
  <1>3. Taken(state', Len(buffer')) \o up' = Taken(state, Len(buffer)) \o up
    BY <1>1, <1>2, ByteTaken DEF ParserTyped
  <1> QED BY <1>3 DEF Wire

LEMMA TakenNothing ==
  ASSUME NEW n \in Nat
  PROVE  Taken("DATA", n) = <<>>
  <1>1. Taken("DATA", n) \in Seq(Byte) /\ Len(Taken("DATA", n)) = 0
    BY TakenIsBytes, TakenSizes DEF ParserStates
  <1> QED BY <1>1, EmptySeq

(* The token is finished. *)
LEMMA TokenFinished ==
  ASSUME NEW tokens, up' \in Seq(Byte), state' = "DATA", Len(buffer') \in Nat, Coded(up', tokens)
  PROVE  Wire(tokens)'
  <1>1. Taken(state', Len(buffer')) = <<>>
    BY TakenNothing
  <1>2. <<>> \o up' = up'
    BY ConcatEmptySeq
  <1> QED BY <1>1, <1>2 DEF Wire

(* What a step does to the data that are due. *)
LEMMA DeliveredFacts ==
  ASSUME ParserTyped
  PROVE  /\ Delivered \in Seq(Byte)
         /\ state = "DATA" => Delivered = data \o pending
         /\ state # "DATA" => Delivered = data
         /\ \A b \in Byte : Append(data \o pending, b) = data \o Append(pending, b)
  <1>1. data \in Seq(Byte) /\ pending \in Seq(Byte) /\ data \o <<>> = data
    BY ConcatEmptySeq DEF ParserTyped
  <1>2. data \o pending \in Seq(Byte)
    BY <1>1, ConcatProperties
  <1>3. ASSUME NEW b \in Byte PROVE Append(data \o pending, b) = data \o Append(pending, b)
    <2>1. <<b>> \in Seq(Byte) /\ Append(data \o pending, b) = (data \o pending) \o <<b>>
          /\ Append(pending, b) = pending \o <<b>>
      BY <1>1, <1>2, AppendIsConcat
    <2> QED BY <1>1, <2>1, ConcatAssociative
  <1> QED BY <1>1, <1>2, <1>3 DEF Delivered

(* The same after a step. *)
LEMMA DeliveredNext ==
  ASSUME ParserTyped'
  PROVE  /\ state' = "DATA" /\ pending' = <<>> => Delivered' = data'
         /\ state' = "DATA" => Delivered' = data' \o pending'
         /\ state' # "DATA" => Delivered' = data'
  <1>1. data' \o <<>> = data'
    BY ConcatEmptySeq DEF ParserTyped
  <1> QED BY <1>1 DEF Delivered

(* What the parser does in each of its states. *)
LEMMA ByteCases ==
  ASSUME ProcessByte
  PROVE  /\ state = "DATA" =>
              /\ Receiving(IF Head(up) = IAC THEN "IAC" ELSE "DATA", Append(pending, Head(up)))
              /\ data' = IF Head(up) = IAC THEN data \o pending ELSE data
              /\ buffer' = buffer /\ NoAnswer
         /\ state = "IAC" => AfterIac(Head(up), Append(pending, Head(up)))
         /\ state \in Commands => Negotiate(Head(up))
         /\ state = "SB" =>
              /\ Receiving("SB_DATA", Append(pending, Head(up))) /\ buffer' = <<>>
              /\ data' = data /\ NoAnswer
         /\ state = "SB_DATA" /\ Head(up) = IAC =>
              /\ Receiving("SB_DATA_IAC", Append(pending, Head(up)))
              /\ data' = data /\ buffer' = buffer /\ NoAnswer
         /\ state = "SB_DATA_IAC" => AfterSubIac(Head(up), Append(pending, Head(up)))
  <1>1. CASE state = "DATA"
    BY <1>1, Zenon DEF ProcessByte, Commands
  <1>2. CASE state = "IAC"
    BY <1>2, Zenon DEF ProcessByte, Commands
  <1>3. CASE state \in Commands
    BY <1>3, Zenon DEF ProcessByte, Commands
  <1>4. CASE state = "SB"
    BY <1>4, Zenon DEF ProcessByte, Commands
  <1>5. CASE state = "SB_DATA"
    BY <1>5, Zenon DEF ProcessByte, Commands
  <1>6. CASE state = "SB_DATA_IAC"
    BY <1>6, Zenon DEF ProcessByte, Commands
  <1> QED BY <1>1, <1>2, <1>3, <1>4, <1>5, <1>6

(* TELNET_STATE_DATA *)
LEMMA ByteInData ==
  ASSUME ParserTyped, ProcessByte, NEW tokens \in Seq(Tokens), Wire(tokens), state = "DATA"
  PROVE  ByteRead(tokens)
  <1> DEFINE byte == Head(up)
             t == Head(tokens)
             n == Len(buffer)
  <1>1. /\ up # <<>> /\ up' = Tail(up) /\ byte \in Byte /\ Tail(up) \in Seq(Byte) /\ n \in Nat
        /\ Append(pending, byte) \in Seq(Byte)
        /\ tokens # <<>> /\ t \in Tokens /\ Size(t) \in Nat \ {0}
        /\ TakenSize(state, n) < Size(t) => byte = ByteOf(t, TakenSize(state, n) + 1)
        /\ TakenSize(state, n) + 1 = Size(t) => Coded(Tail(up), Tail(tokens))
    BY AtByte
  <1>2. TakenSize(state, n) = 0
    BY <1>1, TakenSizes
  <1>3. byte = ByteOf(t, 1)
    BY <1>1, <1>2
  <1>4. /\ state' = IF byte = IAC THEN "IAC" ELSE "DATA"
        /\ pending' = Append(pending, byte)
        /\ data' = IF byte = IAC THEN data \o pending ELSE data
        /\ buffer' = buffer /\ NoAnswer
    BY ByteCases DEF Receiving
  <1>5. data \o pending \in Seq(Byte)
    BY ConcatProperties DEF ParserTyped
  <1>6. ParserTyped'
    BY <1>1, <1>4, <1>5 DEF ParserTyped, ParserStates
  <1> HIDE DEF byte, t, n
  <1>7. CASE byte = IAC
    <2>1. state' = "IAC" /\ Delivered' = Delivered
      BY <1>4, <1>6, <1>7, DeliveredFacts, DeliveredNext
    <2>2. TakenSize(state', Len(buffer')) = 1
      BY <1>1, <1>4, <2>1, TakenSizes DEF n
    <2>3. TakenByte(state', 1) = byte
      BY <1>7 DEF TakenByte
    <2>4. \A j \in 1..TakenSize(state, n) : TakenByte(state', j) = TakenByte(state, j)
      BY <1>2
    <2>5. TakenSize(state', Len(buffer')) = TakenSize(state, n) + 1 /\ TakenByte(state', TakenSize(state, n) + 1) = byte
      BY <1>2, <2>2, <2>3
    <2>6. Wire(tokens)'
      BY <1>1, <1>4, <1>6, <2>4, <2>5, TokenGoesOn DEF byte, n, ParserTyped
    <2> QED BY <1>4, <1>6, <2>1, <2>6 DEF ByteRead
  <1>8. CASE byte # IAC
    <2>1. t \in DataTokens /\ t.val # IAC
      BY <1>1, <1>3, <1>8, FirstByte
    <2>2. Size(t) = 1 /\ byte = t.val
      BY <1>3, <2>1, DataBytes
    <2>3. Coded(Tail(up), Tail(tokens))
      BY <1>1, <1>2, <2>2
    <2>4. Wire(Tail(tokens))'
      BY <1>1, <1>4, <1>8, <2>3, TokenFinished DEF n
    <2>5. Delivered' = Append(Delivered, t.val)
      BY <1>1, <1>4, <1>6, <1>8, <2>2, DeliveredFacts, DeliveredNext
    <2> QED BY <1>1, <1>4, <1>6, <2>1, <2>4, <2>5 DEF ByteRead, TokenRead, t
  <1> QED BY <1>7, <1>8

LEMMA Codes == {Code(cmd) : cmd \in Commands} = {251, 252, 253, 254}
  BY DEF Commands, Code

(* TELNET_STATE_IAC *)
LEMMA ByteBehindIac ==
  ASSUME ParserTyped, ProcessByte, NEW tokens \in Seq(Tokens), Wire(tokens), state = "IAC"
  PROVE  ByteRead(tokens)
  <1> DEFINE byte == Head(up)
             t == Head(tokens)
             n == Len(buffer)
  <1>1. /\ up # <<>> /\ up' = Tail(up) /\ byte \in Byte /\ Tail(up) \in Seq(Byte) /\ n \in Nat
        /\ Append(pending, byte) \in Seq(Byte)
        /\ tokens # <<>> /\ t \in Tokens /\ Size(t) \in Nat \ {0}
        /\ \A j \in 1..Size(t) : j <= TakenSize(state, n) => TakenByte(state, j) = ByteOf(t, j)
        /\ TakenSize(state, n) < Size(t) => byte = ByteOf(t, TakenSize(state, n) + 1)
        /\ TakenSize(state, n) + 1 = Size(t) => Coded(Tail(up), Tail(tokens))
    BY AtByte
  <1>2. TakenSize(state, n) = 1
    BY <1>1, TakenSizes
  <1>3. ByteOf(t, 1) = IAC
    <2>1. 1 \in 1..Size(t) /\ TakenByte(state, 1) = IAC
      BY <1>1 DEF TakenByte
    <2> QED BY <2>1, <1>1, <1>2
  <1>4. byte = ByteOf(t, 2)
    BY <1>1, <1>2, <1>3, FirstByte
  <1>5. /\ byte = IAC => t \in DataTokens
        /\ byte = SB => t \in SubTokens
        /\ byte = SE => t \in EndTokens
        /\ byte \in {251, 252, 253, 254} => t \in CommandTokens
        /\ byte \in {IAC, SB, SE, 251, 252, 253, 254}
    BY <1>1, <1>3, <1>4, SecondByte
  <1>6. AfterIac(byte, Append(pending, byte))
    BY ByteCases
  <1>7. data' = (IF byte = IAC THEN Append(data, IAC) ELSE data) /\ buffer' = buffer /\ NoAnswer
    BY <1>6 DEF AfterIac
  <1>8. /\ data' \in Seq(Byte) /\ buffer' \in Seq({IAC}) /\ Len(buffer') <= BufferLimit /\ up' \in Seq(Byte)
    <2>1. Append(data, IAC) \in Seq(Byte)
      BY AppendProperties DEF ParserTyped, IAC, Byte
    <2> QED BY <1>1, <1>7, <2>1 DEF ParserTyped
  <1>9. Delivered = data
    BY DeliveredFacts
  <1> HIDE DEF byte, t, n
  <1>10. CASE byte = SB
    <2>1. state' = "SB" /\ pending' = Append(pending, byte) /\ data' = data
      BY <1>6, <1>7, <1>10 DEF AfterIac, Receiving, SB, IAC
    <2>2. ParserTyped'
      BY <1>1, <1>8, <2>1 DEF ParserTyped, ParserStates
    <2>3. TakenSize(state', Len(buffer')) = 2 /\ TakenByte(state', 2) = byte /\ TakenByte(state', 1) = TakenByte(state, 1)
      BY <1>1, <1>7, <1>10, <2>1, TakenSizes DEF n, TakenByte, Commands
    <2>4. Wire(tokens)'
      <3>1. TakenSize(state', Len(buffer')) = TakenSize(state, n) + 1 /\ TakenByte(state', TakenSize(state, n) + 1) = byte
            /\ \A j \in 1..TakenSize(state, n) : TakenByte(state', j) = TakenByte(state, j)
        BY <1>2, <2>3
      <3> QED BY <1>1, <1>7, <2>2, <3>1, TokenGoesOn DEF byte, n, ParserTyped
    <2>5. Delivered' = Delivered
      BY <1>9, <2>1, <2>2, DeliveredNext
    <2> QED BY <1>7, <2>2, <2>4, <2>5 DEF ByteRead
  <1>11. CASE byte \in {251, 252, 253, 254}
    <2>1. t \in CommandTokens /\ byte = Code(TheCommand(t)) /\ TheCommand(t) \in Commands
          /\ CommandOf(byte) = TheCommand(t)
      BY <1>4, <1>5, <1>11, CommandBytes
    <2>2. state' = TheCommand(t) /\ pending' = Append(pending, byte) /\ data' = data
      BY <1>6, <1>7, <1>11, <2>1, Codes DEF AfterIac, Receiving, SB, IAC
    <2>3. ParserTyped'
      BY <1>1, <1>8, <2>1, <2>2 DEF ParserTyped, ParserStates
    <2>4. TakenSize(state', Len(buffer')) = 2 /\ TakenByte(state', 2) = byte /\ TakenByte(state', 1) = TakenByte(state, 1)
      BY <1>1, <1>7, <2>1, <2>2, TakenSizes, SMTT(60) DEF n, TakenByte
    <2>5. Wire(tokens)'
      <3>1. TakenSize(state', Len(buffer')) = TakenSize(state, n) + 1 /\ TakenByte(state', TakenSize(state, n) + 1) = byte
            /\ \A j \in 1..TakenSize(state, n) : TakenByte(state', j) = TakenByte(state, j)
        BY <1>2, <2>4
      <3> QED BY <1>1, <1>7, <2>3, <3>1, TokenGoesOn DEF byte, n, ParserTyped
    <2>6. state' # "DATA"
      BY <2>1, <2>2 DEF Commands
    <2>7. Delivered' = Delivered
      BY <1>9, <2>2, <2>3, <2>6, DeliveredNext
    <2> QED BY <1>7, <2>3, <2>5, <2>7 DEF ByteRead
  <1>12. CASE byte \in {IAC, SE}
    <2>1. state' = "DATA" /\ pending' = <<>>
      BY <1>6, <1>12, Codes, SMTT(60) DEF AfterIac, Receiving, SB, IAC, SE
    <2>2. ParserTyped'
      BY <1>8, <2>1 DEF ParserTyped, ParserStates
    <2>3. Size(t) = 2
      <3>1. byte = IAC => t.val = IAC
        BY <1>3, <1>5, <1>12, DataBytes
      <3> QED BY <1>5, <1>12, <3>1, DataBytes, EndBytes
    <2>4. Wire(Tail(tokens))'
      <3>1. Coded(Tail(up), Tail(tokens))
        BY <1>1, <1>2, <2>3
      <3> QED BY <1>1, <1>7, <2>1, <3>1, TokenFinished DEF n
    <2>5. Delivered' = data'
      BY <2>1, <2>2, DeliveredNext
    <2>6. TokenRead(t)
      <3>1. CASE byte = IAC
        <4>1. t \in DataTokens /\ t.val = IAC
          BY <1>3, <1>5, <3>1, DataBytes
        <4> QED BY <1>7, <1>9, <2>5, <3>1, <4>1 DEF TokenRead
      <3>2. CASE byte = SE
        <4>1. t \in EndTokens /\ byte # IAC
          BY <1>5, <3>2 DEF SE, IAC
        <4> QED BY <1>7, <1>9, <2>5, <4>1 DEF TokenRead
      <3> QED BY <1>12, <3>1, <3>2
    <2> QED BY <1>1, <2>2, <2>4, <2>6 DEF ByteRead, t
  <1> QED BY <1>5, <1>10, <1>11, <1>12

(* TELNET_STATE_WILL, WONT, DO and DONT *)
LEMMA ByteOfCommand ==
  ASSUME ParserTyped, ProcessByte, NEW tokens \in Seq(Tokens), Wire(tokens), state \in Commands
  PROVE  ByteRead(tokens)
  <1> DEFINE byte == Head(up)
             t == Head(tokens)
             n == Len(buffer)
  <1>1. /\ up # <<>> /\ up' = Tail(up) /\ byte \in Byte /\ Tail(up) \in Seq(Byte) /\ n \in Nat
        /\ tokens # <<>> /\ t \in Tokens /\ Size(t) \in Nat \ {0}
        /\ \A j \in 1..Size(t) : j <= TakenSize(state, n) => TakenByte(state, j) = ByteOf(t, j)
        /\ TakenSize(state, n) < Size(t) => byte = ByteOf(t, TakenSize(state, n) + 1)
        /\ TakenSize(state, n) + 1 = Size(t) => Coded(Tail(up), Tail(tokens))
    BY AtByte
  <1>2. TakenSize(state, n) = 2
    BY <1>1, TakenSizes
  <1>3. ByteOf(t, 1) = IAC
    <2>1. 1 \in 1..Size(t) /\ TakenByte(state, 1) = IAC
      BY <1>1 DEF TakenByte
    <2> QED BY <2>1, <1>1, <1>2
  <1>4. ByteOf(t, 2) = Code(state)
    <2>1. Size(t) >= 2
      BY <1>1, <1>3, FirstByte
    <2>2. 2 \in 1..Size(t) /\ TakenByte(state, 2) = Code(state)
      BY <1>1, <2>1 DEF TakenByte
    <2> QED BY <2>2, <1>1, <1>2
  <1>5. t \in CommandTokens
    <2>1. Code(state) \in {251, 252, 253, 254}
      BY Codes
    <2> QED BY <1>1, <1>3, <1>4, <2>1, SecondByte
  <1>6. Size(t) = 3 /\ byte = t.option /\ state = TheCommand(t)
    <2>1. Size(t) = 3 /\ ByteOf(t, 2) = Code(TheCommand(t)) /\ ByteOf(t, 3) = t.option /\ TheCommand(t) \in Commands
      BY <1>5, CommandBytes
    <2>2. \A c, d \in Commands : Code(c) = Code(d) => c = d
      BY DEF Commands, Code
    <2> QED BY <1>1, <1>2, <1>4, <2>1, <2>2
  <1>7. Negotiate(t.option)
    BY <1>6, ByteCases, SMTT(60)
  <1>8. state' = "DATA" /\ pending' = <<>> /\ data' = data /\ buffer' = buffer
    BY <1>7, ZenonT(60) DEF Negotiate, Receiving
  <1>9. ParserTyped'
    BY <1>1, <1>8 DEF ParserTyped, ParserStates
  <1>10. Wire(Tail(tokens))'
    <2>1. Coded(Tail(up), Tail(tokens))
      BY <1>1, <1>2, <1>6
    <2> HIDE DEF byte, t
    <2> QED BY <1>1, <1>8, <2>1, TokenFinished DEF n
  <1>11. Delivered' = Delivered
    <2>1. state # "DATA"
      BY DEF Commands
    <2> QED BY <1>8, <1>9, <2>1, DeliveredFacts, DeliveredNext
  <1>12. TokenRead(t)
    BY <1>5, <1>6, <1>7, <1>11 DEF TokenRead
  <1> QED BY <1>1, <1>9, <1>10, <1>12 DEF ByteRead

(* In a subnegotiation the first token is one. *)
LEMMA InSubnegotiation ==
  ASSUME ParserTyped, ProcessByte, NEW tokens \in Seq(Tokens), Wire(tokens),
         state \in {"SB", "SB_DATA", "SB_DATA_IAC"}
  PROVE  Head(tokens) \in SubTokens
  <1> DEFINE t == Head(tokens)
             m == TakenSize(state, Len(buffer))
  <1>1. /\ Len(buffer) \in Nat /\ t \in Tokens /\ Size(t) \in Nat \ {0}
        /\ \A j \in 1..Size(t) : j <= m => TakenByte(state, j) = ByteOf(t, j)
    BY AtByte
  <1>2. m \in Nat /\ m >= 2
    <2>1. \A n \in Nat : 2 \in Nat /\ 2 >= 2 /\ 3 + 2 * n >= 2 /\ 4 + 2 * n >= 2
                       /\ 3 + 2 * n \in Nat /\ 4 + 2 * n \in Nat
      OBVIOUS
    <2>2. m = 2 \/ m = 3 + 2 * Len(buffer) \/ m = 4 + 2 * Len(buffer)
      BY <1>1, TakenSizes
    <2> HIDE DEF m
    <2> QED BY <1>1, <2>1, <2>2
  <1> HIDE DEF t, m
  <1>3. ByteOf(t, 1) = IAC
    <2>1. 1 \in 1..Size(t) /\ TakenByte(state, 1) = IAC
      BY <1>1 DEF TakenByte
    <2> QED BY <2>1, <1>1, <1>2
  <1>4. ByteOf(t, 2) = SB
    <2>1. Size(t) >= 2
      BY <1>1, <1>3, FirstByte
    <2>2. 2 \in 1..Size(t) /\ TakenByte(state, 2) = SB
      BY <1>1, <2>1 DEF TakenByte, Commands
    <2> QED BY <2>2, <1>1, <1>2
  <1> QED BY <1>1, <1>3, <1>4, SecondByte DEF t

(* TELNET_STATE_SB *)
LEMMA ByteOfSub ==
  ASSUME ParserTyped, ProcessByte, NEW tokens \in Seq(Tokens), Wire(tokens), state = "SB"
  PROVE  ByteRead(tokens)
  <1> DEFINE byte == Head(up)
             t == Head(tokens)
             n == Len(buffer)
  <1>1. /\ up # <<>> /\ up' = Tail(up) /\ byte \in Byte /\ Tail(up) \in Seq(Byte) /\ n \in Nat
        /\ Append(pending, byte) \in Seq(Byte)
        /\ Size(t) \in Nat \ {0}
        /\ TakenSize(state, n) < Size(t) => byte = ByteOf(t, TakenSize(state, n) + 1)
    BY AtByte
  <1>2. TakenSize(state, n) = 2
    BY <1>1, TakenSizes
  <1>3. byte = LINEMODE
    <2>1. t \in SubTokens
      BY InSubnegotiation
    <2>2. Size(t) = 2 * BufferLimit + 5 /\ ByteOf(t, 3) = LINEMODE /\ BufferLimit \in Nat
      BY <2>1, SubBytes, ProtocolAssumption
    <2> QED BY <1>1, <1>2, <2>2
  <1>4. state' = "SB_DATA" /\ pending' = Append(pending, byte) /\ buffer' = <<>> /\ data' = data /\ NoAnswer
    BY ByteCases DEF Receiving
  <1>5. Len(buffer') = 0 /\ buffer' \in Seq({IAC})
    BY <1>4, EmptySeq
  <1>6. ParserTyped'
    BY <1>1, <1>4, <1>5, ProtocolAssumption DEF ParserTyped, ParserStates
  <1>7. Wire(tokens)'
    <2>1. TakenSize(state', Len(buffer')) = 3 + 2 * 0
      BY <1>4, <1>5, TakenSizes
    <2>2. TakenSize(state', Len(buffer')) = TakenSize(state, n) + 1
      BY <1>2, <2>1
    <2>3. TakenByte(state', 3) = byte
      BY <1>3 DEF TakenByte
    <2>4. \A j \in 1..TakenSize(state, n) : TakenByte(state', j) = TakenByte(state, j)
      BY <1>4 DEF TakenByte, Commands
    <2> HIDE DEF byte, n
    <2> QED BY <1>1, <1>2, <1>4, <1>5, <1>6, <2>2, <2>3, <2>4, TokenGoesOn DEF byte, n, ParserTyped
  <1>8. Delivered' = Delivered
    BY <1>4, <1>6, DeliveredFacts, DeliveredNext
  <1> QED BY <1>4, <1>6, <1>7, <1>8 DEF ByteRead

(* TELNET_STATE_SB_DATA *)
LEMMA ByteInSub ==
  ASSUME ParserTyped, ProcessByte, NEW tokens \in Seq(Tokens), Wire(tokens), state = "SB_DATA"
  PROVE  ByteRead(tokens)
  <1> DEFINE byte == Head(up)
             t == Head(tokens)
             n == Len(buffer)
  <1>1. /\ up # <<>> /\ up' = Tail(up) /\ byte \in Byte /\ Tail(up) \in Seq(Byte) /\ n \in Nat
        /\ Append(pending, byte) \in Seq(Byte)
        /\ TakenSize(state, n) < Size(t) => byte = ByteOf(t, TakenSize(state, n) + 1)
    BY AtByte
  <1>2. TakenSize(state, n) = 3 + 2 * n
    BY <1>1, TakenSizes
  <1>3. byte = IAC
    <2>1. t \in SubTokens
      BY InSubnegotiation
    <2>2. Size(t) = 2 * BufferLimit + 5 /\ BufferLimit \in Nat /\ n <= BufferLimit
          /\ \A j \in 4..(2 * BufferLimit + 4) : ByteOf(t, j) = IAC
      BY <2>1, SubBytes, ProtocolAssumption DEF ParserTyped
    <2> HIDE DEF byte, n, t
    <2>3. (3 + 2 * n) + 1 \in 4..(2 * BufferLimit + 4) /\ 3 + 2 * n < 2 * BufferLimit + 5
      BY <1>1, <2>2
    <2> QED BY <1>1, <1>2, <2>2, <2>3
  <1>4. state' = "SB_DATA_IAC" /\ pending' = Append(pending, byte) /\ buffer' = buffer /\ data' = data /\ NoAnswer
    BY <1>3, ByteCases DEF Receiving
  <1>5. ParserTyped'
    BY <1>1, <1>4 DEF ParserTyped, ParserStates
  <1>6. Wire(tokens)'
    <2> HIDE DEF byte
    <2>1. TakenSize(state', Len(buffer')) = 4 + 2 * n
      BY <1>1, <1>4, TakenSizes
    <2>2. TakenSize(state', Len(buffer')) = TakenSize(state, n) + 1
      BY <1>1, <1>2, <2>1
    <2>3. TakenByte(state', TakenSize(state, n) + 1) = byte
      <3>1. (3 + 2 * n) + 1 \notin {2, 3}
        BY <1>1
      <3> QED BY <1>2, <1>3, <3>1 DEF TakenByte
    <2>4. \A j \in 1..TakenSize(state, n) : TakenByte(state', j) = TakenByte(state, j)
      BY <1>4 DEF TakenByte, Commands
    <2> HIDE DEF n
    <2> QED BY <1>1, <1>4, <1>5, <2>2, <2>3, <2>4, TokenGoesOn DEF byte, n, ParserTyped
  <1>7. Delivered' = Delivered
    BY <1>4, <1>5, DeliveredFacts, DeliveredNext
  <1> QED BY <1>4, <1>5, <1>6, <1>7 DEF ByteRead

LEMMA SubIacCases ==
  ASSUME NEW byte, NEW read, AfterSubIac(byte, read)
  PROVE  /\ byte = SE => Receiving("DATA", <<>>) /\ UNCHANGED <<data, buffer>> /\ NoAnswer
         /\ byte = IAC => BufferByte(IAC, read)
  <1>1. SE # IAC
    BY DEF SE, IAC
  <1>2. ASSUME byte = SE PROVE Receiving("DATA", <<>>) /\ UNCHANGED <<data, buffer>> /\ NoAnswer
    BY <1>1, <1>2 DEF AfterSubIac
  <1>3. ASSUME byte = IAC PROVE BufferByte(IAC, read)
    BY <1>1, <1>3 DEF AfterSubIac
  <1> QED BY <1>2, <1>3

(* TELNET_STATE_SB_DATA_IAC *)
LEMMA ByteBehindIacInSub ==
  ASSUME ParserTyped, ProcessByte, NEW tokens \in Seq(Tokens), Wire(tokens), state = "SB_DATA_IAC"
  PROVE  ByteRead(tokens)
  <1> DEFINE byte == Head(up)
             t == Head(tokens)
             n == Len(buffer)
  <1>1. /\ up # <<>> /\ up' = Tail(up) /\ byte \in Byte /\ Tail(up) \in Seq(Byte) /\ n \in Nat
        /\ Append(pending, byte) \in Seq(Byte) /\ tokens # <<>>
        /\ TakenSize(state, n) < Size(t) => byte = ByteOf(t, TakenSize(state, n) + 1)
        /\ TakenSize(state, n) + 1 = Size(t) => Coded(Tail(up), Tail(tokens))
    BY AtByte
  <1>2. TakenSize(state, n) = 4 + 2 * n
    BY <1>1, TakenSizes
  <1>3. t \in SubTokens
    BY InSubnegotiation
  <1>4. /\ Size(t) = 2 * BufferLimit + 5 /\ BufferLimit \in Nat /\ n <= BufferLimit
        /\ \A j \in 4..(2 * BufferLimit + 4) : ByteOf(t, j) = IAC
        /\ ByteOf(t, 2 * BufferLimit + 5) = t.val /\ t.val \in {SE, IAC}
    BY <1>3, SubBytes, ProtocolAssumption DEF ParserTyped
  <1>5. AfterSubIac(byte, Append(pending, byte))
    BY ByteCases
  <1>6. byte = SE => Receiving("DATA", <<>>) /\ UNCHANGED <<data, buffer>> /\ NoAnswer
    BY <1>5, SubIacCases
  <1>7. byte = IAC => BufferByte(IAC, Append(pending, byte))
    BY <1>5, SubIacCases
  <1>8. Delivered = data
    BY DeliveredFacts
  <1> HIDE DEF byte, t, n
  <1>9. CASE n < BufferLimit
    <2>1. byte = IAC
      <3>1. (4 + 2 * n) + 1 \in 4..(2 * BufferLimit + 4) /\ 4 + 2 * n < 2 * BufferLimit + 5
        BY <1>1, <1>4, <1>9
      <3> QED BY <1>1, <1>2, <1>4, <3>1
    <2>2. state' = "SB_DATA" /\ pending' = Append(pending, byte) /\ buffer' = Append(buffer, IAC) /\ data' = data /\ NoAnswer
      <3>1. n # BufferLimit
        BY <1>1, <1>4, <1>9
      <3> QED BY <1>7, <2>1, <3>1 DEF BufferByte, Receiving, n
    <2>3. buffer' \in Seq({IAC}) /\ Len(buffer') = n + 1 /\ n + 1 \in Nat
      BY <1>1, <2>2, AppendProperties DEF ParserTyped, n
    <2>4. ParserTyped'
      <3>1. n + 1 <= BufferLimit
        BY <1>1, <1>4, <1>9
      <3> QED BY <1>1, <2>2, <2>3, <3>1 DEF ParserTyped, ParserStates
    <2>5. Wire(tokens)'
      <3>1. TakenSize(state', Len(buffer')) = 3 + 2 * (n + 1)
        BY <2>2, <2>3, TakenSizes
      <3>2. TakenSize(state', Len(buffer')) = TakenSize(state, n) + 1
        BY <1>1, <1>2, <3>1
      <3>3. TakenByte(state', TakenSize(state, n) + 1) = byte
        <4>1. (4 + 2 * n) + 1 \notin {2, 3}
          BY <1>1
        <4> QED BY <1>2, <2>1, <4>1 DEF TakenByte
      <3>4. \A j \in 1..TakenSize(state, n) : TakenByte(state', j) = TakenByte(state, j)
        BY <2>2 DEF TakenByte, Commands
      <3> QED BY <1>1, <2>2, <2>3, <2>4, <3>2, <3>3, <3>4, TokenGoesOn DEF byte, n, ParserTyped
    <2>6. Delivered' = Delivered
      BY <1>8, <2>2, <2>4, DeliveredNext
    <2> QED BY <2>2, <2>4, <2>5, <2>6 DEF ByteRead
  <1>10. CASE n = BufferLimit
    <2>1. byte = t.val /\ Coded(Tail(up), Tail(tokens))
      <3>1. (4 + 2 * n) + 1 = 2 * BufferLimit + 5 /\ 4 + 2 * n < 2 * BufferLimit + 5
        BY <1>4, <1>10
      <3> QED BY <1>1, <1>2, <1>4, <3>1
    <2>2. state' = "DATA" /\ pending' = <<>> /\ buffer' = buffer /\ data' = data /\ NoAnswer
      <3>1. CASE byte = SE
        BY <1>6, <3>1 DEF Receiving
      <3>2. CASE byte = IAC
        BY <1>7, <1>10, <3>2 DEF BufferByte, Receiving, n
      <3> QED BY <1>4, <2>1, <3>1, <3>2
    <2>3. ParserTyped'
      BY <1>1, <2>2 DEF ParserTyped, ParserStates
    <2>4. Wire(Tail(tokens))'
      BY <1>1, <2>1, <2>2, TokenFinished DEF n
    <2>5. Delivered' = Delivered
      BY <1>8, <2>2, <2>3, DeliveredNext
    <2> QED BY <1>1, <1>3, <2>2, <2>3, <2>4, <2>5 DEF ByteRead, TokenRead, t
  <1> QED BY <1>1, <1>4, <1>9, <1>10

(* _process *)
LEMMA ProcessByteReads ==
  ASSUME ParserTyped, ProcessByte, NEW tokens \in Seq(Tokens), Wire(tokens)
  PROVE  ByteRead(tokens)
  BY ByteInData, ByteBehindIac, ByteOfCommand, ByteOfSub, ByteInSub, ByteBehindIacInSub DEF ParserTyped, ParserStates

-----------------------------------------------------------------------------
(* An option between its two ends, with the tokens on their way *)

(* What an end writes for an answer; a kind is the side of the daemon that is meant. *)
Spoken(s, kind, answer, option) ==
  IF answer = "none" THEN s ELSE Append(s, [kind |-> kind, option |-> option, val |-> answer])

(* The words of an end x are among the tokens s, those of the other end y among u. *)
Pair(x, y, s, u, kind, option) ==
  \E ab, ba \in Seq(Words) :
    Saying(s, kind, option, ab) /\ Saying(u, kind, option, ba) /\ Related(x, y, ab, ba)

LEMMA PairIsSymmetric ==
  ASSUME NEW x, NEW y, NEW s, NEW u, NEW kind, NEW option, Pair(x, y, s, u, kind, option)
  PROVE  Pair(y, x, u, s, kind, option)
  BY RelatedIsSymmetric DEF Pair

LEMMA SpokenTyped ==
  ASSUME NEW s \in Seq(Tokens), NEW kind \in Sides, NEW answer \in Answers, NEW option \in Options
  PROVE  Spoken(s, kind, answer, option) \in Seq(Tokens)
  <1>1. CASE answer = "none"
    BY <1>1 DEF Spoken
  <1>2. CASE answer # "none"
    <2>1. [kind |-> kind, option |-> option, val |-> answer] \in Tokens
      BY <1>2 DEF Tokens, CommandTokens, Answers, Words
    <2> QED BY <1>2, <2>1, AppendProperties DEF Spoken
  <1> QED BY <1>1, <1>2

LEMMA SpokenSays ==
  ASSUME NEW s \in Seq(Tokens), NEW kind \in Sides, NEW answer \in Answers, NEW option \in Options,
         NEW out \in Seq(Words), NEW k \in Sides, NEW o \in Options, Saying(s, k, o, out)
  PROVE  /\ k = kind /\ o = option =>
              Push(out, answer) \in Seq(Words) /\ Saying(Spoken(s, kind, answer, option), k, o, Push(out, answer))
         /\ ~ (k = kind /\ o = option) => Saying(Spoken(s, kind, answer, option), k, o, out)
  <1>1. CASE answer = "none"
    BY <1>1 DEF Spoken, Push
  <1>2. CASE answer # "none"
    <2> DEFINE t == [kind |-> kind, option |-> option, val |-> answer]
    <2>1. answer \in Words /\ t \in Tokens /\ t.val = answer
      BY <1>2 DEF Tokens, CommandTokens, Answers, Words
    <2>2. Says(t, k, o) <=> (k = kind /\ o = option)
      BY DEF Says
    <2>3. Spoken(s, kind, answer, option) = Append(s, t) /\ Push(out, answer) = Append(out, answer)
      BY <1>2 DEF Spoken, Push
    <2>4. Append(out, answer) \in Seq(Words)
      BY <2>1, AppendProperties
    <2> HIDE DEF t
    <2>5. Saying(Append(s, t), k, o, IF Says(t, k, o) THEN Append(out, t.val) ELSE out)
      BY <2>1, SayingAppend
    <2> QED BY <2>1, <2>2, <2>3, <2>4, <2>5
  <1> QED BY <1>1, <1>2

(* Another token, or another option, changes nothing for the pair. *)
LEMMA PairKeeps ==
  ASSUME NEW x, NEW y, NEW s \in Seq(Tokens), NEW u \in Seq(Tokens), NEW k \in Sides, NEW o \in Options,
         Pair(x, y, s, u, k, o)
  PROVE  /\ \A kind \in Sides, answer \in Answers, option \in Options :
              ~ (k = kind /\ o = option) => Pair(x, y, Spoken(s, kind, answer, option), u, k, o)
         /\ u # <<>> /\ ~ Says(Head(u), k, o) => Pair(x, y, s, Tail(u), k, o)
         /\ \A t \in Tokens : ~ Says(t, k, o) => Pair(x, y, s, Append(u, t), k, o)
  <1>1. PICK ab \in Seq(Words), ba \in Seq(Words) :
          Saying(s, k, o, ab) /\ Saying(u, k, o, ba) /\ Related(x, y, ab, ba)
    BY DEF Pair
  <1>2. ASSUME NEW kind \in Sides, NEW answer \in Answers, NEW option \in Options, ~ (k = kind /\ o = option)
        PROVE  Pair(x, y, Spoken(s, kind, answer, option), u, k, o)
    <2>1. Saying(Spoken(s, kind, answer, option), k, o, ab)
      BY <1>1, <1>2, SpokenSays
    <2> QED BY <1>1, <2>1 DEF Pair
  <1>3. ASSUME u # <<>>, ~ Says(Head(u), k, o) PROVE Pair(x, y, s, Tail(u), k, o)
    <2>1. Saying(Tail(u), k, o, ba)
      BY <1>1, <1>3, SayingTail
    <2> QED BY <1>1, <2>1 DEF Pair
  <1>4. ASSUME NEW t \in Tokens, ~ Says(t, k, o) PROVE Pair(x, y, s, Append(u, t), k, o)
    <2>1. Saying(Append(u, t), k, o, IF Says(t, k, o) THEN Append(ba, t.val) ELSE ba)
      BY <1>1, <1>4, SayingAppend
    <2> QED BY <1>1, <1>4, <2>1 DEF Pair
  <1> QED BY <1>2, <1>3, <1>4

(* An end asks. *)
LEMMA PairAsks ==
  ASSUME NEW x \in States, NEW y \in States, NEW s \in Seq(Tokens), NEW u \in Seq(Tokens),
         NEW k \in Sides, NEW o \in Options, NEW yes \in BOOLEAN, Pair(x, y, s, u, k, o)
  PROVE  Pair(Ask(x, yes)[1], y, Spoken(s, k, Ask(x, yes)[2], o), u, k, o)
  <1>1. PICK ab \in Seq(Words), ba \in Seq(Words) :
          Saying(s, k, o, ab) /\ Saying(u, k, o, ba) /\ Related(x, y, ab, ba)
    BY DEF Pair
  <1>2. Ask(x, yes)[2] \in Answers
    BY AskTyped
  <1>3. Related(Ask(x, yes)[1], y, Push(ab, Ask(x, yes)[2]), ba)
    BY <1>1, AskKeepsRelated
  <1>4. /\ Push(ab, Ask(x, yes)[2]) \in Seq(Words)
        /\ Saying(Spoken(s, k, Ask(x, yes)[2], o), k, o, Push(ab, Ask(x, yes)[2]))
    BY <1>1, <1>2, SpokenSays
  <1> QED BY <1>1, <1>3, <1>4 DEF Pair

(* An end reads a word of the other, and answers. *)
LEMMA PairAnswers ==
  ASSUME NEW x \in States, NEW y \in States, NEW s \in Seq(Tokens), NEW u \in Seq(Tokens),
         NEW k \in Sides, NEW o \in Options, NEW agree \in BOOLEAN, Pair(x, y, s, u, k, o),
         u # <<>>, Says(Head(u), k, o)
  PROVE  LET r == Answer(x, Head(u).val = "yes", agree)
         IN  Pair(r[1], y, Spoken(s, k, r[2], o), Tail(u), k, o)
  <1> DEFINE yes == Head(u).val = "yes"
             r == Answer(x, yes, agree)
  <1>1. PICK ab \in Seq(Words), ba \in Seq(Words) :
          Saying(s, k, o, ab) /\ Saying(u, k, o, ba) /\ Related(x, y, ab, ba)
    BY DEF Pair
  <1>2. ba # <<>> /\ Head(ba) = Head(u).val /\ Saying(Tail(u), k, o, Tail(ba))
    BY <1>1, SayingTail
  <1>3. yes = (Head(ba) = "yes") /\ yes \in BOOLEAN
    BY <1>2
  <1>4. Tail(ba) \in Seq(Words)
    BY <1>2, HeadTailProperties
  <1>5. Related(r[1], y, Push(ab, r[2]), Tail(ba))
    BY <1>1, <1>2, AnswerKeepsRelated
  <1>6. r[2] \in Answers
    BY AnswerTyped
  <1> HIDE DEF r
  <1>7. Push(ab, r[2]) \in Seq(Words) /\ Saying(Spoken(s, k, r[2], o), k, o, Push(ab, r[2]))
    BY <1>1, <1>6, SpokenSays
  <1>8. Pair(r[1], y, Spoken(s, k, r[2], o), Tail(u), k, o)
    BY <1>2, <1>4, <1>5, <1>7 DEF Pair
  <1> QED BY <1>8 DEF r

-----------------------------------------------------------------------------
(* All the options between the daemon and the client *)

Other(side) == IF side = "us" THEN "him" ELSE "us"
Ends == [Options -> [us : States, him : States]]
Turned(f, option, side, v) == [f EXCEPT ![option][side] = v]
Negotiations == [cmd : Commands, option : Options]

(* The states f of the daemon and g of the client, with the tokens s to the client and u
   to the daemon. *)
LinkedAt(f, g, s, u) ==
  \A o \in Options, side \in Sides : Pair(f[o][side], g[o][Other(side)], s, u, side, o)

LEMMA EndSet ==
  ASSUME NEW f \in Ends, NEW option \in Options, NEW side \in Sides, NEW v \in States
  PROVE  /\ Turned(f, option, side, v) \in Ends
         /\ \A o \in Options, k \in Sides :
              Turned(f, option, side, v)[o][k] = IF o = option /\ k = side THEN v ELSE f[o][k]
  <1>1. CASE side = "us"
    BY <1>1 DEF Ends, Sides, Turned
  <1>2. CASE side = "him"
    BY <1>2 DEF Ends, Sides, Turned
  <1> QED BY <1>1, <1>2 DEF Sides

LEMMA EndIsState ==
  ASSUME NEW f \in Ends, NEW option \in Options, NEW side \in Sides
  PROVE  f[option][side] \in States
  BY DEF Ends, Sides

LEMMA OtherSide ==
  \A side \in Sides, k \in Sides : Other(side) \in Sides /\ Other(Other(side)) = side /\ (Other(k) = side <=> k = Other(side))
  BY DEF Other, Sides

(* The daemon asks. *)
LEMMA DaemonAsksLinked ==
  ASSUME NEW f \in Ends, NEW g \in Ends, NEW s \in Seq(Tokens), NEW u \in Seq(Tokens), LinkedAt(f, g, s, u),
         NEW option \in Options, NEW side \in Sides, NEW yes \in BOOLEAN
  PROVE  LET r == Ask(f[option][side], yes)
         IN  LinkedAt(Turned(f, option, side, r[1]), g, Spoken(s, side, r[2], option), u)
  <1> DEFINE r == Ask(f[option][side], yes)
             f2 == Turned(f, option, side, r[1])
  <1>1. r[1] \in States /\ r[2] \in Answers
    BY EndIsState, AskTyped
  <1>2. ASSUME NEW o \in Options, NEW k \in Sides
        PROVE  Pair(f2[o][k], g[o][Other(k)], Spoken(s, side, r[2], option), u, k, o)
    <2>1. Pair(f[o][k], g[o][Other(k)], s, u, k, o)
      BY DEF LinkedAt
    <2>2. f[o][k] \in States /\ g[o][Other(k)] \in States
      BY EndIsState, OtherSide
    <2>3. f2[o][k] = IF o = option /\ k = side THEN r[1] ELSE f[o][k]
      <3> HIDE DEF r
      <3> QED BY <1>1, EndSet
    <2> HIDE DEF f2
    <2>4. CASE o = option /\ k = side
      BY <2>1, <2>2, <2>3, <2>4, PairAsks
    <2>5. CASE ~ (o = option /\ k = side)
      <3> HIDE DEF r
      <3> QED BY <1>1, <2>1, <2>3, <2>5, PairKeeps
    <2> QED BY <2>4, <2>5
  <1> QED BY <1>2 DEF LinkedAt

(* The daemon answers the first token. *)
LEMMA DaemonAnswersLinked ==
  ASSUME NEW f \in Ends, NEW g \in Ends, NEW s \in Seq(Tokens), NEW u \in Seq(Tokens), LinkedAt(f, g, s, u),
         u # <<>>, NEW option \in Options, NEW side \in Sides, Says(Head(u), side, option), NEW agree \in BOOLEAN
  PROVE  LET r == Answer(f[option][side], Head(u).val = "yes", agree)
         IN  LinkedAt(Turned(f, option, side, r[1]), g, Spoken(s, side, r[2], option), Tail(u))
  <1> DEFINE r == Answer(f[option][side], Head(u).val = "yes", agree)
             f2 == Turned(f, option, side, r[1])
  <1>1. r[1] \in States /\ r[2] \in Answers
    BY EndIsState, AnswerTyped
  <1>2. Tail(u) \in Seq(Tokens)
    BY HeadTailProperties
  <1>3. ASSUME NEW o \in Options, NEW k \in Sides
        PROVE  Pair(f2[o][k], g[o][Other(k)], Spoken(s, side, r[2], option), Tail(u), k, o)
    <2>1. Pair(f[o][k], g[o][Other(k)], s, u, k, o)
      BY DEF LinkedAt
    <2>2. f[o][k] \in States /\ g[o][Other(k)] \in States
      BY EndIsState, OtherSide
    <2>3. f2[o][k] = IF o = option /\ k = side THEN r[1] ELSE f[o][k]
      <3> HIDE DEF r
      <3> QED BY <1>1, EndSet
    <2> HIDE DEF f2
    <2>4. CASE o = option /\ k = side
      BY <2>1, <2>2, <2>3, <2>4, PairAnswers
    <2>5. CASE ~ (o = option /\ k = side)
      <3> HIDE DEF r
      <3>1. ~ Says(Head(u), k, o)
        BY <2>5 DEF Says
      <3>2. Pair(f[o][k], g[o][Other(k)], s, Tail(u), k, o)
        BY <2>1, <3>1, PairKeeps
      <3> QED BY <1>1, <1>2, <2>3, <2>5, <3>2, PairKeeps
    <2> QED BY <2>4, <2>5
  <1> QED BY <1>3 DEF LinkedAt

(* The client asks. *)
LEMMA ClientAsksLinked ==
  ASSUME NEW f \in Ends, NEW g \in Ends, NEW s \in Seq(Tokens), NEW u \in Seq(Tokens), LinkedAt(f, g, s, u),
         NEW option \in Options, NEW side \in Sides, NEW yes \in BOOLEAN
  PROVE  LET r == Ask(g[option][side], yes)
         IN  LinkedAt(f, Turned(g, option, side, r[1]), s, Spoken(u, Other(side), r[2], option))
  <1> DEFINE r == Ask(g[option][side], yes)
             g2 == Turned(g, option, side, r[1])
  <1>1. r[1] \in States /\ r[2] \in Answers
    BY EndIsState, AskTyped
  <1>2. ASSUME NEW o \in Options, NEW k \in Sides
        PROVE  Pair(f[o][k], g2[o][Other(k)], s, Spoken(u, Other(side), r[2], option), k, o)
    <2>1. Pair(g[o][Other(k)], f[o][k], u, s, k, o)
      BY PairIsSymmetric DEF LinkedAt
    <2>2. f[o][k] \in States /\ g[o][Other(k)] \in States /\ Other(k) \in Sides /\ Other(side) \in Sides
      BY EndIsState, OtherSide
    <2>3. g2[o][Other(k)] = IF o = option /\ Other(k) = side THEN r[1] ELSE g[o][Other(k)]
      <3> HIDE DEF r
      <3>1. \A j \in Sides : g2[o][j] = IF o = option /\ j = side THEN r[1] ELSE g[o][j]
        BY <1>1, EndSet
      <3> HIDE DEF g2
      <3> QED BY <2>2, <3>1
    <2> HIDE DEF g2
    <2>4. CASE o = option /\ Other(k) = side
      <3>1. Other(side) = k
        BY <2>4, OtherSide
      <3>2. Pair(r[1], f[o][k], Spoken(u, k, r[2], o), s, k, o)
        BY <2>1, <2>2, <2>4, PairAsks
      <3> HIDE DEF r
      <3> QED BY <2>3, <2>4, <3>1, <3>2, PairIsSymmetric
    <2>5. CASE ~ (o = option /\ Other(k) = side)
      <3> HIDE DEF r
      <3>1. ~ (k = Other(side) /\ o = option)
        BY <2>5, OtherSide
      <3>2. Pair(g[o][Other(k)], f[o][k], Spoken(u, Other(side), r[2], option), s, k, o)
        BY <1>1, <2>1, <2>2, <3>1, PairKeeps
      <3> QED BY <2>3, <2>5, <3>2, PairIsSymmetric
    <2> QED BY <2>4, <2>5
  <1> QED BY <1>2 DEF LinkedAt

(* The client answers the first token. *)
LEMMA ClientAnswersLinked ==
  ASSUME NEW f \in Ends, NEW g \in Ends, NEW s \in Seq(Tokens), NEW u \in Seq(Tokens), LinkedAt(f, g, s, u),
         s # <<>>, NEW option \in Options, NEW side \in Sides, Says(Head(s), Other(side), option), NEW agree \in BOOLEAN
  PROVE  LET r == Answer(g[option][side], Head(s).val = "yes", agree)
         IN  LinkedAt(f, Turned(g, option, side, r[1]), Tail(s), Spoken(u, Other(side), r[2], option))
  <1> DEFINE r == Answer(g[option][side], Head(s).val = "yes", agree)
             g2 == Turned(g, option, side, r[1])
  <1>1. r[1] \in States /\ r[2] \in Answers
    BY EndIsState, AnswerTyped
  <1>2. Tail(s) \in Seq(Tokens)
    BY HeadTailProperties
  <1>3. ASSUME NEW o \in Options, NEW k \in Sides
        PROVE  Pair(f[o][k], g2[o][Other(k)], Tail(s), Spoken(u, Other(side), r[2], option), k, o)
    <2>1. Pair(g[o][Other(k)], f[o][k], u, s, k, o)
      BY PairIsSymmetric DEF LinkedAt
    <2>2. f[o][k] \in States /\ g[o][Other(k)] \in States /\ Other(k) \in Sides /\ Other(side) \in Sides
      BY EndIsState, OtherSide
    <2>3. g2[o][Other(k)] = IF o = option /\ Other(k) = side THEN r[1] ELSE g[o][Other(k)]
      <3> HIDE DEF r
      <3>1. \A j \in Sides : g2[o][j] = IF o = option /\ j = side THEN r[1] ELSE g[o][j]
        BY <1>1, EndSet
      <3> HIDE DEF g2
      <3> QED BY <2>2, <3>1
    <2> HIDE DEF g2
    <2>4. CASE o = option /\ Other(k) = side
      <3>1. Other(side) = k
        BY <2>4, OtherSide
      <3>2. Says(Head(s), k, o)
        BY <2>4, <3>1
      <3>3. Pair(r[1], f[o][k], Spoken(u, k, r[2], o), Tail(s), k, o)
        BY <2>1, <2>2, <2>4, <3>2, PairAnswers
      <3> HIDE DEF r
      <3> QED BY <2>3, <2>4, <3>1, <3>3, PairIsSymmetric
    <2>5. CASE ~ (o = option /\ Other(k) = side)
      <3> HIDE DEF r
      <3>1. ~ (k = Other(side) /\ o = option) /\ ~ Says(Head(s), k, o)
        BY <2>5, OtherSide DEF Says
      <3>2. Pair(g[o][Other(k)], f[o][k], u, Tail(s), k, o)
        BY <2>1, <3>1, PairKeeps
      <3>3. Pair(g[o][Other(k)], f[o][k], Spoken(u, Other(side), r[2], option), Tail(s), k, o)
        BY <1>1, <1>2, <2>2, <3>1, <3>2, PairKeeps
      <3> QED BY <2>3, <2>5, <3>3, PairIsSymmetric
    <2> QED BY <2>4, <2>5
  <1> QED BY <1>3 DEF LinkedAt

(* Tokens that are no commands. *)
LEMMA OtherTokensLinked ==
  ASSUME NEW f \in Ends, NEW g \in Ends, NEW s \in Seq(Tokens), NEW u \in Seq(Tokens), LinkedAt(f, g, s, u)
  PROVE  /\ u # <<>> /\ Head(u).kind \notin Sides => LinkedAt(f, g, s, Tail(u))
         /\ \A t \in Tokens : t.kind \notin Sides => LinkedAt(f, g, s, Append(u, t))
  <1>1. \A t, o : t.kind \notin Sides => \A k \in Sides : ~ Says(t, k, o)
    BY DEF Says
  <1>2. ASSUME u # <<>>, Head(u).kind \notin Sides PROVE LinkedAt(f, g, s, Tail(u))
    BY <1>1, <1>2, PairKeeps DEF LinkedAt
  <1>3. ASSUME NEW t \in Tokens, t.kind \notin Sides PROVE LinkedAt(f, g, s, Append(u, t))
    BY <1>1, <1>3, PairKeeps DEF LinkedAt
  <1> QED BY <1>2, <1>3

-----------------------------------------------------------------------------
(* The commands to the client, and the bytes to the daemon, as tokens *)

TokenOf(c) ==
  [kind |-> IF c.cmd \in {"WILL", "WONT"} THEN "us" ELSE "him", option |-> c.option,
   val |-> IF c.cmd \in {"WILL", "DO"} THEN "yes" ELSE "no"]

Toked(s) == [i \in 1..Len(s) |-> TokenOf(s[i])]

LEMMA TokenOfTyped ==
  ASSUME NEW c \in Negotiations
  PROVE  TokenOf(c) \in CommandTokens /\ TokenOf(c) \in Tokens
  BY DEF Negotiations, TokenOf, CommandTokens, Tokens, Sides, Words

LEMMA TokedTyped ==
  ASSUME NEW s \in Seq(Negotiations)
  PROVE  /\ Toked(s) \in Seq(Tokens) /\ Len(Toked(s)) = Len(s)
         /\ \A i \in 1..Len(s) : Toked(s)[i] = TokenOf(s[i])
  <1>1. Len(s) \in Nat /\ \A i \in 1..Len(s) : TokenOf(s[i]) \in Tokens
    <2>1. \A i \in 1..Len(s) : s[i] \in Negotiations
      BY ElementOfSeq
    <2> QED BY <2>1, TokenOfTyped, LenProperties
  <1>2. Toked(s) \in [1..Len(s) -> Tokens]
    BY <1>1 DEF Toked
  <1>3. Toked(s) \in Seq(Tokens)
    BY <1>1, <1>2, IsASeq
  <1>4. Len(Toked(s)) = Len(s)
    BY <1>1, <1>2, <1>3, LenProperties
  <1> QED BY <1>3, <1>4 DEF Toked

LEMMA TokedTail ==
  ASSUME NEW s \in Seq(Negotiations), s # <<>>
  PROVE  /\ Toked(s) # <<>> /\ Head(Toked(s)) = TokenOf(Head(s))
         /\ Tail(s) \in Seq(Negotiations) /\ Toked(Tail(s)) = Tail(Toked(s))
  <1> DEFINE u == Toked(s)
             r == Tail(s)
  <1>1. /\ u \in Seq(Tokens) /\ Len(u) = Len(s) /\ Len(s) \in Nat /\ Len(s) # 0
        /\ \A i \in 1..Len(s) : u[i] = TokenOf(s[i])
    BY TokedTyped, LenProperties, EmptySeq
  <1>2. /\ Head(s) = s[1] /\ r \in Seq(Negotiations) /\ Len(r) = Len(s) - 1
        /\ \A i \in 1..Len(r) : r[i] = s[i + 1]
    BY HeadTailProperties
  <1> HIDE DEF u
  <1>3. u # <<>>
    BY <1>1, EmptySeq
  <1>4. /\ Head(u) = u[1] /\ Tail(u) \in Seq(Tokens) /\ Len(Tail(u)) = Len(s) - 1
        /\ \A i \in 1..Len(Tail(u)) : Tail(u)[i] = u[i + 1]
    BY <1>1, <1>3, HeadTailProperties
  <1> HIDE DEF r
  <1>5. /\ Toked(r) \in Seq(Tokens) /\ Len(Toked(r)) = Len(s) - 1
        /\ \A i \in 1..(Len(s) - 1) : Toked(r)[i] = TokenOf(r[i])
    BY <1>2, TokedTyped
  <1>6. Head(u) = TokenOf(Head(s))
    <2>1. 1 \in 1..Len(s)
      BY <1>1
    <2> QED BY <1>1, <1>2, <1>4, <2>1
  <1>7. ASSUME NEW i \in 1..(Len(s) - 1) PROVE Toked(r)[i] = Tail(u)[i]
    <2>1. i + 1 \in 1..Len(s)
      BY <1>1
    <2> QED BY <1>1, <1>2, <1>4, <1>5, <2>1
  <1>8. Toked(r) = Tail(u)
    BY <1>4, <1>5, <1>7, SeqEqual
  <1> QED BY <1>2, <1>3, <1>6, <1>8 DEF u, r

LEMMA TokedSpeaks ==
  ASSUME NEW s \in Seq(Negotiations), NEW side \in Sides, NEW answer \in Answers, NEW option \in Options
  PROVE  /\ s \o Commanded(side, answer, option) \in Seq(Negotiations)
         /\ Toked(s \o Commanded(side, answer, option)) = Spoken(Toked(s), side, answer, option)
  <1>1. CASE answer = "none"
    <2>1. Commanded(side, answer, option) = <<>>
      BY <1>1 DEF Commanded
    <2>2. s \o <<>> = s
      BY ConcatEmptySeq
    <2> QED BY <1>1, <2>1, <2>2 DEF Spoken
  <1>2. CASE answer # "none"
    <2> DEFINE c == [cmd |-> IF answer = "yes" THEN IF side = "us" THEN "WILL" ELSE "DO"
                             ELSE IF side = "us" THEN "WONT" ELSE "DONT", option |-> option]
               t == [kind |-> side, option |-> option, val |-> answer]
               a == Append(s, c)
               b == Append(Toked(s), t)
    <2>1. Commanded(side, answer, option) = <<c>>
      BY <1>2 DEF Commanded, Answers
    <2>2. c \in Negotiations /\ TokenOf(c) = t
      BY <1>2 DEF Negotiations, Commands, TokenOf, Answers, Sides
    <2>3. t \in Tokens
      BY <2>2, TokenOfTyped
    <2>4. Spoken(Toked(s), side, answer, option) = b
      BY <1>2 DEF Spoken
    <2> HIDE DEF c, t
    <2>5. s \o <<c>> = a
      BY <2>2, AppendIsConcat
    <2>6. /\ a \in Seq(Negotiations) /\ Len(a) = Len(s) + 1 /\ a[Len(s) + 1] = c
          /\ \A i \in 1..Len(s) : a[i] = s[i]
      BY <2>2, AppendProperties
    <2>7. /\ Toked(s) \in Seq(Tokens) /\ Len(Toked(s)) = Len(s) /\ Len(s) \in Nat
          /\ \A i \in 1..Len(s) : Toked(s)[i] = TokenOf(s[i])
      BY TokedTyped, LenProperties
    <2>8. /\ b \in Seq(Tokens) /\ Len(b) = Len(s) + 1 /\ b[Len(s) + 1] = t
          /\ \A i \in 1..Len(s) : b[i] = Toked(s)[i]
      BY <2>3, <2>7, AppendProperties
    <2> HIDE DEF a, b
    <2>9. /\ Toked(a) \in Seq(Tokens) /\ Len(Toked(a)) = Len(s) + 1
          /\ \A i \in 1..(Len(s) + 1) : Toked(a)[i] = TokenOf(a[i])
      BY <2>6, TokedTyped
    <2>10. ASSUME NEW i \in 1..(Len(s) + 1) PROVE Toked(a)[i] = b[i]
      <3>1. CASE i = Len(s) + 1
        BY <3>1, <2>2, <2>6, <2>8, <2>9
      <3>2. CASE i # Len(s) + 1
        <4>1. i \in 1..Len(s)
          BY <3>2, <2>7
        <4> QED BY <4>1, <2>6, <2>7, <2>8, <2>9
      <3> QED BY <3>1, <3>2
    <2>11. Toked(a) = b
      BY <2>8, <2>9, <2>10, SeqEqual
    <2> QED BY <2>1, <2>4, <2>5, <2>6, <2>11
  <1> QED BY <1>1, <1>2

(* Three bytes of a command of the client. *)
LEMMA BytesSpeak ==
  ASSUME NEW w \in Seq(Byte), NEW tokens \in Seq(Tokens), Coded(w, tokens),
         NEW side \in Sides, NEW answer \in Answers, NEW option \in Options
  PROVE  /\ Bytes(Commanded(side, answer, option)) \in Seq(Byte)
         /\ Coded(w \o Bytes(Commanded(side, answer, option)), Spoken(tokens, Other(side), answer, option))
  <1>1. CASE answer = "none"
    <2>1. Bytes(Commanded(side, answer, option)) = <<>>
      BY <1>1 DEF Commanded, Bytes
    <2>2. w \o <<>> = w
      BY ConcatEmptySeq
    <2>3. Spoken(tokens, Other(side), answer, option) = tokens /\ <<>> \in Seq(Byte)
      BY <1>1, EmptySeq DEF Spoken
    <2> QED BY <2>1, <2>2, <2>3
  <1>2. CASE answer # "none"
    <2> DEFINE cmd == IF answer = "yes" THEN IF side = "us" THEN "WILL" ELSE "DO"
                      ELSE IF side = "us" THEN "WONT" ELSE "DONT"
               t == [kind |-> Other(side), option |-> option, val |-> answer]
               e == <<IAC, Code(cmd), option>>
    <2>1. Bytes(Commanded(side, answer, option)) = e
      <3>1. Commanded(side, answer, option) = <<[cmd |-> cmd, option |-> option]>>
        BY <1>2 DEF Commanded, Answers
      <3> HIDE DEF cmd
      <3> QED BY <3>1 DEF Bytes
    <2>2. t \in CommandTokens /\ TheCommand(t) = cmd /\ cmd \in Commands
      BY <1>2 DEF CommandTokens, TheCommand, Commands, Answers, Words, Sides, Other
    <2> HIDE DEF t, cmd
    <2>3. t \in Tokens /\ Size(t) = 3 /\ ByteOf(t, 1) = IAC /\ ByteOf(t, 2) = Code(cmd) /\ ByteOf(t, 3) = t.option
          /\ Code(cmd) \in {251, 252, 253, 254}
      BY <2>2, CommandBytes DEF Tokens
    <2>4. e \in Seq(Byte) /\ Len(e) = 3
      <3>1. IAC \in Byte /\ Code(cmd) \in Byte /\ option \in Byte
        BY <2>3 DEF IAC, Byte, Options, ECHO, LINEMODE
      <3> QED BY <3>1
    <2>5. TokenAt(e, 0, t)
      <3>1. t.option = option
        BY DEF t
      <3>2. \A j \in 1..3 : j = 1 \/ j = 2 \/ j = 3
        OBVIOUS
      <3> QED BY <2>3, <3>1, <3>2 DEF TokenAt
    <2>6. Spoken(tokens, Other(side), answer, option) = Append(tokens, t)
      BY <1>2 DEF Spoken, t
    <2> HIDE DEF e
    <2>7. Coded(w \o e, Append(tokens, t))
      BY <2>3, <2>4, <2>5, CodedAppend
    <2> QED BY <2>1, <2>4, <2>6, <2>7
  <1> QED BY <1>1, <1>2

(* Bytes behind those on their way. *)
LEMMA WireBehind ==
  ASSUME ParserTyped, NEW e \in Seq(Byte), up' = up \o e, state' = state, buffer' = buffer, NEW tokens,
         Coded((Taken(state, Len(buffer)) \o up) \o e, tokens)
  PROVE  up' \in Seq(Byte) /\ Wire(tokens)'
  <1>1. Taken(state, Len(buffer)) \in Seq(Byte) /\ up \in Seq(Byte)
    BY TakenIsBytes, LenProperties DEF ParserTyped
  <1>2. (Taken(state, Len(buffer)) \o up) \o e = Taken(state, Len(buffer)) \o (up \o e)
    BY <1>1, Regrouped
  <1>3. up \o e \in Seq(Byte)
    BY <1>1, ConcatProperties
  <1> QED BY <1>2, <1>3 DEF Wire

-----------------------------------------------------------------------------
(* The inductive invariant *)

EndsTyped ==
  /\ q \in Ends /\ client \in Ends /\ down \in Seq(Negotiations) /\ typed \in Seq(Byte)
  /\ \A o \in Options : q[o].him \in {"NO", "YES", "WANTYES"}

(* Unless the client asks for it, the daemon echoes, or wants to, for a friendly CLI. *)
EchoWanted ==
  ~ asked => /\ client[ECHO].him \in {"NO", "YES"}
             /\ q[ECHO].us \in {"YES", "WANTYES", "WANTNO_OP"} => friendly

(* What the client typed is what was delivered and what is still among the tokens. *)
DataOnWire(tokens) ==
  \E rest \in Seq(Byte) : typed = Delivered \o rest /\ Saying(tokens, "data", 0, rest)

Linked(tokens) == LinkedAt(q, client, Toked(down), tokens)

OnTheWay(tokens) == Wire(tokens) /\ DataOnWire(tokens) /\ Linked(tokens)

ProtocolInv ==
  ParserTyped /\ EndsTyped /\ EchoWanted /\ \E tokens \in Seq(Tokens) : OnTheWay(tokens)

(* What the parser has taken of a token is never the whole token. *)
LEMMA NothingOnTheWay ==
  ASSUME ParserTyped, up = <<>>, NEW tokens \in Seq(Tokens), Wire(tokens)
  PROVE  tokens = <<>>
  <1> DEFINE n == Len(buffer)
             h == Taken(state, n)
             t == Head(tokens)
             m == TakenSize(state, n)
  <1>1. /\ n \in Nat /\ h \in Seq(Byte) /\ Len(h) = m /\ m \in Nat /\ BufferLimit \in Nat /\ n <= BufferLimit
        /\ \A j \in 1..m : h[j] = TakenByte(state, j)
    BY TakenIsBytes, LenProperties, ProtocolAssumption DEF ParserTyped
  <1>2. Coded(h, tokens)
    <2>1. h \o <<>> = h
      BY <1>1, ConcatEmptySeq
    <2> QED BY <2>1 DEF Wire
  <1>3. ASSUME tokens # <<>> PROVE FALSE
    <2> HIDE DEF h
    <2>1. t \in Tokens /\ Size(t) <= m /\ TokenAt(h, 0, t)
      BY <1>1, <1>2, <1>3, CodedFirst, HeadTailProperties
    <2>2. Size(t) \in Nat \ {0}
      BY <2>1, SizeFacts
    <2> HIDE DEF t
    <2>3. \A j \in 1..Size(t) : TakenByte(state, j) = ByteOf(t, j)
      <3> TAKE j \in 1..Size(t)
      <3>1. j \in 1..m /\ 0 + j = j
        BY <1>1, <2>1, <2>2
      <3>2. h[0 + j] = ByteOf(t, j)
        BY <2>1 DEF TokenAt
      <3> QED BY <1>1, <3>1, <3>2
    <2>4. ByteOf(t, 1) = IAC
      <3>1. 1 \in 1..Size(t) /\ TakenByte(state, 1) = IAC
        BY <2>2 DEF TakenByte
      <3> QED BY <2>3, <3>1
    <2>5. Size(t) >= 2
      BY <2>1, <2>4, FirstByte
    <2>6. ByteOf(t, 2) = TakenByte(state, 2)
      <3>1. 2 \in 1..Size(t)
        BY <2>2, <2>5
      <3> QED BY <2>3, <3>1
    <2>7. CASE state \in {"DATA", "IAC"}
      <3>1. m \in {0, 1}
        BY <1>1, <2>7, TakenSizes
      <3> QED BY <2>1, <2>2, <2>5, <3>1
    <2>8. CASE state \in Commands
      <3>1. m = 2
        BY <1>1, <2>8, TakenSizes
      <3>2. ByteOf(t, 2) \in {251, 252, 253, 254}
        BY <2>6, <2>8, Codes DEF TakenByte
      <3>3. Size(t) = 3
        BY <2>1, <2>4, <3>2, SecondByte, CommandBytes
      <3> QED BY <2>1, <3>1, <3>3
    <2>9. CASE state \in {"SB", "SB_DATA", "SB_DATA_IAC"}
      <3>1. ByteOf(t, 2) = SB
        BY <2>6, <2>9 DEF TakenByte, Commands
      <3>2. Size(t) = 2 * BufferLimit + 5
        BY <2>1, <2>4, <3>1, SecondByte, SubBytes
      <3>3. m = 2 \/ m = 3 + 2 * n \/ m = 4 + 2 * n
        BY <1>1, <2>9, TakenSizes
      <3> HIDE DEF m, n
      <3> QED BY <1>1, <2>1, <3>2, <3>3
    <2> QED BY <2>7, <2>8, <2>9 DEF ParserTyped, ParserStates
  <1> QED BY <1>3

LEMMA ProtocolInitInv ==
  ASSUME ProtocolInit
  PROVE  ProtocolInv
  <1>1. ParserTyped
    BY EmptySeq, ProtocolAssumption DEF ProtocolInit, ParserTyped, ParserStates
  <1>2. NoOptions \in Ends /\ \A o \in Options, side \in Sides : NoOptions[o][side] = "NO"
    BY DEF NoOptions, Ends, States, Sides
  <1>3. LINEMODE \in Options /\ ECHO \in Options /\ LINEMODE # ECHO /\ "him" \in Sides
    BY DEF Options, LINEMODE, ECHO, Sides
  <1>4. q = Turned(NoOptions, LINEMODE, "him", "WANTYES")
    BY DEF ProtocolInit, Turned
  <1>5. /\ q \in Ends /\ q[ECHO]["us"] = "NO"
        /\ \A o \in Options, side \in Sides : q[o][side] \in {"NO", "WANTYES"}
    <2>1. "WANTYES" \in States /\ "us" \in Sides
      BY DEF States, Sides
    <2>2. /\ q \in Ends
          /\ \A o \in Options, k \in Sides :
               q[o][k] = IF o = LINEMODE /\ k = "him" THEN "WANTYES" ELSE NoOptions[o][k]
      BY <1>2, <1>3, <1>4, <2>1, EndSet
    <2> QED BY <1>2, <1>3, <2>1, <2>2
  <1>6. EndsTyped
    <2>1. down \in Seq(Negotiations)
      BY <1>3 DEF ProtocolInit, Negotiations, Commands
    <2>2. \A o \in Options : q[o].him \in {"NO", "YES", "WANTYES"}
      BY <1>3, <1>5
    <2> QED BY <1>2, <1>5, <2>1, <2>2, EmptySeq DEF EndsTyped, ProtocolInit
  <1>7. EchoWanted
    BY <1>2, <1>3, <1>5 DEF EchoWanted, ProtocolInit, Sides
  <1>8. <<>> \in Seq(Tokens) /\ <<>> \in Seq(Byte) /\ <<>> \in Seq(Negotiations) /\ <<>> \in Seq(Words)
    BY EmptySeq
  <1>9. Wire(<<>>)
    <2>1. Taken("DATA", Len(<<>>)) = <<>> /\ <<>> \o <<>> = <<>>
      BY <1>8, EmptySeq, TakenNothing, ConcatEmptySeq
    <2> QED BY <2>1, NothingCoded DEF ProtocolInit, Wire
  <1>10. DataOnWire(<<>>)
    <2>1. Delivered = <<>> /\ <<>> \o <<>> = <<>>
      BY <1>8, ConcatEmptySeq DEF ProtocolInit, Delivered
    <2> QED BY <1>8, <2>1, NothingSaid DEF ProtocolInit, DataOnWire
  <1>11. Linked(<<>>)
    <2>1. LinkedAt(NoOptions, NoOptions, <<>>, <<>>)
      <3>1. Related("NO", "NO", <<>>, <<>>)
        BY DEF Related, Half, Nothing
      <3>2. \A k \in Sides, o \in Options : Pair("NO", "NO", <<>>, <<>>, k, o)
        BY <1>8, <3>1, NothingSaid DEF Pair
      <3> QED BY <1>2, <3>2, OtherSide DEF LinkedAt
    <2>2. Ask("NO", TRUE)[1] = "WANTYES" /\ Ask("NO", TRUE)[2] = "yes"
      BY DEF Ask
    <2>3. LinkedAt(Turned(NoOptions, LINEMODE, "him", "WANTYES"), NoOptions, Spoken(<<>>, "him", "yes", LINEMODE), <<>>)
      <3> DEFINE r == Ask(NoOptions[LINEMODE]["him"], TRUE)
      <3>1. LinkedAt(Turned(NoOptions, LINEMODE, "him", r[1]), NoOptions, Spoken(<<>>, "him", r[2], LINEMODE), <<>>)
        BY <1>2, <1>3, <1>8, <2>1, DaemonAsksLinked
      <3>2. r[1] = "WANTYES" /\ r[2] = "yes"
        <4>1. NoOptions[LINEMODE]["him"] = "NO"
          BY <1>2, <1>3
        <4> QED BY <2>2, <4>1
      <3> HIDE DEF r
      <3> QED BY <3>1, <3>2
    <2>4. Toked(down) = Spoken(<<>>, "him", "yes", LINEMODE)
      <3>1. Toked(<<>>) = <<>>
        BY <1>8, TokedTyped, EmptySeq
      <3>2. <<>> \o Commanded("him", "yes", LINEMODE) = down
        <4>1. Commanded("him", "yes", LINEMODE) = down
          BY DEF Commanded, ProtocolInit
        <4> QED BY <4>1, <1>6, ConcatEmptySeq DEF EndsTyped
      <3>3. "yes" \in Answers
        BY DEF Answers
      <3> QED BY <1>3, <1>8, <3>1, <3>2, <3>3, TokedSpeaks, ZenonT(60)
    <2> QED BY <1>4, <2>3, <2>4 DEF Linked, ProtocolInit
  <1> QED BY <1>1, <1>6, <1>7, <1>8, <1>9, <1>10, <1>11 DEF ProtocolInv, OnTheWay

-----------------------------------------------------------------------------
(* Each step keeps it *)

(* An end that is at rest has nothing from the other to answer, when the other wants
   nothing either. *)
LEMMA RestingEnds ==
  ASSUME NEW x \in States, NEW y \in {"NO", "YES"}, NEW ab, NEW ba, Related(x, y, ab, ba), ba # <<>>
  PROVE  x \notin {"NO", "YES"}
  BY DEF Related, Half, Nothing, WantsNo, WantsYes

LEMMA AnswerWants ==
  ASSUME NEW x \in States, x \notin {"NO", "YES"}, NEW yes \in BOOLEAN, NEW agree \in BOOLEAN,
         Answer(x, yes, agree)[1] \in {"YES", "WANTYES", "WANTNO_OP"}
  PROVE  x \in {"WANTYES", "WANTNO_OP"}
  BY DEF States, Answer

(* The daemon reads a command. *)
LEMMA NegotiateInv ==
  ASSUME ParserTyped, EndsTyped, EchoWanted, NEW tokens \in Seq(Tokens), Linked(tokens), tokens # <<>>,
         Head(tokens) \in CommandTokens, state = TheCommand(Head(tokens)), Negotiate(Head(tokens).option),
         UNCHANGED <<friendly, client, typed, asked>>
  PROVE  EndsTyped' /\ EchoWanted' /\ Linked(Tail(tokens))'
  <1> DEFINE t == Head(tokens)
             option == t.option
             side == t.kind
             yes == t.val = "yes"
  <1>1. option \in Options /\ side \in Sides /\ t.val \in Words /\ Says(t, side, option) /\ yes \in BOOLEAN
    BY CommandBytes DEF Says
  <1>2. (state \in {"DO", "DONT"} <=> side = "us") /\ (state \in {"DO", "WILL"} <=> yes)
    BY <1>1 DEF TheCommand, Sides, Words
  <1>3. q[option]["him"] \in {"NO", "YES", "WANTYES"}
    BY <1>1 DEF EndsTyped
  <1> HIDE DEF t, option, side, yes
  <1>4. PICK agree \in BOOLEAN :
          /\ q' = Turned(q, option, side, Answer(q[option][side], yes, agree)[1])
          /\ down' = down \o Commanded(side, Answer(q[option][side], yes, agree)[2], option)
    <2>1. PICK agree \in BOOLEAN :
            LET sd == IF state \in {"DO", "DONT"} THEN "us" ELSE "him"
                ys == state \in {"DO", "WILL"}
                r == IF sd = "us" THEN Answer(q[option].us, ys, agree) ELSE AnswerHim(q[option].him, ys, agree)
            IN  /\ q' = [q EXCEPT ![option][sd] = r[1]]
                /\ down' = down \o Commanded(sd, r[2], option)
      BY Zenon DEF Negotiate, t, option
    <2>2. (state \in {"DO", "WILL"}) = yes
      BY <1>1, <1>2
    <2>3. CASE side = "us"
      <3>1. (IF state \in {"DO", "DONT"} THEN "us" ELSE "him") = "us"
        BY <1>2, <2>3
      <3> QED BY <2>1, <2>2, <2>3, <3>1 DEF Turned
    <2>4. CASE side = "him"
      <3>1. (IF state \in {"DO", "DONT"} THEN "us" ELSE "him") = "him"
        BY <1>2, <2>4
      <3>2. AnswerHim(q[option]["him"], yes, agree) = Answer(q[option]["him"], yes, agree)
        BY <1>3 DEF AnswerHim
      <3> QED BY <2>1, <2>2, <2>4, <3>1, <3>2, ZenonT(60) DEF Turned
    <2> QED BY <1>1, <2>3, <2>4 DEF Sides
  <1> DEFINE r == Answer(q[option][side], yes, agree)
  <1>5. r[1] \in States /\ r[2] \in Answers
    BY <1>1, EndIsState, AnswerTyped DEF EndsTyped
  <1>6. Linked(Tail(tokens))'
    <2>1. LinkedAt(Turned(q, option, side, r[1]), client, Spoken(Toked(down), side, r[2], option), Tail(tokens))
      <3>1. Toked(down) \in Seq(Tokens)
        BY TokedTyped DEF EndsTyped
      <3> QED BY <1>1, <3>1, DaemonAnswersLinked DEF EndsTyped, Linked, t, yes
    <2>2. Toked(down') = Spoken(Toked(down), side, r[2], option)
      <3> HIDE DEF r
      <3>1. down' = down \o Commanded(side, r[2], option)
        BY <1>4 DEF r
      <3> QED BY <1>1, <1>5, <3>1, TokedSpeaks DEF EndsTyped
    <2> QED BY <1>4, <2>1, <2>2 DEF Linked
  <1>7. /\ q' \in Ends
        /\ \A o \in Options, k \in Sides : q'[o][k] = IF o = option /\ k = side THEN r[1] ELSE q[o][k]
    <2> HIDE DEF r
    <2>1. q' = Turned(q, option, side, r[1])
      BY <1>4 DEF r
    <2> QED BY <1>1, <1>5, <2>1, EndSet DEF EndsTyped
  <1>8. EndsTyped'
    <2>1. down' \in Seq(Negotiations)
      <3> HIDE DEF r
      <3>1. down' = down \o Commanded(side, r[2], option)
        BY <1>4 DEF r
      <3> QED BY <1>1, <1>5, <3>1, TokedSpeaks DEF EndsTyped
    <2>2. side = "him" => r[1] \in {"NO", "YES", "WANTYES"}
      <3>1. \A x \in {"NO", "YES", "WANTYES"}, a, b \in BOOLEAN : Answer(x, a, b)[1] \in {"NO", "YES", "WANTYES"}
        BY DEF Answer
      <3> QED BY <1>1, <1>3, <3>1
    <2> HIDE DEF r
    <2>3. \A o \in Options : q'[o]["him"] \in {"NO", "YES", "WANTYES"}
      <3>1. "him" \in Sides
        BY DEF Sides
      <3> QED BY <1>7, <2>2, <3>1 DEF EndsTyped
    <2> QED BY <1>7, <2>1, <2>3 DEF EndsTyped
  <1>9. EchoWanted'
    <2>1. SUFFICES ASSUME ~ asked, client[ECHO]["him"] \in {"NO", "YES"},
                          q[ECHO]["us"] \in {"YES", "WANTYES", "WANTNO_OP"} => friendly,
                          q'[ECHO]["us"] \in {"YES", "WANTYES", "WANTNO_OP"}
                   PROVE  friendly
      BY DEF EchoWanted
    <2>2. ECHO \in Options /\ "us" \in Sides /\ Other("us") = "him"
      BY DEF Options, Sides, Other
    <2>3. q'[ECHO]["us"] = IF ECHO = option /\ "us" = side THEN r[1] ELSE q[ECHO]["us"]
      BY <1>7, <2>2
    <2>4. CASE ECHO = option /\ "us" = side
      <3>1. Pair(q[ECHO]["us"], client[ECHO]["him"], Toked(down), tokens, "us", ECHO)
        <4>1. Pair(q[ECHO]["us"], client[ECHO][Other("us")], Toked(down), tokens, "us", ECHO)
          BY <2>2 DEF Linked, LinkedAt
        <4> QED BY <2>2, <4>1
      <3>2. PICK ab \in Seq(Words), ba \in Seq(Words) :
              Saying(tokens, "us", ECHO, ba) /\ Related(q[ECHO]["us"], client[ECHO]["him"], ab, ba)
        BY <3>1 DEF Pair
      <3>3. ba # <<>>
        BY <1>1, <2>4, <3>2, SayingTail DEF t
      <3>4. q[ECHO]["us"] \in States
        BY <2>2, EndIsState DEF EndsTyped
      <3>5. q[ECHO]["us"] \notin {"NO", "YES"}
        BY <2>1, <3>2, <3>3, <3>4, RestingEnds
      <3>6. r[1] \in {"YES", "WANTYES", "WANTNO_OP"} /\ r = Answer(q[ECHO]["us"], yes, agree)
        BY <2>1, <2>3, <2>4
      <3>7. q[ECHO]["us"] \in {"WANTYES", "WANTNO_OP"}
        BY <1>1, <3>4, <3>5, <3>6, AnswerWants
      <3> QED BY <2>1, <3>7
    <2>5. CASE ~ (ECHO = option /\ "us" = side)
      BY <2>1, <2>3, <2>5
    <2> QED BY <2>4, <2>5
  <1> QED BY <1>6, <1>8, <1>9

LEMMA SameEnds ==
  ASSUME EndsTyped, EchoWanted, UNCHANGED <<q, down, client, typed, friendly, asked>>
  PROVE  EndsTyped' /\ EchoWanted' /\ \A tokens : Linked(tokens)' <=> Linked(tokens)
  <1>1. q' = q /\ down' = down /\ client' = client /\ typed' = typed /\ friendly' = friendly /\ asked' = asked
    OBVIOUS
  <1> QED BY <1>1 DEF EndsTyped, EchoWanted, Linked

(* A byte of data is delivered. *)
LEMMA DataRead ==
  ASSUME ParserTyped, NEW tokens \in Seq(Tokens), tokens # <<>>, Head(tokens) \in DataTokens, DataOnWire(tokens),
         Delivered' = Append(Delivered, Head(tokens).val), typed' = typed
  PROVE  DataOnWire(Tail(tokens))'
  <1> DEFINE t == Head(tokens)
  <1>1. PICK rest \in Seq(Byte) : typed = Delivered \o rest /\ Saying(tokens, "data", 0, rest)
    BY DEF DataOnWire
  <1>2. Says(t, "data", 0)
    BY DataBytes DEF Says
  <1>3. rest # <<>> /\ Head(rest) = t.val /\ Saying(Tail(tokens), "data", 0, Tail(rest))
    BY <1>1, <1>2, SayingTail
  <1>4. Tail(rest) \in Seq(Byte)
    BY <1>3, HeadTailProperties
  <1>5. Append(Delivered, Head(rest)) \o Tail(rest) = Delivered \o rest
    BY <1>3, DeliveredFacts, ByteTaken
  <1>6. typed' = Delivered' \o Tail(rest)
    BY <1>1, <1>3, <1>5
  <1> QED BY <1>3, <1>4, <1>6 DEF DataOnWire

(* Nothing is delivered, and a token that is no data goes. *)
LEMMA OtherRead ==
  ASSUME NEW tokens \in Seq(Tokens), DataOnWire(tokens), Delivered' = Delivered, typed' = typed
  PROVE  /\ DataOnWire(tokens)'
         /\ tokens # <<>> /\ Head(tokens).kind # "data" => DataOnWire(Tail(tokens))'
  <1>1. PICK rest \in Seq(Byte) : typed = Delivered \o rest /\ Saying(tokens, "data", 0, rest)
    BY DEF DataOnWire
  <1>2. typed' = Delivered' \o rest
    BY <1>1
  <1>3. ASSUME tokens # <<>>, Head(tokens).kind # "data" PROVE Saying(Tail(tokens), "data", 0, rest)
    <2>1. ~ Says(Head(tokens), "data", 0)
      BY <1>3 DEF Says
    <2> QED BY <1>1, <1>3, <2>1, SayingTail
  <1> QED BY <1>1, <1>2, <1>3 DEF DataOnWire

LEMMA ProcessByteInv ==
  ASSUME ProtocolInv, ProcessByte
  PROVE  ProtocolInv'
  <1>1. PICK tokens \in Seq(Tokens) : OnTheWay(tokens)
    BY DEF ProtocolInv
  <1>2. ParserTyped /\ EndsTyped /\ EchoWanted /\ Wire(tokens) /\ DataOnWire(tokens) /\ Linked(tokens)
    BY <1>1 DEF ProtocolInv, OnTheWay
  <1>3. friendly' = friendly /\ client' = client /\ typed' = typed /\ asked' = asked
    BY Zenon DEF ProcessByte, clientVars
  <1>4. ByteRead(tokens)
    BY <1>2, ProcessByteReads
  <1>5. ParserTyped'
    BY <1>4 DEF ByteRead
  <1>6. CASE Wire(tokens)' /\ Delivered' = Delivered /\ NoAnswer
    <2>1. EndsTyped' /\ EchoWanted' /\ Linked(tokens)'
      BY <1>2, <1>3, <1>6, SameEnds DEF NoAnswer
    <2>2. DataOnWire(tokens)'
      BY <1>2, <1>3, <1>6, OtherRead
    <2> QED BY <1>5, <1>6, <2>1, <2>2 DEF ProtocolInv, OnTheWay
  <1>7. CASE tokens # <<>> /\ Wire(Tail(tokens))' /\ TokenRead(Head(tokens))
    <2> DEFINE t == Head(tokens)
               u == Tail(tokens)
    <2>1. u \in Seq(Tokens)
      BY <1>7, HeadTailProperties
    <2>2. Toked(down) \in Seq(Tokens) /\ q \in Ends /\ client \in Ends
      BY <1>2, TokedTyped DEF EndsTyped
    <2>3. EndsTyped' /\ EchoWanted' /\ DataOnWire(u)' /\ Linked(u)'
      <3>1. CASE t \in DataTokens /\ Delivered' = Append(Delivered, t.val) /\ NoAnswer
        <4>1. t.kind \notin Sides
          BY <3>1, DataBytes DEF Sides
        <4>2. Linked(u)
          BY <1>2, <1>7, <2>2, <4>1, OtherTokensLinked DEF Linked
        <4>3. EndsTyped' /\ EchoWanted' /\ Linked(u)'
          BY <1>2, <1>3, <3>1, <4>2, SameEnds DEF NoAnswer
        <4>4. DataOnWire(u)'
          BY <1>2, <1>3, <1>7, <3>1, DataRead
        <4> QED BY <4>3, <4>4
      <3>2. CASE t \in SubTokens \cup EndTokens /\ Delivered' = Delivered /\ NoAnswer
        <4>1. t.kind \notin Sides /\ t.kind # "data"
          BY <3>2, SubBytes, EndBytes DEF Sides
        <4>2. Linked(u)
          BY <1>2, <1>7, <2>2, <4>1, OtherTokensLinked DEF Linked
        <4>3. EndsTyped' /\ EchoWanted' /\ Linked(u)'
          BY <1>2, <1>3, <3>2, <4>2, SameEnds DEF NoAnswer
        <4>4. DataOnWire(u)'
          BY <1>2, <1>3, <1>7, <3>2, <4>1, OtherRead
        <4> QED BY <4>3, <4>4
      <3>3. CASE t \in CommandTokens /\ Delivered' = Delivered /\ state = TheCommand(t) /\ Negotiate(t.option)
        <4>1. t.kind # "data"
          BY <3>3, CommandBytes DEF Sides
        <4>2. EndsTyped' /\ EchoWanted' /\ Linked(u)'
          BY <1>2, <1>3, <1>7, <3>3, NegotiateInv
        <4>3. DataOnWire(u)'
          BY <1>2, <1>3, <1>7, <3>3, <4>1, OtherRead
        <4> QED BY <4>2, <4>3
      <3> QED BY <1>7, <3>1, <3>2, <3>3 DEF TokenRead
    <2> QED BY <1>5, <1>7, <2>1, <2>3 DEF ProtocolInv, OnTheWay
  <1> QED BY <1>4, <1>6, <1>7 DEF ByteRead

LEMMA EndOfPacketInv ==
  ASSUME ProtocolInv, EndOfPacket
  PROVE  ProtocolInv'
  <1>1. PICK tokens \in Seq(Tokens) : OnTheWay(tokens)
    BY DEF ProtocolInv
  <1>2. ParserTyped /\ EndsTyped /\ EchoWanted /\ Wire(tokens) /\ DataOnWire(tokens) /\ Linked(tokens)
    BY <1>1 DEF ProtocolInv, OnTheWay
  <1>3. /\ up' = up /\ state' = state /\ buffer' = buffer /\ pending' = <<>>
        /\ data' = IF state = "DATA" THEN data \o pending ELSE data
        /\ UNCHANGED <<q, down, client, typed, friendly, asked>>
    BY DEF EndOfPacket, clientVars
  <1>4. ParserTyped'
    <2>1. data \o pending \in Seq(Byte)
      BY <1>2, ConcatProperties DEF ParserTyped
    <2> QED BY <1>2, <1>3, <2>1, EmptySeq DEF ParserTyped
  <1>5. Delivered' = Delivered
    BY <1>2, <1>3, <1>4, DeliveredFacts, DeliveredNext
  <1>6. EndsTyped' /\ EchoWanted' /\ Linked(tokens)'
    BY <1>2, <1>3, SameEnds
  <1>7. DataOnWire(tokens)'
    BY <1>2, <1>3, <1>5, OtherRead
  <1>8. Wire(tokens)'
    BY <1>2, <1>3 DEF Wire
  <1> QED BY <1>4, <1>6, <1>7, <1>8 DEF ProtocolInv, OnTheWay

(* The daemon asks twice: for the echo, then for the mode of lines. *)
LEMMA SetFriendlyInv ==
  ASSUME ProtocolInv, SetFriendlyCLI
  PROVE  ProtocolInv'
  <1> DEFINE echo == Ask(q[ECHO]["us"], friendly')
             linemode == Ask(q[LINEMODE]["him"], TRUE)
             f == Turned(q, ECHO, "us", echo[1])
             d == down \o Commanded("us", echo[2], ECHO)
  <1>1. PICK tokens \in Seq(Tokens) : OnTheWay(tokens)
    BY DEF ProtocolInv
  <1>2. ParserTyped /\ EndsTyped /\ EchoWanted /\ Wire(tokens) /\ DataOnWire(tokens) /\ Linked(tokens)
    BY <1>1 DEF ProtocolInv, OnTheWay
  <1>3. /\ UNCHANGED <<up, state, buffer, pending, data, client, typed, asked>>
        /\ friendly' \in BOOLEAN /\ friendly' = ~ friendly
        /\ q' = Turned(f, LINEMODE, "him", linemode[1])
        /\ down' = d \o Commanded("him", linemode[2], LINEMODE)
    BY DEF SetFriendlyCLI, clientVars, Turned
  <1>4. ECHO \in Options /\ LINEMODE \in Options /\ ECHO # LINEMODE /\ "us" \in Sides /\ "him" \in Sides /\ "us" # "him"
    BY DEF Options, ECHO, LINEMODE, Sides
  <1>5. q \in Ends /\ client \in Ends /\ down \in Seq(Negotiations) /\ Toked(down) \in Seq(Tokens)
    BY <1>2, TokedTyped DEF EndsTyped
  <1>6. echo[1] \in States /\ echo[2] \in Answers /\ linemode[1] \in States /\ linemode[2] \in Answers
    BY <1>3, <1>4, <1>5, EndIsState, AskTyped
  <1>7. linemode[1] \in {"NO", "YES", "WANTYES"}
    <2>1. q[LINEMODE]["him"] \in {"NO", "YES", "WANTYES"}
      BY <1>2, <1>4 DEF EndsTyped
    <2> QED BY <2>1 DEF Ask
  <1>8. echo[1] \in {"YES", "WANTYES", "WANTNO_OP"} => friendly'
    <2>1. CASE friendly'
      BY <2>1
    <2>2. CASE ~ friendly'
      <3>1. \A x \in States : Ask(x, FALSE)[1] \notin {"YES", "WANTYES", "WANTNO_OP"}
        BY DEF States, Ask
      <3>2. friendly' = FALSE /\ q[ECHO]["us"] \in States
        BY <1>3, <1>4, <1>5, <2>2, EndIsState
      <3> QED BY <3>1, <3>2
    <2> QED BY <2>1, <2>2
  <1>9. LinkedAt(f, client, Spoken(Toked(down), "us", echo[2], ECHO), tokens)
    BY <1>2, <1>3, <1>4, <1>5, DaemonAsksLinked DEF Linked
  <1> HIDE DEF echo
  <1>10. /\ f \in Ends
         /\ \A o \in Options, k \in Sides : f[o][k] = IF o = ECHO /\ k = "us" THEN echo[1] ELSE q[o][k]
    BY <1>4, <1>5, <1>6, EndSet, SMTT(60)
  <1>11. d \in Seq(Negotiations) /\ Toked(d) = Spoken(Toked(down), "us", echo[2], ECHO) /\ Toked(d) \in Seq(Tokens)
    BY <1>4, <1>5, <1>6, TokedSpeaks, TokedTyped
  <1> HIDE DEF f, d
  <1>12. f[LINEMODE]["him"] = q[LINEMODE]["him"]
    BY <1>4, <1>10
  <1>13. LinkedAt(Turned(f, LINEMODE, "him", linemode[1]), client, Spoken(Toked(d), "him", linemode[2], LINEMODE), tokens)
    <2>1. LinkedAt(f, client, Toked(d), tokens)
      BY <1>9, <1>11
    <2> DEFINE r == Ask(f[LINEMODE]["him"], TRUE)
    <2>2. LinkedAt(Turned(f, LINEMODE, "him", r[1]), client, Spoken(Toked(d), "him", r[2], LINEMODE), tokens)
      BY <1>4, <1>5, <1>10, <1>11, <2>1, DaemonAsksLinked
    <2> QED BY <1>12, <2>2
  <1> HIDE DEF linemode
  <1>14. /\ q' \in Ends
         /\ \A o \in Options, k \in Sides : q'[o][k] = IF o = LINEMODE /\ k = "him" THEN linemode[1] ELSE f[o][k]
    <2>1. f \in Ends
      BY <1>10
    <2>2. \A v \in States :
            /\ Turned(f, LINEMODE, "him", v) \in Ends
            /\ \A o \in Options, k \in Sides :
                 Turned(f, LINEMODE, "him", v)[o][k] = IF o = LINEMODE /\ k = "him" THEN v ELSE f[o][k]
      BY <1>4, <2>1, EndSet
    <2> QED BY <1>3, <1>6, <2>2
  <1>15. down' \in Seq(Negotiations) /\ Toked(down') = Spoken(Toked(d), "him", linemode[2], LINEMODE)
    BY <1>3, <1>4, <1>6, <1>11, TokedSpeaks
  <1>16. Linked(tokens)'
    BY <1>3, <1>13, <1>15 DEF Linked
  <1>17. EndsTyped'
    <2>1. \A o \in Options : q'[o]["him"] \in {"NO", "YES", "WANTYES"}
      BY <1>2, <1>4, <1>7, <1>10, <1>14 DEF EndsTyped
    <2> QED BY <1>2, <1>3, <1>14, <1>15, <2>1 DEF EndsTyped
  <1>18. EchoWanted'
    <2>1. q'[ECHO]["us"] = echo[1]
      BY <1>4, <1>10, <1>14
    <2> QED BY <1>2, <1>3, <1>8, <2>1 DEF EchoWanted
  <1>19. ParserTyped' /\ Wire(tokens)' /\ Delivered' = Delivered
    BY <1>2, <1>3 DEF ParserTyped, Wire, Delivered
  <1>20. DataOnWire(tokens)'
    BY <1>2, <1>3, <1>19, OtherRead
  <1> QED BY <1>16, <1>17, <1>18, <1>19, <1>20, SMTT(60) DEF ProtocolInv, OnTheWay

(* The client writes bytes: the daemon's ends are as they were. *)
LEMMA ClientWrites ==
  ASSUME ParserTyped, NEW e \in Seq(Byte), up' = up \o e, UNCHANGED daemonVars,
         NEW tokens, Coded((Taken(state, Len(buffer)) \o up) \o e, tokens)
  PROVE  ParserTyped' /\ Wire(tokens)' /\ Delivered' = Delivered /\ q' = q /\ friendly' = friendly
  <1>1. UNCHANGED <<state, buffer, q, pending, data, friendly>>
    BY DEF daemonVars
  <1>2. up' \in Seq(Byte) /\ Wire(tokens)'
    BY <1>1, WireBehind
  <1> QED BY <1>1, <1>2 DEF ParserTyped, Delivered

(* What the parser has taken and what is on its way, as one sequence. *)
LEMMA OnTheWayBytes ==
  ASSUME ParserTyped
  PROVE  Taken(state, Len(buffer)) \o up \in Seq(Byte)
  <1>1. Taken(state, Len(buffer)) \in Seq(Byte)
    BY TakenIsBytes, LenProperties DEF ParserTyped
  <1> QED BY <1>1, ConcatProperties DEF ParserTyped

(* A word of the client is no data. *)
LEMMA SpokenData ==
  ASSUME NEW tokens \in Seq(Tokens), DataOnWire(tokens), Delivered' = Delivered, typed' = typed,
         NEW kind \in Sides, NEW answer \in Answers, NEW option \in Options
  PROVE  DataOnWire(Spoken(tokens, kind, answer, option))'
  <1> DEFINE t == [kind |-> kind, option |-> option, val |-> answer]
  <1>1. CASE answer = "none"
    BY <1>1, OtherRead DEF Spoken
  <1>2. CASE answer # "none"
    <2>1. PICK rest \in Seq(Byte) : typed = Delivered \o rest /\ Saying(tokens, "data", 0, rest)
      BY DEF DataOnWire
    <2>2. t \in Tokens /\ ~ Says(t, "data", 0)
      BY <1>2 DEF Tokens, CommandTokens, Answers, Words, Sides, Says
    <2>3. Spoken(tokens, kind, answer, option) = Append(tokens, t)
      BY <1>2 DEF Spoken
    <2> HIDE DEF t
    <2>4. Saying(Append(tokens, t), "data", 0, IF Says(t, "data", 0) THEN Append(rest, t.val) ELSE rest)
      BY <2>1, <2>2, SayingAppend
    <2>5. typed' = Delivered' \o rest
      BY <2>1
    <2> QED BY <2>2, <2>3, <2>4, <2>5 DEF DataOnWire
  <1> QED BY <1>1, <1>2

LEMMA ClientAnswersInv ==
  ASSUME ProtocolInv, ClientAnswers
  PROVE  ProtocolInv'
  <1>1. PICK tokens \in Seq(Tokens) : OnTheWay(tokens)
    BY DEF ProtocolInv
  <1>2. ParserTyped /\ EndsTyped /\ EchoWanted /\ Wire(tokens) /\ DataOnWire(tokens) /\ Linked(tokens)
    BY <1>1 DEF ProtocolInv, OnTheWay
  <1>3. down # <<>> /\ down' = Tail(down) /\ UNCHANGED daemonVars /\ UNCHANGED <<typed, asked>>
    BY ZenonT(60) DEF ClientAnswers
  <1>4. q \in Ends /\ client \in Ends /\ down' \in Seq(Negotiations)
    BY <1>2, <1>3, TokedTail DEF EndsTyped
  <1>5. PICK option \in Options, side \in Sides, v \in States, answer \in Answers :
          /\ client' = Turned(client, option, side, v)
          /\ up' = up \o Bytes(Commanded(side, answer, option))
          /\ LinkedAt(q, Turned(client, option, side, v), Toked(down'), Spoken(tokens, Other(side), answer, option))
          /\ client[option][side] \in {"NO", "YES"} => v \in {"NO", "YES"}
    <2> DEFINE c == Head(down)
               side == IF c.cmd \in {"DO", "DONT"} THEN "us" ELSE "him"
               yes == c.cmd \in {"DO", "WILL"}
               option == c.option
               s == Toked(down)
    <2>1. /\ s \in Seq(Tokens) /\ s # <<>> /\ Head(s) = TokenOf(c)
          /\ Toked(down') = Tail(s) /\ c \in Negotiations
      BY <1>2, <1>3, TokedTyped, TokedTail, HeadTailProperties DEF EndsTyped
    <2>2. side \in Sides /\ option \in Options /\ yes \in BOOLEAN
      BY <2>1 DEF Sides, Negotiations
    <2>3. Says(Head(s), Other(side), option) /\ (Head(s).val = "yes") = yes
      BY <2>1 DEF Says, TokenOf, Other, Negotiations, Commands
    <2>4. PICK agree \in BOOLEAN :
            /\ client' = Turned(client, option, side, Answer(client[option][side], yes, agree)[1])
            /\ up' = up \o Bytes(Commanded(side, Answer(client[option][side], yes, agree)[2], option))
      BY Zenon DEF ClientAnswers, Turned
    <2> HIDE DEF side, option, yes, s
    <2> DEFINE r == Answer(client[option][side], yes, agree)
    <2>5. r[1] \in States /\ r[2] \in Answers
      BY <1>4, <2>2, EndIsState, AnswerTyped
    <2>6. LinkedAt(q, Turned(client, option, side, r[1]), Tail(s), Spoken(tokens, Other(side), r[2], option))
      BY <1>2, <1>4, <2>1, <2>2, <2>3, ClientAnswersLinked DEF Linked, s
    <2>7. client[option][side] \in {"NO", "YES"} => r[1] \in {"NO", "YES"}
      <3>1. \A a, b \in BOOLEAN, x \in {"NO", "YES"} : Answer(x, a, b)[1] \in {"NO", "YES"}
        BY DEF Answer
      <3> QED BY <2>2, <3>1
    <2>8. client' = Turned(client, option, side, r[1]) /\ up' = up \o Bytes(Commanded(side, r[2], option))
      BY <2>4
    <2> HIDE DEF r
    <2> QED BY <2>1, <2>2, <2>5, <2>6, <2>7, <2>8
  <1> DEFINE e == Bytes(Commanded(side, answer, option))
             u == Spoken(tokens, Other(side), answer, option)
  <1>6. Other(side) \in Sides
    BY OtherSide
  <1>7. u \in Seq(Tokens) /\ DataOnWire(u)' /\ ParserTyped' /\ Wire(u)' /\ q' = q /\ friendly' = friendly
    <2>1. u \in Seq(Tokens)
      BY <1>6, SpokenTyped
    <2>2. e \in Seq(Byte) /\ Coded((Taken(state, Len(buffer)) \o up) \o e, u)
      BY <1>2, OnTheWayBytes, BytesSpeak DEF Wire
    <2>3. ParserTyped' /\ Wire(u)' /\ Delivered' = Delivered /\ q' = q /\ friendly' = friendly
      <3> HIDE DEF e, u
      <3>1. up' = up \o e
        BY <1>5 DEF e
      <3> QED BY <1>2, <1>3, <2>2, <3>1, ClientWrites
    <2>4. DataOnWire(u)'
      BY <1>2, <1>3, <1>6, <2>3, SpokenData
    <2> QED BY <2>1, <2>3, <2>4
  <1> HIDE DEF u, e
  <1>8. /\ client' \in Ends
        /\ \A o \in Options, k \in Sides : client'[o][k] = IF o = option /\ k = side THEN v ELSE client[o][k]
    BY <1>4, <1>5, EndSet
  <1>9. EndsTyped'
    BY <1>2, <1>3, <1>4, <1>7, <1>8 DEF EndsTyped
  <1>10. EchoWanted'
    <2>1. ECHO \in Options /\ "him" \in Sides
      BY DEF Options, Sides
    <2>2. client[ECHO]["him"] \in {"NO", "YES"} => client'[ECHO]["him"] \in {"NO", "YES"}
      BY <1>5, <1>8, <2>1
    <2> QED BY <1>2, <1>3, <1>7, <2>2 DEF EchoWanted
  <1>11. Linked(u)'
    BY <1>5, <1>7 DEF Linked, u
  <1> QED BY <1>7, <1>9, <1>10, <1>11, SMTT(60) DEF ProtocolInv, OnTheWay

LEMMA ClientAsksInv ==
  ASSUME ProtocolInv, ClientAsks
  PROVE  ProtocolInv'
  <1>1. PICK tokens \in Seq(Tokens) : OnTheWay(tokens)
    BY DEF ProtocolInv
  <1>2. ParserTyped /\ EndsTyped /\ EchoWanted /\ Wire(tokens) /\ DataOnWire(tokens) /\ Linked(tokens)
    BY <1>1 DEF ProtocolInv, OnTheWay
  <1>3. down' = down /\ UNCHANGED daemonVars /\ typed' = typed
    BY DEF ClientAsks
  <1>4. q \in Ends /\ client \in Ends /\ down' \in Seq(Negotiations)
    BY <1>2, <1>3 DEF EndsTyped
  <1>5. PICK option \in Options, side \in Sides, v \in States, answer \in Answers :
          /\ client' = Turned(client, option, side, v)
          /\ up' = up \o Bytes(Commanded(side, answer, option))
          /\ LinkedAt(q, Turned(client, option, side, v), Toked(down'), Spoken(tokens, Other(side), answer, option))
          /\ asked' = (asked \/ (option = ECHO /\ side = "him"))
    <2>1. PICK option \in Options, side \in Sides, yes \in BOOLEAN :
            /\ client' = Turned(client, option, side, Ask(client[option][side], yes)[1])
            /\ up' = up \o Bytes(Commanded(side, Ask(client[option][side], yes)[2], option))
            /\ asked' = (asked \/ (option = ECHO /\ side = "him"))
      BY ZenonT(60) DEF ClientAsks, Sides, Turned
    <2> DEFINE r == Ask(client[option][side], yes)
    <2>2. r[1] \in States /\ r[2] \in Answers
      BY <1>4, EndIsState, AskTyped
    <2>3. LinkedAt(q, Turned(client, option, side, r[1]), Toked(down), Spoken(tokens, Other(side), r[2], option))
      <3>1. Toked(down) \in Seq(Tokens)
        BY <1>2, TokedTyped DEF EndsTyped
      <3> QED BY <1>2, <1>4, <3>1, ClientAsksLinked DEF Linked
    <2>4. client' = Turned(client, option, side, r[1]) /\ up' = up \o Bytes(Commanded(side, r[2], option))
      BY <2>1
    <2> HIDE DEF r
    <2> QED BY <1>3, <2>1, <2>2, <2>3, <2>4
  <1> DEFINE e == Bytes(Commanded(side, answer, option))
             u == Spoken(tokens, Other(side), answer, option)
  <1>6. Other(side) \in Sides
    BY OtherSide
  <1>7. u \in Seq(Tokens) /\ DataOnWire(u)' /\ ParserTyped' /\ Wire(u)' /\ q' = q /\ friendly' = friendly
    <2>1. u \in Seq(Tokens)
      BY <1>6, SpokenTyped
    <2>2. e \in Seq(Byte) /\ Coded((Taken(state, Len(buffer)) \o up) \o e, u)
      BY <1>2, OnTheWayBytes, BytesSpeak DEF Wire
    <2>3. ParserTyped' /\ Wire(u)' /\ Delivered' = Delivered /\ q' = q /\ friendly' = friendly
      <3> HIDE DEF e, u
      <3>1. up' = up \o e
        BY <1>5 DEF e
      <3> QED BY <1>2, <1>3, <2>2, <3>1, ClientWrites
    <2>4. DataOnWire(u)'
      BY <1>2, <1>3, <1>6, <2>3, SpokenData
    <2> QED BY <2>1, <2>3, <2>4
  <1> HIDE DEF u, e
  <1>8. /\ client' \in Ends
        /\ \A o \in Options, k \in Sides : client'[o][k] = IF o = option /\ k = side THEN v ELSE client[o][k]
    BY <1>4, <1>5, EndSet
  <1>9. EndsTyped'
    BY <1>2, <1>3, <1>4, <1>7, <1>8 DEF EndsTyped
  <1>10. EchoWanted'
    <2>1. ECHO \in Options /\ "him" \in Sides
      BY DEF Options, Sides
    <2>2. CASE option = ECHO /\ side = "him"
      BY <1>5, <2>2 DEF EchoWanted
    <2>3. CASE ~ (option = ECHO /\ side = "him")
      <3>1. client'[ECHO]["him"] = client[ECHO]["him"] /\ (asked' <=> asked)
        BY <1>5, <1>8, <2>1, <2>3
      <3> QED BY <1>2, <1>7, <3>1 DEF EchoWanted
    <2> QED BY <2>2, <2>3
  <1>11. Linked(u)'
    BY <1>5, <1>7 DEF Linked, u
  <1> QED BY <1>7, <1>9, <1>10, <1>11 DEF ProtocolInv, OnTheWay

LEMMA ClientTypesInv ==
  ASSUME ProtocolInv, ClientTypes
  PROVE  ProtocolInv'
  <1>1. PICK tokens \in Seq(Tokens) : OnTheWay(tokens)
    BY DEF ProtocolInv
  <1>2. ParserTyped /\ EndsTyped /\ EchoWanted /\ Wire(tokens) /\ DataOnWire(tokens) /\ Linked(tokens)
    BY <1>1 DEF ProtocolInv, OnTheWay
  <1>3. down' = down /\ UNCHANGED daemonVars /\ UNCHANGED <<client, asked>>
    BY DEF ClientTypes
  <1>4. PICK byte \in Typed : typed' = Append(typed, byte) /\ up' = up \o Escaped(byte)
    BY ZenonT(60) DEF ClientTypes
  <1>5. byte \in Byte /\ typed \in Seq(Byte) /\ Delivered \in Seq(Byte)
    BY <1>2, ProtocolAssumption, DeliveredFacts, ZenonT(60) DEF Byte, EndsTyped
  <1> DEFINE t == [kind |-> "data", option |-> 0, val |-> byte]
             e == Escaped(byte)
             u == Append(tokens, t)
  <1>6. t \in DataTokens /\ t \in Tokens /\ t.val = byte /\ t.kind \notin Sides /\ Says(t, "data", 0)
    BY <1>5 DEF DataTokens, Tokens, Byte, Sides, Says
  <1> HIDE DEF t
  <1>7. e \in Seq(Byte) /\ Len(e) = Size(t) /\ TokenAt(e, 0, t)
    <2>1. ByteOf(t, 1) = byte /\ (byte = IAC => Size(t) = 2 /\ ByteOf(t, 2) = IAC) /\ (byte # IAC => Size(t) = 1)
      BY <1>6, DataBytes
    <2>2. CASE byte = IAC
      <3>1. \A j \in 1..2 : j = 1 \/ j = 2
        OBVIOUS
      <3> QED BY <1>5, <2>1, <2>2, <3>1 DEF Escaped, TokenAt
    <2>3. CASE byte # IAC
      <3>1. \A j \in 1..1 : j = 1
        OBVIOUS
      <3> QED BY <1>5, <2>1, <2>3, <3>1 DEF Escaped, TokenAt
    <2> QED BY <2>2, <2>3
  <1>8. u \in Seq(Tokens)
    BY <1>6, AppendProperties
  <1> HIDE DEF e
  <1>9. ParserTyped' /\ Wire(u)' /\ Delivered' = Delivered /\ q' = q /\ friendly' = friendly
    <2>1. Coded((Taken(state, Len(buffer)) \o up) \o e, u)
      BY <1>2, <1>6, <1>7, OnTheWayBytes, CodedAppend DEF Wire
    <2>2. up' = up \o e
      BY <1>4 DEF e
    <2> QED BY <1>2, <1>3, <1>7, <2>1, <2>2, ClientWrites
  <1>10. typed' \in Seq(Byte) /\ DataOnWire(u)'
    <2>1. PICK rest \in Seq(Byte) : typed = Delivered \o rest /\ Saying(tokens, "data", 0, rest)
      BY <1>2 DEF DataOnWire
    <2>2. Append(rest, byte) \in Seq(Byte) /\ Append(typed, byte) \in Seq(Byte)
      BY <1>5, <2>1, AppendProperties
    <2>3. Append(Delivered \o rest, byte) = Delivered \o Append(rest, byte)
      <3>1. <<byte>> \in Seq(Byte) /\ Append(rest, byte) = rest \o <<byte>>
        BY <1>5, AppendIsConcat
      <3>2. Delivered \o rest \in Seq(Byte)
        BY <1>5, <2>1
      <3>3. Append(Delivered \o rest, byte) = (Delivered \o rest) \o <<byte>>
        BY <1>5, <3>2, AppendIsConcat
      <3> QED BY <1>5, <3>1, <3>3, ConcatAssociative
    <2>4. Saying(u, "data", 0, Append(rest, byte))
      <3>1. Saying(u, "data", 0, IF Says(t, "data", 0) THEN Append(rest, t.val) ELSE rest)
        BY <1>5, <1>6, <2>1, SayingAppend
      <3> QED BY <1>6, <3>1
    <2>5. typed' = Delivered' \o Append(rest, byte)
      BY <1>4, <1>9, <2>1, <2>3
    <2> QED BY <1>4, <2>2, <2>4, <2>5 DEF DataOnWire
  <1>11. EndsTyped' /\ EchoWanted'
    BY <1>2, <1>3, <1>9, <1>10 DEF EndsTyped, EchoWanted
  <1>12. Linked(u)'
    <2>1. LinkedAt(q, client, Toked(down), u)
      BY <1>2, <1>6, TokedTyped, OtherTokensLinked DEF Linked, EndsTyped
    <2> QED BY <1>3, <1>9, <2>1 DEF Linked
  <1> QED BY <1>8, <1>9, <1>10, <1>11, <1>12 DEF ProtocolInv, OnTheWay

(* The bytes of a subnegotiation of n bytes, without its end. *)
SubStart(n) == <<IAC, SB, LINEMODE>> \o [i \in 1..(2 * n) |-> IAC]

LEMMA SubStartBytes ==
  ASSUME NEW n \in Nat
  PROVE  /\ SubStart(n) \in Seq(Byte) /\ Len(SubStart(n)) = 2 * n + 3
         /\ \A j \in 1..(2 * n + 3) :
              SubStart(n)[j] = IF j = 2 THEN SB ELSE IF j = 3 THEN LINEMODE ELSE IAC
  <1> DEFINE a == <<IAC, SB, LINEMODE>>
             b == [i \in 1..(2 * n) |-> IAC]
             m == 2 * n
  <1>1. IAC \in Byte /\ SB \in Byte /\ LINEMODE \in Byte
    BY DEF IAC, SB, LINEMODE, Byte
  <1>2. a \in Seq(Byte) /\ Len(a) = 3 /\ a[1] = IAC /\ a[2] = SB /\ a[3] = LINEMODE
    BY <1>1
  <1>3. m \in Nat /\ b \in [1..m -> Byte]
    BY <1>1
  <1>4. b \in Seq(Byte) /\ Len(b) = m /\ \A i \in 1..m : b[i] = IAC
    <2>1. b \in Seq(Byte)
      BY <1>3, IsASeq
    <2>2. Len(b) = m
      BY <1>3, <2>1, LenProperties
    <2> QED BY <2>1, <2>2
  <1> HIDE DEF a, b, m
  <1>5. /\ a \o b \in Seq(Byte) /\ Len(a \o b) = 3 + m
        /\ \A j \in 1..(3 + m) : (a \o b)[j] = IF j <= 3 THEN a[j] ELSE b[j - 3]
    <2>1. /\ a \o b \in Seq(Byte) /\ Len(a \o b) = Len(a) + Len(b)
          /\ \A j \in 1..(Len(a) + Len(b)) : (a \o b)[j] = IF j <= Len(a) THEN a[j] ELSE b[j - Len(a)]
      BY <1>2, <1>4, ConcatProperties
    <2> QED BY <1>2, <1>4, <2>1
  <1>6. \A j \in 1..(3 + m) : (a \o b)[j] = IF j = 2 THEN SB ELSE IF j = 3 THEN LINEMODE ELSE IAC
    <2> TAKE j \in 1..(3 + m)
    <2>1. CASE j <= 3
      <3>1. j = 1 \/ j = 2 \/ j = 3
        BY <1>3, <2>1
      <3> QED BY <1>2, <1>5, <2>1, <3>1
    <2>2. CASE ~ (j <= 3)
      <3>1. j - 3 \in 1..m /\ j # 2 /\ j # 3
        BY <1>3, <2>2
      <3> QED BY <1>4, <1>5, <2>2, <3>1
    <2> QED BY <2>1, <2>2
  <1>7. 3 + m = 2 * n + 3
    BY DEF m
  <1> QED BY <1>5, <1>6, <1>7 DEF SubStart, a, b

LEMMA ClientSubnegotiatesInv ==
  ASSUME ProtocolInv, ClientSubnegotiates
  PROVE  ProtocolInv'
  <1> DEFINE end == <<IAC, SE>>
             w == Taken(state, Len(buffer)) \o up
  <1>1. PICK tokens \in Seq(Tokens) : OnTheWay(tokens)
    BY DEF ProtocolInv
  <1>2. ParserTyped /\ EndsTyped /\ EchoWanted /\ Wire(tokens) /\ DataOnWire(tokens) /\ Linked(tokens)
    BY <1>1 DEF ProtocolInv, OnTheWay
  <1>3. UNCHANGED daemonVars /\ UNCHANGED <<down, client, typed, asked>>
    BY DEF ClientSubnegotiates
  <1>4. PICK n \in {BufferLimit, BufferLimit + 1} : up' = up \o SubStart(n) \o end
    <2>1. PICK n \in {BufferLimit, BufferLimit + 1} :
            up' = up \o <<IAC, SB, LINEMODE>> \o [i \in 1..(2 * n) |-> IAC] \o <<IAC, SE>>
      BY DEF ClientSubnegotiates
    <2>2. BufferLimit \in Nat /\ n \in Nat
      BY ProtocolAssumption
    <2>3. IAC \in Byte /\ SB \in Byte /\ LINEMODE \in Byte
      BY DEF IAC, SB, LINEMODE, Byte
    <2>4. <<IAC, SB, LINEMODE>> \in Seq(Byte) /\ up \in Seq(Byte)
      BY <1>2, <2>3 DEF ParserTyped
    <2>5. [i \in 1..(2 * n) |-> IAC] \in Seq(Byte)
      <3>1. 2 * n \in Nat /\ [i \in 1..(2 * n) |-> IAC] \in [1..(2 * n) -> Byte]
        BY <2>2, <2>3
      <3> QED BY <3>1, IsASeq
    <2>6. (up \o <<IAC, SB, LINEMODE>>) \o [i \in 1..(2 * n) |-> IAC] = up \o SubStart(n)
      <3>1. \A x, y \in Seq(Byte) : (up \o x) \o y = up \o (x \o y)
        BY <2>4, ConcatAssociative, SMTT(60)
      <3> QED BY <2>4, <2>5, <3>1 DEF SubStart
    <2> QED BY <2>1, <2>6
  <1>5. BufferLimit \in Nat /\ n \in Nat
    BY ProtocolAssumption
  <1>6. end \in Seq(Byte) /\ Len(end) = 2 /\ end[1] = IAC /\ end[2] = SE
    <2>1. IAC \in Byte /\ SE \in Byte
      BY DEF IAC, SE, Byte
    <2> QED BY <2>1
  <1>7. w \in Seq(Byte) /\ Coded(w, tokens) /\ up \in Seq(Byte)
    BY <1>2, OnTheWayBytes DEF Wire, ParserTyped
  <1> HIDE DEF end, w
  <1>8. /\ SubStart(n) \in Seq(Byte) /\ Len(SubStart(n)) = 2 * n + 3
        /\ \A j \in 1..(2 * n + 3) : SubStart(n)[j] = IF j = 2 THEN SB ELSE IF j = 3 THEN LINEMODE ELSE IAC
    BY <1>5, SubStartBytes
  <1>9. /\ SubStart(n) \o end \in Seq(Byte) /\ Len(SubStart(n) \o end) = 2 * n + 5
        /\ \A j \in 1..(2 * n + 5) :
             (SubStart(n) \o end)[j] = IF j <= 2 * n + 3 THEN SubStart(n)[j] ELSE end[j - (2 * n + 3)]
    <2> DEFINE a == SubStart(n)
    <2>1. (2 * n + 3) + 2 = 2 * n + 5 /\ Len(a) = 2 * n + 3 /\ a \in Seq(Byte)
      BY <1>5, <1>8
    <2> HIDE DEF a
    <2>2. /\ a \o end \in Seq(Byte) /\ Len(a \o end) = Len(a) + Len(end)
          /\ \A j \in 1..(Len(a) + Len(end)) : (a \o end)[j] = IF j <= Len(a) THEN a[j] ELSE end[j - Len(a)]
      BY <1>6, <2>1, ConcatProperties
    <2>3. /\ a \o end \in Seq(Byte) /\ Len(a \o end) = 2 * n + 5
          /\ \A j \in 1..(2 * n + 5) : (a \o end)[j] = IF j <= 2 * n + 3 THEN a[j] ELSE end[j - (2 * n + 3)]
      BY <1>6, <2>1, <2>2
    <2> QED BY <2>3 DEF a
  <1>10. up' = up \o (SubStart(n) \o end)
    <2>1. \A x, y \in Seq(Byte) : (up \o x) \o y = up \o (x \o y)
      BY <1>7, ConcatAssociative, SMTT(60)
    <2> QED BY <1>4, <1>6, <1>8, <2>1
  <1> DEFINE Sub(val) == [kind |-> "sub", option |-> 0, val |-> val]
             last == [kind |-> "end", option |-> 0, val |-> SE]
  <1>11. /\ Sub(SE) \in SubTokens /\ Sub(IAC) \in SubTokens /\ last \in EndTokens
         /\ Sub(SE).val = SE /\ Sub(IAC).val = IAC
    BY DEF SubTokens, EndTokens
  <1>12. /\ \A t \in SubTokens : Size(t) = 2 * BufferLimit + 5
                /\ \A j \in 1..(2 * BufferLimit + 5) :
                     ByteOf(t, j) = IF j = 2 THEN SB ELSE IF j = 3 THEN LINEMODE
                                    ELSE IF j = 2 * BufferLimit + 5 THEN t.val ELSE IAC
    BY SubBytes DEF ByteOf, Sides
  <1> HIDE DEF Sub, last
  <1>13. PICK u \in Seq(Tokens) :
           /\ Coded(w \o (SubStart(n) \o end), u)
           /\ LinkedAt(q, client, Toked(down), u)
           /\ \A out \in Seq(Byte) : Saying(tokens, "data", 0, out) => Saying(u, "data", 0, out)
    <2>1. q \in Ends /\ client \in Ends /\ Toked(down) \in Seq(Tokens)
      BY <1>2, TokedTyped DEF EndsTyped
    <2>2. ASSUME NEW v \in Seq(Tokens), LinkedAt(q, client, Toked(down), v), NEW t \in SubTokens \cup EndTokens
          PROVE  /\ t \in Tokens /\ Append(v, t) \in Seq(Tokens) /\ LinkedAt(q, client, Toked(down), Append(v, t))
                 /\ \A out \in Seq(Byte) : Saying(v, "data", 0, out) => Saying(Append(v, t), "data", 0, out)
      <3>1. t \in Tokens /\ t.kind \notin Sides /\ ~ Says(t, "data", 0)
        BY <2>2, SubBytes, EndBytes DEF Tokens, Sides, Says
      <3>2. ASSUME NEW out \in Seq(Byte), Saying(v, "data", 0, out) PROVE Saying(Append(v, t), "data", 0, out)
        <4>1. Saying(Append(v, t), "data", 0, IF Says(t, "data", 0) THEN Append(out, t.val) ELSE out)
          BY <3>1, <3>2, SayingAppend
        <4> QED BY <3>1, <4>1
      <3> QED BY <2>1, <2>2, <3>1, <3>2, AppendProperties, OtherTokensLinked
    <2>3. CASE n = BufferLimit
      <3> DEFINE t == Sub(SE)
                 e == SubStart(n) \o end
      <3>1. Len(e) = Size(t) /\ TokenAt(e, 0, t)
        <4>1. Len(e) = Size(t) /\ Size(t) = 2 * n + 5
          BY <1>9, <1>11, <1>12, <2>3
        <4>2. ASSUME NEW j \in 1..(2 * n + 5) PROVE e[0 + j] = ByteOf(t, j)
          <5>1. 0 + j = j /\ 2 * n + 5 \notin {2, 3}
            BY <1>5
          <5>2. CASE j <= 2 * n + 3
            <6>1. j \in 1..(2 * n + 3) /\ j # 2 * n + 5
              BY <1>5, <5>2
            <6> QED BY <1>8, <1>9, <1>11, <1>12, <2>3, <5>1, <5>2, <6>1
          <5>3. CASE j = 2 * n + 4
            <6>1. j - (2 * n + 3) = 1 /\ ~ (j <= 2 * n + 3) /\ j # 2 * n + 5 /\ j # 2 /\ j # 3
              BY <1>5, <5>3
            <6> QED BY <1>6, <1>9, <1>11, <1>12, <2>3, <5>1, <6>1
          <5>4. CASE j = 2 * n + 5
            <6>1. j - (2 * n + 3) = 2 /\ ~ (j <= 2 * n + 3)
              BY <1>5, <5>4
            <6> QED BY <1>6, <1>9, <1>11, <1>12, <2>3, <5>1, <5>4, <6>1
          <5>5. j <= 2 * n + 3 \/ j = 2 * n + 4 \/ j = 2 * n + 5
            BY <1>5
          <5> QED BY <5>2, <5>3, <5>4, <5>5, Zenon
        <4> QED BY <4>1, <4>2 DEF TokenAt
      <3> HIDE DEF e, t
      <3>2. t \in SubTokens \cup EndTokens
        BY <1>11 DEF t
      <3>3. /\ t \in Tokens /\ Append(tokens, t) \in Seq(Tokens) /\ LinkedAt(q, client, Toked(down), Append(tokens, t))
            /\ \A out \in Seq(Byte) : Saying(tokens, "data", 0, out) => Saying(Append(tokens, t), "data", 0, out)
        BY <1>2, <2>2, <3>2 DEF Linked
      <3>4. e \in Seq(Byte)
        BY <1>9 DEF e
      <3>5. Coded(w \o e, Append(tokens, t))
        BY <1>7, <3>1, <3>3, <3>4, CodedAppend
      <3> QED BY <3>3, <3>5 DEF e
    <2>4. CASE n = BufferLimit + 1
      <3> DEFINE t == Sub(IAC)
                 e == SubStart(n)
                 v == Append(tokens, t)
      <3>1. Len(e) = Size(t) /\ TokenAt(e, 0, t)
        <4>1. Len(e) = Size(t) /\ Size(t) = 2 * BufferLimit + 5 /\ 2 * n + 3 = 2 * BufferLimit + 5
          <5>1. 2 * n + 3 = 2 * BufferLimit + 5
            BY <1>5, <2>4
          <5> QED BY <1>8, <1>11, <1>12, <5>1
        <4>2. ASSUME NEW j \in 1..(2 * BufferLimit + 5) PROVE e[0 + j] = ByteOf(t, j)
          <5>1. 0 + j = j
            BY <1>5
          <5>2. e[j] = IF j = 2 THEN SB ELSE IF j = 3 THEN LINEMODE ELSE IAC
            BY <1>8, <4>1
          <5>3. ByteOf(t, j) = IF j = 2 THEN SB ELSE IF j = 3 THEN LINEMODE ELSE IAC
            BY <1>11, <1>12
          <5> QED BY <5>1, <5>2, <5>3
        <4> QED BY <4>1, <4>2 DEF TokenAt
      <3> HIDE DEF e, t, v
      <3>2. t \in SubTokens \cup EndTokens /\ last \in SubTokens \cup EndTokens
        BY <1>11 DEF t
      <3>3. /\ t \in Tokens /\ v \in Seq(Tokens) /\ LinkedAt(q, client, Toked(down), v)
            /\ \A out \in Seq(Byte) : Saying(tokens, "data", 0, out) => Saying(v, "data", 0, out)
        BY <1>2, <2>2, <3>2 DEF Linked, v
      <3>4. /\ last \in Tokens /\ Append(v, last) \in Seq(Tokens)
            /\ LinkedAt(q, client, Toked(down), Append(v, last))
            /\ \A out \in Seq(Byte) : Saying(v, "data", 0, out) => Saying(Append(v, last), "data", 0, out)
        BY <2>2, <3>2, <3>3
      <3>5. e \in Seq(Byte)
        BY <1>8 DEF e
      <3>6. Coded(w \o e, v) /\ w \o e \in Seq(Byte)
        BY <1>7, <3>1, <3>3, <3>5, CodedAppend, ConcatProperties DEF v
      <3>7. Len(end) = Size(last) /\ TokenAt(end, 0, last)
        <4>1. Size(last) = 2 /\ ByteOf(last, 1) = IAC /\ ByteOf(last, 2) = SE
          BY <1>11, EndBytes
        <4>2. \A j \in 1..2 : 0 + j = j /\ (j = 1 \/ j = 2)
          OBVIOUS
        <4> QED BY <1>6, <4>1, <4>2 DEF TokenAt
      <3>8. Coded((w \o e) \o end, Append(v, last))
        BY <1>6, <3>3, <3>4, <3>6, <3>7, CodedAppend
      <3>9. (w \o e) \o end = w \o (e \o end)
        BY <1>6, <1>7, <3>5, Regrouped, ZenonT(60)
      <3> QED BY <3>3, <3>4, <3>8, <3>9 DEF e
    <2> QED BY <2>3, <2>4
  <1>14. ParserTyped' /\ Wire(u)' /\ Delivered' = Delivered /\ q' = q /\ friendly' = friendly
    BY <1>2, <1>3, <1>9, <1>10, <1>13, ClientWrites DEF w
  <1>15. EndsTyped' /\ EchoWanted'
    BY <1>2, <1>3, <1>14, SameEnds
  <1>16. Linked(u)'
    BY <1>3, <1>13, <1>14 DEF Linked
  <1>17. DataOnWire(u)'
    <2>1. PICK rest \in Seq(Byte) : typed = Delivered \o rest /\ Saying(tokens, "data", 0, rest)
      BY <1>2 DEF DataOnWire
    <2>2. typed' = Delivered' \o rest
      BY <1>3, <1>14, <2>1
    <2> QED BY <1>13, <2>1, <2>2 DEF DataOnWire
  <1> QED BY <1>13, <1>14, <1>15, <1>16, <1>17 DEF ProtocolInv, OnTheWay

-----------------------------------------------------------------------------
(* The invariant holds, and what it says *)

LEMMA ProtocolStep ==
  ASSUME ProtocolInv, [ProtocolNext]_protocolVars
  PROVE  ProtocolInv'
  <1>1. ASSUME UNCHANGED protocolVars PROVE ProtocolInv'
    BY <1>1 DEF protocolVars, ProtocolInv, ParserTyped, EndsTyped, EchoWanted, OnTheWay, Wire, DataOnWire,
               Delivered, Linked
  <1> QED BY <1>1, ProcessByteInv, EndOfPacketInv, SetFriendlyInv, ClientAnswersInv, ClientAsksInv, ClientTypesInv,
             ClientSubnegotiatesInv DEF ProtocolNext

(* Every state of the protocol: what was taken and is on its way are whole tokens of the
   client, that say what it typed and what it negotiates. *)
THEOREM ProtocolInvariant == ProtocolSpec => []ProtocolInv
  <1>1. ProtocolInit => ProtocolInv
    BY ProtocolInitInv
  <1>2. ProtocolInv /\ [ProtocolNext]_protocolVars => ProtocolInv'
    BY ProtocolStep
  <1> QED BY <1>1, <1>2, PTL DEF ProtocolSpec

LEMMA ConcatIsPrefix ==
  ASSUME NEW a \in Seq(Byte), NEW b \in Seq(Byte)
  PROVE  IsPrefix(a, a \o b)
  <1>1. Len(a) \in Nat /\ Len(b) \in Nat
    BY LenProperties
  <1>2. /\ a \o b \in Seq(Byte) /\ Len(a \o b) = Len(a) + Len(b)
        /\ \A i \in 1..(Len(a) + Len(b)) : (a \o b)[i] = IF i <= Len(a) THEN a[i] ELSE b[i - Len(a)]
    BY ConcatProperties
  <1>3. SubSeq(a, 1, Len(a)) = a
    BY SubSeqFull
  <1> DEFINE c == a \o b
             p == SubSeq(c, 1, Len(a))
  <1>4. /\ p \in Seq(Byte)
        /\ Len(p) = IF 1 <= Len(a) THEN Len(a) - 1 + 1 ELSE 0
        /\ \A i \in 1..Len(p) : p[i] = c[1 + i - 1]
    <2>1. 1 \in 1..(Len(c) + 1) /\ Len(a) \in 0..Len(c)
      BY <1>1, <1>2
    <2> HIDE DEF c
    <2> QED BY <1>2, <2>1, SubSeqProperties DEF c
  <1> HIDE DEF p, c
  <1>5. Len(p) = Len(a)
    BY <1>1, <1>4
  <1>6. ASSUME NEW i \in 1..Len(a) PROVE p[i] = a[i]
    <2>1. 1 + i - 1 = i /\ i \in 1..(Len(a) + Len(b)) /\ i <= Len(a)
      BY <1>1
    <2> QED BY <1>2, <1>4, <1>5, <2>1 DEF c
  <1>7. p = a
    BY <1>4, <1>5, <1>6, SeqEqual
  <1> QED BY <1>1, <1>2, <1>3, <1>7 DEF IsPrefix, p, c

LEMMA InvGivesDataIntact ==
  ASSUME ProtocolInv
  PROVE  DataIntact
  <1>1. PICK tokens \in Seq(Tokens) : OnTheWay(tokens)
    BY DEF ProtocolInv
  <1>2. ParserTyped /\ Wire(tokens)
    BY <1>1 DEF ProtocolInv, OnTheWay
  <1>3. PICK rest \in Seq(Byte) : typed = Delivered \o rest /\ Saying(tokens, "data", 0, rest)
    BY <1>1 DEF OnTheWay, DataOnWire
  <1> DEFINE due == IF state = "DATA" THEN pending ELSE <<>>
  <1>4. data \in Seq(Byte) /\ due \in Seq(Byte) /\ Delivered = data \o due
    BY <1>2, EmptySeq DEF ParserTyped, Delivered
  <1> HIDE DEF due
  <1>5. IsPrefix(data, typed)
    <2>1. typed = data \o (due \o rest) /\ due \o rest \in Seq(Byte)
      BY <1>3, <1>4, ConcatAssociative, ConcatProperties
    <2> QED BY <1>4, <2>1, ConcatIsPrefix
  <1>6. ASSUME Quiet PROVE data = typed
    <2>1. tokens = <<>>
      BY <1>2, <1>6, NothingOnTheWay DEF Quiet
    <2>2. rest = <<>>
      BY <1>3, <2>1, NoTokenSaysNothing
    <2>3. due = <<>>
      BY <1>6 DEF due, Quiet
    <2>4. data \o <<>> = data
      BY <1>4, ConcatEmptySeq
    <2> QED BY <1>3, <1>4, <2>2, <2>3, <2>4
  <1> QED BY <1>5, <1>6 DEF DataIntact

(* The daemon is given what the client typed, in order, with nothing of the commands
   around it, wherever TCP cuts the stream (telnet_recv, _process). *)
THEOREM DataArriveIntact == ProtocolSpec => []DataIntact
  <1>1. ProtocolInv => DataIntact
    BY InvGivesDataIntact
  <1> QED BY <1>1, ProtocolInvariant, PTL

LEMMA InvGivesOptionsAgree ==
  ASSUME ProtocolInv
  PROVE  OptionsAgree
  <1>1. PICK tokens \in Seq(Tokens) : OnTheWay(tokens)
    BY DEF ProtocolInv
  <1>2. ParserTyped /\ EndsTyped /\ Wire(tokens) /\ Linked(tokens)
    BY <1>1 DEF ProtocolInv, OnTheWay
  <1>3. ASSUME Quiet, NEW o \in Options, NEW side \in Sides
        PROVE  q[o][side] = client[o][Other(side)] /\ q[o][side] \in {"NO", "YES"}
    <2>1. tokens = <<>>
      BY <1>2, <1>3, NothingOnTheWay DEF Quiet
    <2>2. Toked(down) = <<>>
      <3>1. Len(Toked(down)) = 0 /\ Toked(down) \in Seq(Tokens)
        BY <1>2, <1>3, TokedTyped, EmptySeq DEF Quiet, EndsTyped
      <3> QED BY <3>1, EmptySeq
    <2>3. PICK ab \in Seq(Words), ba \in Seq(Words) :
            /\ Saying(<<>>, side, o, ab) /\ Saying(<<>>, side, o, ba)
            /\ Related(q[o][side], client[o][Other(side)], ab, ba)
      BY <1>2, <2>1, <2>2 DEF Linked, LinkedAt, Pair
    <2>4. ab = <<>> /\ ba = <<>>
      BY <2>3, NoTokenSaysNothing
    <2>5. q[o][side] \in States /\ client[o][Other(side)] \in States
      BY <1>2, EndIsState, OtherSide DEF EndsTyped
    <2> QED BY <2>3, <2>4, <2>5, QuietEndsAgree
  <1>4. ASSUME Quiet, NEW o \in Options
        PROVE  /\ q[o].us = client[o].him /\ q[o].him = client[o].us
               /\ q[o].us \in {"NO", "YES"} /\ q[o].him \in {"NO", "YES"}
    <2>1. "us" \in Sides /\ "him" \in Sides /\ Other("us") = "him" /\ Other("him") = "us"
      BY DEF Sides, Other
    <2>2. q[o]["us"] = client[o][Other("us")] /\ q[o]["us"] \in {"NO", "YES"}
      BY <1>3, <1>4, <2>1
    <2>3. q[o]["him"] = client[o][Other("him")] /\ q[o]["him"] \in {"NO", "YES"}
      BY <1>3, <1>4, <2>1
    <2> QED BY <2>1, <2>2, <2>3
  <1> QED BY <1>4 DEF OptionsAgree

(* Once nothing is on its way both ends hold the same options, and no request is left
   without an answer, however requests crossed (_negotiate, telnet_negotiate). *)
THEOREM EndsAgreeOnOptions == ProtocolSpec => []OptionsAgree
  <1>1. ProtocolInv => OptionsAgree
    BY InvGivesOptionsAgree
  <1> QED BY <1>1, ProtocolInvariant, PTL

(* The daemon echoes to a friendly command line only, unless the client asked for the
   echo itself (setFriendlyCLI). *)
THEOREM EchoIsForTheCLI == ProtocolSpec => []EchoFollowsCLI
  <1>1. ProtocolInv => EchoFollowsCLI
    BY DEF ProtocolInv, EchoWanted, EchoFollowsCLI
  <1> QED BY <1>1, ProtocolInvariant, PTL

=============================================================================
