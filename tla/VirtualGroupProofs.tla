------------------------- MODULE VirtualGroupProofs -------------------------
(* The avatars of the virtual groups, for any number of remotes, elements and
   avatars: while no load has created avatars twice, what a client configured is
   what the events of the slaves follow and what a restart reads back. *)
EXTENDS VirtualGroup, PatchProofs, FiniteSetTheorems

-----------------------------------------------------------------------------
(* The inductive invariant *)

(* What the remoteID of an avatar, of a node or of an entry can be. *)
Ids == Places \cup {NoRemote, None}

AvatarsTyped ==
  /\ avatars \in [Virtuals -> Seq(Ids)]
  /\ \A v \in Virtuals : Len(avatars[v]) <= MaxAvatars
  /\ shadows \in [Virtuals -> [Names -> Ids]]
  /\ entries \in [Virtuals -> [Names -> Ids]]
  /\ nbr \in [Virtuals -> 0..MaxAvatars]
  /\ doubled \in [Virtuals -> BOOLEAN]

(* Only a group has avatars. *)
NoGroupInv == \A v \in Virtuals : kind[v] # "group" => ~ doubled[v] /\ avatars[v] = <<>>

(* A group of which no avatar was created twice: one node per avatar, as many as
   avatarsNbr says, all in the JSON with their places, and nothing else in it. *)
Saved(v) ==
  /\ shadows[v] = NoNodes
  /\ Len(avatars[v]) = nbr[v]
  /\ \A n \in Names : entries[v][n] = IF n <= Len(avatars[v]) THEN avatars[v][n] ELSE None
  /\ \A n \in 1..Len(avatars[v]) : avatars[v][n] # None

SavedInv == \A v \in Virtuals : ~ doubled[v] => Saved(v)

GroupInv == LinksInv /\ AvatarsTyped /\ NoGroupInv /\ SavedInv

-----------------------------------------------------------------------------
(* The operations on a group *)

(* A function on 1..n is a sequence. *)
LEMMA ListOf ==
  ASSUME NEW S, NEW n \in Nat, NEW f \in [1..n -> S]
  PROVE  f \in Seq(S) /\ Len(f) = n
<1>1. f \in UNION {[1..m -> S] : m \in Nat}
  OBVIOUS
<1>2. f \in Seq(S)
  BY <1>1, SeqDef, Zenon
<1>3. DOMAIN f = 1..Len(f) /\ Len(f) \in Nat
  BY <1>2, LenProperties
<1>4. DOMAIN f = 1..n
  OBVIOUS
<1>5. \A a, b \in Nat : 1..a = 1..b => a = b
  OBVIOUS
<1> QED BY <1>2, <1>3, <1>4, <1>5, Zenon

(* The size to which createSubNode pads the list. *)
LEMMA MaxOfNames ==
  ASSUME NEW len \in Nat, NEW lo \in Nat, NEW hi \in Nat
  PROVE  Max((lo..hi) \cup {len}) = IF lo <= hi /\ hi > len THEN hi ELSE len
<1> DEFINE S == (lo..hi) \cup {len}
           m == IF lo <= hi /\ hi > len THEN hi ELSE len
<1>1. m \in S /\ m \in Nat /\ \A y \in S : m >= y
  OBVIOUS
<1>2. ASSUME NEW x \in S, \A y \in S : x >= y PROVE x = m
  BY <1>1, <1>2
<1> HIDE DEF S, m
<1>3. Max(S) = m
  <2>1. \E x \in S : \A y \in S : x >= y
    BY <1>1
  <2>2. Max(S) \in S /\ \A y \in S : Max(S) >= y
    BY <2>1, Zenon DEF Max
  <2> QED BY <1>2, <2>2, Zenon
<1> QED BY <1>3 DEF S, m

(* A group before an operation. *)
Loose(list, shadow) == [list |-> list, shadow |-> shadow, alive |-> TRUE]

(* The avatars lo to hi of a group are new, and the nodes that had their names
   are the older children. *)
IsCreated(c, list, shadow, lo, hi) ==
  /\ c.alive
  /\ c.list \in Seq(Ids) /\ Len(c.list) = IF lo <= hi /\ hi > Len(list) THEN hi ELSE Len(list)
  /\ \A n \in 1..Len(c.list) :
       c.list[n] = IF n \in lo..hi THEN NoRemote
                   ELSE IF n <= Len(list) THEN list[n] ELSE None
  /\ c.shadow \in [Names -> Ids]
  /\ \A n \in Names : c.shadow[n] = IF n \in lo..hi /\ n <= Len(list) /\ shadow[n] = None
                                    THEN list[n] ELSE shadow[n]

(* The last count avatars of a group are removed, if the daemon survives it. *)
IsDropped(d, list, shadow, count) ==
  /\ d.shadow = shadow
  /\ d.alive => /\ d.list \in Seq(Ids) /\ count <= Len(list) /\ Len(d.list) = Len(list) - count
                /\ \A n \in 1..Len(d.list) : d.list[n] = list[n]
  /\ count <= Len(list) /\ (\A n \in 1..Len(list) : list[n] # None) => d.alive

(* VirtualGroup::createSubNode of the avatars lo to hi. *)
LEMMA Created ==
  ASSUME NEW list \in Seq(Ids), NEW shadow \in [Names -> Ids], NEW lo \in Nat, NEW hi \in Nat,
         lo >= 1, Len(list) <= MaxAvatars, hi <= MaxAvatars
  PROVE  IsCreated(CreateAvatars(Loose(list, shadow), lo..hi), list, shadow, lo, hi)
<1> DEFINE c == CreateAvatars(Loose(list, shadow), lo..hi)
<1>0. Len(list) \in Nat /\ \A n \in 1..Len(list) : list[n] \in Ids
  BY LenProperties, ElementOfSeq
<1>n. NoRemote \in Ids /\ None \in Ids /\ MaxAvatars \in Nat
  BY AvatarsAssumption DEF Ids
<1> DEFINE size == IF lo <= hi /\ hi > Len(list) THEN hi ELSE Len(list)
           l == [n \in 1..size |-> IF n \in lo..hi THEN NoRemote
                                   ELSE IF n <= Len(list) THEN list[n] ELSE None]
           s == [n \in Names |-> IF n \in lo..hi /\ n <= Len(list) /\ shadow[n] = None
                                 THEN list[n] ELSE shadow[n]]
<1>1. Max((lo..hi) \cup {Len(list)}) = size /\ size \in Nat
  BY <1>0, MaxOfNames
<1>2. c.list = l /\ c.shadow = s /\ c.alive
  <2>1. PICK k : k = Max((lo..hi) \cup {Len(list)})
    OBVIOUS
  <2>2. c.list = [n \in 1..k |-> IF n \in lo..hi THEN NoRemote
                                 ELSE IF n <= Len(list) THEN list[n] ELSE None]
    BY <2>1 DEF CreateAvatars, Loose
  <2>3. c.shadow = s /\ c.alive
    BY DEF CreateAvatars, Loose
  <2>4. k = size
    BY <1>1, <2>1
  <2> HIDE DEF size, s, c
  <2> QED BY <2>2, <2>3, <2>4
<1> HIDE DEF size
<1>3. l \in [1..size -> Ids]
  <2> SUFFICES ASSUME NEW n \in 1..size
               PROVE  (IF n \in lo..hi THEN NoRemote
                       ELSE IF n <= Len(list) THEN list[n] ELSE None) \in Ids
    OBVIOUS
  <2> QED BY <1>0, <1>1, <1>n
<1>4. l \in Seq(Ids) /\ Len(l) = size
  BY <1>1, <1>3, ListOf
<1>5. s \in [Names -> Ids]
  <2> SUFFICES ASSUME NEW n \in Names, n \in lo..hi, n <= Len(list) PROVE list[n] \in Ids
    OBVIOUS
  <2> QED BY <1>0, <1>n DEF Names
<1>6. \A n \in 1..size : l[n] = IF n \in lo..hi THEN NoRemote
                                ELSE IF n <= Len(list) THEN list[n] ELSE None
  OBVIOUS
<1>7. \A n \in Names : s[n] = IF n \in lo..hi /\ n <= Len(list) /\ shadow[n] = None
                              THEN list[n] ELSE shadow[n]
  OBVIOUS
<1> HIDE DEF l, s, c
<1>8. Len(c.list) = IF lo <= hi /\ hi > Len(list) THEN hi ELSE Len(list)
  BY <1>2, <1>4 DEF size
<1>9. IsCreated(c, list, shadow, lo, hi)
  BY <1>2, <1>4, <1>5, <1>6, <1>7, <1>8 DEF IsCreated
<1> QED BY <1>9 DEF c

(* The removals of setVirtualRemotesNbr. *)
LEMMA Dropped ==
  ASSUME NEW list \in Seq(Ids), NEW shadow, NEW count \in Nat
  PROVE  IsDropped(DropAvatars(Loose(list, shadow), count), list, shadow, count)
<1> DEFINE d == DropAvatars(Loose(list, shadow), count)
<1>0. Len(list) \in Nat
  BY LenProperties
<1>1. /\ d.shadow = shadow
      /\ d.list = SubSeq(list, 1, Len(list) - count)
      /\ d.alive <=> /\ Len(list) >= count
                     /\ \A n \in (Len(list) - count + 1)..Len(list) : n > 0 => list[n] # None
  BY DEF DropAvatars, Loose
<1> HIDE DEF d
<1>2. ASSUME d.alive
      PROVE  /\ d.list \in Seq(Ids) /\ count <= Len(list) /\ Len(d.list) = Len(list) - count
             /\ \A n \in 1..Len(d.list) : d.list[n] = list[n]
  <2>1. count <= Len(list)
    BY <1>0, <1>1, <1>2
  <2>2. PICK k \in Nat : k = Len(list) - count /\ k <= Len(list)
    BY <1>0, <2>1
  <2>3. d.list = SubSeq(list, 1, k)
    BY <1>1, <2>2
  <2>4. /\ SubSeq(list, 1, k) \in Seq(Ids) /\ Len(SubSeq(list, 1, k)) = k
        /\ \A n \in 1..k : SubSeq(list, 1, k)[n] = list[n]
    BY <1>0, <2>2
  <2> QED BY <2>1, <2>2, <2>3, <2>4
<1>3. ASSUME count <= Len(list), \A n \in 1..Len(list) : list[n] # None PROVE d.alive
  BY <1>0, <1>1, <1>3
<1>4. IsDropped(d, list, shadow, count)
  BY <1>1, <1>2, <1>3 DEF IsDropped
<1> QED BY <1>4 DEF d

(* setVirtualRemotesNbr of any group whose JSON has count keys. *)
IsSet(g, list, shadow, count, n) ==
  \/ count < 3 /\ g = Loose(list, shadow)
  \/ \E lo \in Nat : /\ lo >= 1 /\ lo = count - 2 /\ n >= lo - 1
                     /\ IsCreated(g, list, shadow, lo, n)
  \/ \E k \in Nat : /\ k = count - 3 - n /\ k > 0
                    /\ IsDropped(g, list, shadow, k)

LEMMA NbrSet ==
  ASSUME NEW list \in Seq(Ids), NEW shadow \in [Names -> Ids], Len(list) <= MaxAvatars,
         NEW count \in Nat, NEW n \in 0..MaxAvatars
  PROVE  IsSet(SetVirtualRemotesNbr(Loose(list, shadow), count, n), list, shadow, count, n)
<1> DEFINE old == Loose(list, shadow)
           g == SetVirtualRemotesNbr(old, count, n)
<1>0. MaxAvatars \in Nat /\ n \in Nat /\ n <= MaxAvatars
  BY AvatarsAssumption
<1>1. CASE count < 3
  <2>1. g = old
    BY <1>1 DEF SetVirtualRemotesNbr, FixedKeys
  <2> QED BY <1>1, <2>1 DEF IsSet
<1>2. CASE count >= 3 /\ n >= count - 3
  <2>1. PICK lo \in Nat : lo = count - 2 /\ lo >= 1 /\ n >= lo - 1 /\ n - (n - count + 3) + 1 = lo
    BY <1>2, <1>0
  <2>2. g = CreateAvatars(old, lo..n)
    <3>1. n - count + 3 >= 0 /\ ~ (count < 3)
      BY <1>2, <1>0
    <3> HIDE DEF old
    <3> QED BY <2>1, <3>1 DEF SetVirtualRemotesNbr, FixedKeys
  <2>3. IsCreated(CreateAvatars(old, lo..n), list, shadow, lo, n)
    BY <1>0, <2>1, Created
  <2> HIDE DEF g, old
  <2>4. IsCreated(g, list, shadow, lo, n)
    BY <2>2, <2>3
  <2> QED BY <2>1, <2>4 DEF IsSet, g, old
<1>3. CASE count >= 3 /\ n < count - 3
  <2>1. PICK k \in Nat : k = count - 3 - n /\ k > 0 /\ 0 - (n - count + 3) = k
    BY <1>3, <1>0
  <2>2. g = DropAvatars(old, k)
    <3>1. ~ (n - count + 3 >= 0) /\ ~ (count < 3)
      BY <1>3, <1>0
    <3> HIDE DEF old
    <3> QED BY <2>1, <3>1 DEF SetVirtualRemotesNbr, FixedKeys
  <2>3. IsDropped(DropAvatars(old, k), list, shadow, k)
    BY Dropped
  <2> HIDE DEF g, old
  <2>4. IsDropped(g, list, shadow, k)
    BY <2>2, <2>3
  <2> QED BY <2>1, <2>4 DEF IsSet, g, old
<1> QED BY <1>0, <1>1, <1>2, <1>3

(* Whatever the group was, its list and its nodes keep their types. *)
LEMMA SetTyped ==
  ASSUME NEW list \in Seq(Ids), NEW shadow \in [Names -> Ids], Len(list) <= MaxAvatars,
         NEW count \in Nat, NEW n \in 0..MaxAvatars, NEW g, IsSet(g, list, shadow, count, n)
  PROVE  /\ g.shadow \in [Names -> Ids]
         /\ g.alive => g.list \in Seq(Ids) /\ Len(g.list) <= MaxAvatars
<1>0. Len(list) \in Nat /\ MaxAvatars \in Nat /\ n \in Nat /\ n <= MaxAvatars
  BY LenProperties, AvatarsAssumption
<1>1. CASE count < 3 /\ g = Loose(list, shadow)
  BY <1>1 DEF Loose
<1>2. ASSUME NEW lo \in Nat, IsCreated(g, list, shadow, lo, n)
      PROVE  g.shadow \in [Names -> Ids] /\ g.list \in Seq(Ids) /\ Len(g.list) <= MaxAvatars
  <2>1. /\ g.shadow \in [Names -> Ids] /\ g.list \in Seq(Ids)
        /\ Len(g.list) = IF lo <= n /\ n > Len(list) THEN n ELSE Len(list)
    BY <1>2 DEF IsCreated
  <2> QED BY <1>0, <2>1
<1>3. ASSUME NEW k \in Nat, IsDropped(g, list, shadow, k)
      PROVE  /\ g.shadow \in [Names -> Ids]
             /\ g.alive => g.list \in Seq(Ids) /\ Len(g.list) <= MaxAvatars
  <2>1. /\ g.shadow = shadow
        /\ g.alive => g.list \in Seq(Ids) /\ Len(g.list) = Len(list) - k
    BY <1>3 DEF IsDropped
  <2> QED BY <1>0, <2>1
<1> QED BY <1>1, <1>2, <1>3, Zenon DEF IsSet

(* The numbers of an operation on a group whose avatars are all in its JSON. *)
LEMMA NoNodesTyped == NoNodes \in [Names -> Ids] /\ \A i \in Names : NoNodes[i] = None
BY DEF NoNodes, Ids

(* A client changes avatarsNbr of a group whose avatars are all in its JSON. *)
LEMMA SavedSet ==
  ASSUME NEW list \in Seq(Ids), Len(list) <= MaxAvatars, \A i \in 1..Len(list) : list[i] # None,
         NEW n \in 0..MaxAvatars, NEW g, IsSet(g, list, NoNodes, 3 + Len(list), n)
  PROVE  /\ g.alive /\ g.shadow = NoNodes
         /\ g.list \in Seq(Ids) /\ Len(g.list) = n
         /\ \A i \in 1..n : g.list[i] = IF i <= Len(list) THEN list[i] ELSE NoRemote
<1>0. Len(list) \in Nat /\ MaxAvatars \in Nat /\ n \in Nat
  BY LenProperties, AvatarsAssumption
<1>1. ~ (3 + Len(list) < 3)
  BY <1>0
<1>2. ASSUME NEW lo \in Nat, lo = (3 + Len(list)) - 2, n >= lo - 1, IsCreated(g, list, NoNodes, lo, n)
      PROVE  /\ g.alive /\ g.shadow = NoNodes
             /\ g.list \in Seq(Ids) /\ Len(g.list) = n
             /\ \A i \in 1..n : g.list[i] = IF i <= Len(list) THEN list[i] ELSE NoRemote
  <2>1. lo = Len(list) + 1 /\ n >= Len(list)
    BY <1>0, <1>2
  <2>2. g.alive /\ g.list \in Seq(Ids) /\ g.shadow \in [Names -> Ids]
    BY <1>2 DEF IsCreated
  <2>3. Len(g.list) = n
    <3>1. Len(g.list) = IF lo <= n /\ n > Len(list) THEN n ELSE Len(list)
      BY <1>2 DEF IsCreated
    <3> QED BY <1>0, <2>1, <3>1
  <2>4. ASSUME NEW i \in 1..n PROVE g.list[i] = IF i <= Len(list) THEN list[i] ELSE NoRemote
    <3>1. g.list[i] = IF i \in lo..n THEN NoRemote
                      ELSE IF i <= Len(list) THEN list[i] ELSE None
      BY <1>2, <2>3 DEF IsCreated
    <3>2. i \in lo..n <=> ~ (i <= Len(list))
      BY <1>0, <2>1
    <3> QED BY <3>1, <3>2
  <2>5. ASSUME NEW i \in Names PROVE g.shadow[i] = NoNodes[i]
    <3>1. g.shadow[i] = IF i \in lo..n /\ i <= Len(list) /\ NoNodes[i] = None THEN list[i] ELSE NoNodes[i]
      BY <1>2 DEF IsCreated
    <3>2. ~ (i \in lo..n /\ i <= Len(list))
      BY <1>0, <2>1 DEF Names
    <3> QED BY <3>1, <3>2
  <2>6. g.shadow = NoNodes
    BY <2>2, <2>5, NoNodesTyped
  <2> QED BY <2>2, <2>3, <2>4, <2>6
<1>3. ASSUME NEW k \in Nat, k = (3 + Len(list)) - 3 - n, k > 0, IsDropped(g, list, NoNodes, k)
      PROVE  /\ g.alive /\ g.shadow = NoNodes
             /\ g.list \in Seq(Ids) /\ Len(g.list) = n
             /\ \A i \in 1..n : g.list[i] = IF i <= Len(list) THEN list[i] ELSE NoRemote
  <2>1. k <= Len(list) /\ Len(list) - k = n /\ n < Len(list)
    BY <1>0, <1>3
  <2>2. g.alive
    BY <1>3, <2>1 DEF IsDropped
  <2>3. g.shadow = NoNodes /\ g.list \in Seq(Ids) /\ Len(g.list) = n /\ \A i \in 1..n : g.list[i] = list[i]
    BY <1>3, <2>1, <2>2 DEF IsDropped
  <2>4. \A i \in 1..n : i <= Len(list)
    BY <1>0, <2>1
  <2> QED BY <2>2, <2>3, <2>4
<1> QED BY <1>1, <1>2, <1>3, Zenon DEF IsSet

(* A load of such a group creates its last two avatars again, with no place, when
   it has two or more. *)
LEMMA SavedLoaded ==
  ASSUME NEW list \in Seq(Ids), Len(list) <= MaxAvatars, \A i \in 1..Len(list) : list[i] # None,
         NEW g, IsSet(g, list, NoNodes, 1 + Len(list), Len(list))
  PROVE  /\ g.alive /\ g.list \in Seq(Ids) /\ Len(g.list) = Len(list)
         /\ \A i \in 1..Len(list) : i <= Len(list) - 2 \/ Len(list) = 1 => g.list[i] = list[i]
         /\ g.shadow = NoNodes => g.list = list
         /\ Len(list) < 2 => g.shadow = NoNodes
<1>0. Len(list) \in Nat /\ MaxAvatars \in Nat
  BY LenProperties, AvatarsAssumption
<1>1. ASSUME g = Loose(list, NoNodes)
      PROVE  g.alive /\ g.list = list /\ g.shadow = NoNodes
  BY <1>1 DEF Loose
<1>2. ASSUME NEW lo \in Nat, lo >= 1, lo = (1 + Len(list)) - 2, IsCreated(g, list, NoNodes, lo, Len(list))
      PROVE  /\ g.alive /\ g.list \in Seq(Ids) /\ Len(g.list) = Len(list)
             /\ \A i \in 1..Len(list) : i <= Len(list) - 2 \/ Len(list) = 1 => g.list[i] = list[i]
             /\ g.shadow # NoNodes /\ ~ (Len(list) < 2)
  <2>1. lo = Len(list) - 1 /\ Len(list) >= 2
    BY <1>0, <1>2
  <2>2. g.alive /\ g.list \in Seq(Ids) /\ g.shadow \in [Names -> Ids]
    BY <1>2 DEF IsCreated
  <2>3. Len(g.list) = Len(list)
    BY <1>2 DEF IsCreated
  <2>4. ASSUME NEW i \in 1..Len(list), i <= Len(list) - 2 PROVE g.list[i] = list[i]
    <3>1. g.list[i] = IF i \in lo..Len(list) THEN NoRemote
                      ELSE IF i <= Len(list) THEN list[i] ELSE None
      BY <1>2, <2>3 DEF IsCreated
    <3>2. i \notin lo..Len(list) /\ i <= Len(list)
      BY <1>0, <2>1, <2>4
    <3> QED BY <3>1, <3>2
  <2>5. PICK i \in Names : i = Len(list) /\ i \in lo..Len(list) /\ i \in 1..Len(list) /\ i <= Len(list)
    BY <1>0, <2>1 DEF Names
  <2>6. g.shadow[i] = IF i \in lo..Len(list) /\ i <= Len(list) /\ NoNodes[i] = None THEN list[i] ELSE NoNodes[i]
    BY <1>2 DEF IsCreated
  <2>7. g.shadow[i] # None /\ NoNodes[i] = None
    BY <2>5, <2>6, NoNodesTyped
  <2>8. Len(list) # 1 /\ ~ (Len(list) < 2)
    BY <1>0, <2>1
  <2> QED BY <2>2, <2>3, <2>4, <2>7, <2>8
<1>3. ASSUME NEW k \in Nat, k = (1 + Len(list)) - 3 - Len(list), k > 0
      PROVE  FALSE
  BY <1>0, <1>3
<1> QED BY <1>1, <1>2, <1>3, Zenon DEF IsSet

-----------------------------------------------------------------------------
(* The keys of a group's JSON *)

(* The greatest of some names, and 0. *)
LEMMA MaxOfKeys ==
  ASSUME NEW K \in SUBSET Names
  PROVE  Max(K \cup {0}) \in 0..MaxAvatars
<1>0. MaxAvatars \in Nat
  BY AvatarsAssumption
<1> DEFINE S == K \cup {0}
           D == {d \in Nat : \E s \in S : d = MaxAvatars - s}
<1>1. S \in SUBSET (0..MaxAvatars) /\ 0 \in S
  BY <1>0 DEF Names
<1> HIDE DEF S
<1>2. MaxAvatars \in D
  BY <1>0, <1>1
<1>3. PICK d \in D : \A x \in D : d <= x
  BY <1>2, LeastNatural
<1>4. PICK m \in S : d = MaxAvatars - m
  BY <1>3
<1>5. ASSUME NEW n \in S PROVE m >= n
  <2>1. n \in 0..MaxAvatars /\ m \in 0..MaxAvatars
    BY <1>1
  <2>2. MaxAvatars - n \in D
    BY <1>0, <2>1
  <2>3. d <= MaxAvatars - n
    BY <1>3, <2>2
  <2> QED BY <1>0, <1>4, <2>1, <2>3
<1>6. Max(S) \in S
  <2>1. \E x \in S : \A y \in S : x >= y
    BY <1>5
  <2> QED BY <2>1, Zenon DEF Max
<1>7. Max(S) \in 0..MaxAvatars
  BY <1>1, <1>6
<1> QED BY <1>7 DEF S

(* The keys of any group are numbered names. *)
LEMMA KeysTyped ==
  ASSUME NEW v
  PROVE  Keys(v) \in SUBSET Names /\ Cardinality(Keys(v)) \in Nat
<1>1. Keys(v) \in SUBSET Names
  BY DEF Keys
<1>2. IsFiniteSet(Names)
  BY AvatarsAssumption, FS_Interval DEF Names
<1> QED BY <1>1, <1>2, FS_Subset, FS_CardinalityType

(* The avatars a load creates first are well typed. *)
LEMMA FromKeysTyped ==
  ASSUME AvatarsTyped, NEW v \in Virtuals
  PROVE  \E list \in Seq(Ids) : Len(list) <= MaxAvatars /\ FromKeys(v) = Loose(list, NoNodes)
<1>0. MaxAvatars \in Nat /\ entries[v] \in [Names -> Ids]
  BY AvatarsAssumption DEF AvatarsTyped
<1>1. PICK k \in 0..MaxAvatars : k = Max(Keys(v) \cup {0})
  BY KeysTyped, MaxOfKeys
<1> DEFINE list == [n \in 1..k |-> entries[v][n]]
<1>2. list \in [1..k -> Ids]
  BY <1>0, <1>1 DEF Names
<1>3. list \in Seq(Ids) /\ Len(list) = k
  BY <1>0, <1>2, ListOf
<1>4. FromKeys(v) = Loose(list, NoNodes)
  BY <1>1 DEF FromKeys, Loose
<1> HIDE DEF list
<1> QED BY <1>0, <1>1, <1>3, <1>4

(* The keys of a group whose avatars are all in its JSON. *)
LEMMA SavedKeys ==
  ASSUME AvatarsTyped, NEW v \in Virtuals, Saved(v)
  PROVE  /\ Keys(v) = 1..Len(avatars[v])
         /\ Cardinality(Keys(v)) = Len(avatars[v])
         /\ FromKeys(v) = Loose(avatars[v], NoNodes)
<1>0. /\ MaxAvatars \in Nat /\ avatars[v] \in Seq(Ids)
      /\ Len(avatars[v]) \in Nat /\ Len(avatars[v]) <= MaxAvatars
  <2>1. MaxAvatars \in Nat /\ avatars[v] \in Seq(Ids) /\ Len(avatars[v]) <= MaxAvatars
    BY AvatarsAssumption DEF AvatarsTyped
  <2> QED BY <2>1, LenProperties
<1>1. PICK list \in Seq(Ids), k \in Nat :
        /\ list = avatars[v] /\ k = Len(list) /\ k <= MaxAvatars
        /\ \A n \in Names : entries[v][n] = IF n <= k THEN list[n] ELSE None
        /\ \A n \in 1..k : list[n] # None
  BY <1>0 DEF Saved
<1>2. Keys(v) = 1..k
  <2>1. ASSUME NEW n \in 1..k PROVE n \in Keys(v)
    <3>1. n \in Names /\ n <= k
      BY <1>0, <1>1 DEF Names
    <3> QED BY <1>1, <3>1 DEF Keys
  <2>2. ASSUME NEW n \in Keys(v) PROVE n \in 1..k
    <3>1. n \in Names /\ entries[v][n] # None
      BY DEF Keys
    <3>2. n <= k
      BY <1>1, <3>1
    <3> QED BY <1>0, <3>1, <3>2 DEF Names
  <2> QED BY <2>1, <2>2
<1>3. Cardinality(1..k) = k
  BY FS_Interval
<1>4. Max((1..k) \cup {0}) = k
  BY MaxOfNames
<1>5. FromKeys(v).list = list
  <2> DEFINE f == [n \in 1..k |-> entries[v][n]]
  <2>1. FromKeys(v) = Loose(f, NoNodes)
    BY <1>2, <1>4 DEF FromKeys, Loose
  <2>2. ASSUME NEW n \in 1..k PROVE f[n] = list[n]
    <3>1. n \in Names /\ n <= k
      BY <1>0, <1>1 DEF Names
    <3> QED BY <1>1, <3>1
  <2>3. list \in [1..k -> Ids]
    <3>1. list \in [1..Len(list) -> Ids]
      BY LenProperties
    <3> QED BY <1>1, <3>1
  <2>4. f = list
    BY <2>2, <2>3
  <2> QED BY <2>1, <2>4 DEF Loose
<1>6. FromKeys(v) = Loose(list, NoNodes)
  BY <1>5 DEF FromKeys, Loose
<1> QED BY <1>1, <1>2, <1>3, <1>6

(* A place in a list of slaves without repetition is a place. *)
LEMMA SlavesHavePlaces ==
  ASSUME NEW s \in Seq(Remotes), NoRepeats(s), NEW i \in 1..Len(s)
  PROVE  i - 1 \in Places
<1>0. Len(s) \in Nat /\ s \in [1..Len(s) -> Remotes]
  BY LenProperties
<1>1. IsFiniteSet(Remotes)
  <2>1. KeyOrder \in [1..Len(KeyOrder) -> Remotes] /\ Len(KeyOrder) \in Nat
    BY KeyOrderAssumption, LenProperties
  <2>2. KeyOrder \in Surjection(1..Len(KeyOrder), Remotes)
    BY <2>1, KeyOrderAssumption DEF Surjection, Contains
  <2>3. IsFiniteSet(1..Len(KeyOrder))
    BY <2>1, FS_Interval
  <2> QED BY <2>2, <2>3, FS_Surjection
<1>2. Cardinality(Remotes) \in Nat
  BY <1>1, FS_CardinalityType
<1>3. IsFiniteSet(1..Len(s)) /\ Cardinality(1..Len(s)) = Len(s)
  BY <1>0, FS_Interval, SMTT(30)
<1>4. ~ (Cardinality(Remotes) < Len(s))
  <2> SUFFICES ASSUME Cardinality(Remotes) < Len(s) PROVE FALSE
    OBVIOUS
  <2>1. \E x, y \in 1..Len(s) : x # y /\ s[x] = s[y]
    BY <1>0, <1>1, <1>3, FS_PigeonHole
  <2> QED BY <2>1 DEF NoRepeats
<1> QED BY <1>0, <1>2, <1>4 DEF Places

-----------------------------------------------------------------------------
(* The steps *)

(* A daemon that dies in the middle of a handler leaves in network.json a list of
   links without repetition, from which the load starts. *)
LEMMA DiesKeepsLinksInv ==
  ASSUME LinksInv, Dies
  PROVE  LinksInv'
<1> USE DEF LinksInv
<1>1. /\ remoteToVirtual' = [r \in Remotes |-> <<>>]
      /\ virtualToRemote' = [v \in Virtuals |-> <<>>]
      /\ call' = Handling("loading", None, None, KeyOrder)
      /\ mutex' = FALSE
      /\ UNCHANGED <<jsonData, kind, slaves>>
  BY DEF Dies
<1>2. /\ KeyOrder \in Seq(Remotes)
      /\ NoRepeats(KeyOrder)
      /\ \A r \in Remotes : Contains(KeyOrder, r)
  BY KeyOrderAssumption DEF NoRepeats
<1>3. TypeOK'
  <2>1. call' \in CallType
    BY <1>1, <1>2 DEF CallType, Handling
  <2>2. \A S : <<>> \in Seq(S)
    OBVIOUS
  <2> QED BY <1>1, <2>1, <2>2 DEF TypeOK
<1>4. NoDoubleLink' /\ NoDoubleSlave' /\ InverseInv'
  BY <1>1, EmptyList DEF NoDoubleLink, NoDoubleSlave, InverseInv, Handling
<1>5. MutexInv'
  BY <1>1 DEF MutexInv, Handling
<1>6. TodoInv' /\ JsonInv'
  BY <1>1, <1>2 DEF TodoInv, JsonInv, Handling
<1> QED BY <1>3, <1>4, <1>5, <1>6

(* To the patch, a step of this module is a step of Patch or a death. *)
LEMMA GroupStepIsPatchStep ==
  ASSUME [GroupNext]_groupVars
  PROVE  [PatchNext]_patchVars \/ Dies
<1>1. ASSUME NEW v \in Virtuals, NEW n \in 0..MaxAvatars, SetAvatarsNbr(v, n)
      PROVE  UNCHANGED patchVars \/ Dies
  BY <1>1 DEF SetAvatarsNbr
<1>2. ASSUME NEW v \in Virtuals, NEW n \in Names, NEW id \in Places, SetRemoteID(v, n, id)
      PROVE  UNCHANGED patchVars
  BY <1>2 DEF SetRemoteID
<1>3. ASSUME NEW r \in Remotes, NEW v \in Virtuals, GroupLink(r, v)
      PROVE  PatchNext
  BY <1>3 DEF GroupLink, PatchNext
<1>4. ASSUME GroupNotify
      PROVE  PatchNext \/ Dies
  BY <1>4 DEF GroupNotify, PatchNext
<1>5. ASSUME NEW v \in Virtuals, NewElement(v) \/ OldElement(v)
      PROVE  PatchNext
  BY <1>5 DEF NewElement, OldElement, PatchNext
<1>6. ASSUME GroupCrash \/ LoadPatch
      PROVE  PatchNext
  BY <1>6 DEF GroupCrash, LoadPatch, PatchNext
<1>7. ASSUME LoadGroups
      PROVE  PatchNext \/ Dies
  BY <1>7 DEF LoadGroups, PatchNext
<1>8. ASSUME UNCHANGED groupVars
      PROVE  UNCHANGED patchVars
  BY <1>8 DEF groupVars
<1> QED BY <1>1, <1>2, <1>3, <1>4, <1>5, <1>6, <1>7, <1>8 DEF GroupNext

LEMMA GroupKeepsLinksInv ==
  ASSUME LinksInv, [GroupNext]_groupVars
  PROVE  LinksInv'
BY GroupStepIsPatchStep, LinksInvNext, DiesKeepsLinksInv

(* Nothing of the avatars, and no element, changes. *)
LEMMA AvatarsUntouched ==
  ASSUME AvatarsTyped, NoGroupInv, SavedInv, UNCHANGED avatarVars, kind' = kind
  PROVE  AvatarsTyped' /\ NoGroupInv' /\ SavedInv'
<1>1. UNCHANGED <<avatars, shadows, entries, nbr, doubled>>
  BY DEF avatarVars
<1> QED BY <1>1 DEF AvatarsTyped, NoGroupInv, SavedInv, Saved, NoNodes, Names

(* Only the group v changes. *)
LEMMA OneGroupChanges ==
  ASSUME NoGroupInv, SavedInv, NEW v \in Virtuals,
         \A w \in Virtuals \ {v} :
           /\ kind'[w] = kind[w] /\ avatars'[w] = avatars[w] /\ shadows'[w] = shadows[w]
           /\ entries'[w] = entries[w] /\ nbr'[w] = nbr[w] /\ doubled'[w] = doubled[w],
         kind'[v] # "group" => ~ doubled'[v] /\ avatars'[v] = <<>>,
         ~ doubled'[v] => Saved(v)'
  PROVE  NoGroupInv' /\ SavedInv'
<1>1. ASSUME NEW w \in Virtuals, kind'[w] # "group" PROVE ~ doubled'[w] /\ avatars'[w] = <<>>
  <2>1. CASE w = v
    BY <1>1, <2>1
  <2>2. CASE w # v
    BY <1>1, <2>2 DEF NoGroupInv
  <2> QED BY <2>1, <2>2
<1>2. ASSUME NEW w \in Virtuals, ~ doubled'[w] PROVE Saved(w)'
  <2>1. CASE w = v
    BY <1>2, <2>1
  <2>2. CASE w # v
    <3>1. Saved(w)
      BY <1>2, <2>2 DEF SavedInv
    <3>2. /\ avatars'[w] = avatars[w] /\ shadows'[w] = shadows[w]
          /\ entries'[w] = entries[w] /\ nbr'[w] = nbr[w]
      BY <2>2
    <3> QED BY <3>1, <3>2 DEF Saved, NoNodes, Names
  <2> QED BY <2>1, <2>2
<1> QED BY <1>1, <1>2 DEF NoGroupInv, SavedInv

(* What the types say of one group. *)
LEMMA GroupTyped ==
  ASSUME AvatarsTyped, NEW v \in Virtuals
  PROVE  /\ avatars[v] \in Seq(Ids) /\ Len(avatars[v]) \in Nat /\ Len(avatars[v]) <= MaxAvatars
         /\ shadows[v] \in [Names -> Ids] /\ entries[v] \in [Names -> Ids]
         /\ nbr[v] \in 0..MaxAvatars /\ doubled[v] \in BOOLEAN
         /\ MaxAvatars \in Nat
<1>1. /\ avatars[v] \in Seq(Ids) /\ Len(avatars[v]) <= MaxAvatars
      /\ shadows[v] \in [Names -> Ids] /\ entries[v] \in [Names -> Ids]
      /\ nbr[v] \in 0..MaxAvatars /\ doubled[v] \in BOOLEAN
  BY DEF AvatarsTyped
<1> QED BY <1>1, LenProperties, AvatarsAssumption

(* A client sets avatarsNbr. *)
LEMMA SetAvatarsNbrKeeps ==
  ASSUME AvatarsTyped, NoGroupInv, SavedInv, NEW v \in Virtuals, NEW n \in 0..MaxAvatars,
         SetAvatarsNbr(v, n)
  PROVE  AvatarsTyped' /\ NoGroupInv' /\ SavedInv'
<1> DEFINE g == SetVirtualRemotesNbr(Group(v), FixedKeys + Cardinality(Keys(v)), n)
           written == [i \in Names |->
                        IF i \in (Len(g.list) + 1)..Len(avatars[v]) THEN None
                        ELSE IF i \in (Len(avatars[v]) + 1)..Len(g.list) /\ g.list[i] # None THEN g.list[i]
                        ELSE entries[v][i]]
<1>0. /\ avatars[v] \in Seq(Ids) /\ Len(avatars[v]) \in Nat /\ Len(avatars[v]) <= MaxAvatars
      /\ shadows[v] \in [Names -> Ids] /\ entries[v] \in [Names -> Ids]
      /\ nbr[v] \in 0..MaxAvatars /\ doubled[v] \in BOOLEAN /\ MaxAvatars \in Nat
  BY GroupTyped
<1>1. PICK count \in Nat : count = 3 + Cardinality(Keys(v)) /\ FixedKeys + Cardinality(Keys(v)) = count
  BY KeysTyped DEF FixedKeys
<1>2. IsSet(g, avatars[v], shadows[v], count, n)
  <2>1. Group(v) = Loose(avatars[v], shadows[v])
    BY DEF Group, Loose
  <2>2. IsSet(SetVirtualRemotesNbr(Loose(avatars[v], shadows[v]), count, n), avatars[v], shadows[v], count, n)
    BY <1>0, NbrSet
  <2> QED BY <1>1, <2>1, <2>2, Zenon
<1>3. \/ Dies
      \/ /\ g.alive
         /\ avatars' = [avatars EXCEPT ![v] = g.list]
         /\ shadows' = [shadows EXCEPT ![v] = g.shadow]
         /\ entries' = [entries EXCEPT ![v] = written]
         /\ nbr' = [nbr EXCEPT ![v] = n]
         /\ UNCHANGED <<patchVars, doubled>>
  BY DEF SetAvatarsNbr
<1>k. kind[v] = "group"
  BY DEF SetAvatarsNbr
<1> HIDE DEF g
<1>4. CASE Dies
  BY <1>4, AvatarsUntouched DEF Dies
<1>5. CASE /\ g.alive
           /\ avatars' = [avatars EXCEPT ![v] = g.list]
           /\ shadows' = [shadows EXCEPT ![v] = g.shadow]
           /\ entries' = [entries EXCEPT ![v] = written]
           /\ nbr' = [nbr EXCEPT ![v] = n]
           /\ UNCHANGED <<patchVars, doubled>>
  <2>1. g.shadow \in [Names -> Ids] /\ g.list \in Seq(Ids) /\ Len(g.list) <= MaxAvatars
    BY <1>0, <1>2, <1>5, SetTyped
  <2>l. Len(g.list) \in Nat /\ \A i \in 1..Len(g.list) : g.list[i] \in Ids
    BY <2>1, LenProperties, ElementOfSeq
  <2>2. written \in [Names -> Ids]
    <3>1. ASSUME NEW i \in Names, i \in (Len(avatars[v]) + 1)..Len(g.list) PROVE g.list[i] \in Ids
      <4>1. i \in 1..Len(g.list)
        BY <1>0, <2>l, <3>1
      <4> QED BY <2>l, <4>1
    <3>2. None \in Ids
      BY DEF Ids
    <3>3. \A i \in Names : entries[v][i] \in Ids
      BY <1>0
    <3> QED BY <3>1, <3>2, <3>3
  <2>w. \A i \in Names : written[i] =
           IF i \in (Len(g.list) + 1)..Len(avatars[v]) THEN None
           ELSE IF i \in (Len(avatars[v]) + 1)..Len(g.list) /\ g.list[i] # None THEN g.list[i]
           ELSE entries[v][i]
    OBVIOUS
  <2> HIDE DEF written
  <2>3. AvatarsTyped'
    BY <1>5, <2>1, <2>2 DEF AvatarsTyped
  <2>4. /\ avatars'[v] = g.list /\ shadows'[v] = g.shadow /\ entries'[v] = written /\ nbr'[v] = n
        /\ doubled' = doubled /\ kind' = kind
    BY <1>5 DEF AvatarsTyped, patchVars
  <2>5. \A w \in Virtuals \ {v} :
           /\ kind'[w] = kind[w] /\ avatars'[w] = avatars[w] /\ shadows'[w] = shadows[w]
           /\ entries'[w] = entries[w] /\ nbr'[w] = nbr[w] /\ doubled'[w] = doubled[w]
    BY <1>5, <2>4 DEF AvatarsTyped
  <2>6. ASSUME ~ doubled[v] PROVE Saved(v)'
    <3>0. Saved(v)
      BY <2>6 DEF SavedInv
    <3>1. /\ Cardinality(Keys(v)) = Len(avatars[v]) /\ shadows[v] = NoNodes
          /\ \A i \in 1..Len(avatars[v]) : avatars[v][i] # None
          /\ \A i \in Names : entries[v][i] = IF i <= Len(avatars[v]) THEN avatars[v][i] ELSE None
      BY <3>0, SavedKeys DEF Saved
    <3>2. IsSet(g, avatars[v], NoNodes, 3 + Len(avatars[v]), n)
      BY <1>1, <1>2, <3>1
    <3>3. /\ g.shadow = NoNodes /\ Len(g.list) = n
          /\ \A i \in 1..n : g.list[i] = IF i <= Len(avatars[v]) THEN avatars[v][i] ELSE NoRemote
      BY <1>0, <3>1, <3>2, SavedSet, SMTT(30)
    <3>4. NoRemote # None
      BY NoRemoteAssumption
    <3>5. \A i \in 1..n : g.list[i] # None
      <4> SUFFICES ASSUME NEW i \in 1..n PROVE g.list[i] # None
        OBVIOUS
      <4>1. CASE i <= Len(avatars[v])
        <5>1. i \in 1..Len(avatars[v])
          BY <1>0, <4>1
        <5> QED BY <3>1, <3>3, <4>1, <5>1
      <4>2. CASE ~ (i <= Len(avatars[v]))
        BY <3>3, <3>4, <4>2
      <4> QED BY <4>1, <4>2
    <3>6. ASSUME NEW i \in Names PROVE written[i] = IF i <= n THEN g.list[i] ELSE None
      <4>0. /\ entries[v][i] = IF i <= Len(avatars[v]) THEN avatars[v][i] ELSE None
            /\ written[i] = IF i \in (n + 1)..Len(avatars[v]) THEN None
                            ELSE IF i \in (Len(avatars[v]) + 1)..n /\ g.list[i] # None THEN g.list[i]
                            ELSE entries[v][i]
        BY <2>w, <3>1, <3>3
      <4>i. i \in Nat /\ i >= 1 /\ n \in Nat
        BY <1>0 DEF Names
      <4>1. CASE i <= n
        <5>1. i \in 1..n /\ i \notin (n + 1)..Len(avatars[v])
          BY <1>0, <4>i, <4>1
        <5>2. CASE i <= Len(avatars[v])
          <6>1. i \notin (Len(avatars[v]) + 1)..n
            BY <1>0, <4>i, <5>2
          <6> QED BY <3>3, <4>0, <4>1, <5>1, <5>2, <6>1
        <5>3. CASE ~ (i <= Len(avatars[v]))
          <6>1. i \in (Len(avatars[v]) + 1)..n
            BY <1>0, <4>i, <4>1, <5>3
          <6> QED BY <3>5, <4>0, <4>1, <5>1, <6>1
        <5> QED BY <5>2, <5>3
      <4>2. CASE ~ (i <= n)
        <5>1. i \notin (Len(avatars[v]) + 1)..n
          BY <1>0, <4>i, <4>2
        <5>2. CASE i <= Len(avatars[v])
          <6>1. i \in (n + 1)..Len(avatars[v])
            BY <1>0, <4>i, <4>2, <5>2
          <6> QED BY <4>0, <4>2, <6>1
        <5>3. CASE ~ (i <= Len(avatars[v]))
          <6>1. i \notin (n + 1)..Len(avatars[v])
            BY <1>0, <4>i, <5>3
          <6> QED BY <4>0, <4>2, <5>1, <5>3, <6>1
        <5> QED BY <5>2, <5>3
      <4> QED BY <4>1, <4>2
    <3>7. shadows'[v] = NoNodes
      BY <2>4, <3>3
    <3>8. Len(avatars'[v]) = nbr'[v]
      BY <2>4, <3>3
    <3> QED BY <2>4, <3>3, <3>5, <3>6, <3>7, <3>8 DEF Saved, NoNodes, Names
  <2>7. NoGroupInv' /\ SavedInv'
    BY <1>k, <2>4, <2>5, <2>6, OneGroupChanges
  <2> QED BY <2>3, <2>7
<1> QED BY <1>3, <1>4, <1>5

(* A client gives an avatar its place. *)
LEMMA SetRemoteIDKeeps ==
  ASSUME AvatarsTyped, NoGroupInv, SavedInv, NEW v \in Virtuals, NEW n \in Names, NEW id \in Places,
         SetRemoteID(v, n, id)
  PROVE  AvatarsTyped' /\ NoGroupInv' /\ SavedInv'
<1>0. /\ avatars[v] \in Seq(Ids) /\ Len(avatars[v]) \in Nat /\ Len(avatars[v]) <= MaxAvatars
      /\ shadows[v] \in [Names -> Ids] /\ entries[v] \in [Names -> Ids]
      /\ nbr[v] \in 0..MaxAvatars /\ doubled[v] \in BOOLEAN /\ MaxAvatars \in Nat
  BY GroupTyped
<1>1. /\ kind[v] = "group" /\ NodeAt(v, n) # None
      /\ entries' = [entries EXCEPT ![v][n] = id]
      /\ UNCHANGED <<patchVars, nbr, doubled>>
  BY DEF SetRemoteID
<1>2. id \in Ids /\ id # None /\ n \in Nat /\ n >= 1
  BY NoRemoteAssumption, AvatarsAssumption DEF Ids, Names
<1>3. \/ shadows[v][n] # None /\ shadows' = [shadows EXCEPT ![v][n] = id] /\ avatars' = avatars
      \/ shadows[v][n] = None /\ avatars' = [avatars EXCEPT ![v][n] = id] /\ shadows' = shadows
  BY DEF SetRemoteID
<1>4. shadows[v][n] = None => n \in 1..Len(avatars[v])
  BY <1>0, <1>1, <1>2 DEF NodeAt
<1>5. \A w \in Virtuals \ {v} :
         /\ kind'[w] = kind[w] /\ avatars'[w] = avatars[w] /\ shadows'[w] = shadows[w]
         /\ entries'[w] = entries[w] /\ nbr'[w] = nbr[w] /\ doubled'[w] = doubled[w]
  BY <1>1, <1>3 DEF AvatarsTyped, patchVars
<1>6. entries' \in [Virtuals -> [Names -> Ids]] /\ entries'[v] = [entries[v] EXCEPT ![n] = id]
  BY <1>1, <1>2 DEF AvatarsTyped
<1>7. kind' = kind /\ nbr' = nbr /\ doubled' = doubled
  BY <1>1 DEF patchVars
<1>8. CASE shadows[v][n] # None /\ shadows' = [shadows EXCEPT ![v][n] = id] /\ avatars' = avatars
  <2>1. AvatarsTyped'
    BY <1>2, <1>6, <1>7, <1>8 DEF AvatarsTyped
  <2>2. doubled[v]
    <3> SUFFICES ASSUME ~ doubled[v] PROVE FALSE
      OBVIOUS
    <3>1. shadows[v] = NoNodes
      BY DEF SavedInv, Saved
    <3> QED BY <1>8, <3>1, NoNodesTyped
  <2> QED BY <1>1, <1>5, <1>7, <2>1, <2>2, OneGroupChanges
<1>9. CASE shadows[v][n] = None /\ avatars' = [avatars EXCEPT ![v][n] = id] /\ shadows' = shadows
  <2>0. n \in 1..Len(avatars[v])
    BY <1>4, <1>9
  <2> DEFINE a == [avatars[v] EXCEPT ![n] = id]
  <2>1. /\ a \in Seq(Ids) /\ Len(a) = Len(avatars[v])
        /\ \A i \in 1..Len(avatars[v]) : a[i] = IF i = n THEN id ELSE avatars[v][i]
    BY <1>0, <1>2, <2>0
  <2>2. avatars'[v] = a /\ avatars' = [avatars EXCEPT ![v] = a]
    BY <1>9 DEF AvatarsTyped
  <2> HIDE DEF a
  <2>3. AvatarsTyped'
    BY <1>0, <1>6, <1>7, <1>9, <2>1, <2>2 DEF AvatarsTyped
  <2>4. ASSUME ~ doubled[v] PROVE Saved(v)'
    <3>1. /\ shadows[v] = NoNodes /\ Len(avatars[v]) = nbr[v]
          /\ \A i \in Names : entries[v][i] = IF i <= Len(avatars[v]) THEN avatars[v][i] ELSE None
          /\ \A i \in 1..Len(avatars[v]) : avatars[v][i] # None
      BY <2>4 DEF SavedInv, Saved
    <3>2. ASSUME NEW i \in Names PROVE entries'[v][i] = IF i <= Len(a) THEN a[i] ELSE None
      <4>1. entries'[v][i] = IF i = n THEN id ELSE entries[v][i]
        BY <1>0, <1>6
      <4>2. i \in Nat /\ i >= 1
        BY <1>0 DEF Names
      <4>3. i = n => i <= Len(a)
        BY <1>0, <2>0, <2>1
      <4>4. i <= Len(a) => i \in 1..Len(avatars[v])
        BY <1>0, <2>1, <4>2
      <4> QED BY <2>1, <3>1, <4>1, <4>3, <4>4
    <3>3. \A i \in 1..Len(a) : a[i] # None
      BY <1>2, <2>1, <3>1
    <3>4. shadows'[v] = NoNodes /\ Len(avatars'[v]) = nbr'[v]
      BY <1>7, <1>9, <2>1, <2>2, <3>1
    <3> QED BY <2>2, <3>2, <3>3, <3>4 DEF Saved, NoNodes, Names
  <2> QED BY <1>1, <1>5, <1>7, <2>3, <2>4, OneGroupChanges
<1> QED BY <1>3, <1>8, <1>9

(* The entries an avatar writes after a change of its buttons keep their types,
   and are the ones a saved group has already. *)
LEMMA WrittenFacts ==
  ASSUME NEW json \in [Names -> Ids], NEW list \in Seq(Ids), Len(list) <= MaxAvatars,
         NEW new \in Written(json, list)
  PROVE  /\ new \in [Names -> Ids]
         /\ (\A n \in Names : json[n] = IF n <= Len(list) THEN list[n] ELSE None) => new = json
<1>0. MaxAvatars \in Nat /\ Len(list) \in Nat /\ \A i \in 1..Len(list) : list[i] \in Ids
  BY AvatarsAssumption, LenProperties, ElementOfSeq
<1>1. PICK changed \in SUBSET (1..Len(list)) :
        new = [n \in Names |-> IF n \in changed THEN list[n] ELSE json[n]]
  BY DEF Written
<1>2. \A n \in changed : n \in 1..Len(list) /\ n <= Len(list) /\ list[n] \in Ids
  BY <1>0
<1>3. new \in [Names -> Ids]
  BY <1>1, <1>2
<1>4. ASSUME \A n \in Names : json[n] = IF n <= Len(list) THEN list[n] ELSE None
      PROVE  new = json
  <2>1. \A n \in Names : new[n] = json[n]
    BY <1>1, <1>2, <1>4
  <2> QED BY <1>3, <2>1
<1> QED BY <1>3, <1>4

(* The element at the end of a link is told. *)
LEMMA GroupNotifyKeeps ==
  ASSUME LinksInv, AvatarsTyped, NoGroupInv, SavedInv, GroupNotify
  PROVE  AvatarsTyped' /\ NoGroupInv' /\ SavedInv'
<1>0. call.v \in Virtuals
  BY CallFacts DEF GroupNotify, LinksInv
<1>k. ConnectNotify \/ DisconnectNotify => kind' = kind
  BY DEF ConnectNotify, DisconnectNotify
<1>1. CASE Dies
  BY <1>1, AvatarsUntouched DEF Dies
<1>2. CASE (ConnectNotify \/ DisconnectNotify) /\ UNCHANGED avatarVars
  BY <1>k, <1>2, AvatarsUntouched
<1>3. ASSUME ConnectNotify \/ DisconnectNotify, kind[call.v] = "group",
             \E json \in Written(entries[call.v], avatars[call.v]) : entries' = [entries EXCEPT ![call.v] = json],
             UNCHANGED <<avatars, shadows, nbr, doubled>>
      PROVE  AvatarsTyped' /\ NoGroupInv' /\ SavedInv'
  <2>0. PICK v \in Virtuals : v = call.v
    BY <1>0
  <2>1. PICK json \in Written(entries[v], avatars[v]) : entries' = [entries EXCEPT ![v] = json]
    BY <1>3, <2>0
  <2>2. /\ avatars[v] \in Seq(Ids) /\ Len(avatars[v]) <= MaxAvatars /\ entries[v] \in [Names -> Ids]
    BY GroupTyped
  <2>3. /\ json \in [Names -> Ids]
        /\ (\A n \in Names : entries[v][n] = IF n <= Len(avatars[v]) THEN avatars[v][n] ELSE None)
             => json = entries[v]
    BY <2>1, <2>2, WrittenFacts
  <2>4. AvatarsTyped'
    BY <1>3, <2>1, <2>3 DEF AvatarsTyped
  <2>5. kind' = kind
    BY <1>3, <1>k
  <2>6. \A w \in Virtuals \ {v} :
          /\ kind'[w] = kind[w] /\ avatars'[w] = avatars[w] /\ shadows'[w] = shadows[w]
          /\ entries'[w] = entries[w] /\ nbr'[w] = nbr[w] /\ doubled'[w] = doubled[w]
    BY <1>3, <2>1, <2>5 DEF AvatarsTyped
  <2>7. ASSUME ~ doubled[v] PROVE Saved(v)'
    <3>1. Saved(v)
      BY <2>7 DEF SavedInv
    <3>2. json = entries[v]
      BY <2>3, <3>1 DEF Saved
    <3>3. entries'[v] = entries[v]
      BY <2>1, <3>2 DEF AvatarsTyped
    <3> QED BY <1>3, <3>1, <3>3 DEF Saved, NoNodes, Names
  <2>8. NoGroupInv' /\ SavedInv'
    <3>1. kind'[v] = "group" /\ doubled' = doubled
      BY <1>3, <2>0, <2>5
    <3> QED BY <2>6, <2>7, <3>1, OneGroupChanges
  <2> QED BY <2>4, <2>8
<1> QED BY <1>1, <1>2, <1>3 DEF GroupNotify

(* An element comes or goes. *)
LEMMA ElementKeeps ==
  ASSUME LinksInv, AvatarsTyped, NoGroupInv, SavedInv, NEW v \in Virtuals, NewElement(v) \/ OldElement(v)
  PROVE  AvatarsTyped' /\ NoGroupInv' /\ SavedInv'
<1>t. kind \in [Virtuals -> Kinds]
  BY DEF LinksInv, TypeOK
<1>1. CASE NewElement(v)
  <2>1. UNCHANGED <<avatars, shadows, entries, nbr, doubled>>
    BY <1>1 DEF NewElement, avatarVars
  <2>2. kind[v] = "none" /\ \E k : kind' = [kind EXCEPT ![v] = k]
    BY <1>1 DEF NewElement, AddRemote, AddGroup
  <2>3. \A w \in Virtuals \ {v} : kind'[w] = kind[w]
    BY <1>t, <2>2
  <2>4. ~ doubled[v] /\ avatars[v] = <<>>
    BY <2>2 DEF NoGroupInv
  <2>5. AvatarsTyped' /\ (Saved(v) => Saved(v)')
    BY <2>1 DEF AvatarsTyped, Saved, NoNodes, Names
  <2>6. Saved(v)
    BY <2>4 DEF SavedInv
  <2>7. NoGroupInv' /\ SavedInv'
    BY <2>1, <2>3, <2>4, <2>5, <2>6, OneGroupChanges
  <2> QED BY <2>5, <2>7
<1>2. CASE OldElement(v)
  <2>1. /\ kind' = [kind EXCEPT ![v] = "none"]
        /\ avatars' = [avatars EXCEPT ![v] = <<>>]
        /\ shadows' = [shadows EXCEPT ![v] = NoNodes]
        /\ entries' = [entries EXCEPT ![v] = NoNodes]
        /\ nbr' = [nbr EXCEPT ![v] = 0]
        /\ doubled' = [doubled EXCEPT ![v] = FALSE]
    BY <1>2 DEF OldElement, RemoveElement
  <2>2. <<>> \in Seq(Ids) /\ Len(<<>>) = 0 /\ MaxAvatars \in Nat
    BY AvatarsAssumption
  <2>3. AvatarsTyped'
    BY <2>1, <2>2, NoNodesTyped DEF AvatarsTyped
  <2>4. /\ avatars'[v] = <<>> /\ shadows'[v] = NoNodes /\ entries'[v] = NoNodes
        /\ nbr'[v] = 0 /\ doubled'[v] = FALSE
    BY <2>1 DEF AvatarsTyped
  <2>5. \A w \in Virtuals \ {v} :
          /\ kind'[w] = kind[w] /\ avatars'[w] = avatars[w] /\ shadows'[w] = shadows[w]
          /\ entries'[w] = entries[w] /\ nbr'[w] = nbr[w] /\ doubled'[w] = doubled[w]
    BY <1>t, <2>1 DEF AvatarsTyped
  <2>6. Saved(v)'
    <3>1. \A n \in Names : ~ (n <= 0)
      BY <2>2 DEF Names
    <3>2. \A n \in Names : NoNodes[n] = None
      BY NoNodesTyped
    <3> QED BY <2>2, <2>4, <3>1, <3>2 DEF Saved, NoNodes, Names
  <2>7. NoGroupInv' /\ SavedInv'
    BY <2>4, <2>5, <2>6, OneGroupChanges
  <2> QED BY <2>3, <2>7
<1> QED BY <1>1, <1>2

(* What a load makes of a group. *)
LEMMA LoadedFacts ==
  ASSUME AvatarsTyped, NEW v \in Virtuals
  PROVE  /\ Loaded(v).shadow \in [Names -> Ids]
         /\ Loaded(v).alive => Loaded(v).list \in Seq(Ids) /\ Len(Loaded(v).list) <= MaxAvatars
         /\ Saved(v) =>
              /\ Len(Loaded(v).list) = Len(avatars[v])
              /\ \A i \in 1..Len(avatars[v]) :
                   i <= Len(avatars[v]) - 2 \/ Len(avatars[v]) = 1 => Loaded(v).list[i] = avatars[v][i]
              /\ Loaded(v).shadow = NoNodes => Loaded(v).list = avatars[v]
              /\ Len(avatars[v]) < 2 => Loaded(v).shadow = NoNodes
<1> DEFINE g == Loaded(v)
<1>0. nbr[v] \in 0..MaxAvatars /\ avatars[v] \in Seq(Ids) /\ Len(avatars[v]) <= MaxAvatars
  BY GroupTyped
<1>1. PICK count \in Nat : count = 1 + Cardinality(Keys(v))
  BY KeysTyped
<1>2. PICK list \in Seq(Ids) : Len(list) <= MaxAvatars /\ FromKeys(v) = Loose(list, NoNodes)
  BY FromKeysTyped
<1>3. IsSet(g, list, NoNodes, count, nbr[v])
  <2>1. IsSet(SetVirtualRemotesNbr(Loose(list, NoNodes), count, nbr[v]), list, NoNodes, count, nbr[v])
    BY <1>0, <1>2, NoNodesTyped, NbrSet
  <2> QED BY <1>1, <1>2, <2>1 DEF Loaded
<1> HIDE DEF g
<1>4. g.shadow \in [Names -> Ids] /\ (g.alive => g.list \in Seq(Ids) /\ Len(g.list) <= MaxAvatars)
  BY <1>0, <1>2, <1>3, NoNodesTyped, SetTyped
<1>5. ASSUME Saved(v)
      PROVE  /\ Len(g.list) = Len(avatars[v])
             /\ \A i \in 1..Len(avatars[v]) :
                  i <= Len(avatars[v]) - 2 \/ Len(avatars[v]) = 1 => g.list[i] = avatars[v][i]
             /\ g.shadow = NoNodes => g.list = avatars[v]
             /\ Len(avatars[v]) < 2 => g.shadow = NoNodes
  <2>1. /\ Cardinality(Keys(v)) = Len(avatars[v]) /\ Loose(list, NoNodes) = Loose(avatars[v], NoNodes)
        /\ nbr[v] = Len(avatars[v]) /\ \A i \in 1..Len(avatars[v]) : avatars[v][i] # None
    BY <1>2, <1>5, SavedKeys DEF Saved
  <2>2. list = avatars[v]
    BY <2>1 DEF Loose
  <2>3. IsSet(g, avatars[v], NoNodes, 1 + Len(avatars[v]), Len(avatars[v]))
    BY <1>1, <1>3, <2>1, <2>2
  <2> QED BY <1>0, <2>1, <2>3, SavedLoaded
<1> QED BY <1>4, <1>5 DEF g

(* The groups are loaded. *)
LEMMA LoadGroupsKeeps ==
  ASSUME AvatarsTyped, NoGroupInv, SavedInv, LoadGroups
  PROVE  AvatarsTyped' /\ NoGroupInv' /\ SavedInv'
<1>1. CASE Dies
  BY <1>1, AvatarsUntouched DEF Dies
<1>2. CASE ~ Dies
  <2>1. /\ LoadVirtualNet
        /\ \A v \in Virtuals : Loaded(v).alive
        /\ avatars' = [v \in Virtuals |-> Loaded(v).list]
        /\ shadows' = [v \in Virtuals |-> Loaded(v).shadow]
        /\ doubled' = [v \in Virtuals |-> doubled[v] \/ Loaded(v).shadow # NoNodes]
        /\ entries' \in [Virtuals -> [Names -> Ids]]
        /\ \A v \in Virtuals : entries'[v] \in Written(entries[v], Loaded(v).list)
        /\ nbr' = nbr
    BY <1>2 DEF LoadGroups, Ids
  <2>2. kind' = kind
    BY <2>1 DEF LoadVirtualNet
  <2>3. AvatarsTyped'
    <3>1. \A v \in Virtuals : /\ Loaded(v).shadow \in [Names -> Ids]
                              /\ Loaded(v).list \in Seq(Ids) /\ Len(Loaded(v).list) <= MaxAvatars
      BY <2>1, LoadedFacts
    <3>2. avatars' \in [Virtuals -> Seq(Ids)] /\ \A v \in Virtuals : Len(avatars'[v]) <= MaxAvatars
      BY <2>1, <3>1
    <3>3. shadows' \in [Virtuals -> [Names -> Ids]]
      BY <2>1, <3>1
    <3>4. doubled' \in [Virtuals -> BOOLEAN]
      BY <2>1
    <3> QED BY <2>1, <3>2, <3>3, <3>4 DEF AvatarsTyped
  <2>4. ASSUME NEW v \in Virtuals, kind'[v] # "group"
        PROVE  ~ doubled'[v] /\ avatars'[v] = <<>>
    <3>1. ~ doubled[v] /\ avatars[v] = <<>>
      BY <2>2, <2>4 DEF NoGroupInv
    <3>2. Saved(v)
      BY <3>1 DEF SavedInv
    <3>3. Len(avatars[v]) < 2
      BY <3>1
    <3>4. Loaded(v).shadow = NoNodes /\ Loaded(v).list = avatars[v]
      BY <3>2, <3>3, LoadedFacts
    <3> QED BY <2>1, <3>1, <3>4
  <2>5. ASSUME NEW v \in Virtuals, ~ doubled'[v] PROVE Saved(v)'
    <3>1. ~ doubled[v] /\ Loaded(v).shadow = NoNodes
      BY <2>1, <2>5
    <3>2. Saved(v)
      BY <3>1 DEF SavedInv
    <3>3. Loaded(v).list = avatars[v]
      BY <3>1, <3>2, LoadedFacts
    <3>4. entries'[v] \in Written(entries[v], avatars[v])
      BY <2>1, <3>3
    <3>5. entries'[v] = entries[v]
      <4>1. /\ entries[v] \in [Names -> Ids] /\ avatars[v] \in Seq(Ids) /\ Len(avatars[v]) <= MaxAvatars
        BY GroupTyped
      <4>2. \A n \in Names : entries[v][n] = IF n <= Len(avatars[v]) THEN avatars[v][n] ELSE None
        BY <3>2 DEF Saved
      <4> QED BY <3>4, <4>1, <4>2, WrittenFacts
    <3>6. avatars'[v] = avatars[v] /\ shadows'[v] = NoNodes /\ nbr'[v] = nbr[v]
      BY <2>1, <3>1, <3>3
    <3> QED BY <3>2, <3>5, <3>6 DEF Saved, NoNodes, Names
  <2> QED BY <2>3, <2>4, <2>5 DEF NoGroupInv, SavedInv
<1> QED BY <1>1, <1>2

(* The first state. *)
LEMMA GroupStarts ==
  ASSUME GroupInit
  PROVE  GroupInv
<1>1. LinksInv
  BY LinksInvInit DEF GroupInit
<1>2. /\ avatars = [v \in Virtuals |-> <<>>]
      /\ shadows = [v \in Virtuals |-> NoNodes]
      /\ entries = [v \in Virtuals |-> NoNodes]
      /\ nbr = [v \in Virtuals |-> 0]
      /\ doubled = [v \in Virtuals |-> FALSE]
  BY DEF GroupInit
<1>3. <<>> \in Seq(Ids) /\ Len(<<>>) = 0 /\ MaxAvatars \in Nat
  BY AvatarsAssumption
<1>4. AvatarsTyped
  BY <1>2, <1>3, NoNodesTyped DEF AvatarsTyped
<1>5. NoGroupInv
  BY <1>2 DEF NoGroupInv
<1>6. SavedInv
  <2>1. \A n \in Names : ~ (n <= 0) /\ NoNodes[n] = None
    BY <1>3, NoNodesTyped DEF Names
  <2> QED BY <1>2, <1>3, <2>1 DEF SavedInv, Saved
<1> QED BY <1>1, <1>4, <1>5, <1>6 DEF GroupInv

(* Every step keeps the invariant. *)
LEMMA GroupKeeps ==
  ASSUME GroupInv, [GroupNext]_groupVars
  PROVE  GroupInv'
<1>0. LinksInv /\ AvatarsTyped /\ NoGroupInv /\ SavedInv
  BY DEF GroupInv
<1>l. LinksInv'
  BY <1>0, GroupKeepsLinksInv
<1> DEFINE Kept == AvatarsTyped' /\ NoGroupInv' /\ SavedInv'
<1>1. ASSUME NEW v \in Virtuals, NEW n \in 0..MaxAvatars, SetAvatarsNbr(v, n) PROVE Kept
  BY <1>0, <1>1, SetAvatarsNbrKeeps
<1>2. ASSUME NEW v \in Virtuals, NEW n \in Names, NEW id \in Places, SetRemoteID(v, n, id) PROVE Kept
  BY <1>0, <1>2, SetRemoteIDKeeps
<1>3. ASSUME NEW r \in Remotes, NEW v \in Virtuals, GroupLink(r, v) PROVE Kept
  <2>1. UNCHANGED avatarVars /\ kind' = kind
    BY <1>3 DEF GroupLink, Connect, Disconnect
  <2> QED BY <1>0, <2>1, AvatarsUntouched
<1>4. ASSUME GroupNotify PROVE Kept
  BY <1>0, <1>4, GroupNotifyKeeps
<1>5. ASSUME NEW v \in Virtuals, NewElement(v) \/ OldElement(v) PROVE Kept
  BY <1>0, <1>5, ElementKeeps
<1>6. ASSUME GroupCrash \/ LoadPatch PROVE Kept
  <2>1. UNCHANGED avatarVars /\ kind' = kind
    BY <1>6 DEF GroupCrash, LoadPatch, Crash, ParseArray
  <2> QED BY <1>0, <2>1, AvatarsUntouched
<1>7. ASSUME LoadGroups PROVE Kept
  BY <1>0, <1>7, LoadGroupsKeeps
<1>8. ASSUME UNCHANGED groupVars PROVE Kept
  <2>1. UNCHANGED avatarVars /\ kind' = kind
    BY <1>8 DEF groupVars, avatarVars, patchVars
  <2> QED BY <1>0, <2>1, AvatarsUntouched
<1> HIDE DEF Kept
<1>9. Kept
  BY <1>1, <1>2, <1>3, <1>4, <1>5, <1>6, <1>7, <1>8 DEF GroupNext
<1> QED BY <1>l, <1>9 DEF GroupInv, Kept

LEMMA GroupInvariant == GroupSpec => []GroupInv
<1>1. GroupInit => GroupInv
  BY GroupStarts
<1>2. GroupInv /\ [GroupNext]_groupVars => GroupInv'
  BY GroupKeeps
<1> QED BY <1>1, <1>2, PTL DEF GroupSpec

-----------------------------------------------------------------------------
(* The theorems *)

(* Every list and every JSON of a group stays in its type: no sequence of
   setVirtualRemotesNbr, link and load creates an avatar beyond the number a
   client may set, whether or not avatars were created twice. *)
THEOREM GroupIsTyped == GroupSpec => []GroupTypeOK
<1>1. GroupInv => GroupTypeOK
  <2> SUFFICES ASSUME GroupInv, NEW v \in Virtuals
               PROVE  /\ avatars[v] \in Seq(Places \cup {NoRemote, None})
                      /\ Len(avatars[v]) <= MaxAvatars
                      /\ shadows[v] \in [Names -> Places \cup {NoRemote, None}]
                      /\ entries[v] \in [Names -> Places \cup {NoRemote, None}]
                      /\ nbr[v] \in 0..MaxAvatars
    BY DEF GroupTypeOK
  <2> QED BY GroupTyped DEF GroupInv, Ids
<1> QED BY <1>1, GroupInvariant, PTL

(* As long as no load has created avatars of a group twice, the group has the
   avatars that avatarsNbr says, all of them in its JSON, and VirtualGroup's
   fastTrigger gives an event of a slave to exactly the avatars for which a client
   reads the place of this slave. *)
THEOREM AvatarsFollowConfiguration == GroupSpec => []AvatarsAsConfigured
<1>1. ASSUME GroupInv, NEW v \in Virtuals, ~ doubled[v]
      PROVE  /\ Len(avatars[v]) = nbr[v]
             /\ \A n \in Names : entries[v][n] = NodeAt(v, n)
             /\ \A i \in 1..Len(slaves[v]) :
                  Reached(v, slaves[v][i]) = {n \in Names : NodeAt(v, n) = i - 1}
  <2>0. AvatarsTyped /\ Saved(v) /\ LinksInv
    BY <1>1 DEF GroupInv, SavedInv
  <2>1. /\ Len(avatars[v]) \in Nat /\ Len(avatars[v]) <= MaxAvatars /\ MaxAvatars \in Nat
    BY <2>0, GroupTyped
  <2>2. slaves[v] \in Seq(Remotes) /\ NoRepeats(slaves[v])
    BY <2>0 DEF LinksInv, TypeOK, NoDoubleSlave
  <2>3. /\ shadows[v] = NoNodes /\ Len(avatars[v]) = nbr[v]
        /\ \A n \in Names : entries[v][n] = IF n <= Len(avatars[v]) THEN avatars[v][n] ELSE None
    BY <2>0 DEF Saved
  <2>4. \A n \in Names : NodeAt(v, n) = IF n <= Len(avatars[v]) THEN avatars[v][n] ELSE None
    BY <2>3, NoNodesTyped DEF NodeAt
  <2>5. ASSUME NEW i \in 1..Len(slaves[v])
        PROVE  Reached(v, slaves[v][i]) = {n \in Names : NodeAt(v, n) = i - 1}
    <3>1. i - 1 # None
      BY <2>2, SlavesHavePlaces, NoRemoteAssumption
    <3>2. ASSUME NEW n \in Reached(v, slaves[v][i]) PROVE n \in Names /\ NodeAt(v, n) = i - 1
      <4>1. PICK j \in 1..Len(slaves[v]) :
              n \in 1..Len(avatars[v]) /\ slaves[v][j] = slaves[v][i] /\ avatars[v][n] = j - 1
        BY DEF Reached
      <4>2. j = i
        BY <2>2, <4>1 DEF NoRepeats
      <4>3. n \in Names /\ n <= Len(avatars[v])
        BY <2>1, <4>1 DEF Names
      <4> QED BY <2>4, <4>1, <4>2, <4>3
    <3>3. ASSUME NEW n \in Names, NodeAt(v, n) = i - 1 PROVE n \in Reached(v, slaves[v][i])
      <4>1. n <= Len(avatars[v]) /\ avatars[v][n] = i - 1
        BY <2>4, <3>1, <3>3
      <4>2. n \in 1..Len(avatars[v])
        BY <2>1, <4>1 DEF Names
      <4> QED BY <4>1, <4>2 DEF Reached
    <3> QED BY <3>2, <3>3
  <2> QED BY <2>3, <2>4, <2>5
<1>2. GroupInv => AvatarsAsConfigured
  BY <1>1 DEF AvatarsAsConfigured
<1> QED BY <1>2, GroupInvariant, PTL

(* A restart of the daemon, after any crash or death and with any links, brings
   back every avatar of a group that was not doubled, and the place of each but
   the last two of several. *)
THEOREM RestartsKeepAvatars == GroupSpec => RestartKeepsAvatars
<1>1. ASSUME GroupInv, [GroupNext]_groupVars, call.at = "loading", call'.at = "idle",
             NEW v \in Virtuals, ~ doubled[v]
      PROVE  /\ Len(avatars'[v]) = Len(avatars[v])
             /\ \A n \in 1..Len(avatars[v]) :
                  n <= Len(avatars[v]) - 2 \/ Len(avatars[v]) = 1 => avatars'[v][n] = avatars[v][n]
  <2>0. AvatarsTyped /\ Saved(v) /\ TypeOK
    BY <1>1 DEF GroupInv, SavedInv, LinksInv
  <2>1. ~ Dies
    BY <1>1 DEF Dies, Handling
  <2>2. LoadGroups
    <3>1. ASSUME NEW w \in Virtuals, NEW n \in 0..MaxAvatars, SetAvatarsNbr(w, n) PROVE FALSE
      BY <1>1, <3>1 DEF SetAvatarsNbr, Idle, Handling
    <3>2. ASSUME NEW w \in Virtuals, NEW n \in Names, NEW id \in Places, SetRemoteID(w, n, id) PROVE FALSE
      BY <1>1, <3>2 DEF SetRemoteID, Idle, Handling
    <3>3. ASSUME NEW r \in Remotes, NEW w \in Virtuals, GroupLink(r, w) PROVE FALSE
      BY <1>1, <3>3 DEF GroupLink, Connect, Disconnect, Idle, Handling
    <3>4. ASSUME GroupNotify PROVE FALSE
      BY <1>1, <3>4 DEF GroupNotify
    <3>5. ASSUME NEW w \in Virtuals, NewElement(w) \/ OldElement(w) PROVE FALSE
      BY <1>1, <3>5 DEF NewElement, OldElement, AddRemote, AddGroup, RemoveElement, Idle, Handling
    <3>6. ASSUME GroupCrash PROVE FALSE
      BY <1>1, <3>6 DEF GroupCrash, Crash, Idle, Handling
    <3>7. ASSUME LoadPatch PROVE FALSE
      <4>1. call' = [call EXCEPT !.todo = Tail(@)]
        BY <3>7 DEF LoadPatch, ParseArray
      <4>2. call'.at = call.at
        BY <2>0, <4>1 DEF TypeOK, CallType
      <4> QED BY <1>1, <4>2
    <3>8. ASSUME UNCHANGED groupVars PROVE FALSE
      <4>1. call' = call
        BY <3>8 DEF groupVars, patchVars
      <4> QED BY <1>1, <4>1
    <3> QED BY <1>1, <3>1, <3>2, <3>3, <3>4, <3>5, <3>6, <3>7, <3>8 DEF GroupNext
  <2>3. avatars' = [w \in Virtuals |-> Loaded(w).list]
    BY <2>1, <2>2 DEF LoadGroups
  <2>4. avatars'[v] = Loaded(v).list
    BY <2>3
  <2> QED BY <2>0, <2>4, LoadedFacts
<1>2. GroupInv /\ [GroupNext]_groupVars =>
        [\A v \in Virtuals :
           call.at = "loading" /\ call'.at = "idle" /\ ~ doubled[v] =>
             /\ Len(avatars'[v]) = Len(avatars[v])
             /\ \A n \in 1..Len(avatars[v]) :
                  n <= Len(avatars[v]) - 2 \/ Len(avatars[v]) = 1 => avatars'[v][n] = avatars[v][n]]_groupVars
  BY <1>1
<1> QED BY <1>2, GroupInvariant, PTL DEF GroupSpec, RestartKeepsAvatars

(* The slaves of a group are the remotes the patch links to it also when the
   daemon can die between addEntry or removeLink and the notification of the
   group, as a null pointer among the avatars makes it do. *)
THEOREM GroupSlavesFollow == ~ MayRename => (GroupSpec => []SlavesFollowPatch)
<1> SUFFICES ASSUME ~ MayRename PROVE GroupSpec => []SlavesFollowPatch
  OBVIOUS
<1>1. GroupInit => SlavesInv
  BY DEF GroupInit, PatchInit, NoLinks, SlavesInv, Idle, Handling
<1>2. GroupInv /\ SlavesInv /\ [GroupNext]_groupVars => SlavesInv'
  <2> SUFFICES ASSUME GroupInv, SlavesInv, [GroupNext]_groupVars PROVE SlavesInv'
    OBVIOUS
  <2>1. CASE [PatchNext]_patchVars
    BY <2>1, SlavesInvNext DEF GroupInv
  <2>2. CASE Dies
    <3>1. call'.at = "loading"
      BY <2>2 DEF Dies, Handling
    <3> QED BY <3>1 DEF SlavesInv
  <2> QED BY <2>1, <2>2, GroupStepIsPatchStep
<1>3. SlavesInv => SlavesFollowPatch
  BY DEF SlavesInv, SlavesFollowPatch, Idle, Handling
<1> QED BY <1>1, <1>2, <1>3, GroupInvariant, PTL DEF GroupSpec

=============================================================================
