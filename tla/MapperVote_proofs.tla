------------------------- MODULE MapperVote_proofs -------------------------
(***************************************************************************)
(* Proofs about MapperVote.  In every configuration, with any number of    *)
(* readings, faults and starts of AStar, no obstacle is forgotten, and     *)
(* while acknowledgements are handled in time only a faulty replica is     *)
(* blamed.  Where the voter has what it takes to decide, AStar reads       *)
(* nothing but whole updates.                                              *)
(*                                                                         *)
(* The argument is about rounds, from processData to the vote: what a      *)
(* replica says in a round is one whole answer, so that the voter, which   *)
(* knows no messages, still sends one.                                     *)
(***************************************************************************)
EXTENDS MapperVote, SequenceTheorems, FiniteSetTheorems, FunctionTheorems, TLAPS

\* What an update is made of: its header, and one obstacle each.
Item == ({"header"} \X Nat \X Nat \X BOOLEAN) \cup ({"obstacle"} \X (1 .. MaxReadings))

\* An enumeration of a set of numbers names each of them.
LEMMA SeqOfSet ==
    ASSUME NEW k \in Nat
    PROVE  /\ SetToSeq(1 .. k) \in [1 .. k -> 1 .. k]
           /\ \A c \in 1 .. k : \E i \in 1 .. k : SetToSeq(1 .. k)[i] = c
<1> DEFINE q == SetToSeq(1 .. k)
<1>1. IsFiniteSet(1 .. k) /\ Cardinality(1 .. k) = k
  BY FS_Interval
<1>2. [i \in 1 .. k |-> i] \in [1 .. k -> 1 .. k] /\ IsInjective([i \in 1 .. k |-> i])
  BY DEF IsInjective
<1>3. q \in [1 .. k -> 1 .. k] /\ IsInjective(q)
  BY <1>1, <1>2 DEF SetToSeq
<1>4. q \in Injection(1 .. k, 1 .. k)
  BY <1>3 DEF Injection, IsInjective
<1>5. q \in Surjection(1 .. k, 1 .. k)
  BY <1>1, <1>4, FS_Surjection, FS_Injection
<1> QED BY <1>3, <1>5 DEF Surjection

\* updateMap: a header that says how many obstacles follow, the new one first
\* and, when all were asked for, the whole map.
LEMMA UpdateShape ==
    ASSUME MaxReadings \in Nat, NEW k \in 1 .. MaxReadings, NEW f \in BOOLEAN, NEW bad \in BOOLEAN
    PROVE  LET a == Update(k, 1 .. k, f, bad) IN
           /\ a \in Seq(Item)
           /\ Len(a) = 2 + (IF f THEN k ELSE 0)
           /\ a[1] = Header(k, Len(a) - 1, bad)
           /\ a[2] = Unit(k)
           /\ \A i \in 3 .. Len(a) : a[i] = Unit(SetToSeq(1 .. k)[i - 2])
<1> DEFINE list == <<k>> \o (IF f THEN SetToSeq(1 .. k) ELSE <<>>)
           tail == [i \in 1 .. Len(list) |-> Unit(list[i])]
           a == Update(k, 1 .. k, f, bad)
<1>0. k \in Nat
  OBVIOUS
<1>1. SetToSeq(1 .. k) \in Seq(1 .. k) /\ Len(SetToSeq(1 .. k)) = k
  <2>1. SetToSeq(1 .. k) \in [1 .. k -> 1 .. k]
    BY <1>0, SeqOfSet
  <2> QED BY <1>0, <2>1
<1>2. list \in Seq(1 .. k) /\ Len(list) = 1 + (IF f THEN k ELSE 0)
  <2> DEFINE more == IF f THEN SetToSeq(1 .. k) ELSE <<>>
  <2>1. <<k>> \in Seq(1 .. k) /\ Len(<<k>>) = 1
    BY <1>0
  <2>2. more \in Seq(1 .. k) /\ Len(more) = IF f THEN k ELSE 0
    <3>1. CASE f
      BY <1>1, <3>1
    <3>2. CASE ~f
      BY <3>2
    <3> QED BY <3>1, <3>2
  <2> HIDE DEF more
  <2>3. <<k>> \o more \in Seq(1 .. k) /\ Len(<<k>> \o more) = 1 + Len(more)
    BY <2>1, <2>2
  <2> QED BY <2>2, <2>3 DEF more
<1>3. list[1] = k /\ (f => \A i \in 2 .. Len(list) : list[i] = SetToSeq(1 .. k)[i - 1])
  BY <1>0, <1>1
<1>4. \A i \in 1 .. Len(list) : list[i] \in 1 .. MaxReadings
  BY <1>2
<1> HIDE DEF list
<1>5. tail \in Seq({"obstacle"} \X (1 .. MaxReadings)) /\ Len(tail) = Len(list)
      /\ \A i \in 1 .. Len(list) : tail[i] = Unit(list[i])
  BY <1>2, <1>4, SMTT(30) DEF Unit
<1>6. <<Header(k, Len(list), bad)>> \in Seq(Item) /\ tail \in Seq(Item)
  <2>1. Header(k, Len(list), bad) \in Item
    BY <1>0, <1>2 DEF Item, Header
  <2>2. \A i \in 1 .. Len(tail) : tail[i] \in Item
    BY <1>4, <1>5 DEF Item, Unit
  <2> HIDE DEF tail
  <2>3. tail \in Seq(Item)
    BY <1>5, <2>2, LenProperties
  <2>4. <<Header(k, Len(list), bad)>> \in Seq(Item)
    BY <2>1
  <2> QED BY <2>3, <2>4
<1>7. a = <<Header(k, Len(list), bad)>> \o tail
  BY DEF Update, list
<1> HIDE DEF tail, a
<1>8. a \in Seq(Item) /\ Len(a) = Len(list) + 1 /\ a[1] = Header(k, Len(list), bad)
      /\ \A i \in 2 .. Len(a) : a[i] = tail[i - 1]
  BY <1>2, <1>5, <1>6, <1>7, SMTT(30)
<1>9. \A i \in 2 .. Len(a) : a[i] = Unit(list[i - 1])
  BY <1>5, <1>8, <1>2, SMTT(30)
<1>10. Len(a) = 2 + (IF f THEN k ELSE 0) /\ a[2] = Unit(k)
  BY <1>2, <1>3, <1>8, <1>9
<1>11. \A i \in 3 .. Len(a) : a[i] = Unit(SetToSeq(1 .. k)[i - 2])
  <2> SUFFICES ASSUME NEW i \in 3 .. Len(a) PROVE a[i] = Unit(SetToSeq(1 .. k)[i - 2])
    OBVIOUS
  <2>1. f /\ i - 1 \in 2 .. Len(list)
    BY <1>10, <1>8, <1>2
  <2> QED BY <2>1, <1>3, <1>9
<1>12. a[1] = Header(k, Len(a) - 1, bad)
  BY <1>8, <1>2
<1> QED BY <1>8, <1>10, <1>11, <1>12 DEF a

\* The obstacles of a sequence are those of its units.
LEMMA ObstaclesOf ==
    ASSUME NEW s, NEW S, s \in Seq(S), NEW c
    PROVE  c \in Obstacles(s) <=> \E i \in 1 .. Len(s) : ~IsHeader(s[i]) /\ s[i][2] = c
BY DEF Obstacles

\* Obstacles of two sequences, one after the other.
LEMMA ObstaclesConcat ==
    ASSUME NEW s \in Seq(Item), NEW t \in Seq(Item)
    PROVE  Obstacles(s \o t) = Obstacles(s) \cup Obstacles(t)
<1>1. \A c : c \in Obstacles(s) <=> \E i \in 1 .. Len(s) : ~IsHeader(s[i]) /\ s[i][2] = c
  BY ObstaclesOf
<1>2. \A c : c \in Obstacles(t) <=> \E i \in 1 .. Len(t) : ~IsHeader(t[i]) /\ t[i][2] = c
  BY ObstaclesOf
<1>3. s \o t \in Seq(Item) /\ Len(s \o t) = Len(s) + Len(t)
  OBVIOUS
<1>4. \A c : c \in Obstacles(s \o t) <=>
             \E i \in 1 .. Len(s \o t) : ~IsHeader((s \o t)[i]) /\ (s \o t)[i][2] = c
  BY <1>3, ObstaclesOf
<1>5. \A i \in 1 .. Len(s) : i \in 1 .. Len(s \o t) /\ (s \o t)[i] = s[i]
  BY <1>3
<1>6. \A i \in 1 .. Len(t) : Len(s) + i \in 1 .. Len(s \o t) /\ (s \o t)[Len(s) + i] = t[i]
  BY <1>3
<1>7. \A i \in 1 .. Len(s \o t) :
         \/ i \in 1 .. Len(s) /\ (s \o t)[i] = s[i]
         \/ i - Len(s) \in 1 .. Len(t) /\ (s \o t)[i] = t[i - Len(s)]
  BY <1>3
<1>8. ASSUME NEW c \in Obstacles(s) \cup Obstacles(t) PROVE c \in Obstacles(s \o t)
  <2>1. CASE c \in Obstacles(s)
    <3>1. PICK i \in 1 .. Len(s) : ~IsHeader(s[i]) /\ s[i][2] = c
      BY <2>1, <1>1
    <3> QED BY <3>1, <1>4, <1>5
  <2>2. CASE c \in Obstacles(t)
    <3>1. PICK i \in 1 .. Len(t) : ~IsHeader(t[i]) /\ t[i][2] = c
      BY <2>2, <1>2
    <3>2. Len(s) + i \in 1 .. Len(s \o t)
          /\ ~IsHeader((s \o t)[Len(s) + i]) /\ (s \o t)[Len(s) + i][2] = c
      BY <3>1, <1>6
    <3> QED BY <3>2, <1>4
  <2> QED BY <2>1, <2>2
<1>9. ASSUME NEW c \in Obstacles(s \o t) PROVE c \in Obstacles(s) \cup Obstacles(t)
  <2>1. PICK i \in 1 .. Len(s \o t) : ~IsHeader((s \o t)[i]) /\ (s \o t)[i][2] = c
    BY <1>4
  <2>2. CASE i \in 1 .. Len(s) /\ (s \o t)[i] = s[i]
    BY <2>1, <2>2, <1>1
  <2>3. CASE i - Len(s) \in 1 .. Len(t) /\ (s \o t)[i] = t[i - Len(s)]
    BY <2>1, <2>3, <1>2
  <2> QED BY <2>2, <2>3, <1>7
<1> QED BY <1>8, <1>9

\* The obstacles of a sequence are those of its two parts.
LEMMA ObstaclesCut ==
    ASSUME NEW s \in Seq(Item), NEW n \in 0 .. Len(s)
    PROVE  /\ SubSeq(s, 1, n) \in Seq(Item) /\ SubSeq(s, n + 1, Len(s)) \in Seq(Item)
           /\ Len(SubSeq(s, 1, n)) = n /\ Len(SubSeq(s, n + 1, Len(s))) = Len(s) - n
           /\ \A i \in 1 .. n : SubSeq(s, 1, n)[i] = s[i]
           /\ \A i \in 1 .. Len(s) - n : SubSeq(s, n + 1, Len(s))[i] = s[n + i]
           /\ Obstacles(s) = Obstacles(SubSeq(s, 1, n)) \cup Obstacles(SubSeq(s, n + 1, Len(s)))
<1>1. /\ SubSeq(s, 1, n) \in Seq(Item) /\ SubSeq(s, n + 1, Len(s)) \in Seq(Item)
      /\ Len(SubSeq(s, 1, n)) = n /\ Len(SubSeq(s, n + 1, Len(s))) = Len(s) - n
      /\ \A i \in 1 .. n : SubSeq(s, 1, n)[i] = s[i]
      /\ \A i \in 1 .. Len(s) - n : SubSeq(s, n + 1, Len(s))[i] = s[n + i]
  BY SubSeqProperties
<1>2. s = SubSeq(s, 1, n) \o SubSeq(s, n + 1, Len(s))
  <2> DEFINE u == SubSeq(s, 1, n)
             v == SubSeq(s, n + 1, Len(s))
             t == u \o v
  <2>0. /\ u \in Seq(Item) /\ v \in Seq(Item) /\ Len(u) = n /\ Len(v) = Len(s) - n
        /\ \A i \in 1 .. n : u[i] = s[i]
        /\ \A i \in 1 .. Len(s) - n : v[i] = s[n + i]
    BY <1>1
  <2> HIDE DEF u, v
  <2>1. t \in Seq(Item) /\ Len(t) = Len(s)
    BY <2>0
  <2>2. \A i \in 1 .. Len(s) : t[i] = s[i]
    <3>1. \A i \in 1 .. Len(u) + Len(v) :
             t[i] = IF i <= Len(u) THEN u[i] ELSE v[i - Len(u)]
      BY <2>0, ConcatProperties
    <3>2. \A i \in 1 .. Len(s) : t[i] = IF i <= n THEN u[i] ELSE v[i - n]
      BY <3>1, <2>0, SMTT(30)
    <3> QED BY <3>2, <2>0
  <2> HIDE DEF t
  <2>3. t = s
    BY <2>1, <2>2, SeqEqual
  <2> QED BY <2>3 DEF t, u, v
<1>3. Obstacles(SubSeq(s, 1, n) \o SubSeq(s, n + 1, Len(s)))
         = Obstacles(SubSeq(s, 1, n)) \cup Obstacles(SubSeq(s, n + 1, Len(s)))
  BY <1>1, ObstaclesConcat
<1> QED BY <1>1, <1>2, <1>3

\* What a reader of one update keeps and what it leaves.
LEMMA ObstaclesRead ==
    ASSUME NEW s \in Seq(Item), s # <<>>, IsHeader(Head(s)), NEW n \in Nat, n < Len(s)
    PROVE  Obstacles(s) \subseteq
             Obstacles(SubSeq(s, 2, n + 1)) \cup Obstacles(SubSeq(s, n + 2, Len(s)))
<1>1. n + 1 \in 0 .. Len(s)
  OBVIOUS
<1> DEFINE u == SubSeq(s, 2, n + 1)
           v == SubSeq(s, n + 2, Len(s))
<1>2. u \in Seq(Item) /\ Len(u) = n /\ \A i \in 1 .. n : u[i] = s[i + 1]
  BY SubSeqProperties
<1>3. v \in Seq(Item) /\ Len(v) = Len(s) - (n + 1)
      /\ \A i \in 1 .. Len(s) - (n + 1) : v[i] = s[n + 1 + i]
  BY <1>1, ObstaclesCut
<1> HIDE DEF u, v
<1> SUFFICES ASSUME NEW c \in Obstacles(s) PROVE c \in Obstacles(u) \cup Obstacles(v)
  BY DEF u, v
<1>4. PICK i \in 1 .. Len(s) : ~IsHeader(s[i]) /\ s[i][2] = c
  BY ObstaclesOf
<1>5. i # 1
  BY <1>4
<1>6. CASE i <= n + 1
  <2>1. i - 1 \in 1 .. Len(u) /\ u[i - 1] = s[i]
    BY <1>2, <1>5, <1>6
  <2> QED BY <2>1, <1>2, <1>4, ObstaclesOf
<1>7. CASE i > n + 1
  <2>1. i - (n + 1) \in 1 .. Len(v) /\ v[i - (n + 1)] = s[i]
    BY <1>3, <1>7
  <2> QED BY <2>1, <1>3, <1>4, ObstaclesOf
<1> QED BY <1>6, <1>7

-----------------------------------------------------------------------------
(***************************************************************************)
(* The answers to a reading: the obstacle it shows, and maybe all.         *)
(***************************************************************************)
Answers(k) == {Update(k, 1 .. k, f, bad) : f \in BOOLEAN, bad \in BOOLEAN}

\* An answer to reading k is neither empty nor anything but units of an update.
LEMMA AnswerShape ==
    ASSUME MaxReadings \in Nat, NEW k \in 1 .. MaxReadings, NEW a \in Answers(k)
    PROVE  /\ a \in Seq(Item) /\ Len(a) \in {2, 2 + k}
           /\ a[1] \in {Header(k, Len(a) - 1, bad) : bad \in BOOLEAN}
           /\ a[2] = Unit(k)
           /\ \A i \in 3 .. Len(a) : a[i] = Unit(SetToSeq(1 .. k)[i - 2])
<1>1. PICK f \in BOOLEAN, bad \in BOOLEAN : a = Update(k, 1 .. k, f, bad)
  BY DEF Answers
<1>2. /\ a \in Seq(Item)
      /\ Len(a) = 2 + (IF f THEN k ELSE 0)
      /\ a[1] = Header(k, Len(a) - 1, bad)
      /\ a[2] = Unit(k)
      /\ \A i \in 3 .. Len(a) : a[i] = Unit(SetToSeq(1 .. k)[i - 2])
  BY <1>1, UpdateShape, SMTT(30)
<1>3. Len(a) \in {2, 2 + k}
  BY <1>2
<1> QED BY <1>2, <1>3

\* A resend makes an answer longer unless the new obstacle is the only one.
LEMMA AnswerLong ==
    ASSUME MaxReadings \in Nat, NEW k \in 1 .. MaxReadings, NEW a \in Answers(k)
    PROVE  a \in Seq(Item) /\ Len(a) \in Nat /\ Len(a) >= 2 /\ a # <<>>
<1>1. a \in Seq(Item) /\ Len(a) \in {2, 2 + k}
  BY AnswerShape
<1>2. Len(a) >= 2 /\ Len(a) \in Nat
  BY <1>1, SMTT(30)
<1>3. a = <<>> => Len(a) = 0
  OBVIOUS
<1> QED BY <1>1, <1>2, <1>3

\* A new obstacle is in every answer, and all are in one that was asked for.
LEMMA AnswerCovers ==
    ASSUME MaxReadings \in Nat, NEW k \in 1 .. MaxReadings, NEW f \in BOOLEAN,
           NEW bad \in BOOLEAN
    PROVE  /\ k \in Obstacles(Update(k, 1 .. k, f, bad))
           /\ f => 1 .. k \subseteq Obstacles(Update(k, 1 .. k, f, bad))
<1> DEFINE a == Update(k, 1 .. k, f, bad)
<1>1. /\ a \in Seq(Item)
      /\ Len(a) = 2 + (IF f THEN k ELSE 0)
      /\ a[2] = Unit(k)
      /\ \A i \in 3 .. Len(a) : a[i] = Unit(SetToSeq(1 .. k)[i - 2])
  BY UpdateShape
<1> HIDE DEF a
<1>2. \A c : ~IsHeader(Unit(c)) /\ Unit(c)[2] = c
  BY DEF IsHeader, Unit
<1>3. k \in Obstacles(a)
  <2>1. 2 \in 1 .. Len(a)
    BY <1>1
  <2> QED BY <2>1, <1>1, <1>2, ObstaclesOf
<1>4. ASSUME f, NEW c \in 1 .. k PROVE c \in Obstacles(a)
  <2>0. k \in Nat
    OBVIOUS
  <2>1. PICK i \in 1 .. k : SetToSeq(1 .. k)[i] = c
    BY <2>0, SeqOfSet
  <2>2. i + 2 \in 3 .. Len(a) /\ i + 2 \in 1 .. Len(a) /\ (i + 2) - 2 = i
    BY <1>1, <1>4, <2>0
  <2>3. a[i + 2] = Unit(c)
    BY <1>1, <2>1, <2>2
  <2> QED BY <2>2, <2>3, <1>1, <1>2, ObstaclesOf
<1> QED BY <1>3, <1>4 DEF a

\* sendPipe of the first n units of one replica covers those it takes from
\* another: answers differ in their headers and their ends only.
LEMMA SendCovers ==
    ASSUME MaxReadings \in Nat, NEW k \in 1 .. MaxReadings,
           NEW a \in Answers(k) \cup {<<>>}, NEW b \in Answers(k) \cup {<<>>},
           NEW n \in Nat, n <= Len(a), n <= Len(b)
    PROVE  Obstacles(b) \subseteq
             Obstacles(SubSeq(a, 1, n)) \cup Obstacles(SubSeq(b, n + 1, Len(b)))
<1>1. a \in Seq(Item) /\ b \in Seq(Item)
  BY AnswerShape, EmptySeq
<1> DEFINE u == SubSeq(a, 1, n)
           v == SubSeq(b, n + 1, Len(b))
<1>2. u \in Seq(Item) /\ Len(u) = n /\ \A i \in 1 .. n : u[i] = a[i]
  BY <1>1, ObstaclesCut
<1>3. v \in Seq(Item) /\ Len(v) = Len(b) - n /\ \A i \in 1 .. Len(b) - n : v[i] = b[n + i]
  BY <1>1, ObstaclesCut
<1> HIDE DEF u, v
<1> SUFFICES ASSUME NEW c \in Obstacles(b) PROVE c \in Obstacles(u) \cup Obstacles(v)
  BY DEF u, v
<1>4. PICK i \in 1 .. Len(b) : ~IsHeader(b[i]) /\ b[i][2] = c
  BY <1>1, ObstaclesOf
<1>5. b \in Answers(k)
  BY <1>4
<1>6. i # 1
  BY <1>4, <1>5, AnswerShape DEF Header, IsHeader
<1>7. CASE i <= n
  <2>1. a \in Answers(k)
    BY <1>4, <1>7
  <2>2. a[i] = b[i]
    <3>1. CASE i = 2
      BY <3>1, <2>1, <1>5, AnswerShape
    <3>2. CASE i # 2
      <4>1. i \in 3 .. Len(a) /\ i \in 3 .. Len(b)
        BY <1>6, <1>7, <1>1, <3>2
      <4> QED BY <4>1, <2>1, <1>5, AnswerShape
    <3> QED BY <3>1, <3>2
  <2>3. i \in 1 .. Len(u) /\ u[i] = b[i]
    BY <2>2, <1>2, <1>7
  <2> QED BY <2>3, <1>2, <1>4, ObstaclesOf
<1>8. CASE i > n
  <2>1. i - n \in 1 .. Len(v) /\ v[i - n] = b[i]
    BY <1>1, <1>3, <1>8
  <2> QED BY <2>1, <1>3, <1>4, ObstaclesOf
<1> QED BY <1>7, <1>8

-----------------------------------------------------------------------------
(***************************************************************************)
(* Whole updates.                                                          *)
(***************************************************************************)
Whole(s) ==
    /\ s # <<>> => IsHeader(s[1])
    /\ \A i \in DOMAIN s :
         IsHeader(s[i]) =>
             LET next == i + s[i][3] + 1 IN
             /\ ~s[i][4]
             /\ next <= Len(s) + 1
             /\ \A j \in i + 1 .. next - 1 : ~IsHeader(s[j])
             /\ next \in DOMAIN s => IsHeader(s[next])

\* The number that a header states.
LEMMA HeaderCount ==
    ASSUME NEW u \in Item, IsHeader(u)
    PROVE  u[3] \in Nat /\ u[4] \in BOOLEAN
BY DEF Item, IsHeader

\* What a sequence of whole updates says of one header in it.
LEMMA WholeAt ==
    ASSUME NEW s \in Seq(Item), Whole(s), NEW p \in 1 .. Len(s), IsHeader(s[p]),
           NEW m, m = s[p][3]
    PROVE  /\ m \in Nat /\ ~s[p][4]
           /\ p + m <= Len(s)
           /\ \A j \in p + 1 .. p + m : ~IsHeader(s[j])
           /\ p + m < Len(s) => IsHeader(s[p + m + 1])
<1>1. s[p] \in Item /\ p \in DOMAIN s
  OBVIOUS
<1>2. m \in Nat
  BY <1>1, HeaderCount
<1>3. LET next == p + m + 1 IN
      /\ ~s[p][4]
      /\ next <= Len(s) + 1
      /\ \A j \in p + 1 .. next - 1 : ~IsHeader(s[j])
      /\ next \in DOMAIN s => IsHeader(s[next])
  BY <1>1 DEF Whole
<1>4. (p + m + 1) - 1 = p + m
  BY <1>2
<1>5. p + m < Len(s) => p + m + 1 \in DOMAIN s
  BY <1>2
<1>6. p + m <= Len(s)
  BY <1>2, <1>3
<1>7. \A j \in p + 1 .. p + m : ~IsHeader(s[j])
  BY <1>3, <1>4
<1>8. p + m < Len(s) => IsHeader(s[p + m + 1])
  BY <1>3, <1>5
<1> QED BY <1>2, <1>3, <1>6, <1>7, <1>8

\* A sequence is one of whole updates as soon as each of its headers is right.
LEMMA WholeIf ==
    ASSUME NEW s \in Seq(Item), s # <<>> => IsHeader(s[1]),
           \A p \in 1 .. Len(s) : \A m \in Nat :
              IsHeader(s[p]) /\ m = s[p][3] =>
              /\ ~s[p][4]
              /\ p + m <= Len(s)
              /\ \A j \in p + 1 .. p + m : ~IsHeader(s[j])
              /\ p + m < Len(s) => IsHeader(s[p + m + 1])
    PROVE  Whole(s)
<1> SUFFICES ASSUME NEW p \in 1 .. Len(s), IsHeader(s[p])
             PROVE  LET next == p + s[p][3] + 1 IN
                    /\ ~s[p][4]
                    /\ next <= Len(s) + 1
                    /\ \A j \in p + 1 .. next - 1 : ~IsHeader(s[j])
                    /\ next \in DOMAIN s => IsHeader(s[next])
  BY DEF Whole
<1> DEFINE m == s[p][3]
<1>1. m \in Nat
  BY HeaderCount
<1>2. /\ ~s[p][4]
      /\ p + m <= Len(s)
      /\ \A j \in p + 1 .. p + m : ~IsHeader(s[j])
      /\ p + m < Len(s) => IsHeader(s[p + m + 1])
  BY <1>1
<1> HIDE DEF m
<1>3. (p + m + 1) - 1 = p + m /\ p + m + 1 <= Len(s) + 1
  BY <1>1, <1>2
<1>4. p + m + 1 \in DOMAIN s => p + m < Len(s)
  BY <1>1
<1> QED BY <1>2, <1>3, <1>4 DEF m

\* Whole updates after whole updates.
LEMMA WholeConcat ==
    ASSUME NEW s \in Seq(Item), NEW t \in Seq(Item), Whole(s), Whole(t)
    PROVE  Whole(s \o t)
<1> DEFINE w == s \o t
<1>1. /\ w \in Seq(Item) /\ Len(w) = Len(s) + Len(t)
      /\ \A i \in 1 .. Len(s) + Len(t) :
           w[i] = IF i <= Len(s) THEN s[i] ELSE t[i - Len(s)]
  BY ConcatProperties
<1> HIDE DEF w
<1>2. Len(s) \in Nat /\ Len(t) \in Nat
  OBVIOUS
<1>3. w # <<>> => IsHeader(w[1])
  <2> SUFFICES ASSUME w # <<>> PROVE IsHeader(w[1])
    OBVIOUS
  <2>1. CASE s # <<>>
    BY <2>1, <1>1, <1>2 DEF Whole
  <2>2. CASE s = <<>>
    <3>1. Len(s) = 0 /\ Len(t) > 0 /\ t # <<>>
      BY <2>2, <1>1, EmptySeq
    <3>2. w[1] = t[1]
      BY <3>1, <1>1
    <3> QED BY <3>1, <3>2 DEF Whole
  <2> QED BY <2>1, <2>2
<1>4. ASSUME NEW i \in 1 .. Len(w), NEW n \in Nat, IsHeader(w[i]), n = w[i][3]
      PROVE  /\ ~w[i][4]
             /\ i + n <= Len(w)
             /\ \A j \in i + 1 .. i + n : ~IsHeader(w[j])
             /\ i + n < Len(w) => IsHeader(w[i + n + 1])
  <2>1. CASE i <= Len(s)
    <3>1. w[i] = s[i] /\ i \in 1 .. Len(s)
      BY <1>1, <1>2, <2>1
    <3>2. /\ ~s[i][4]
          /\ i + n <= Len(s)
          /\ \A j \in i + 1 .. i + n : ~IsHeader(s[j])
          /\ i + n < Len(s) => IsHeader(s[i + n + 1])
      BY <3>1, <1>4, WholeAt
    <3>3. \A j \in i + 1 .. i + n : j \in 1 .. Len(s) + Len(t) /\ j <= Len(s)
      BY <3>2, <1>2
    <3>4. \A j \in i + 1 .. i + n : w[j] = s[j]
      BY <3>3, <1>1
    <3>5. ASSUME i + n < Len(w) PROVE IsHeader(w[i + n + 1])
      <4>1. CASE i + n < Len(s)
        BY <4>1, <3>2, <1>1, <1>2
      <4>2. CASE i + n = Len(s)
        <5>1. w[i + n + 1] = t[1] /\ Len(t) > 0 /\ t # <<>>
          BY <4>2, <3>5, <1>1, <1>2, EmptySeq
        <5> QED BY <5>1 DEF Whole
      <4> QED BY <4>1, <4>2, <3>2, <1>2
    <3>6. i + n <= Len(w)
      BY <3>2, <1>1, <1>2
    <3> QED BY <3>1, <3>2, <3>4, <3>5, <3>6
  <2>2. CASE i > Len(s)
    <3> DEFINE p == i - Len(s)
    <3>1. w[i] = t[p] /\ p \in 1 .. Len(t)
      BY <1>1, <1>2, <2>2
    <3>2. /\ ~t[p][4]
          /\ p + n <= Len(t)
          /\ \A j \in p + 1 .. p + n : ~IsHeader(t[j])
          /\ p + n < Len(t) => IsHeader(t[p + n + 1])
      BY <3>1, <1>4, WholeAt
    <3>3. \A j \in i + 1 .. i + n :
             /\ j \in 1 .. Len(s) + Len(t) /\ ~(j <= Len(s))
             /\ j - Len(s) \in p + 1 .. p + n
      BY <3>1, <3>2, <1>2, <2>2
    <3>4. \A j \in i + 1 .. i + n : w[j] = t[j - Len(s)]
      BY <3>3, <1>1
    <3>5. i + n < Len(w) => w[i + n + 1] = t[p + n + 1] /\ p + n < Len(t)
      <4> SUFFICES ASSUME i + n < Len(w)
                   PROVE  w[i + n + 1] = t[p + n + 1] /\ p + n < Len(t)
        OBVIOUS
      <4>1. /\ i + n + 1 \in 1 .. Len(s) + Len(t) /\ ~(i + n + 1 <= Len(s))
            /\ i + n + 1 - Len(s) = p + n + 1 /\ p + n < Len(t)
        BY <1>1, <1>2, <2>2
      <4> QED BY <4>1, <1>1
    <3>6. i + n <= Len(w)
      BY <3>2, <1>1, <1>2
    <3> QED BY <3>1, <3>2, <3>3, <3>4, <3>5, <3>6
  <2> QED BY <2>1, <2>2, <1>2
<1>5. Whole(w)
  BY <1>1, <1>3, <1>4, WholeIf
<1> QED BY <1>5 DEF w

\* What AStar leaves unread after one whole update is whole updates.
LEMMA WholeRest ==
    ASSUME NEW s \in Seq(Item), Whole(s), s # <<>>, Len(s) > Head(s)[3]
    PROVE  Whole(SubSeq(s, Head(s)[3] + 2, Len(s)))
<1> DEFINE n == s[1][3]
           v == SubSeq(s, n + 2, Len(s))
<1>1. Head(s) = s[1] /\ s[1] \in Item /\ IsHeader(s[1]) /\ 1 \in DOMAIN s
  BY DEF Whole
<1>2. n \in Nat
  BY <1>1, HeaderCount
<1>3. n + 2 \in 1 .. Len(s) => IsHeader(s[n + 2])
  BY <1>1, <1>2 DEF Whole
<1> HIDE DEF n
<1>4. n < Len(s)
  BY <1>1 DEF n
<1>5. v \in Seq(Item) /\ Len(v) = Len(s) - (n + 1)
      /\ \A i \in 1 .. Len(s) - (n + 1) : v[i] = s[n + 1 + i]
  <2>1. n + 1 \in 0 .. Len(s)
    BY <1>2, <1>4
  <2>2. n + 2 = n + 1 + 1
    BY <1>2
  <2> QED BY <2>1, <2>2, ObstaclesCut
<1> HIDE DEF v
<1>6. v # <<>> => IsHeader(v[1])
  <2> SUFFICES ASSUME v # <<>> PROVE IsHeader(v[1])
    OBVIOUS
  <2>1. Len(v) > 0
    BY <1>5, EmptySeq
  <2> QED BY <2>1, <1>2, <1>3, <1>5
<1>7. ASSUME NEW i \in 1 .. Len(v), NEW m \in Nat, IsHeader(v[i]), m = v[i][3]
      PROVE  /\ ~v[i][4]
             /\ i + m <= Len(v)
             /\ \A j \in i + 1 .. i + m : ~IsHeader(v[j])
             /\ i + m < Len(v) => IsHeader(v[i + m + 1])
  <2> DEFINE p == n + 1 + i
  <2>1. v[i] = s[p] /\ p \in 1 .. Len(s)
    BY <1>2, <1>5
  <2>2. /\ ~s[p][4]
        /\ p + m <= Len(s)
        /\ \A j \in p + 1 .. p + m : ~IsHeader(s[j])
        /\ p + m < Len(s) => IsHeader(s[p + m + 1])
    BY <2>1, <1>7, WholeAt
  <2>3. i + m <= Len(v)
    BY <2>2, <1>2, <1>5
  <2>4. \A j \in i + 1 .. i + m :
           j \in 1 .. Len(s) - (n + 1) /\ n + 1 + j \in p + 1 .. p + m
    BY <2>3, <1>2, <1>5
  <2>5. \A j \in i + 1 .. i + m : v[j] = s[n + 1 + j]
    BY <2>4, <1>5
  <2>6. i + m < Len(v) => v[i + m + 1] = s[p + m + 1] /\ p + m < Len(s)
    <3> SUFFICES ASSUME i + m < Len(v)
                 PROVE  v[i + m + 1] = s[p + m + 1] /\ p + m < Len(s)
      OBVIOUS
    <3>1. i + m + 1 \in 1 .. Len(s) - (n + 1)
      BY <1>2, <1>5
    <3>2. n + 1 + (i + m + 1) = p + m + 1 /\ p + m < Len(s)
      BY <1>2, <1>5
    <3> QED BY <3>1, <3>2, <1>5
  <2> QED BY <2>1, <2>2, <2>3, <2>4, <2>5, <2>6
<1>8. Whole(v)
  BY <1>5, <1>6, <1>7, WholeIf
<1> QED BY <1>8, <1>1 DEF v, n

\* An update that was not corrupted is whole.
LEMMA WholeUpdate ==
    ASSUME MaxReadings \in Nat, NEW k \in 1 .. MaxReadings, NEW f \in BOOLEAN
    PROVE  Whole(Update(k, 1 .. k, f, FALSE))
<1> DEFINE a == Update(k, 1 .. k, f, FALSE)
<1>1. /\ a \in Seq(Item)
      /\ Len(a) = 2 + (IF f THEN k ELSE 0)
      /\ a[1] = Header(k, Len(a) - 1, FALSE)
      /\ a[2] = Unit(k)
      /\ \A i \in 3 .. Len(a) : a[i] = Unit(SetToSeq(1 .. k)[i - 2])
  BY UpdateShape
<1> HIDE DEF a
<1>2. \A i \in 2 .. Len(a) : ~IsHeader(a[i])
  BY <1>1 DEF IsHeader, Unit
<1>3. IsHeader(a[1]) /\ a[1][3] = Len(a) - 1 /\ a[1][4] = FALSE
  BY <1>1 DEF IsHeader, Header
<1>4. \A p \in 1 .. Len(a) : IsHeader(a[p]) => p = 1
  BY <1>2
<1>5. \A p \in 1 .. Len(a) : \A m \in Nat :
        IsHeader(a[p]) /\ m = a[p][3] =>
        /\ ~a[p][4]
        /\ p + m <= Len(a)
        /\ \A j \in p + 1 .. p + m : ~IsHeader(a[j])
        /\ p + m < Len(a) => IsHeader(a[p + m + 1])
  <2> SUFFICES ASSUME NEW m \in Nat, m = a[1][3]
               PROVE  /\ ~a[1][4]
                      /\ 1 + m <= Len(a)
                      /\ \A j \in 1 + 1 .. 1 + m : ~IsHeader(a[j])
                      /\ 1 + m < Len(a) => IsHeader(a[1 + m + 1])
    BY <1>4
  <2>0. Len(a) \in Nat
    BY <1>1, LenProperties
  <2>1. 1 + m = Len(a)
    BY <2>0, <1>3
  <2> QED BY <2>1, <1>2, <1>3
<1>6. Whole(a)
  BY <1>1, <1>3, <1>5, WholeIf
<1> QED BY <1>6 DEF a

-----------------------------------------------------------------------------
(***************************************************************************)
(* What a round keeps.                                                     *)
(***************************************************************************)

\* Readings given to the replicas so far: obstacles 1 .. Current.
Current == sensed - Len(ext_data)

\* What the voter has or may still read from a replica.
Pending(r) == buffers[r] \o rep_out[r]

\* At most one reading waits, the latest.
Queues ==
    /\ sensed <= MaxReadings
    /\ ext_data = <<>> \/ (sensed > 0 /\ ext_data = <<sensed>>)
    /\ timer_started => Current > 0

\* Types, with those of the pipes that carry units.
Types ==
    /\ TypeOK
    /\ buffers \in [Reps -> Seq(Item)] /\ rep_out \in [Reps -> Seq(Item)]
    /\ ext_out \in Seq(Item)
    /\ insertSDC \in [Reps -> BOOLEAN] /\ insertCFE \in [Reps -> BOOLEAN]
    /\ Queues

\* A round: replica r has the reading, or its answer is with the voter in one
\* piece, in the voting buffer or in the pipe.
Answering(r) ==
    /\ buffers[r] = <<>> \/ rep_out[r] = <<>>
    /\ Pending(r) \in Answers(Current) \cup {<<>>}
    /\ status[r] = "up" /\ Pending(r) = <<>> =>
         rep_data[r] = <<Current>> /\ obstacle_map[r] = 1 .. Current - 1
    /\ status[r] = "up" /\ Pending(r) # <<>> =>
         rep_data[r] = <<>> /\ DATA \notin selected[r] /\ obstacle_map[r] = 1 .. Current

\* Between two rounds: replica r has handled every reading so far.
Idle(r) ==
    /\ rep_out[r] = <<>>
    /\ status[r] = "up" =>
         rep_data[r] = <<>> /\ DATA \notin selected[r] /\ obstacle_map[r] = 1 .. Current

\* A round lasts from processData to the vote, and the voting buffers that are
\* alike when none is on are empty.
Rounds ==
    /\ timer_started => \A r \in Reps : Answering(r)
    /\ ~timer_started => \A r \in Reps : Idle(r)
    /\ ~timer_started /\ CheckSync => \A r \in Reps : buffers[r] = <<>>

\* select() reports only what can be read, and nothing else reads it.
AcksThere == \A r \in Reps : status[r] = "up" /\ ACK \in selected[r] => rep_ack[r] # <<>>

\* Some acknowledgement asks to resend all.
Asked(s) == \E i \in DOMAIN s : s[i]

\* A request to resend all is on its way, at whichever point between AStar and
\* replica r.
Due(r) ==
    \/ planner.request_all \/ Asked(ext_ack) \/ Asked(rep_ack[r]) \/ resending_all[r]

\* What AStar knows or will learn of what replica r has answered.
Known(r) == planner.map \cup Obstacles(ext_out) \cup Obstacles(Pending(r))

\* NothingForgotten, of every replica that runs, faulty or not: a restart may
\* make any of them the healthy one.
Covered == \A r \in Reps : status[r] = "up" => Due(r) \/ obstacle_map[r] \subseteq Known(r)

\* The rounds, which no fault disturbs.
RoundInv == Types /\ Rounds /\ AcksThere

-----------------------------------------------------------------------------
\* Two replicas or three.
LEMMA Instance ==
    ASSUME Types
    PROVE  /\ rep_count \in {2, 3} /\ config.prompt \in BOOLEAN
           /\ Reps = IF rep_count = 2 THEN {0, 1} ELSE {0, 1, 2}
           /\ MaxReadings \in Nat
<1>1. config \in [rep_count : 2..3, prompt : BOOLEAN, kinds : SUBSET {"kill", "sdc", "cfe"}]
  BY MapperVoteAssumption DEF Types, TypeOK, MapperVoteAssumption
<1>2. rep_count \in {2, 3}
  BY <1>1 DEF rep_count
<1>3. Reps = IF rep_count = 2 THEN {0, 1} ELSE {0, 1, 2}
  <2>1. CASE rep_count = 2
    <3>1. Reps = 0 .. 1
      BY <2>1 DEF Reps
    <3> QED BY <3>1, <2>1
  <2>2. CASE rep_count = 3
    <3>1. Reps = 0 .. 2
      BY <2>2 DEF Reps
    <3> QED BY <3>1, <2>2
  <2> QED BY <2>1, <2>2, <1>2
<1> QED BY <1>1, <1>2, <1>3, MapperVoteAssumption DEF MapperVoteAssumption

\* Readings are numbered from one, and at most one is waiting.
LEMMA CurrentType ==
    ASSUME Types
    PROVE  /\ Current \in 0 .. MaxReadings
           /\ timer_started => Current \in 1 .. MaxReadings
<1>1. sensed \in Nat /\ MaxReadings \in Nat
  BY Instance DEF Types, TypeOK
<1>2. Len(ext_data) \in {0, 1} /\ Len(ext_data) <= sensed
  <2>1. CASE ext_data = <<>>
    BY <2>1, <1>1
  <2>2. CASE sensed > 0 /\ ext_data = <<sensed>>
    <3>1. Len(ext_data) = 1
      BY <2>2
    <3> QED BY <3>1, <2>2, <1>1
  <2> QED BY <2>1, <2>2 DEF Types, Queues
<1> QED BY <1>1, <1>2 DEF Types, Queues, Current

\* getBytesReady: what every replica has, and one has no more than that.
LEMMA Ready ==
    ASSUME Types, NEW b \in [Reps -> Seq(Item)]
    PROVE  /\ BytesReady(b) \in Nat
           /\ \E q \in Reps : BytesReady(b) = Len(b[q])
           /\ \A q \in Reps : BytesReady(b) <= Len(b[q])
<1>1. \A q \in Reps : Len(b[q]) \in Nat
  BY LenProperties
<1>2. \E n \in {Len(b[r]) : r \in Reps} : \A r \in Reps : n <= Len(b[r])
  <2>1. CASE rep_count = 2
    <3>1. Reps = {0, 1}
      BY <2>1, Instance
    <3> QED BY <3>1, <1>1
  <2>2. CASE rep_count = 3
    <3>1. Reps = {0, 1, 2}
      BY <2>2, Instance
    <3> QED BY <3>1, <1>1, SMTT(30)
  <2> QED BY <2>1, <2>2, Instance
<1>3. /\ BytesReady(b) \in {Len(b[r]) : r \in Reps}
      /\ \A r \in Reps : BytesReady(b) <= Len(b[r])
  BY <1>2 DEF BytesReady
<1> QED BY <1>1, <1>3

\* What is pending of a replica is units of an update.
LEMMA PendingType ==
    ASSUME Types, NEW r \in Reps
    PROVE  /\ Pending(r) \in Seq(Item)
           /\ buffers[r] = <<>> => Pending(r) = rep_out[r]
           /\ rep_out[r] = <<>> => Pending(r) = buffers[r]
           /\ Pending(r) = <<>> <=> buffers[r] = <<>> /\ rep_out[r] = <<>>
<1>1. buffers[r] \in Seq(Item) /\ rep_out[r] \in Seq(Item)
  BY DEF Types
<1>2. Len(Pending(r)) = Len(buffers[r]) + Len(rep_out[r]) /\ Pending(r) \in Seq(Item)
  BY <1>1 DEF Pending
<1>3. Pending(r) = <<>> => Len(buffers[r]) = 0 /\ Len(rep_out[r]) = 0
  <2> SUFFICES ASSUME Pending(r) = <<>> PROVE Len(buffers[r]) = 0 /\ Len(rep_out[r]) = 0
    OBVIOUS
  <2>1. Len(Pending(r)) = 0
    OBVIOUS
  <2>2. Len(buffers[r]) \in Nat /\ Len(rep_out[r]) \in Nat
    BY <1>1, LenProperties
  <2>3. Len(Pending(r)) = Len(buffers[r]) + Len(rep_out[r])
    BY <1>2
  <2> DEFINE x == Len(buffers[r])
             y == Len(rep_out[r])
  <2>4. x + y = 0 /\ x \in Nat /\ y \in Nat
    BY <2>1, <2>2, <2>3
  <2> HIDE DEF x, y
  <2>5. x = 0 /\ y = 0
    BY <2>4
  <2> QED BY <2>5 DEF x, y
<1> QED BY <1>1, <1>2, <1>3, ConcatEmptySeq, EmptySeq DEF Pending

\* Requests in two sequences of acknowledgements, one after the other.
LEMMA AskedConcat ==
    ASSUME NEW s \in Seq(BOOLEAN), NEW t \in Seq(BOOLEAN)
    PROVE  Asked(s \o t) <=> Asked(s) \/ Asked(t)
<1> DEFINE w == s \o t
<1>1. /\ w \in Seq(BOOLEAN) /\ Len(w) = Len(s) + Len(t)
      /\ \A i \in 1 .. Len(s) + Len(t) :
           w[i] = IF i <= Len(s) THEN s[i] ELSE t[i - Len(s)]
      /\ DOMAIN w = 1 .. Len(s) + Len(t)
  BY ConcatProperties
<1> HIDE DEF w
<1>2. Len(s) \in Nat /\ Len(t) \in Nat /\ DOMAIN s = 1 .. Len(s) /\ DOMAIN t = 1 .. Len(t)
  OBVIOUS
<1>3. ASSUME Asked(w) PROVE Asked(s) \/ Asked(t)
  <2>1. PICK i \in 1 .. Len(s) + Len(t) : w[i]
    BY <1>1, <1>3 DEF Asked
  <2>2. CASE i <= Len(s)
    BY <2>1, <2>2, <1>1, <1>2, SMTT(30) DEF Asked
  <2>3. CASE i > Len(s)
    <3>1. i - Len(s) \in DOMAIN t /\ t[i - Len(s)]
      BY <2>1, <2>3, <1>1, <1>2
    <3> QED BY <3>1 DEF Asked
  <2> QED BY <2>2, <2>3, <1>2
<1>4. ASSUME Asked(s) PROVE Asked(w)
  <2>1. PICK i \in 1 .. Len(s) : s[i]
    BY <1>2, <1>4 DEF Asked
  <2>2. i \in DOMAIN w /\ w[i]
    BY <2>1, <1>1, <1>2
  <2> QED BY <2>2 DEF Asked
<1>5. ASSUME Asked(t) PROVE Asked(w)
  <2>1. PICK i \in 1 .. Len(t) : t[i]
    BY <1>2, <1>5 DEF Asked
  <2>2. i + Len(s) \in DOMAIN w /\ w[i + Len(s)]
    <3>1. i + Len(s) \in 1 .. Len(s) + Len(t) /\ ~(i + Len(s) <= Len(s))
          /\ (i + Len(s)) - Len(s) = i
      BY <1>2
    <3> QED BY <3>1, <2>1, <1>1
  <2> QED BY <2>2 DEF Asked
<1> QED BY <1>3, <1>4, <1>5 DEF w

\* A request in a sequence of one.
LEMMA AskedOne ==
    ASSUME NEW x \in BOOLEAN
    PROVE  Asked(<<x>>) <=> x
<1> DEFINE u == <<x>>
<1>1. DOMAIN u = {1} /\ u[1] = x
  OBVIOUS
<1> HIDE DEF u
<1>2. Asked(u) <=> u[1]
  BY <1>1 DEF Asked
<1>3. Asked(u) <=> x
  BY <1>1, <1>2
<1> QED BY <1>3 DEF u

\* Reading an acknowledgement loses no other request.
LEMMA AskedTail ==
    ASSUME NEW s \in Seq(BOOLEAN), s # <<>>
    PROVE  /\ Tail(s) \in Seq(BOOLEAN) /\ Head(s) \in BOOLEAN
           /\ Asked(s) <=> Head(s) \/ Asked(Tail(s))
<1>1. /\ Tail(s) \in Seq(BOOLEAN) /\ Head(s) \in BOOLEAN
      /\ s = <<Head(s)>> \o Tail(s)
  BY HeadTailProperties
<1>2. Asked(<<Head(s)>>) <=> Head(s)
  BY <1>1, AskedOne
<1>3. Asked(<<Head(s)>> \o Tail(s)) <=> Asked(<<Head(s)>>) \/ Asked(Tail(s))
  <2>1. <<Head(s)>> \in Seq(BOOLEAN)
    BY <1>1
  <2> QED BY <2>1, <1>1, AskedConcat
<1> QED BY <1>1, <1>2, <1>3

\* There is no request where there is no acknowledgement.
LEMMA AskedNone == ~Asked(<<>>)
BY DEF Asked

\* A step that leaves the voter's pipes and the readings alone keeps the
\* round, as long as it brings no replica back and no reading is imagined.
LEMMA RoundsFrame ==
    ASSUME Rounds,
           UNCHANGED <<config, timer_started, buffers, rep_out, obstacle_map, rep_data>>,
           Current' = Current,
           \A r \in Reps : status'[r] = "up" => status[r] = "up",
           \A r \in Reps : status[r] = "up" /\ DATA \in selected'[r] =>
                             DATA \in selected[r] \/ rep_data[r] # <<>>
    PROVE  Rounds'
<1>1. Reps' = Reps /\ (\A r : Pending(r)' = Pending(r)) /\ CheckSync' = CheckSync
      /\ Answers(Current)' = Answers(Current)
  BY DEF Reps, rep_count, Pending, CheckSync, Answers, Update, Header, Unit
<1>2. ASSUME timer_started, NEW r \in Reps PROVE Answering(r)'
  <2>1. Answering(r)
    BY <1>2 DEF Rounds
  <2> QED BY <1>1, <2>1 DEF Answering
<1>3. ASSUME ~timer_started, NEW r \in Reps PROVE Idle(r)'
  <2>1. Idle(r)
    BY <1>3 DEF Rounds
  <2> QED BY <1>1, <2>1 DEF Idle
<1> QED BY <1>1, <1>2, <1>3 DEF Rounds

\* And what AStar knows only grows by it, when no update is taken off its way.
LEMMA CoveredFrame ==
    ASSUME Covered,
           UNCHANGED <<config, buffers, rep_out, obstacle_map, ext_out, planner, ext_ack>>,
           \A r \in Reps : status'[r] = "up" =>
               /\ status[r] = "up"
               /\ Asked(rep_ack[r]) \/ resending_all[r] =>
                    Asked(rep_ack'[r]) \/ resending_all'[r]
    PROVE  Covered'
<1>1. Reps' = Reps
  BY DEF Reps, rep_count
<1> SUFFICES ASSUME NEW r \in Reps, status'[r] = "up"
             PROVE  Due(r)' \/ obstacle_map'[r] \subseteq Known(r)'
  BY <1>1 DEF Covered
<1>2. Due(r) \/ obstacle_map[r] \subseteq Known(r)
  BY DEF Covered
<1>3. Due(r) => Due(r)'
  BY DEF Due, Asked
<1>4. Known(r)' = Known(r)
  BY DEF Known, Pending, Obstacles, IsHeader
<1> QED BY <1>2, <1>3, <1>4

\* Initially nothing is known and AStar asks for everything.
LEMMA InitRound ==
    ASSUME Init
    PROVE  RoundInv /\ Covered
<1>1. config \in Instances /\ rep_count \in {2, 3} /\ MaxReadings \in Nat
  BY MapperVoteAssumption DEF Init, MapperVoteAssumption, rep_count
<1>2. Types
  <2>1. TypeOK
    <3>1. planner \in [map : SUBSET (1 .. MaxReadings), request_all : BOOLEAN]
      BY DEF Init
    <3>2. ext_data \in Seq(Nat) /\ ext_ack \in Seq(BOOLEAN)
      BY DEF Init
    <3>3. rep_data \in [Reps -> Seq(Nat)] /\ rep_ack \in [Reps -> Seq(BOOLEAN)]
      BY DEF Init
    <3> QED BY <1>1, <3>1, <3>2, <3>3 DEF Init, TypeOK
  <2>2. Queues
    BY <1>1 DEF Init, Queues
  <2> QED BY <2>1, <2>2 DEF Init, Types
<1>3. Current = 0
  <2>1. Len(ext_data) = 0 /\ sensed = 0
    BY DEF Init
  <2> QED BY <2>1 DEF Current
<1>4. Rounds
  <2>1. \A r \in Reps : Idle(r)
    BY <1>3 DEF Init, Idle
  <2>2. ~timer_started /\ \A r \in Reps : buffers[r] = <<>>
    BY DEF Init
  <2> QED BY <2>1, <2>2 DEF Rounds
<1>5. AcksThere
  BY DEF Init, AcksThere
<1>6. Covered
  BY DEF Init, Covered, Due
<1> QED BY <1>2, <1>4, <1>5, <1>6 DEF RoundInv

\* A reading from outside waits its turn.
LEMMA SendReadingStep ==
    ASSUME RoundInv, Covered, SendReading, UNCHANGED config
    PROVE  RoundInv' /\ Covered'
<1> USE DEF SendReading, extVars, voterVars, repVars, histVars
<1>1. Reps' = Reps /\ sensed \in Nat /\ MaxReadings \in Nat
  BY Instance DEF RoundInv, Types, TypeOK, Reps, rep_count
<1>2. Current' = Current /\ Current = sensed
  BY <1>1 DEF Current
<1>3. Types'
  <2>1. TypeOK'
    BY <1>1 DEF RoundInv, Types, TypeOK
  <2>2. Queues'
    BY <1>1, <1>2 DEF RoundInv, Types, Queues
  <2> QED BY <1>1, <2>1, <2>2 DEF RoundInv, Types
<1>4. Rounds'
  BY <1>1, <1>2, RoundsFrame DEF RoundInv
<1>5. AcksThere'
  BY <1>1 DEF RoundInv, AcksThere
<1>6. Covered'
  BY <1>1, CoveredFrame
<1> QED BY <1>3, <1>4, <1>5, <1>6 DEF RoundInv

\* A unit that is no header names an obstacle there is.
LEMMA ItemObstacles ==
    ASSUME NEW s \in Seq(Item)
    PROVE  Obstacles(s) \subseteq 1 .. MaxReadings
<1> SUFFICES ASSUME NEW c \in Obstacles(s) PROVE c \in 1 .. MaxReadings
  OBVIOUS
<1>1. PICK i \in 1 .. Len(s) : ~IsHeader(s[i]) /\ s[i][2] = c
  BY ObstaclesOf
<1>2. s[i] \in Item
  OBVIOUS
<1> QED BY <1>1, <1>2 DEF Item, IsHeader

\* AStar reads an update: what was on its way is in its map, and what it asked
\* for is in an acknowledgement.
LEMMA RecvMapUpdateStep ==
    ASSUME RoundInv, Covered, RecvMapUpdate, UNCHANGED config
    PROVE  RoundInv' /\ Covered'
<1> USE DEF RecvMapUpdate, extVars, voterVars, repVars, histVars
<1>1. Reps' = Reps /\ MaxReadings \in Nat
  BY Instance DEF RoundInv, Types, Reps, rep_count
<1>2. Current' = Current
  BY DEF Current
<1> DEFINE n == Head(ext_out)[3]
           read == SubSeq(ext_out, 2, n + 1)
           rest == SubSeq(ext_out, n + 2, Len(ext_out))
<1>3. ext_out \in Seq(Item) /\ ext_out # <<>> /\ Head(ext_out) \in Item /\ IsHeader(Head(ext_out))
  BY HeadTailProperties DEF RoundInv, Types
<1>4. n \in Nat /\ n < Len(ext_out)
  BY <1>3, HeaderCount
<1> HIDE DEF n
<1>5. read \in Seq(Item) /\ rest \in Seq(Item)
  <2>1. \A i \in 1 .. Len(ext_out) : ext_out[i] \in Item
    BY <1>3
  <2>2. \A i \in 2 .. n + 1 : ext_out[i] \in Item
    BY <1>3, <1>4, <2>1
  <2>3. \A i \in n + 2 .. Len(ext_out) : ext_out[i] \in Item
    BY <1>3, <1>4, <2>1
  <2>4. read \in Seq(Item)
    BY <1>4, <2>2, SubSeqProperties
  <2>5. rest \in Seq(Item)
    BY <1>3, <1>4, <2>3, SubSeqProperties
  <2> QED BY <2>4, <2>5
<1>6. Obstacles(ext_out) \subseteq Obstacles(read) \cup Obstacles(rest)
  BY <1>3, <1>4, ObstaclesRead
<1>7. /\ planner' = [map |-> planner.map \cup Obstacles(read), request_all |-> FALSE]
      /\ ext_out' = rest
      /\ ext_ack' = Append(ext_ack, planner.request_all)
  BY DEF n
<1> HIDE DEF read, rest
<1>8. Obstacles(read) \subseteq 1 .. MaxReadings
  BY <1>5, ItemObstacles
<1>9. Types'
  <2>1. TypeOK'
    <3>1. planner' \in [map : SUBSET (1 .. MaxReadings), request_all : BOOLEAN]
      BY <1>7, <1>8 DEF RoundInv, Types, TypeOK
    <3>2. ext_ack' \in Seq(BOOLEAN)
      BY <1>7 DEF RoundInv, Types, TypeOK
    <3> QED BY <1>1, <3>1, <3>2 DEF RoundInv, Types, TypeOK
  <2>2. Queues'
    BY <1>2 DEF RoundInv, Types, Queues
  <2> QED BY <1>1, <1>5, <1>7, <2>1, <2>2 DEF RoundInv, Types
<1>10. Rounds'
  BY <1>1, <1>2, RoundsFrame DEF RoundInv
<1>11. AcksThere'
  BY <1>1 DEF RoundInv, AcksThere
<1>12. Covered'
  <2> SUFFICES ASSUME NEW r \in Reps, status[r] = "up"
               PROVE  Due(r)' \/ obstacle_map[r] \subseteq Known(r)'
    BY <1>1 DEF Covered
  <2>1. Due(r) \/ obstacle_map[r] \subseteq Known(r)
    BY DEF Covered
  <2>2. CASE Due(r)
    <3>1. ext_ack \in Seq(BOOLEAN) /\ <<planner.request_all>> \in Seq(BOOLEAN)
      BY DEF RoundInv, Types, TypeOK
    <3>2. ext_ack' = ext_ack \o <<planner.request_all>>
      BY <1>7, <3>1, AppendIsConcat
    <3> DEFINE asks == <<planner.request_all>>
    <3>3. planner.request_all => Asked(asks)
      <4>1. planner.request_all \in BOOLEAN
        BY DEF RoundInv, Types, TypeOK
      <4> QED BY <4>1, AskedOne
    <3> HIDE DEF asks
    <3>4. Asked(ext_ack \o asks) <=> Asked(ext_ack) \/ Asked(asks)
      BY <3>1, AskedConcat DEF asks
    <3>5. Asked(ext_ack)' <=> Asked(ext_ack \o asks)
      BY <3>2 DEF Asked, asks
    <3>6. Due(r)' \/ ~(Asked(ext_ack) \/ planner.request_all)
      BY <3>3, <3>4, <3>5 DEF Due
    <3>7. (Asked(rep_ack[r]))' = Asked(rep_ack[r]) /\ resending_all'[r] = resending_all[r]
      BY DEF Asked
    <3> QED BY <2>2, <3>6, <3>7 DEF Due
  <2>3. CASE obstacle_map[r] \subseteq Known(r)
    <3>1. Known(r) \subseteq Known(r)'
      <4>1. Obstacles(Pending(r))' = Obstacles(Pending(r))
        BY DEF Obstacles, Pending, IsHeader
      <4>2. Obstacles(ext_out)' = Obstacles(rest)
        BY <1>7 DEF Obstacles, IsHeader
      <4>3. planner'.map = planner.map \cup Obstacles(read)
        BY <1>7
      <4> QED BY <4>1, <4>2, <4>3, <1>6 DEF Known
    <3> QED BY <2>3, <3>1
  <2> QED BY <2>1, <2>2, <2>3
<1> QED BY <1>9, <1>10, <1>11, <1>12 DEF RoundInv

\* AStar started anew asks for everything.
LEMMA StartAStarStep ==
    ASSUME RoundInv, Covered, StartAStar, UNCHANGED config
    PROVE  RoundInv' /\ Covered'
<1> USE DEF StartAStar, extVars, voterVars, repVars, histVars
<1>1. Reps' = Reps /\ MaxReadings \in Nat
  BY Instance DEF RoundInv, Types, Reps, rep_count
<1>2. Current' = Current
  BY DEF Current
<1>3. Types'
  <2>1. TypeOK'
    BY <1>1 DEF RoundInv, Types, TypeOK
  <2>2. Queues'
    BY <1>2 DEF RoundInv, Types, Queues
  <2> QED BY <1>1, <2>1, <2>2 DEF RoundInv, Types
<1>4. Rounds'
  BY <1>1, <1>2, RoundsFrame DEF RoundInv
<1>5. AcksThere'
  BY <1>1 DEF RoundInv, AcksThere
<1>6. Covered'
  BY <1>1 DEF Covered, Due
<1> QED BY <1>3, <1>4, <1>5, <1>6 DEF RoundInv

\* select() reports what is there.
LEMMA SelectStep ==
    ASSUME RoundInv, Covered, NEW r \in Reps, Select(r), UNCHANGED config
    PROVE  RoundInv' /\ Covered'
<1> USE DEF extVars, voterVars, repVars, histVars
<1>1. Reps' = Reps /\ Current' = Current
  BY DEF Reps, rep_count, Current, Select
<1> DEFINE ready == {p \in {DATA, ACK} : IF p = DATA THEN rep_data[r] # <<>>
                                                     ELSE rep_ack[r] # <<>>}
<1>2. \/ status' = [status EXCEPT ![r] = "looping"] /\ UNCHANGED selected
      \/ selected' = [selected EXCEPT ![r] = ready] /\ UNCHANGED status
  BY DEF Select
<1>3. /\ DATA \in ready => rep_data[r] # <<>>
      /\ ACK \in ready => rep_ack[r] # <<>>
      /\ ready \subseteq {DATA, ACK}
  BY DEF DATA, ACK
<1> HIDE DEF ready
<1>4. status \in [Reps -> {"up", "looping", "dead"}] /\ selected \in [Reps -> SUBSET {DATA, ACK}]
  BY DEF RoundInv, Types, TypeOK
<1>5. status' \in [Reps -> {"up", "looping", "dead"}] /\ selected' \in [Reps -> SUBSET {DATA, ACK}]
  BY <1>2, <1>3, <1>4
<1>6. \A q \in Reps :
        /\ status'[q] = "up" => status[q] = "up"
        /\ DATA \in selected'[q] => DATA \in selected[q] \/ rep_data[q] # <<>>
        /\ ACK \in selected'[q] => ACK \in selected[q] \/ rep_ack[q] # <<>>
  BY <1>2, <1>3, <1>4
<1>7. UNCHANGED <<extVars, voterVars, rep_data, rep_ack, rep_out, obstacle_map,
                  resending_all, insertSDC, insertCFE, histVars>>
  BY DEF Select
<1>8. Types'
  <2>1. TypeOK'
    BY <1>1, <1>5, <1>7 DEF RoundInv, Types, TypeOK
  <2>2. Queues'
    BY <1>1, <1>7 DEF RoundInv, Types, Queues
  <2> QED BY <1>1, <1>7, <2>1, <2>2 DEF RoundInv, Types
<1>9. Rounds'
  BY <1>1, <1>6, <1>7, RoundsFrame DEF RoundInv
<1>10. AcksThere'
  BY <1>1, <1>6, <1>7 DEF RoundInv, AcksThere
<1>11. Covered'
  BY <1>1, <1>6, <1>7, CoveredFrame
<1> QED BY <1>8, <1>9, <1>10, <1>11 DEF RoundInv

\* A fault kills a replica or sets a flag of it.
LEMMA FaultStep ==
    ASSUME RoundInv, Covered, NEW r \in Reps, NEW kind, Fault(r, kind), UNCHANGED config
    PROVE  RoundInv' /\ Covered'
<1> USE DEF extVars, voterVars, repVars, histVars
<1>1. Reps' = Reps /\ Current' = Current
  BY DEF Reps, rep_count, Current, Fault
<1>2. status' \in [Reps -> {"up", "looping", "dead"}]
      /\ \A q \in Reps : status'[q] = "up" => status[q] = "up"
  BY DEF RoundInv, Types, TypeOK, Fault
<1>3. UNCHANGED <<extVars, voterVars, rep_data, rep_ack, rep_out, selected,
                  obstacle_map, resending_all>>
  BY DEF Fault
<1>4. insertSDC' \in [Reps -> BOOLEAN] /\ insertCFE' \in [Reps -> BOOLEAN]
  <2>1. (insertSDC[r] \/ kind = "sdc") \in BOOLEAN /\ (insertCFE[r] \/ kind = "cfe") \in BOOLEAN
    OBVIOUS
  <2> QED BY <2>1 DEF RoundInv, Types, Fault
<1>5. faulty' \subseteq Reps /\ faults' \in Nat
  BY DEF RoundInv, Types, TypeOK, Fault
<1>6. Types'
  <2>1. TypeOK'
    BY <1>1, <1>2, <1>3, <1>5 DEF RoundInv, Types, TypeOK, Fault
  <2>2. Queues'
    BY <1>1, <1>3 DEF RoundInv, Types, Queues
  <2> QED BY <1>1, <1>3, <1>4, <2>1, <2>2 DEF RoundInv, Types
<1>7. Rounds'
  BY <1>1, <1>2, <1>3, RoundsFrame DEF RoundInv
<1>8. AcksThere'
  BY <1>1, <1>2, <1>3 DEF RoundInv, AcksThere
<1>9. Covered'
  BY <1>1, <1>2, <1>3, CoveredFrame
<1> QED BY <1>6, <1>7, <1>8, <1>9 DEF RoundInv

\* Mapper reads an acknowledgement and keeps its request.
LEMMA RecvAckStep ==
    ASSUME RoundInv, Covered, NEW r \in Reps, RecvAck(r), UNCHANGED config
    PROVE  RoundInv' /\ Covered'
<1> USE DEF extVars, voterVars, repVars, histVars
<1>1. Reps' = Reps /\ Current' = Current
  BY DEF Reps, rep_count, Current, RecvAck
<1>2. rep_ack[r] \in Seq(BOOLEAN) /\ rep_ack[r] # <<>> /\ resending_all[r] \in BOOLEAN
  BY DEF RoundInv, Types, TypeOK, AcksThere, RecvAck
<1>3. /\ Tail(rep_ack[r]) \in Seq(BOOLEAN) /\ Head(rep_ack[r]) \in BOOLEAN
      /\ Asked(rep_ack[r]) <=> Head(rep_ack[r]) \/ Asked(Tail(rep_ack[r]))
  BY <1>2, AskedTail
<1>4. /\ resending_all' = [resending_all EXCEPT ![r] = @ \/ Head(rep_ack[r])]
      /\ rep_ack' = [rep_ack EXCEPT ![r] = Tail(@)]
      /\ selected' = [selected EXCEPT ![r] = {}]
      /\ UNCHANGED <<extVars, voterVars, rep_data, rep_out, status, obstacle_map,
                     insertSDC, insertCFE, histVars>>
  BY DEF RecvAck
<1>5. /\ rep_ack' \in [Reps -> Seq(BOOLEAN)] /\ selected' \in [Reps -> SUBSET {DATA, ACK}]
      /\ rep_ack'[r] = Tail(rep_ack[r]) /\ selected'[r] = {}
      /\ \A q \in Reps \ {r} : rep_ack'[q] = rep_ack[q] /\ selected'[q] = selected[q]
  BY <1>3, <1>4 DEF RoundInv, Types, TypeOK
<1>6. /\ resending_all' \in [Reps -> BOOLEAN]
      /\ resending_all'[r] = (resending_all[r] \/ Head(rep_ack[r]))
      /\ \A q \in Reps \ {r} : resending_all'[q] = resending_all[q]
  <2>1. (resending_all[r] \/ Head(rep_ack[r])) \in BOOLEAN
    BY <1>2, <1>3
  <2> QED BY <2>1, <1>4 DEF RoundInv, Types, TypeOK
<1>7. Types'
  <2>1. TypeOK'
    BY <1>1, <1>4, <1>5, <1>6 DEF RoundInv, Types, TypeOK
  <2>2. Queues'
    BY <1>1, <1>4 DEF RoundInv, Types, Queues
  <2> QED BY <1>1, <1>4, <2>1, <2>2 DEF RoundInv, Types
<1>8. Rounds'
  BY <1>1, <1>4, <1>5, RoundsFrame DEF RoundInv
<1>9. AcksThere'
  <2> SUFFICES ASSUME NEW q \in Reps, status[q] = "up", ACK \in selected'[q]
               PROVE  rep_ack'[q] # <<>>
    BY <1>1, <1>4 DEF AcksThere
  <2>1. q # r
    BY <1>5
  <2> QED BY <2>1, <1>5 DEF RoundInv, AcksThere
<1>10. ASSUME NEW q \in Reps, Asked(rep_ack[q]) \/ resending_all[q]
       PROVE  Asked(rep_ack'[q]) \/ resending_all'[q]
  <2>1. CASE q = r
    BY <2>1, <1>3, <1>5, <1>6, <1>10
  <2>2. CASE q # r
    BY <2>2, <1>5, <1>6, <1>10
  <2> QED BY <2>1, <2>2
<1>11. Covered'
  BY <1>1, <1>4, <1>10, CoveredFrame
<1> QED BY <1>7, <1>8, <1>9, <1>11 DEF RoundInv

\* What a reading finds: a replica that has this one reading and has answered
\* nothing.
LEMMA ReadingIs ==
    ASSUME RoundInv, NEW r \in Reps, status[r] = "up", DATA \in selected[r]
    PROVE  /\ timer_started /\ Current \in 1 .. MaxReadings
           /\ Pending(r) = <<>> /\ buffers[r] = <<>> /\ rep_out[r] = <<>>
           /\ rep_data[r] = <<Current>> /\ obstacle_map[r] = 1 .. Current - 1
<1>1. timer_started
  BY DEF RoundInv, Rounds, Idle, Types, TypeOK
<1>2. Answering(r)
  BY <1>1 DEF RoundInv, Rounds
<1>3. Pending(r) = <<>>
  BY <1>2 DEF Answering
<1> QED BY <1>1, <1>2, <1>3, CurrentType, PendingType DEF Answering, RoundInv

\* Mapper answers a reading: the new obstacle, and all when that is due.
LEMMA RecvReadingStep ==
    ASSUME RoundInv, Covered, NEW r \in Reps, RecvReading(r), UNCHANGED config
    PROVE  RoundInv' /\ Covered'
<1> USE DEF extVars, voterVars, repVars, histVars
<1> DEFINE k == Current
           bad == insertSDC[r]
           f == resending_all[r]
           ans == Update(k, 1 .. k, f, bad)
<1>1. Reps' = Reps /\ Current' = Current /\ MaxReadings \in Nat
  BY Instance DEF RoundInv, Types, Reps, rep_count, Current, RecvReading
<1>2. /\ status[r] = "up" /\ DATA \in selected[r]
      /\ resending_all' = [resending_all EXCEPT ![r] = FALSE]
      /\ rep_data' = [rep_data EXCEPT ![r] = Tail(@)]
      /\ selected' = [selected EXCEPT ![r] = @ \ {DATA}]
      /\ insertSDC' = [insertSDC EXCEPT ![r] = FALSE]
      /\ UNCHANGED <<extVars, voterVars, rep_ack, status, insertCFE, histVars>>
  BY DEF RecvReading
<1>3. /\ timer_started /\ k \in 1 .. MaxReadings
      /\ Pending(r) = <<>> /\ buffers[r] = <<>> /\ rep_out[r] = <<>>
      /\ rep_data[r] = <<k>> /\ obstacle_map[r] = 1 .. k - 1
  BY <1>2, ReadingIs
<1>4. bad \in BOOLEAN /\ f \in BOOLEAN
  BY DEF RoundInv, Types, TypeOK
<1>5. Head(rep_data[r]) = k /\ Tail(rep_data[r]) = <<>>
  BY <1>3
<1>6. obstacle_map' = [obstacle_map EXCEPT ![r] = 1 .. k]
  <2>1. (1 .. k - 1) \cup {k} = 1 .. k
    BY <1>3, <1>1
  <2> QED BY <2>1, <1>3, <1>5 DEF RecvReading
<1>7. obstacle_map' \in [Reps -> SUBSET (1 .. MaxReadings)] /\ obstacle_map'[r] = 1 .. k
      /\ \A q \in Reps \ {r} : obstacle_map'[q] = obstacle_map[q]
  BY <1>6, <1>3, <1>1 DEF RoundInv, Types, TypeOK
<1>8. ans \in Seq(Item) /\ ans # <<>> /\ ans \in Answers(k)
  <2>1. ans \in Answers(k)
    BY <1>4 DEF Answers
  <2> HIDE DEF ans, k
  <2> QED BY <2>1, <1>1, <1>3, AnswerLong
<1>9. rep_out' = [rep_out EXCEPT ![r] = ans]
  <2>1. rep_out' = [rep_out EXCEPT ![r] = @ \o Update(k, 1 .. k, f, bad)]
    BY <1>5, <1>7 DEF RecvReading
  <2>2. <<>> \o ans = ans
    BY <1>8, ConcatEmptySeq
  <2> HIDE DEF ans
  <2>3. rep_out' = [rep_out EXCEPT ![r] = @ \o ans]
    BY <2>1 DEF ans
  <2>4. rep_out[r] \o ans = ans
    BY <2>2, <1>3
  <2> QED BY <2>3, <2>4
<1> HIDE DEF ans, k, f, bad
<1>10. rep_out' \in [Reps -> Seq(Item)] /\ rep_out'[r] = ans
       /\ \A q \in Reps \ {r} : rep_out'[q] = rep_out[q]
  BY <1>8, <1>9 DEF RoundInv, Types
<1>11. /\ rep_data' \in [Reps -> Seq(Nat)] /\ rep_data'[r] = <<>>
       /\ selected' \in [Reps -> SUBSET {DATA, ACK}] /\ DATA \notin selected'[r]
       /\ \A q \in Reps : selected'[q] \subseteq selected[q]
       /\ \A q \in Reps \ {r} : rep_data'[q] = rep_data[q]
       /\ \A q \in Reps \ {r} : selected'[q] = selected[q]
  <2>1. rep_data' = [rep_data EXCEPT ![r] = <<>>]
    BY <1>2, <1>5
  <2>2. rep_data \in [Reps -> Seq(Nat)] /\ selected \in [Reps -> SUBSET {DATA, ACK}]
    BY DEF RoundInv, Types, TypeOK
  <2>3. <<>> \in Seq(Nat)
    OBVIOUS
  <2> QED BY <2>1, <2>2, <2>3, <1>2
<1>12. Pending(r)' = ans /\ \A q \in Reps \ {r} : Pending(q)' = Pending(q)
  <2>1. <<>> \o ans = ans
    BY <1>8, ConcatEmptySeq
  <2> QED BY <2>1, <1>2, <1>3, <1>10 DEF Pending
<1>13. /\ resending_all' \in [Reps -> BOOLEAN] /\ insertSDC' \in [Reps -> BOOLEAN]
       /\ \A q \in Reps \ {r} : resending_all'[q] = resending_all[q]
  BY <1>2 DEF RoundInv, Types, TypeOK
<1>14. Types'
  <2>1. TypeOK'
    BY <1>1, <1>2, <1>7, <1>11, <1>13 DEF RoundInv, Types, TypeOK
  <2>2. Queues'
    BY <1>1, <1>2 DEF RoundInv, Types, Queues
  <2> QED BY <1>1, <1>2, <1>10, <1>13, <2>1, <2>2 DEF RoundInv, Types
<1>15. Rounds'
  <2> SUFFICES ASSUME NEW q \in Reps PROVE Answering(q)'
    BY <1>1, <1>2, <1>3 DEF Rounds
  <2>0. Answers(Current)' = Answers(k)
    BY <1>1 DEF Answers, Update, Header, Unit, k
  <2>1. CASE q = r
    <3>1. buffers'[r] = <<>>
      BY <1>2, <1>3
    <3> QED BY <2>1, <2>0, <3>1, <1>1, <1>2, <1>7, <1>8, <1>11, <1>12 DEF Answering, k
  <2>2. CASE q # r
    <3>1. Answering(q)
      BY <1>3 DEF RoundInv, Rounds
    <3> QED BY <2>2, <2>0, <3>1, <1>1, <1>2, <1>7, <1>10, <1>11, <1>12 DEF Answering, k
  <2> QED BY <2>1, <2>2
<1>16. AcksThere'
  BY <1>1, <1>2, <1>11 DEF RoundInv, AcksThere
<1>17. Covered'
  <2> SUFFICES ASSUME NEW q \in Reps, status[q] = "up"
               PROVE  Due(q)' \/ obstacle_map'[q] \subseteq Known(q)'
    BY <1>1, <1>2 DEF Covered
  <2>1. Due(q) \/ obstacle_map[q] \subseteq Known(q)
    BY DEF Covered
  <2>2. Asked(ext_ack)' = Asked(ext_ack) /\ Asked(rep_ack[q])' = Asked(rep_ack[q])
    BY <1>2 DEF Asked
  <2>3. Obstacles(ext_out)' = Obstacles(ext_out) /\ planner' = planner
    BY <1>2 DEF Obstacles, IsHeader
  <2>4. CASE q # r
    <3>1. Obstacles(Pending(q))' = Obstacles(Pending(q))
      BY <2>4, <1>12 DEF Obstacles, IsHeader
    <3>2. Due(q)' = Due(q)
      BY <2>2, <2>3, <2>4, <1>13 DEF Due
    <3>3. obstacle_map'[q] = obstacle_map[q]
      BY <2>4, <1>7
    <3> QED BY <2>1, <2>3, <3>1, <3>2, <3>3 DEF Known
  <2>5. CASE q = r
    <3>1. Obstacles(Pending(r))' = Obstacles(ans)
      BY <1>12 DEF Obstacles, IsHeader
    <3>2. k \in Obstacles(ans) /\ (f => 1 .. k \subseteq Obstacles(ans))
      BY <1>1, <1>3, <1>4, AnswerCovers DEF ans
    <3>3. CASE f
      BY <2>5, <3>1, <3>2, <3>3, <1>7 DEF Known
    <3>4. CASE ~f /\ Due(r)
      <4>1. planner.request_all \/ Asked(ext_ack) \/ Asked(rep_ack[r])
        BY <3>4 DEF Due, f
      <4> QED BY <2>2, <2>3, <2>5, <4>1 DEF Due
    <3>5. CASE obstacle_map[r] \subseteq Known(r)
      <4>1. Obstacles(Pending(r)) = {}
        BY <1>3 DEF Obstacles
      <4>2. 1 .. k - 1 \subseteq planner.map \cup Obstacles(ext_out)
        BY <3>5, <4>1, <1>3 DEF Known
      <4>3. 1 .. k = (1 .. k - 1) \cup {k}
        BY <1>3, <1>1
      <4> QED BY <2>3, <2>5, <3>1, <3>2, <4>2, <4>3, <1>7 DEF Known
    <3> QED BY <2>1, <2>5, <3>3, <3>4, <3>5
  <2> QED BY <2>4, <2>5
<1> QED BY <1>14, <1>15, <1>16, <1>17 DEF RoundInv

\* processData starts a round: each replica finds the reading in its pipe.
LEMMA ProcessDataStep ==
    ASSUME RoundInv, Covered, ProcessData, UNCHANGED config
    PROVE  RoundInv' /\ Covered'
<1> USE DEF extVars, voterVars, repVars, histVars
<1>1. Reps' = Reps /\ MaxReadings \in Nat /\ sensed \in Nat
  BY Instance DEF RoundInv, Types, TypeOK, Reps, rep_count
<1>2. /\ ~timer_started /\ CheckSync /\ timer_started' = TRUE
      /\ ext_data' = <<>> /\ rep_data' = [r \in Reps |-> rep_data[r] \o ext_data]
      /\ UNCHANGED <<sensed, ext_ack, ext_out, planner, starts, buffers, blamed,
                     rep_ack, rep_out, repVars, histVars>>
  BY DEF ProcessData
<1>3. ext_data = <<sensed>> /\ sensed > 0 /\ sensed <= MaxReadings
  BY DEF ProcessData, RoundInv, Types, Queues
<1>4. Current = sensed - 1 /\ Current' = sensed
  <2>1. Len(ext_data) = 1 /\ Len(ext_data') = 0
    BY <1>2, <1>3
  <2> QED BY <2>1, <1>2, <1>1 DEF Current
<1>5. ext_data \in Seq(Nat)
  BY <1>1, <1>3
<1>6. rep_data' \in [Reps -> Seq(Nat)]
      /\ \A q \in Reps : rep_data[q] = <<>> => rep_data'[q] = <<sensed>>
  <2>1. \A q \in Reps : rep_data[q] \o ext_data \in Seq(Nat)
    BY <1>5 DEF RoundInv, Types, TypeOK
  <2>2. <<>> \o ext_data = <<sensed>>
    BY <1>3, <1>5, ConcatEmptySeq
  <2> QED BY <2>1, <2>2, <1>2
<1>7. Types'
  <2>1. TypeOK'
    BY <1>1, <1>2, <1>6 DEF RoundInv, Types, TypeOK
  <2>2. Queues'
    BY <1>1, <1>2, <1>3, <1>4 DEF RoundInv, Types, Queues
  <2> QED BY <1>1, <1>2, <2>1, <2>2 DEF RoundInv, Types
<1>8. Rounds'
  <2> SUFFICES ASSUME NEW q \in Reps PROVE Answering(q)'
    BY <1>1, <1>2 DEF Rounds
  <2>1. Idle(q) /\ buffers[q] = <<>>
    BY <1>2 DEF RoundInv, Rounds
  <2>2. Pending(q) = <<>> /\ Pending(q)' = Pending(q)
    BY <2>1, <1>2, PendingType DEF RoundInv, Pending, Idle
  <2> QED BY <2>1, <2>2, <1>1, <1>2, <1>4, <1>6 DEF Idle, Answering
<1>9. AcksThere'
  BY <1>1, <1>2 DEF RoundInv, AcksThere
<1>10. Covered'
  BY <1>1, <1>2, CoveredFrame
<1> QED BY <1>7, <1>8, <1>9, <1>10 DEF RoundInv

\* An acknowledgement goes to every replica, and starts no round.
LEMMA ProcessAckStep ==
    ASSUME RoundInv, Covered, ProcessAck, UNCHANGED config
    PROVE  RoundInv' /\ Covered'
<1> USE DEF extVars, voterVars, repVars, histVars
<1>1. Reps' = Reps /\ Current' = Current
  BY DEF ProcessAck, Reps, rep_count, Current
<1>2. /\ ext_ack' = <<>> /\ rep_ack' = [r \in Reps |-> rep_ack[r] \o ext_ack]
      /\ UNCHANGED <<sensed, ext_data, ext_out, planner, starts, voterVars, rep_data,
                     rep_out, repVars, histVars>>
  BY DEF ProcessAck
<1>3. ext_ack \in Seq(BOOLEAN) /\ \A q \in Reps : rep_ack[q] \in Seq(BOOLEAN)
  BY DEF RoundInv, Types, TypeOK
<1>4. \A q \in Reps : /\ rep_ack'[q] = rep_ack[q] \o ext_ack /\ rep_ack'[q] \in Seq(BOOLEAN)
                      /\ rep_ack[q] # <<>> => rep_ack'[q] # <<>>
  <2> SUFFICES ASSUME NEW q \in Reps
               PROVE /\ rep_ack'[q] = rep_ack[q] \o ext_ack /\ rep_ack'[q] \in Seq(BOOLEAN)
                     /\ rep_ack[q] # <<>> => rep_ack'[q] # <<>>
    OBVIOUS
  <2>1. rep_ack'[q] = rep_ack[q] \o ext_ack
    BY <1>2
  <2>2. rep_ack'[q] \in Seq(BOOLEAN) /\ Len(rep_ack'[q]) = Len(rep_ack[q]) + Len(ext_ack)
    BY <2>1, <1>3, ConcatProperties
  <2>3. rep_ack[q] # <<>> => Len(rep_ack[q]) > 0
    BY <1>3, EmptySeq
  <2>4. Len(ext_ack) \in Nat /\ Len(rep_ack[q]) \in Nat
    BY <1>3, LenProperties
  <2>5. rep_ack'[q] = <<>> => Len(rep_ack'[q]) = 0
    OBVIOUS
  <2> QED BY <2>1, <2>2, <2>3, <2>4, <2>5
<1>5. Types'
  <2>1. TypeOK'
    <3>1. rep_ack' \in [Reps -> Seq(BOOLEAN)]
      BY <1>2, <1>4
    <3> QED BY <1>1, <1>2, <3>1 DEF RoundInv, Types, TypeOK
  <2>2. Queues'
    BY <1>1, <1>2 DEF RoundInv, Types, Queues
  <2> QED BY <1>1, <1>2, <2>1, <2>2 DEF RoundInv, Types
<1>6. Rounds'
  BY <1>1, <1>2, RoundsFrame DEF RoundInv
<1>7. AcksThere'
  BY <1>1, <1>2, <1>4 DEF RoundInv, AcksThere
<1>8. Covered'
  <2> SUFFICES ASSUME NEW q \in Reps, status[q] = "up"
               PROVE  Due(q)' \/ obstacle_map[q] \subseteq Known(q)'
    BY <1>1, <1>2 DEF Covered
  <2>1. Due(q) \/ obstacle_map[q] \subseteq Known(q)
    BY DEF Covered
  <2>2. Asked(rep_ack[q] \o ext_ack) <=> Asked(rep_ack[q]) \/ Asked(ext_ack)
    BY <1>3, AskedConcat
  <2>3. Asked(rep_ack[q])' <=> Asked(rep_ack[q] \o ext_ack)
    BY <1>4 DEF Asked
  <2>4. Due(q) => Due(q)'
    BY <2>2, <2>3, <1>2 DEF Due
  <2>5. Known(q)' = Known(q)
    BY <1>2 DEF Known, Pending, Obstacles, IsHeader
  <2> QED BY <2>1, <2>4, <2>5
<1> QED BY <1>5, <1>6, <1>7, <1>8 DEF RoundInv

-----------------------------------------------------------------------------
(***************************************************************************)
(* How a round ends.                                                       *)
(***************************************************************************)

\* e goes on as a copy of s, and every other as itself.
Heir(e, s) == [q \in Reps |-> IF q = e THEN s ELSE q]

\* Replica s is sent from, and replica q goes on as c[q].
Closes(b, c, s) ==
    LET own == [q \in Reps |-> b[c[q]]]
        n   == BytesReady(own)
    IN  /\ ext_out' = ext_out \o SubSeq(b[s], 1, n)
        /\ buffers' = [q \in Reps |-> SubSeq(own[q], n + 1, Len(own[q]))]
        /\ timer_started' = FALSE
        /\ rep_out' = [q \in Reps |-> <<>>]
        /\ rep_data' = [q \in Reps |-> rep_data[c[q]]]
        /\ rep_ack' = [q \in Reps |-> rep_ack[c[q]]]
        /\ status' = [q \in Reps |-> status[c[q]]]
        /\ selected' = [q \in Reps |-> selected[c[q]]]
        /\ obstacle_map' = [q \in Reps |-> obstacle_map[c[q]]]
        /\ resending_all' = [q \in Reps |-> resending_all[c[q]]]
        /\ insertSDC' = [q \in Reps |-> insertSDC[c[q]]]
        /\ insertCFE' = [q \in Reps |-> insertCFE[c[q]]]
        /\ faulty' \subseteq faulty /\ faults' = faults
        /\ UNCHANGED <<config, sensed, ext_data, ext_ack, planner, starts>>

\* The voter has read all that the replicas that run have to say.
Complete(b) ==
    /\ timer_started
    /\ \A q \in Reps : b[q] = Pending(q) /\ (status[q] = "up" => b[q] # <<>>)

\* What is ready once each replica q goes on as c[q].
LEMMA Own ==
    ASSUME Types, NEW b \in [Reps -> Seq(Item)], NEW c \in [Reps -> Reps],
           NEW s \in Reps, c[s] = s
    PROVE  LET own == [q \in Reps |-> b[c[q]]]
               n   == BytesReady(own)
           IN  /\ own \in [Reps -> Seq(Item)] /\ n \in Nat /\ n <= Len(b[s])
               /\ \E q \in Reps : n = Len(b[c[q]])
               /\ \A q \in Reps : n <= Len(b[c[q]])
<1> DEFINE own == [q \in Reps |-> b[c[q]]]
<1>1. own \in [Reps -> Seq(Item)] /\ \A q \in Reps : own[q] = b[c[q]]
  OBVIOUS
<1> HIDE DEF own
<1>2. /\ BytesReady(own) \in Nat
      /\ \E q \in Reps : BytesReady(own) = Len(own[q])
      /\ \A q \in Reps : BytesReady(own) <= Len(own[q])
  BY <1>1, Ready
<1>3. own[s] = b[s]
  BY <1>1
<1>4. /\ own \in [Reps -> Seq(Item)] /\ BytesReady(own) \in Nat /\ BytesReady(own) <= Len(b[s])
      /\ \E q \in Reps : BytesReady(own) = Len(b[c[q]])
      /\ \A q \in Reps : BytesReady(own) <= Len(b[c[q]])
  BY <1>1, <1>2, <1>3
<1> QED BY <1>4 DEF own

\* However a round ends, the next one can start from there, and what is not in
\* a voting buffer any more is on its way to AStar.
LEMMA ClosesStep ==
    ASSUME RoundInv, Covered, NEW b \in [Reps -> Seq(Item)], Complete(b),
           NEW c \in [Reps -> Reps], NEW s \in Reps, c[s] = s, Closes(b, c, s)
    PROVE  RoundInv' /\ Covered'
<1> DEFINE own == [q \in Reps |-> b[c[q]]]
           n   == BytesReady(own)
<1>1. /\ n \in Nat /\ n <= Len(b[s])
      /\ \E q \in Reps : n = Len(b[c[q]])
      /\ \A q \in Reps : n <= Len(b[c[q]])
  BY Own DEF RoundInv
<1>2. /\ ext_out' = ext_out \o SubSeq(b[s], 1, n)
      /\ buffers' = [q \in Reps |-> SubSeq(b[c[q]], n + 1, Len(b[c[q]]))]
      /\ timer_started' = FALSE
      /\ rep_out' = [q \in Reps |-> <<>>]
      /\ rep_data' = [q \in Reps |-> rep_data[c[q]]]
      /\ rep_ack' = [q \in Reps |-> rep_ack[c[q]]]
      /\ status' = [q \in Reps |-> status[c[q]]]
      /\ selected' = [q \in Reps |-> selected[c[q]]]
      /\ obstacle_map' = [q \in Reps |-> obstacle_map[c[q]]]
      /\ resending_all' = [q \in Reps |-> resending_all[c[q]]]
      /\ insertSDC' = [q \in Reps |-> insertSDC[c[q]]]
      /\ insertCFE' = [q \in Reps |-> insertCFE[c[q]]]
      /\ faulty' \subseteq faulty /\ faults' = faults
      /\ UNCHANGED <<config, sensed, ext_data, ext_ack, planner, starts>>
  BY DEF Closes
<1> HIDE DEF n
<1>3. Reps' = Reps /\ Current' = Current /\ MaxReadings \in Nat /\ Current \in 1 .. MaxReadings
  BY <1>2, Instance, CurrentType DEF RoundInv, Reps, rep_count, Current, Complete
<1>4. \A q \in Reps : b[q] = Pending(q) /\ Pending(q) \in Answers(Current) \cup {<<>>}
                      /\ b[q] \in Seq(Item) /\ Len(b[q]) \in Nat
  BY DEF Complete, RoundInv, Rounds, Answering
<1>5. /\ SubSeq(b[s], 1, n) \in Seq(Item)
      /\ \A q \in Reps : /\ SubSeq(b[c[q]], n + 1, Len(b[c[q]])) \in Seq(Item)
                         /\ Len(SubSeq(b[c[q]], n + 1, Len(b[c[q]]))) = Len(b[c[q]]) - n
  <2>1. n \in 0 .. Len(b[s])
    BY <1>1, <1>4
  <2>2. ASSUME NEW q \in Reps
        PROVE  /\ SubSeq(b[c[q]], n + 1, Len(b[c[q]])) \in Seq(Item)
               /\ Len(SubSeq(b[c[q]], n + 1, Len(b[c[q]]))) = Len(b[c[q]]) - n
    <3>1. c[q] \in Reps /\ n \in 0 .. Len(b[c[q]])
      BY <1>1, <1>4
    <3> QED BY <3>1, <1>4, ObstaclesCut
  <2> QED BY <2>1, <2>2, <1>4, ObstaclesCut
<1>6. /\ buffers' \in [Reps -> Seq(Item)] /\ rep_out' \in [Reps -> Seq(Item)]
      /\ ext_out' \in Seq(Item)
      /\ \A q \in Reps : Len(buffers'[q]) = Len(b[c[q]]) - n
  <2>1. ext_out' \in Seq(Item)
    BY <1>2, <1>5, ConcatProperties DEF RoundInv, Types
  <2>2. <<>> \in Seq(Item)
    OBVIOUS
  <2> QED BY <2>1, <2>2, <1>2, <1>5
<1>7. Types'
  <2>1. TypeOK'
    <3>1. /\ rep_data' \in [Reps -> Seq(Nat)] /\ rep_ack' \in [Reps -> Seq(BOOLEAN)]
          /\ status' \in [Reps -> {"up", "looping", "dead"}]
      BY <1>2 DEF RoundInv, Types, TypeOK
    <3>2. /\ selected' \in [Reps -> SUBSET {DATA, ACK}]
          /\ obstacle_map' \in [Reps -> SUBSET (1 .. MaxReadings)]
          /\ resending_all' \in [Reps -> BOOLEAN]
      BY <1>2 DEF RoundInv, Types, TypeOK
    <3>3. faulty' \subseteq Reps /\ timer_started' \in BOOLEAN
      BY <1>2 DEF RoundInv, Types, TypeOK
    <3> QED BY <1>2, <1>3, <3>1, <3>2, <3>3 DEF RoundInv, Types, TypeOK
  <2>2. Queues'
    BY <1>2, <1>3 DEF RoundInv, Types, Queues
  <2>3. insertSDC' \in [Reps -> BOOLEAN] /\ insertCFE' \in [Reps -> BOOLEAN]
    BY <1>2 DEF RoundInv, Types
  <2> QED BY <1>3, <1>6, <2>1, <2>2, <2>3 DEF Types
<1>8. Rounds'
  <2>1. ASSUME NEW q \in Reps PROVE Idle(q)'
    <3>1. Answering(c[q]) /\ (status[c[q]] = "up" => Pending(c[q]) # <<>>)
      BY DEF Complete, RoundInv, Rounds
    <3> QED BY <3>1, <1>2, <1>3 DEF Idle, Answering
  <2>2. ASSUME CheckSync', NEW q \in Reps PROVE buffers'[q] = <<>>
    <3>1. PICK p \in Reps : n = Len(b[c[p]])
      BY <1>1
    <3>2. Len(buffers'[p]) = 0
      <4>1. Len(buffers'[p]) = n - n
        BY <3>1, <1>6
      <4> QED BY <4>1, <1>1
    <3>3. Len(buffers'[q]) = 0
      BY <3>2, <2>2, <1>3 DEF CheckSync
    <3> QED BY <3>3, <1>6, EmptySeq
  <2> QED BY <1>2, <1>3, <2>1, <2>2 DEF Rounds
<1>9. AcksThere'
  BY <1>2, <1>3 DEF RoundInv, AcksThere
<1>10. Covered'
  <2> SUFFICES ASSUME NEW q \in Reps, status'[q] = "up"
               PROVE  Due(q)' \/ obstacle_map'[q] \subseteq Known(q)'
    BY <1>3 DEF Covered
  <2> DEFINE p == c[q]
  <2>1. p \in Reps /\ status[p] = "up"
    BY <1>2
  <2>2. Due(p) \/ obstacle_map[p] \subseteq Known(p)
    BY <2>1 DEF Covered
  <2>3. Due(p) => Due(q)'
    BY <1>2 DEF Due, Asked
  <2>4. Known(p) \subseteq Known(q)'
    <3> DEFINE u == SubSeq(b[s], 1, n)
               v == SubSeq(b[p], n + 1, Len(b[p]))
    <3>1. Obstacles(b[p]) \subseteq Obstacles(u) \cup Obstacles(v)
      <4>1. n <= Len(b[p])
        BY <1>1
      <4>2. b[s] \in Answers(Current) \cup {<<>>} /\ b[p] \in Answers(Current) \cup {<<>>}
        BY <2>1, <1>4
      <4> HIDE DEF p
      <4> QED BY <4>1, <4>2, <1>1, <1>3, SendCovers
    <3>2. u \in Seq(Item) /\ v \in Seq(Item)
      BY <1>5
    <3>3. ext_out' = ext_out \o u /\ buffers'[q] = v /\ rep_out'[q] = <<>>
      BY <1>2
    <3> HIDE DEF u, v
    <3>4. Obstacles(ext_out \o u) = Obstacles(ext_out) \cup Obstacles(u)
      BY <3>2, ObstaclesConcat DEF RoundInv, Types
    <3>5. Obstacles(ext_out)' = Obstacles(ext_out \o u)
      BY <3>3 DEF Obstacles, IsHeader
    <3>6. Pending(q)' = v
      BY <3>2, <3>3, ConcatEmptySeq DEF Pending
    <3>7. Obstacles(Pending(q))' = Obstacles(v)
      BY <3>6 DEF Obstacles, IsHeader
    <3>8. Obstacles(Pending(p)) = Obstacles(b[p])
      BY <2>1, <1>4
    <3>9. planner' = planner
      BY <1>2
    <3> QED BY <3>1, <3>4, <3>5, <3>7, <3>8, <3>9 DEF Known
  <2>5. obstacle_map'[q] = obstacle_map[p]
    BY <1>2
  <2> QED BY <2>2, <2>3, <2>4, <2>5
<1> QED BY <1>7, <1>8, <1>9, <1>10 DEF RoundInv

\* A copy of s is s, and s stays itself.
LEMMA HeirType ==
    ASSUME Types, NEW e \in Reps, NEW s \in Reps
    PROVE  Heir(e, s) \in [Reps -> Reps] /\ Heir(e, s)[s] = s
BY DEF Heir

\* A restart is such an end.
LEMMA RestartCloses ==
    ASSUME Types, NEW b \in [Reps -> Seq(Item)], NEW e \in Reps, NEW s \in Reps, e # s,
           NEW why, NEW out \in [Reps -> Seq(Item)], \A q \in Reps : out[q] = <<>>,
           RestartPrep(b, e, s, why, out), faults' = faults,
           UNCHANGED <<config, sensed, ext_data, ext_ack, planner, starts>>
    PROVE  /\ Closes(b, Heir(e, s), s)
           /\ blamed' = [rep |-> e, why |-> why, healthy |-> e \notin faulty]
           /\ faulty' = faulty \ {e}
<1> DEFINE c == Heir(e, s)
<1>1. /\ rep_data \in [Reps -> Seq(Nat)] /\ rep_ack \in [Reps -> Seq(BOOLEAN)]
      /\ status \in [Reps -> {"up", "looping", "dead"}]
      /\ selected \in [Reps -> SUBSET {DATA, ACK}]
      /\ obstacle_map \in [Reps -> SUBSET (1 .. MaxReadings)]
      /\ resending_all \in [Reps -> BOOLEAN]
      /\ insertSDC \in [Reps -> BOOLEAN] /\ insertCFE \in [Reps -> BOOLEAN]
  BY DEF Types, TypeOK
<1>2. /\ rep_data' = [rep_data EXCEPT ![e] = rep_data[s]]
      /\ rep_ack' = [rep_ack EXCEPT ![e] = rep_ack[s]]
      /\ status' = [status EXCEPT ![e] = status[s]]
      /\ selected' = [selected EXCEPT ![e] = selected[s]]
      /\ obstacle_map' = [obstacle_map EXCEPT ![e] = obstacle_map[s]]
      /\ resending_all' = [resending_all EXCEPT ![e] = resending_all[s]]
      /\ insertSDC' = [insertSDC EXCEPT ![e] = insertSDC[s]]
      /\ insertCFE' = [insertCFE EXCEPT ![e] = insertCFE[s]]
  BY DEF RestartPrep
<1>3. /\ rep_data' = [q \in Reps |-> rep_data[c[q]]]
      /\ rep_ack' = [q \in Reps |-> rep_ack[c[q]]]
      /\ status' = [q \in Reps |-> status[c[q]]]
      /\ selected' = [q \in Reps |-> selected[c[q]]]
      /\ obstacle_map' = [q \in Reps |-> obstacle_map[c[q]]]
      /\ resending_all' = [q \in Reps |-> resending_all[c[q]]]
      /\ insertSDC' = [q \in Reps |-> insertSDC[c[q]]]
      /\ insertCFE' = [q \in Reps |-> insertCFE[c[q]]]
  <2>1. rep_data' = [q \in Reps |-> rep_data[c[q]]]
    BY <1>1, <1>2 DEF Heir
  <2>2. rep_ack' = [q \in Reps |-> rep_ack[c[q]]]
    BY <1>1, <1>2 DEF Heir
  <2>3. status' = [q \in Reps |-> status[c[q]]]
    BY <1>1, <1>2 DEF Heir
  <2>4. selected' = [q \in Reps |-> selected[c[q]]]
    BY <1>1, <1>2 DEF Heir
  <2>5. obstacle_map' = [q \in Reps |-> obstacle_map[c[q]]]
    BY <1>1, <1>2 DEF Heir
  <2>6. resending_all' = [q \in Reps |-> resending_all[c[q]]]
    BY <1>1, <1>2 DEF Heir
  <2>7. insertSDC' = [q \in Reps |-> insertSDC[c[q]]]
    BY <1>1, <1>2 DEF Heir
  <2>8. insertCFE' = [q \in Reps |-> insertCFE[c[q]]]
    BY <1>1, <1>2 DEF Heir
  <2> QED BY <2>1, <2>2, <2>3, <2>4, <2>5, <2>6, <2>7, <2>8
<1>4. rep_out' = [q \in Reps |-> <<>>]
  BY DEF RestartPrep
<1> DEFINE own == [q \in Reps |-> b[c[q]]]
<1>5. [b EXCEPT ![e] = b[s]] = own
  BY DEF Heir
<1>6. SendPipe(own, s)
  BY <1>5 DEF RestartPrep
<1>7. own[s] = b[s]
  BY HeirType
<1>8. /\ ext_out' = ext_out \o SubSeq(b[s], 1, BytesReady(own))
      /\ buffers' = [q \in Reps |-> SubSeq(own[q], BytesReady(own) + 1, Len(own[q]))]
  BY <1>6, <1>7 DEF SendPipe
<1>9. /\ timer_started' = FALSE /\ faulty' = faulty \ {e}
      /\ blamed' = [rep |-> e, why |-> why, healthy |-> e \notin faulty]
  BY DEF RestartPrep
<1>10. Closes(b, c, s)
  BY <1>3, <1>4, <1>8, <1>9 DEF Closes
<1> QED BY <1>9, <1>10

\* And so is a vote that all agree on.
LEMMA SendCloses ==
    ASSUME Types, NEW b \in [Reps -> Seq(Item)], NEW s \in Reps,
           SendPipe(b, s), timer_started' = FALSE, rep_out' = [q \in Reps |-> <<>>],
           UNCHANGED <<config, sensed, ext_data, ext_ack, planner, starts, rep_data,
                       rep_ack, repVars, histVars>>
    PROVE  Closes(b, Heir(s, s), s)
<1> DEFINE c == Heir(s, s)
<1>1. /\ rep_data \in [Reps -> Seq(Nat)] /\ rep_ack \in [Reps -> Seq(BOOLEAN)]
      /\ status \in [Reps -> {"up", "looping", "dead"}]
      /\ selected \in [Reps -> SUBSET {DATA, ACK}]
      /\ obstacle_map \in [Reps -> SUBSET (1 .. MaxReadings)]
      /\ resending_all \in [Reps -> BOOLEAN]
      /\ insertSDC \in [Reps -> BOOLEAN] /\ insertCFE \in [Reps -> BOOLEAN]
  BY DEF Types, TypeOK
<1>2. \A q \in Reps : c[q] = q
  BY DEF Heir
<1> HIDE DEF c
<1>3. /\ rep_data = [q \in Reps |-> rep_data[c[q]]]
      /\ rep_ack = [q \in Reps |-> rep_ack[c[q]]]
      /\ status = [q \in Reps |-> status[c[q]]]
      /\ selected = [q \in Reps |-> selected[c[q]]]
  BY <1>1, <1>2
<1>4. /\ obstacle_map = [q \in Reps |-> obstacle_map[c[q]]]
      /\ resending_all = [q \in Reps |-> resending_all[c[q]]]
      /\ insertSDC = [q \in Reps |-> insertSDC[c[q]]]
      /\ insertCFE = [q \in Reps |-> insertCFE[c[q]]]
  BY <1>1, <1>2
<1> DEFINE own == [q \in Reps |-> b[c[q]]]
<1>5. own = b
  BY <1>2
<1>6. /\ ext_out' = ext_out \o SubSeq(b[s], 1, BytesReady(own))
      /\ buffers' = [q \in Reps |-> SubSeq(own[q], BytesReady(own) + 1, Len(own[q]))]
  BY <1>5 DEF SendPipe
<1>7. Closes(b, c, s)
  BY <1>3, <1>4, <1>6 DEF Closes, repVars, histVars
<1> QED BY <1>7 DEF c

\* The replicas in the order checkSDC compares them in.
LEMMA SuccType ==
    ASSUME Types, NEW s \in Reps
    PROVE  /\ Succ(s, 1) \in Reps /\ Succ(s, 1) # s
           /\ rep_count = 3 => /\ Succ(s, 2) \in Reps /\ Succ(s, 2) # s /\ Succ(s, 2) # Succ(s, 1)
                               /\ Reps = {s, Succ(s, 1), Succ(s, 2)}
           /\ Succ(s, rep_count - 1) \in Reps /\ Succ(s, rep_count - 1) # s
<1>1. CASE rep_count = 2
  <2>1. Reps = {0, 1}
    BY <1>1, Instance
  <2>2. Succ(0, 1) = 1 /\ Succ(1, 1) = 0
    BY <1>1 DEF Succ
  <2> QED BY <1>1, <2>1, <2>2
<1>2. CASE rep_count = 3
  <2>1. Reps = {0, 1, 2}
    BY <1>2, Instance
  <2>2. /\ Succ(0, 1) = 1 /\ Succ(1, 1) = 2 /\ Succ(2, 1) = 0
        /\ Succ(0, 2) = 2 /\ Succ(1, 2) = 0 /\ Succ(2, 2) = 1
    BY <1>2 DEF Succ
  <2> QED BY <1>2, <2>1, <2>2
<1> QED BY <1>1, <1>2, Instance

\* The replica checkSDC goes by is one of the replicas.
LEMMA TrustedType ==
    ASSUME Types, NEW b
    PROVE  /\ Trusted(b) \subseteq Reps /\ Outvoted(b) \subseteq Trusted(b)
           /\ rep_count = 2 => Outvoted(b) = {}
<1>1. 0 \in Reps
  BY Instance
<1> QED BY <1>1 DEF Trusted, Outvoted

\* What the voter compares after it has read from r.
Gather(r) == [buffers EXCEPT ![r] = @ \o rep_out[r]]

\* What it has read of r is all that is pending of r.
LEMMA GatherIs ==
    ASSUME RoundInv, NEW r \in Reps, rep_out[r] # <<>>
    PROVE  /\ timer_started /\ Current \in 1 .. MaxReadings
           /\ Gather(r) \in [Reps -> Seq(Item)]
           /\ Gather(r)[r] = Pending(r) /\ \A q \in Reps \ {r} : Gather(r)[q] = buffers[q]
           /\ BytesReady(Gather(r)) > 0 =>
                /\ Complete(Gather(r)) /\ \A q \in Reps \ {r} : rep_out[q] = <<>>
                /\ \A q \in Reps : Gather(r)[q] \in Answers(Current)
           /\ BytesReady(Gather(r)) = 0 => \E q \in Reps : Gather(r)[q] = <<>>
<1> DEFINE b == Gather(r)
<1>1. timer_started
  BY DEF RoundInv, Rounds, Idle, Types, TypeOK
<1>2. \A q \in Reps : Answering(q)
  BY <1>1 DEF RoundInv, Rounds
<1>3. b \in [Reps -> Seq(Item)]
  BY DEF RoundInv, Types, Gather
<1>4. b[r] = Pending(r) /\ \A q \in Reps \ {r} : b[q] = buffers[q]
  BY DEF RoundInv, Types, Gather, Pending
<1> HIDE DEF b
<1>5. /\ BytesReady(b) \in Nat
      /\ \E q \in Reps : BytesReady(b) = Len(b[q])
      /\ \A q \in Reps : BytesReady(b) <= Len(b[q])
  BY <1>3, Ready DEF RoundInv
<1>6. ASSUME BytesReady(b) > 0
      PROVE  /\ Complete(b) /\ \A q \in Reps \ {r} : rep_out[q] = <<>>
             /\ \A q \in Reps : b[q] \in Answers(Current)
  <2>1. \A q \in Reps : b[q] # <<>>
    <3> SUFFICES ASSUME NEW q \in Reps, b[q] = <<>> PROVE FALSE
      OBVIOUS
    <3>1. Len(b[q]) = 0
      OBVIOUS
    <3> QED BY <3>1, <1>5, <1>6
  <2>2. \A q \in Reps \ {r} : rep_out[q] = <<>>
    BY <2>1, <1>2, <1>4 DEF Answering
  <2>3. \A q \in Reps : b[q] = Pending(q)
    BY <2>2, <1>4, PendingType DEF RoundInv
  <2> QED BY <1>1, <1>2, <2>1, <2>2, <2>3 DEF Complete, Answering
<1>7. ASSUME BytesReady(b) = 0 PROVE \E q \in Reps : b[q] = <<>>
  BY <1>3, <1>5, <1>7, EmptySeq
<1> QED BY <1>1, <1>3, <1>4, <1>6, <1>7, CurrentType DEF b, RoundInv

\* An outvoted replica becomes a copy of one that agreed with another.
Corrects(r) ==
    \E s \in Outvoted(Gather(r)) :
       /\ BytesReady(Gather(r)) > 0
       /\ s \in Reps /\ Succ(s, 2) \in Reps /\ rep_count = 3
       /\ Closes(Gather(r), Heir(Succ(s, 2), s), s)
       /\ blamed' = [rep |-> Succ(s, 2), why |-> "SDC", healthy |-> Succ(s, 2) \notin faulty]
       /\ faulty' = faulty \ {Succ(s, 2)}

\* A vote ends the round without a restart.
Concludes(r) ==
    \E s \in Trusted(Gather(r)) :
       /\ BytesReady(Gather(r)) > 0 /\ Outvoted(Gather(r)) = {}
       /\ s \in Reps
       /\ Closes(Gather(r), Heir(s, s), s)
       /\ UNCHANGED <<blamed, faulty>>

\* The voter waits for more.
Collects(r) ==
    /\ BytesReady(Gather(r)) = 0 \/ Trusted(Gather(r)) = {}
    /\ buffers' = Gather(r) /\ rep_out' = [rep_out EXCEPT ![r] = <<>>]
    /\ timer_started' = TRUE
    /\ UNCHANGED <<config, sensed, ext_data, ext_ack, planner, starts, ext_out, blamed,
                   rep_data, rep_ack, repVars, histVars>>

\* processFromRep and checkSDC end a round by a restart, end it by a vote, or
\* collect on.
LEMMA FromRepCases ==
    ASSUME RoundInv, NEW r \in Reps, ProcessFromRep(r), UNCHANGED config
    PROVE  rep_out[r] # <<>> /\ (Corrects(r) \/ Concludes(r) \/ Collects(r))
<1> DEFINE b == Gather(r)
           out == [rep_out EXCEPT ![r] = <<>>]
<1>1. /\ rep_out[r] # <<>>
      /\ \/ /\ BytesReady(b) > 0
            /\ \E s \in Outvoted(b) : RestartPrep(b, Succ(s, 2), s, "SDC", out)
            /\ UNCHANGED faults
         \/ /\ BytesReady(b) > 0 /\ Outvoted(b) = {}
            /\ \E s \in Trusted(b) : SendPipe(b, s)
            /\ timer_started' = FALSE
            /\ rep_out' = out
            /\ UNCHANGED <<blamed, rep_data, rep_ack, repVars, histVars>>
         \/ /\ BytesReady(b) = 0 \/ Trusted(b) = {}
            /\ buffers' = b /\ rep_out' = out
            /\ timer_started' = TRUE
            /\ UNCHANGED <<ext_out, blamed, rep_data, rep_ack, repVars, histVars>>
      /\ UNCHANGED <<config, sensed, ext_data, ext_ack, planner, starts>>
  BY DEF ProcessFromRep, Gather
<1>2. /\ b \in [Reps -> Seq(Item)]
      /\ BytesReady(b) > 0 => \A q \in Reps \ {r} : rep_out[q] = <<>>
  BY <1>1, GatherIs
<1>3. /\ out \in [Reps -> Seq(Item)] /\ out[r] = <<>>
      /\ \A q \in Reps \ {r} : out[q] = rep_out[q]
      /\ (\A q \in Reps : out[q] = <<>>) => out = [q \in Reps |-> <<>>]
  <2>1. <<>> \in Seq(Item)
    OBVIOUS
  <2> QED BY <2>1 DEF RoundInv, Types
<1> HIDE DEF b, out
<1>4. BytesReady(b) > 0 => (\A q \in Reps : out[q] = <<>>) /\ out = [q \in Reps |-> <<>>]
  BY <1>2, <1>3
<1>5. CASE /\ BytesReady(b) > 0
           /\ \E s \in Outvoted(b) : RestartPrep(b, Succ(s, 2), s, "SDC", out)
           /\ UNCHANGED faults
  <2>1. PICK s \in Outvoted(b) : RestartPrep(b, Succ(s, 2), s, "SDC", out)
    BY <1>5
  <2>2. s \in Reps /\ rep_count = 3
    BY TrustedType DEF RoundInv, Outvoted
  <2>3. Succ(s, 2) \in Reps /\ Succ(s, 2) # s
    BY <2>2, SuccType DEF RoundInv
  <2>4. /\ Closes(b, Heir(Succ(s, 2), s), s)
        /\ blamed' = [rep |-> Succ(s, 2), why |-> "SDC", healthy |-> Succ(s, 2) \notin faulty]
        /\ faulty' = faulty \ {Succ(s, 2)}
    BY <1>1, <1>2, <1>3, <1>4, <1>5, <2>1, <2>2, <2>3, RestartCloses DEF RoundInv
  <2> QED BY <1>1, <1>5, <2>2, <2>3, <2>4 DEF Corrects, b
<1>6. CASE /\ BytesReady(b) > 0 /\ Outvoted(b) = {}
           /\ \E s \in Trusted(b) : SendPipe(b, s)
           /\ timer_started' = FALSE
           /\ rep_out' = out
           /\ UNCHANGED <<blamed, rep_data, rep_ack, repVars, histVars>>
  <2>1. PICK s \in Trusted(b) : SendPipe(b, s)
    BY <1>6
  <2>2. s \in Reps
    BY TrustedType DEF RoundInv
  <2>3. Closes(b, Heir(s, s), s)
    BY <1>1, <1>2, <1>4, <1>6, <2>1, <2>2, SendCloses DEF RoundInv
  <2> QED BY <1>1, <1>6, <2>2, <2>3 DEF Concludes, b, histVars
<1>7. CASE /\ BytesReady(b) = 0 \/ Trusted(b) = {}
           /\ buffers' = b /\ rep_out' = out
           /\ timer_started' = TRUE
           /\ UNCHANGED <<ext_out, blamed, rep_data, rep_ack, repVars, histVars>>
  BY <1>1, <1>7 DEF Collects, b, out
<1> QED BY <1>1, <1>5, <1>6, <1>7

\* The timer expires when every replica that runs has answered.
LEMMA TimeoutCases ==
    ASSUME RoundInv, VoterRestartHandler, UNCHANGED config
    PROVE  /\ Complete(buffers) /\ \A q \in Reps : rep_out[q] = <<>>
           /\ \E e \in Reps :
                /\ \A q \in Reps : Len(buffers[e]) <= Len(buffers[q])
                /\ Succ(e, rep_count - 1) \in Reps /\ Succ(e, rep_count - 1) # e
                /\ Closes(buffers, Heir(e, Succ(e, rep_count - 1)), Succ(e, rep_count - 1))
                /\ blamed' = [rep |-> e, why |-> "timeout", healthy |-> e \notin faulty]
                /\ faulty' = faulty \ {e}
<1>1. /\ timer_started
      /\ \A r \in Reps : /\ rep_out[r] = <<>>
                         /\ status[r] = "up" => rep_data[r] = <<>> /\ selected[r] = {}
      /\ UNCHANGED <<config, sensed, ext_data, ext_ack, planner, starts, faults>>
  BY DEF VoterRestartHandler
<1>2. Complete(buffers)
  <2> SUFFICES ASSUME NEW q \in Reps
               PROVE  buffers[q] = Pending(q) /\ (status[q] = "up" => buffers[q] # <<>>)
    BY <1>1 DEF Complete
  <2>1. buffers[q] = Pending(q)
    BY <1>1, PendingType DEF RoundInv
  <2>2. Answering(q)
    BY <1>1 DEF RoundInv, Rounds
  <2> QED BY <1>1, <2>1, <2>2 DEF Answering
<1>3. PICK e \in Reps :
         /\ \A q \in Reps : Len(buffers[e]) <= Len(buffers[q])
         /\ RestartPrep(buffers, e, Succ(e, rep_count - 1), "timeout", rep_out)
  BY DEF VoterRestartHandler
<1>4. Succ(e, rep_count - 1) \in Reps /\ Succ(e, rep_count - 1) # e
  BY SuccType DEF RoundInv
<1>5. buffers \in [Reps -> Seq(Item)] /\ rep_out \in [Reps -> Seq(Item)]
  BY DEF RoundInv, Types
<1>6. /\ Closes(buffers, Heir(e, Succ(e, rep_count - 1)), Succ(e, rep_count - 1))
      /\ blamed' = [rep |-> e, why |-> "timeout", healthy |-> e \notin faulty]
      /\ faulty' = faulty \ {e}
  BY <1>1, <1>3, <1>4, <1>5, RestartCloses DEF RoundInv
<1> QED BY <1>1, <1>2, <1>3, <1>4, <1>6

\* A round goes on with a little more in the voting buffers.
LEMMA CollectsStep ==
    ASSUME RoundInv, Covered, NEW r \in Reps, rep_out[r] # <<>>, Collects(r)
    PROVE  RoundInv' /\ Covered' /\ \A q \in Reps : Pending(q)' = Pending(q)
<1> USE DEF repVars, histVars
<1>1. Reps' = Reps /\ Current' = Current
  BY DEF Collects, Reps, rep_count, Current
<1>2. /\ timer_started /\ Current \in 1 .. MaxReadings
      /\ Gather(r) \in [Reps -> Seq(Item)]
      /\ Gather(r)[r] = Pending(r) /\ \A q \in Reps \ {r} : Gather(r)[q] = buffers[q]
  BY GatherIs
<1>3. /\ buffers' = Gather(r) /\ rep_out' = [rep_out EXCEPT ![r] = <<>>]
      /\ timer_started' = TRUE
      /\ UNCHANGED <<config, sensed, ext_data, ext_ack, planner, starts, ext_out, blamed,
                     rep_data, rep_ack, repVars, histVars>>
  BY DEF Collects
<1>4. /\ rep_out' \in [Reps -> Seq(Item)] /\ rep_out'[r] = <<>>
      /\ \A q \in Reps \ {r} : rep_out'[q] = rep_out[q]
  <2>1. <<>> \in Seq(Item)
    OBVIOUS
  <2> QED BY <2>1, <1>3 DEF RoundInv, Types
<1>5. ASSUME NEW q \in Reps PROVE Pending(q)' = Pending(q)
  <2>1. CASE q = r
    <3>1. Pending(r) \in Seq(Item)
      BY PendingType DEF RoundInv
    <3>2. Pending(r) \o <<>> = Pending(r)
      BY <3>1, ConcatEmptySeq
    <3>3. Pending(r)' = Pending(r) \o <<>>
      BY <1>2, <1>3, <1>4 DEF Pending
    <3> QED BY <2>1, <3>2, <3>3
  <2>2. CASE q # r
    BY <2>2, <1>2, <1>3, <1>4 DEF Pending
  <2> QED BY <2>1, <2>2
<1>6. Types'
  <2>1. TypeOK'
    BY <1>1, <1>3 DEF RoundInv, Types, TypeOK
  <2>2. Queues'
    BY <1>1, <1>2, <1>3 DEF RoundInv, Types, Queues
  <2> QED BY <1>1, <1>2, <1>3, <1>4, <2>1, <2>2 DEF RoundInv, Types
<1>7. Rounds'
  <2> SUFFICES ASSUME NEW q \in Reps PROVE Answering(q)'
    BY <1>1, <1>3 DEF Rounds
  <2>1. Answering(q)
    BY <1>2 DEF RoundInv, Rounds
  <2>2. Answers(Current)' = Answers(Current)
    BY <1>1 DEF Answers, Update, Header, Unit
  <2>3. buffers'[q] = <<>> \/ rep_out'[q] = <<>>
    BY <2>1, <1>2, <1>3, <1>4 DEF Answering
  <2> QED BY <2>1, <2>2, <2>3, <1>1, <1>3, <1>5 DEF Answering
<1>8. AcksThere'
  BY <1>1, <1>3 DEF RoundInv, AcksThere
<1>9. Covered'
  <2> SUFFICES ASSUME NEW q \in Reps, status[q] = "up"
               PROVE  Due(q)' \/ obstacle_map[q] \subseteq Known(q)'
    BY <1>1, <1>3 DEF Covered
  <2>1. Due(q) \/ obstacle_map[q] \subseteq Known(q)
    BY DEF Covered
  <2>2. Due(q)' = Due(q)
    BY <1>3 DEF Due, Asked
  <2>3. Obstacles(Pending(q))' = Obstacles(Pending(q)) /\ Obstacles(ext_out)' = Obstacles(ext_out)
    BY <1>3, <1>5 DEF Obstacles, IsHeader
  <2> QED BY <2>1, <2>2, <2>3, <1>3 DEF Known
<1> QED BY <1>5, <1>6, <1>7, <1>8, <1>9 DEF RoundInv

-----------------------------------------------------------------------------
\* Nothing is lost when nothing happens.
LEMMA StutterStep ==
    ASSUME RoundInv, Covered, UNCHANGED vars
    PROVE  RoundInv' /\ Covered'
<1> USE DEF vars, extVars, voterVars, repVars, histVars
<1>1. Reps' = Reps /\ Current' = Current
  BY DEF Reps, rep_count, Current
<1>2. Types'
  BY <1>1 DEF RoundInv, Types, TypeOK, Queues
<1>3. Rounds'
  BY <1>1, RoundsFrame DEF RoundInv
<1>4. AcksThere'
  BY <1>1 DEF RoundInv, AcksThere
<1>5. Covered'
  BY <1>1, CoveredFrame
<1> QED BY <1>2, <1>3, <1>4, <1>5 DEF RoundInv

\* Every step keeps the round.
LEMMA RoundStep ==
    ASSUME RoundInv, Covered, [Next]_vars
    PROVE  RoundInv' /\ Covered'
<1>1. CASE UNCHANGED vars
  BY <1>1, StutterStep
<1>2. CASE Outside
  BY <1>2, SendReadingStep, RecvMapUpdateStep, StartAStarStep DEF Outside
<1>3. CASE Replicas
  BY <1>3, SelectStep, RecvReadingStep, RecvAckStep DEF Replicas
<1>4. CASE Injector
  BY <1>4, FaultStep DEF Injector
<1>5. CASE Voter
  <2>1. CASE ProcessData
    BY <1>5, <2>1, ProcessDataStep DEF Voter
  <2>2. CASE ProcessAck
    BY <1>5, <2>2, ProcessAckStep DEF Voter
  <2>3. CASE VoterRestartHandler
    <3>1. PICK e \in Reps :
            /\ Succ(e, rep_count - 1) \in Reps
            /\ Closes(buffers, Heir(e, Succ(e, rep_count - 1)), Succ(e, rep_count - 1))
      BY <1>5, <2>3, TimeoutCases DEF Voter
    <3>2. Complete(buffers) /\ buffers \in [Reps -> Seq(Item)]
      BY <1>5, <2>3, TimeoutCases DEF Voter, RoundInv, Types
    <3>3. /\ Heir(e, Succ(e, rep_count - 1)) \in [Reps -> Reps]
          /\ Heir(e, Succ(e, rep_count - 1))[Succ(e, rep_count - 1)] = Succ(e, rep_count - 1)
      BY <3>1, HeirType DEF RoundInv
    <3> QED BY <3>1, <3>2, <3>3, ClosesStep
  <2>4. ASSUME NEW r \in Reps, ProcessFromRep(r) PROVE RoundInv' /\ Covered'
    <3>1. rep_out[r] # <<>> /\ (Corrects(r) \/ Concludes(r) \/ Collects(r))
      BY <1>5, <2>4, FromRepCases DEF Voter
    <3>2. CASE Collects(r)
      BY <3>1, <3>2, CollectsStep
    <3>3. CASE Corrects(r)
      <4>1. PICK s \in Reps : /\ Succ(s, 2) \in Reps /\ BytesReady(Gather(r)) > 0
                              /\ Closes(Gather(r), Heir(Succ(s, 2), s), s)
        BY <3>3 DEF Corrects
      <4>2. Complete(Gather(r)) /\ Gather(r) \in [Reps -> Seq(Item)]
        BY <3>1, <4>1, GatherIs
      <4>3. Heir(Succ(s, 2), s) \in [Reps -> Reps] /\ Heir(Succ(s, 2), s)[s] = s
        BY <4>1, HeirType DEF RoundInv
      <4> QED BY <4>1, <4>2, <4>3, ClosesStep
    <3>4. CASE Concludes(r)
      <4>1. PICK s \in Reps : BytesReady(Gather(r)) > 0 /\ Closes(Gather(r), Heir(s, s), s)
        BY <3>4 DEF Concludes
      <4>2. Complete(Gather(r)) /\ Gather(r) \in [Reps -> Seq(Item)]
        BY <3>1, <4>1, GatherIs
      <4>3. Heir(s, s) \in [Reps -> Reps] /\ Heir(s, s)[s] = s
        BY HeirType DEF RoundInv
      <4> QED BY <4>1, <4>2, <4>3, ClosesStep
    <3> QED BY <3>1, <3>2, <3>3, <3>4
  <2> QED BY <1>5, <2>1, <2>2, <2>3, <2>4 DEF Voter
<1> QED BY <1>1, <1>2, <1>3, <1>4, <1>5 DEF Next

\* A timer runs exactly as long as an answer is due, and between two readings
\* the replicas that run have the same map: processData never starts a reading
\* while a replica still has an earlier one to handle (voterd.c processData,
\* checkSync).
THEOREM RoundsKept == Spec => [](RoundInv /\ Covered)
<1>1. Init => RoundInv /\ Covered
  BY InitRound
<1>2. RoundInv /\ Covered /\ [Next]_vars => (RoundInv /\ Covered)'
  BY RoundStep
<1> QED BY <1>1, <1>2, PTL DEF Spec

\* MapperVote is type-correct.
THEOREM TypeCorrect == Spec => []TypeOK
<1>1. RoundInv => TypeOK
  BY DEF RoundInv, Types
<1> QED BY <1>1, RoundsKept, PTL

\* No obstacle is forgotten, for any number of readings, faults and starts of
\* AStar and in every configuration, even those in which the vote itself fails:
\* a replica drops resending_all only when it writes everything (mapper.c
\* updateMap), and a restart copies the map together with what is still unsent
\* (voterd.c restart_prep, sendPipe).
THEOREM NothingIsForgotten == Spec => []NothingForgotten
<1>1. Covered => NothingForgotten
  BY DEF Covered, NothingForgotten, Due, Asked, Known, Pending
<1> QED BY <1>1, RoundsKept, PTL

-----------------------------------------------------------------------------
(***************************************************************************)
(* Votes.                                                                  *)
(***************************************************************************)

\* Where the voter can decide: replicas that race are three and have no
\* faults, and two are not corrupted.
Decidable(c) ==
    /\ c.rep_count = 2 => c.prompt /\ "sdc" \notin c.kinds
    /\ ~c.prompt => c.kinds = {}

\* The answer of a replica that works, and that of one with a flipped bit.
Straight(f) == Update(Current, 1 .. Current, f, FALSE)
Crooked(f)  == Update(Current, 1 .. Current, f, TRUE)

\* Replica r is out of order in some way.
Harmed(r) == status[r] # "up" \/ insertSDC[r] \/ insertCFE[r]

\* One replica is out of order at a time, and only by a fault.
Faulty ==
    /\ \A r, q \in faulty : r = q
    /\ faulty # {} => config.kinds # {}
    /\ \A r \in Reps : (Harmed(r) => r \in faulty) /\ (insertSDC[r] => "sdc" \in config.kinds)

\* A replica has answered as one does that was, or was not, asked to resend.
Said(r, f) ==
    \/ Pending(r) \in {<<>>, Straight(f)}
    \/ Pending(r) = Crooked(f) /\ r \in faulty /\ "sdc" \in config.kinds

\* Replicas that run have been asked the same, and have nothing else to read.
InStep(f) ==
    \A r \in Reps :
       /\ Said(r, f)
       /\ status[r] = "up" => rep_ack[r] = <<>> /\ (resending_all[r] <=> f /\ Pending(r) = <<>>)

\* Replica r will send everything with its next answer.
Owed(r) == Asked(rep_ack[r]) \/ resending_all[r]

\* The replicas that run owe AStar the same.
Alike == \A r, q \in Reps : status[r] = "up" /\ status[q] = "up" => (Owed(r) <=> Owed(q))

\* Promptly, every replica answers a reading in the same way. When they race,
\* each gives one of two answers.
StepInv ==
    /\ Whole(ext_out)
    /\ Faulty
    /\ timer_started /\ config.prompt => \E f \in BOOLEAN : InStep(f)
    /\ timer_started /\ ~config.prompt =>
         \A r \in Reps : \E f \in BOOLEAN : Pending(r) \in {<<>>, Straight(f)}
    /\ ~timer_started /\ config.prompt => Alike
    /\ timer_started => \E r \in Reps : buffers[r] = <<>>
    /\ ~timer_started => \A r \in Reps : buffers[r] = <<>>

\* Only TMR says that it caught an SDC, and promptly it says so of a faulty one.
Blamed == blamed.why = "SDC" => rep_count = 3 /\ (config.prompt => ~blamed.healthy)

\* Where the voter cannot decide, it still blames nobody for no reason.
VoteInv == (Decidable(config) => StepInv) /\ Blamed

-----------------------------------------------------------------------------
\* A step that leaves the answers alone keeps the replicas in step.
LEMMA StepFrame ==
    ASSUME Types, StepInv, Whole(ext_out)',
           UNCHANGED <<config, timer_started, buffers, rep_out, faulty, insertSDC>>,
           Current' = Current,
           \A r \in Reps : Harmed(r)' => Harmed(r),
           timer_started /\ config.prompt =>
             \A r \in Reps : status'[r] = "up" =>
                /\ status[r] = "up"
                /\ rep_ack'[r] = rep_ack[r] /\ resending_all'[r] = resending_all[r],
           ~timer_started /\ config.prompt => Alike'
    PROVE  StepInv'
<1>1. Reps' = Reps /\ \A r : Pending(r)' = Pending(r)
  BY DEF Reps, rep_count, Pending
<1>2. \A f : Straight(f)' = Straight(f) /\ Crooked(f)' = Crooked(f)
  BY DEF Straight, Crooked, Update, Header, Unit
<1>3. Faulty'
  BY <1>1 DEF StepInv, Faulty
<1>4. ASSUME timer_started, config.prompt PROVE \E f \in BOOLEAN : InStep(f)'
  <2>1. PICK f \in BOOLEAN : InStep(f)
    BY <1>4 DEF StepInv
  <2>2. \A r \in Reps : Said(r, f)'
    BY <1>1, <1>2, <2>1 DEF InStep, Said
  <2>3. InStep(f)'
    BY <1>1, <1>4, <2>1, <2>2 DEF InStep
  <2> QED BY <2>3
<1>5. ASSUME timer_started, ~config.prompt, NEW r \in Reps
      PROVE  \E f \in BOOLEAN : Pending(r)' \in {<<>>, Straight(f)'}
  BY <1>1, <1>2, <1>5 DEF StepInv
<1> QED BY <1>1, <1>3, <1>4, <1>5 DEF StepInv

\* Initially they are in step.
LEMMA InitStep ==
    ASSUME Init
    PROVE  VoteInv
<1>1. Blamed
  BY DEF Init, Blamed, Nobody
<1>2. Faulty
  BY DEF Init, Faulty, Harmed
<1>3. Alike
  BY DEF Init, Alike, Owed, Asked
<1>4. Whole(ext_out)
  BY DEF Init, Whole
<1>5. ~timer_started /\ \A r \in Reps : buffers[r] = <<>>
  BY DEF Init
<1> QED BY <1>1, <1>2, <1>3, <1>4, <1>5 DEF VoteInv, StepInv

\* A reading that waits does not matter to the replicas.
LEMMA SendReadingVote ==
    ASSUME RoundInv, StepInv, SendReading, UNCHANGED config
    PROVE  StepInv'
<1> USE DEF SendReading, voterVars, repVars, histVars
<1>1. Current' = Current /\ Reps' = Reps
  BY DEF RoundInv, Types, TypeOK, Current, Reps, rep_count
<1>2. Whole(ext_out)'
  BY DEF StepInv, Whole, IsHeader
<1>3. \A r \in Reps : Harmed(r)' => Harmed(r)
  BY DEF Harmed
<1>4. ~timer_started /\ config.prompt => Alike'
  BY <1>1 DEF StepInv, Alike, Owed, Asked
<1> QED BY <1>1, <1>2, <1>3, <1>4, StepFrame DEF RoundInv

\* Nor does an AStar that is started anew.
LEMMA StartAStarVote ==
    ASSUME RoundInv, StepInv, StartAStar, UNCHANGED config
    PROVE  StepInv'
<1> USE DEF StartAStar, voterVars, repVars, histVars
<1>1. Current' = Current /\ Reps' = Reps
  BY DEF Current, Reps, rep_count
<1>2. Whole(ext_out)'
  BY DEF StepInv, Whole, IsHeader
<1>3. \A r \in Reps : Harmed(r)' => Harmed(r)
  BY DEF Harmed
<1>4. ~timer_started /\ config.prompt => Alike'
  BY <1>1 DEF StepInv, Alike, Owed, Asked
<1> QED BY <1>1, <1>2, <1>3, <1>4, StepFrame DEF RoundInv

\* AStar takes one whole update and leaves whole updates.
LEMMA RecvMapUpdateVote ==
    ASSUME RoundInv, StepInv, RecvMapUpdate, UNCHANGED config
    PROVE  StepInv'
<1> USE DEF RecvMapUpdate, voterVars, repVars, histVars
<1>1. Current' = Current /\ Reps' = Reps
  BY DEF Current, Reps, rep_count
<1>2. Whole(ext_out)'
  <2>1. ext_out \in Seq(Item) /\ ext_out # <<>> /\ Whole(ext_out) /\ Len(ext_out) > Head(ext_out)[3]
    BY DEF RoundInv, Types, StepInv
  <2>2. ext_out' = SubSeq(ext_out, Head(ext_out)[3] + 2, Len(ext_out))
    OBVIOUS
  <2>3. Whole(SubSeq(ext_out, Head(ext_out)[3] + 2, Len(ext_out)))
    BY <2>1, WholeRest
  <2>4. \A s : s = ext_out' /\ Whole(s) => Whole(ext_out)'
    BY DEF Whole, IsHeader
  <2> QED BY <2>2, <2>3, <2>4
<1>3. \A r \in Reps : Harmed(r)' => Harmed(r)
  BY DEF Harmed
<1>4. ~timer_started /\ config.prompt => Alike'
  BY <1>1 DEF StepInv, Alike, Owed, Asked
<1> QED BY <1>1, <1>2, <1>3, <1>4, StepFrame DEF RoundInv

\* select() gives no answer.
LEMMA SelectVote ==
    ASSUME RoundInv, StepInv, NEW r \in Reps, Select(r), UNCHANGED config
    PROVE  StepInv'
<1> USE DEF extVars, voterVars, histVars
<1>1. Current' = Current /\ Reps' = Reps
  BY DEF Current, Reps, rep_count, Select
<1>2. Whole(ext_out)'
  BY DEF StepInv, Whole, IsHeader, Select
<1>3. \A q \in Reps : /\ status'[q] = "up" => status[q] = "up"
                      /\ Harmed(q)' => Harmed(q)
  BY DEF Harmed, Select, RoundInv, Types, TypeOK
<1>4. ~timer_started /\ config.prompt => Alike'
  <2>1. \A q \in Reps : Owed(q)' = Owed(q)
    BY DEF Owed, Asked, Select
  <2> QED BY <1>1, <1>3, <2>1 DEF StepInv, Alike
<1>5. UNCHANGED <<timer_started, buffers, rep_out, faulty, insertSDC, rep_ack, resending_all>>
  BY DEF Select
<1> QED BY <1>1, <1>2, <1>3, <1>4, <1>5, StepFrame DEF RoundInv

\* Promptly, an acknowledgement is read only between rounds, and the replica
\* owes the same as before.
LEMMA RecvAckVote ==
    ASSUME RoundInv, StepInv, NEW r \in Reps, RecvAck(r), UNCHANGED config
    PROVE  StepInv'
<1> USE DEF extVars, voterVars, histVars
<1>1. Current' = Current /\ Reps' = Reps
  BY DEF Current, Reps, rep_count, RecvAck
<1>2. Whole(ext_out)'
  BY DEF StepInv, Whole, IsHeader, RecvAck
<1>3. UNCHANGED <<timer_started, buffers, rep_out, faulty, insertSDC, insertCFE, status>>
  BY DEF RecvAck
<1>4. \A q \in Reps : Harmed(q)' => Harmed(q)
  BY <1>3 DEF Harmed
<1>5. rep_ack[r] \in Seq(BOOLEAN) /\ rep_ack[r] # <<>> /\ status[r] = "up"
  BY DEF RoundInv, Types, TypeOK, AcksThere, RecvAck
<1>6. ~(timer_started /\ config.prompt)
  BY <1>5 DEF StepInv, InStep
<1>7. \A q \in Reps : Owed(q)' <=> Owed(q)
  <2>1. Asked(rep_ack[r]) <=> Head(rep_ack[r]) \/ Asked(Tail(rep_ack[r]))
    BY <1>5, AskedTail
  <2>2. /\ resending_all' = [resending_all EXCEPT ![r] = @ \/ Head(rep_ack[r])]
        /\ rep_ack' = [rep_ack EXCEPT ![r] = Tail(@)]
    BY DEF RecvAck
  <2>3. /\ rep_ack'[r] = Tail(rep_ack[r])
        /\ resending_all'[r] = (resending_all[r] \/ Head(rep_ack[r]))
        /\ \A q \in Reps \ {r} : rep_ack'[q] = rep_ack[q] /\ resending_all'[q] = resending_all[q]
    BY <2>2 DEF RoundInv, Types, TypeOK
  <2>4. Asked(rep_ack[r])' <=> Asked(Tail(rep_ack[r]))
    BY <2>3 DEF Asked
  <2>5. Owed(r)' <=> Owed(r)
    BY <2>1, <2>3, <2>4 DEF Owed
  <2>6. \A q \in Reps \ {r} : Owed(q)' <=> Owed(q)
    BY <2>3 DEF Owed, Asked
  <2> QED BY <2>5, <2>6
<1>8. ~timer_started /\ config.prompt => Alike'
  BY <1>1, <1>3, <1>7 DEF StepInv, Alike
<1> QED BY <1>1, <1>2, <1>3, <1>4, <1>6, <1>8, StepFrame DEF RoundInv

\* All replicas get the same acknowledgements.
LEMMA ProcessAckVote ==
    ASSUME RoundInv, StepInv, ProcessAck, UNCHANGED config
    PROVE  StepInv'
<1> USE DEF extVars, voterVars, repVars, histVars
<1>1. Current' = Current /\ Reps' = Reps
  BY DEF Current, Reps, rep_count, ProcessAck
<1>2. Whole(ext_out)'
  BY DEF StepInv, Whole, IsHeader, ProcessAck
<1>3. /\ ~timer_started /\ rep_ack' = [q \in Reps |-> rep_ack[q] \o ext_ack]
      /\ UNCHANGED <<timer_started, buffers, rep_out, faulty, insertSDC, insertCFE, status,
                     resending_all>>
  BY DEF ProcessAck
<1>4. \A q \in Reps : Harmed(q)' => Harmed(q)
  BY <1>3 DEF Harmed
<1>5. ASSUME NEW q \in Reps PROVE Owed(q)' <=> Owed(q) \/ Asked(ext_ack)
  <2>1. ext_ack \in Seq(BOOLEAN) /\ rep_ack[q] \in Seq(BOOLEAN)
    BY DEF RoundInv, Types, TypeOK
  <2>2. Asked(rep_ack[q] \o ext_ack) <=> Asked(rep_ack[q]) \/ Asked(ext_ack)
    BY <2>1, AskedConcat
  <2>3. Asked(rep_ack[q])' <=> Asked(rep_ack[q] \o ext_ack)
    BY <1>3 DEF Asked
  <2> QED BY <2>2, <2>3, <1>3 DEF Owed
<1>6. ~timer_started /\ config.prompt => Alike'
  BY <1>1, <1>3, <1>5 DEF StepInv, Alike
<1> QED BY <1>1, <1>2, <1>3, <1>4, <1>6, StepFrame DEF RoundInv

\* A fault strikes one replica when no other is faulty.
LEMMA FaultVote ==
    ASSUME RoundInv, StepInv, NEW r \in Reps, NEW kind \in config.kinds, Fault(r, kind),
           UNCHANGED config
    PROVE  StepInv'
<1> USE DEF extVars, voterVars, histVars
<1>1. Current' = Current /\ Reps' = Reps /\ \A q : Pending(q)' = Pending(q)
  BY DEF Current, Reps, rep_count, Fault, Pending
<1>2. \A f : Straight(f)' = Straight(f) /\ Crooked(f)' = Crooked(f)
  BY <1>1 DEF Straight, Crooked, Update, Header, Unit
<1>3. Whole(ext_out)'
  BY DEF StepInv, Whole, IsHeader, Fault
<1>4. /\ faulty = {} /\ faulty' = {r}
      /\ UNCHANGED <<timer_started, buffers, rep_out, rep_ack, resending_all>>
  BY DEF Fault
<1>5. \A q \in Reps :
        /\ status'[q] = "up" => status[q] = "up"
        /\ Harmed(q)' => Harmed(q) \/ q = r
        /\ insertSDC'[q] => insertSDC[q] \/ kind = "sdc"
  BY DEF Fault, Harmed, RoundInv, Types, TypeOK
<1>6. Faulty'
  BY <1>1, <1>4, <1>5 DEF StepInv, Faulty
<1>7. ASSUME timer_started, config.prompt PROVE \E f \in BOOLEAN : InStep(f)'
  <2>1. PICK f \in BOOLEAN : InStep(f)
    BY <1>7 DEF StepInv
  <2>2. \A q \in Reps : Said(q, f)'
    BY <1>1, <1>2, <1>4, <2>1 DEF InStep, Said
  <2>3. InStep(f)'
    BY <1>1, <1>4, <1>5, <2>1, <2>2 DEF InStep
  <2> QED BY <2>3
<1>8. ASSUME timer_started, ~config.prompt, NEW q \in Reps
      PROVE  \E f \in BOOLEAN : Pending(q)' \in {<<>>, Straight(f)'}
  BY <1>1, <1>2, <1>8 DEF StepInv
<1>9. ~timer_started /\ config.prompt => Alike'
  BY <1>1, <1>4, <1>5 DEF StepInv, Alike, Owed, Asked
<1> QED BY <1>1, <1>3, <1>4, <1>6, <1>7, <1>8, <1>9 DEF StepInv

\* A replica answers as it was asked to, or as a corrupted one.
LEMMA RecvReadingVote ==
    ASSUME RoundInv, StepInv, Decidable(config), NEW r \in Reps, RecvReading(r), UNCHANGED config
    PROVE  StepInv'
<1> USE DEF extVars, voterVars, histVars
<1> DEFINE ans == Update(Current, 1 .. Current, resending_all[r], insertSDC[r])
<1>1. Current' = Current /\ Reps' = Reps
  BY DEF Current, Reps, rep_count, RecvReading
<1>2. \A f : Straight(f)' = Straight(f) /\ Crooked(f)' = Crooked(f)
  BY <1>1 DEF Straight, Crooked, Update, Header, Unit
<1>3. /\ status[r] = "up" /\ DATA \in selected[r]
      /\ resending_all' = [resending_all EXCEPT ![r] = FALSE]
      /\ insertSDC' = [insertSDC EXCEPT ![r] = FALSE]
      /\ UNCHANGED <<extVars, voterVars, rep_ack, status, insertCFE, histVars>>
  BY DEF RecvReading
<1>4. /\ timer_started /\ Current \in 1 .. MaxReadings
      /\ Pending(r) = <<>> /\ buffers[r] = <<>> /\ rep_out[r] = <<>>
      /\ rep_data[r] = <<Current>> /\ obstacle_map[r] = 1 .. Current - 1
  BY <1>3, ReadingIs
<1>5. resending_all[r] \in BOOLEAN /\ insertSDC[r] \in BOOLEAN /\ MaxReadings \in Nat
  BY Instance DEF RoundInv, Types, TypeOK
<1>6. ans \in Answers(Current) /\ ans \in Seq(Item) /\ ans # <<>>
  <2>1. ans \in Answers(Current)
    BY <1>5 DEF Answers
  <2> HIDE DEF ans
  <2> QED BY <2>1, <1>4, <1>5, AnswerLong
<1>7. Pending(r)' = ans /\ \A q \in Reps \ {r} : Pending(q)' = Pending(q)
  <2>1. Head(rep_data[r]) = Current
    BY <1>4
  <2>2. obstacle_map'[r] = 1 .. Current
    <3>1. (1 .. Current - 1) \cup {Current} = 1 .. Current
      BY <1>4, <1>5
    <3>2. obstacle_map'[r] = obstacle_map[r] \cup {Current}
      BY <2>1 DEF RecvReading, RoundInv, Types, TypeOK
    <3> QED BY <3>1, <3>2, <1>4
  <2>3. rep_out' = [rep_out EXCEPT ![r] = @ \o ans]
    BY <2>1, <2>2 DEF RecvReading
  <2> HIDE DEF ans
  <2>4. <<>> \o ans = ans
    BY <1>6, ConcatEmptySeq
  <2>5. rep_out'[r] = ans /\ \A q \in Reps \ {r} : rep_out'[q] = rep_out[q]
    BY <2>3, <2>4, <1>4 DEF RoundInv, Types
  <2> QED BY <2>4, <2>5, <1>3, <1>4 DEF Pending
<1>8. ans = IF insertSDC[r] THEN Crooked(resending_all[r]) ELSE Straight(resending_all[r])
  BY <1>5 DEF Straight, Crooked
<1> HIDE DEF ans
<1>9. Whole(ext_out)'
  BY <1>3 DEF StepInv, Whole, IsHeader
<1>10. /\ resending_all'[r] = FALSE /\ insertSDC'[r] = FALSE
       /\ \A q \in Reps \ {r} : resending_all'[q] = resending_all[q] /\ insertSDC'[q] = insertSDC[q]
  BY <1>3 DEF RoundInv, Types, TypeOK
<1>11. Faulty'
  <2>1. \A q \in Reps : (Harmed(q)' => Harmed(q)) /\ (insertSDC'[q] => insertSDC[q])
    BY <1>3, <1>10 DEF Harmed
  <2> QED BY <2>1, <1>1, <1>3 DEF StepInv, Faulty
<1>12. insertSDC[r] => r \in faulty /\ "sdc" \in config.kinds
  BY DEF StepInv, Faulty, Harmed
<1>13. ASSUME config.prompt PROVE \E f \in BOOLEAN : InStep(f)'
  <2>1. PICK f \in BOOLEAN : InStep(f)
    BY <1>4, <1>13 DEF StepInv
  <2>2. resending_all[r] <=> f
    BY <2>1, <1>3, <1>4 DEF InStep
  <2>3. resending_all[r] = f
    BY <2>2, <1>5
  <2>4. Said(r, f)'
    BY <2>3, <1>2, <1>3, <1>7, <1>8, <1>12 DEF Said
  <2>5. \A q \in Reps \ {r} : Said(q, f)'
    BY <2>1, <1>2, <1>3, <1>7 DEF InStep, Said
  <2>6. InStep(f)'
    BY <2>1, <2>4, <2>5, <1>1, <1>3, <1>6, <1>7, <1>10 DEF InStep
  <2> QED BY <2>6
<1>14. ASSUME ~config.prompt, NEW q \in Reps
       PROVE  \E f \in BOOLEAN : Pending(q)' \in {<<>>, Straight(f)'}
  <2>1. CASE q = r
    <3>1. ~insertSDC[r]
      BY <1>12, <1>14 DEF Decidable
    <3>2. Pending(r)' = Straight(resending_all[r])
      BY <3>1, <1>7, <1>8
    <3> QED BY <2>1, <3>2, <1>2, <1>5
  <2>2. CASE q # r
    BY <2>2, <1>2, <1>4, <1>7, <1>14 DEF StepInv
  <2> QED BY <2>1, <2>2
<1> QED BY <1>1, <1>3, <1>4, <1>9, <1>11, <1>13, <1>14 DEF StepInv

\* Promptly, a round starts with no acknowledgement left to read, and all
\* replicas owe the same.
LEMMA ProcessDataVote ==
    ASSUME RoundInv, StepInv, ProcessData, UNCHANGED config
    PROVE  StepInv'
<1> USE DEF extVars, voterVars, repVars, histVars
<1>1. Reps' = Reps /\ 0 \in Reps
  BY Instance DEF RoundInv, Reps, rep_count, ProcessData
<1>2. /\ ~timer_started /\ timer_started' = TRUE
      /\ UNCHANGED <<ext_out, buffers, rep_ack, rep_out, repVars, histVars>>
      /\ config.prompt => AcksHandled
  BY DEF ProcessData
<1>3. \A q \in Reps : buffers[q] = <<>> /\ Pending(q)' = <<>>
  <2> SUFFICES ASSUME NEW q \in Reps PROVE buffers[q] = <<>> /\ Pending(q)' = <<>>
    OBVIOUS
  <2>1. buffers[q] = <<>> /\ rep_out[q] = <<>>
    BY <1>2 DEF StepInv, RoundInv, Rounds, Idle
  <2>2. Pending(q) = <<>>
    BY <2>1, PendingType DEF RoundInv
  <2> QED BY <2>1, <2>2, <1>2 DEF Pending
<1>4. Whole(ext_out)'
  BY <1>2 DEF StepInv, Whole, IsHeader
<1>5. Faulty'
  BY <1>1, <1>2 DEF StepInv, Faulty, Harmed
<1>6. ASSUME config.prompt PROVE \E f \in BOOLEAN : InStep(f)'
  <2>1. \A q \in Reps : status[q] = "up" => rep_ack[q] = <<>> /\ (Owed(q) <=> resending_all[q])
    BY <1>2, <1>6, AskedNone DEF AcksHandled, Owed
  <2>2. PICK f \in BOOLEAN :
           f <=> \E q \in Reps : status[q] = "up" /\ resending_all[q]
    OBVIOUS
  <2>3. \A q \in Reps : status[q] = "up" => (resending_all[q] <=> f)
    BY <2>1, <2>2, <1>2, <1>6 DEF StepInv, Alike
  <2>4. \A q \in Reps : Said(q, f)'
    BY <1>3 DEF Said
  <2>5. InStep(f)'
    BY <2>1, <2>3, <2>4, <1>1, <1>2, <1>3 DEF InStep
  <2> QED BY <2>5
<1>7. \A q \in Reps : \E f \in BOOLEAN : Pending(q)' \in {<<>>, Straight(f)'}
  BY <1>3
<1>8. \E q \in Reps : buffers'[q] = <<>>
  BY <1>1, <1>2, <1>3
<1> QED BY <1>1, <1>2, <1>4, <1>5, <1>6, <1>7, <1>8 DEF StepInv

\* The headers tell answers apart.
LEMMA HeaderTells ==
    ASSUME MaxReadings \in Nat, NEW k \in 1 .. MaxReadings,
           NEW a \in Answers(k), NEW b \in Answers(k), a[1] = b[1]
    PROVE  a = b
<1>1. /\ a \in Seq(Item) /\ b \in Seq(Item)
      /\ a[1] \in {Header(k, Len(a) - 1, bad) : bad \in BOOLEAN}
      /\ b[1] \in {Header(k, Len(b) - 1, bad) : bad \in BOOLEAN}
      /\ a[2] = b[2]
      /\ \A i \in 3 .. Len(a) : a[i] = Unit(SetToSeq(1 .. k)[i - 2])
      /\ \A i \in 3 .. Len(b) : b[i] = Unit(SetToSeq(1 .. k)[i - 2])
  BY AnswerShape
<1>2. Len(a) = Len(b) /\ Len(a) \in Nat
  <2>1. Len(a) \in Nat /\ Len(b) \in Nat
    BY <1>1, LenProperties
  <2>2. a[1][3] = Len(a) - 1 /\ b[1][3] = Len(b) - 1
    BY <1>1 DEF Header
  <2> QED BY <2>1, <2>2
<1>3. \A i \in 1 .. Len(a) : i = 1 \/ i = 2 \/ i \in 3 .. Len(a)
  BY <1>2
<1>4. \A i \in 1 .. Len(a) : a[i] = b[i]
  BY <1>1, <1>2, <1>3
<1> QED BY <1>1, <1>2, <1>4, SeqEqual

\* compareBuffs of two buffers with what is ready in both.
LEMMA AgreeIs ==
    ASSUME Types, NEW k \in 1 .. MaxReadings, NEW b \in [Reps -> Seq(Item)],
           \A q \in Reps : b[q] \in Answers(k), NEW r \in Reps, NEW q \in Reps
    PROVE  Agree(b, r, q) <=> b[r] = b[q]
<1> DEFINE n == BytesReady(b)
<1>1. MaxReadings \in Nat
  BY Instance
<1>2. \A p \in Reps : Len(b[p]) \in Nat /\ Len(b[p]) >= 2
  BY <1>1, AnswerLong
<1>3. n \in Nat /\ n >= 2 /\ n <= Len(b[r]) /\ n <= Len(b[q])
  BY <1>2, Ready
<1> HIDE DEF n
<1>4. ASSUME SubSeq(b[r], 1, n) = SubSeq(b[q], 1, n) PROVE b[r] = b[q]
  <2>1. n \in 0 .. Len(b[r]) /\ n \in 0 .. Len(b[q]) /\ 1 \in 1 .. n
    BY <1>2, <1>3
  <2>2. SubSeq(b[r], 1, n)[1] = b[r][1] /\ SubSeq(b[q], 1, n)[1] = b[q][1]
    BY <2>1, ObstaclesCut
  <2>3. b[r][1] = b[q][1] /\ b[r] \in Answers(k) /\ b[q] \in Answers(k)
    BY <2>2, <1>4
  <2> QED BY <2>3, <1>1, HeaderTells
<1> QED BY <1>4 DEF Agree, n

\* Straight answers, and only those, pass the vote.
LEMMA StraightCrooked ==
    ASSUME RoundInv, timer_started, NEW f \in BOOLEAN, NEW g \in BOOLEAN
    PROVE  /\ Straight(f) # Crooked(g)
           /\ Straight(f) # <<>> /\ Crooked(g) # <<>>
           /\ Straight(f) \in Seq(Item) /\ Whole(Straight(f))
<1>1. MaxReadings \in Nat /\ Current \in 1 .. MaxReadings
  BY Instance, CurrentType DEF RoundInv
<1>2. Straight(f) \in Answers(Current) /\ Crooked(g) \in Answers(Current)
  <2>1. FALSE \in BOOLEAN /\ TRUE \in BOOLEAN
    OBVIOUS
  <2>2. \A h \in BOOLEAN, bad \in BOOLEAN : Update(Current, 1 .. Current, h, bad) \in Answers(Current)
    BY DEF Answers
  <2> QED BY <2>1, <2>2 DEF Straight, Crooked
<1>3. Straight(f) # <<>> /\ Crooked(g) # <<>> /\ Straight(f) \in Seq(Item)
  BY <1>1, <1>2, AnswerLong
<1>4. Straight(f)[1][4] = FALSE
  <2>1. Straight(f)[1] = Header(Current, Len(Straight(f)) - 1, FALSE)
    BY <1>1, UpdateShape DEF Straight
  <2> QED BY <2>1 DEF Header
<1>5. Crooked(g)[1][4] = TRUE
  <2>1. Crooked(g)[1] = Header(Current, Len(Crooked(g)) - 1, TRUE)
    BY <1>1, UpdateShape DEF Crooked
  <2> QED BY <2>1 DEF Header
<1>6. Whole(Straight(f))
  BY <1>1, WholeUpdate DEF Straight
<1> QED BY <1>3, <1>4, <1>5, <1>6

\* A round that ends with one straight answer of all leaves the voter empty
\* and AStar with whole updates.
LEMMA ClosesVote ==
    ASSUME RoundInv, StepInv, NEW b \in [Reps -> Seq(Item)], Complete(b),
           NEW c \in [Reps -> Reps], NEW s \in Reps, c[s] = s, Closes(b, c, s),
           NEW f \in BOOLEAN, \A q \in Reps : b[c[q]] = Straight(f),
           \A q \in Reps : c[q] \in faulty => q \in faulty'
    PROVE  StepInv'
<1> DEFINE own == [q \in Reps |-> b[c[q]]]
           n   == BytesReady(own)
<1>1. /\ n \in Nat /\ n <= Len(b[s])
      /\ \E q \in Reps : n = Len(b[c[q]])
  BY Own DEF RoundInv
<1>2. /\ ext_out' = ext_out \o SubSeq(b[s], 1, n)
      /\ buffers' = [q \in Reps |-> SubSeq(b[c[q]], n + 1, Len(b[c[q]]))]
      /\ timer_started' = FALSE
      /\ rep_ack' = [q \in Reps |-> rep_ack[c[q]]]
      /\ status' = [q \in Reps |-> status[c[q]]]
      /\ resending_all' = [q \in Reps |-> resending_all[c[q]]]
      /\ insertSDC' = [q \in Reps |-> insertSDC[c[q]]]
      /\ insertCFE' = [q \in Reps |-> insertCFE[c[q]]]
      /\ faulty' \subseteq faulty
      /\ UNCHANGED config
  BY DEF Closes
<1> HIDE DEF n
<1>3. Reps' = Reps
  BY <1>2 DEF Reps, rep_count
<1>4. Straight(f) \in Seq(Item) /\ Whole(Straight(f)) /\ n = Len(Straight(f)) /\ b[s] = Straight(f)
  BY <1>1, StraightCrooked DEF Complete
<1>5. Whole(ext_out)'
  <2>1. SubSeq(b[s], 1, n) = b[s]
    BY <1>4, SubSeqFull
  <2>2. Whole(ext_out \o Straight(f))
    BY <1>4, WholeConcat DEF StepInv, RoundInv, Types
  <2>3. \A w : w = ext_out' /\ Whole(w) => Whole(ext_out)'
    BY DEF Whole, IsHeader
  <2> QED BY <1>2, <1>4, <2>1, <2>2, <2>3
<1>6. \A q \in Reps : buffers'[q] = <<>>
  <2> SUFFICES ASSUME NEW q \in Reps PROVE buffers'[q] = <<>>
    OBVIOUS
  <2>1. buffers'[q] = SubSeq(Straight(f), n + 1, n)
    BY <1>2, <1>4
  <2>2. n \in Int /\ n + 1 \in Int /\ n < n + 1
    BY <1>1
  <2> QED BY <2>1, <2>2, SubSeqEmpty
<1>7. Faulty'
  <2>1. \A q \in Reps : (Harmed(q)' <=> Harmed(c[q])) /\ (insertSDC'[q] <=> insertSDC[c[q]])
    BY <1>2 DEF Harmed
  <2>2. \A q \in Reps : Harmed(q)' => q \in faulty'
    BY <2>1 DEF StepInv, Faulty
  <2>3. \A q \in Reps : insertSDC'[q] => "sdc" \in config.kinds
    BY <2>1 DEF StepInv, Faulty
  <2> QED BY <2>2, <2>3, <1>2, <1>3 DEF StepInv, Faulty
<1>8. ASSUME config.prompt, NEW q \in Reps, status'[q] = "up" PROVE ~Owed(q)'
  <2>1. PICK g \in BOOLEAN : InStep(g)
    BY <1>8 DEF StepInv, Complete
  <2>2. status[c[q]] = "up" /\ c[q] \in Reps /\ Pending(c[q]) # <<>>
    BY <1>2, <1>8 DEF Complete
  <2>3. rep_ack[c[q]] = <<>> /\ ~resending_all[c[q]]
    BY <2>1, <2>2 DEF InStep
  <2>4. rep_ack'[q] = <<>> /\ ~resending_all'[q]
    BY <2>3, <1>2
  <2> QED BY <2>4 DEF Owed, Asked
<1>9. config.prompt => Alike'
  BY <1>3, <1>8 DEF Alike
<1> QED BY <1>2, <1>3, <1>5, <1>6, <1>7, <1>9 DEF StepInv

\* What each replica has said in a complete round, if nothing is wrong with it.
LEMMA SaidIs ==
    ASSUME RoundInv, StepInv, Decidable(config), NEW b, Complete(b)
    PROVE  /\ config.prompt =>
                \E f \in BOOLEAN : \A q \in Reps :
                   b[q] # <<>> => \/ b[q] = Straight(f)
                                  \/ b[q] = Crooked(f) /\ q \in faulty /\ "sdc" \in config.kinds
           /\ ~config.prompt =>
                /\ faulty = {}
                /\ \A q \in Reps : \E f \in BOOLEAN : b[q] # <<>> => b[q] = Straight(f)
<1>1. timer_started /\ \A q \in Reps : b[q] = Pending(q)
  BY DEF Complete
<1>2. ASSUME config.prompt
      PROVE  \E f \in BOOLEAN : \A q \in Reps :
                b[q] # <<>> => \/ b[q] = Straight(f)
                               \/ b[q] = Crooked(f) /\ q \in faulty /\ "sdc" \in config.kinds
  <2>1. PICK f \in BOOLEAN : InStep(f)
    BY <1>1, <1>2 DEF StepInv
  <2> QED BY <1>1, <2>1 DEF InStep, Said
<1>3. ASSUME ~config.prompt PROVE faulty = {}
  BY <1>3 DEF StepInv, Faulty, Decidable
<1>4. ASSUME ~config.prompt, NEW q \in Reps
      PROVE  \E f \in BOOLEAN : b[q] # <<>> => b[q] = Straight(f)
  BY <1>1, <1>4 DEF StepInv
<1> QED BY <1>2, <1>3, <1>4

\* Two different replicas that say the same say it straight.
LEMMA PairStraight ==
    ASSUME RoundInv, StepInv, Decidable(config), NEW b, Complete(b),
           NEW p \in Reps, NEW q \in Reps, p # q, b[p] = b[q], b[p] # <<>>
    PROVE  \E f \in BOOLEAN : b[p] = Straight(f)
<1>1. CASE config.prompt
  <2>1. PICK f \in BOOLEAN : \A r \in Reps :
           b[r] # <<>> => \/ b[r] = Straight(f)
                          \/ b[r] = Crooked(f) /\ r \in faulty /\ "sdc" \in config.kinds
    BY <1>1, SaidIs
  <2>2. ~(p \in faulty /\ q \in faulty)
    BY DEF StepInv, Faulty
  <2>3. timer_started
    BY DEF Complete
  <2> QED BY <2>1, <2>2, <2>3, StraightCrooked
<1>2. CASE ~config.prompt
  BY <1>2, SaidIs
<1> QED BY <1>1, <1>2

\* Of three replicas, two neighbours say the same.
LEMMA SomeAgree ==
    ASSUME RoundInv, StepInv, Decidable(config), rep_count = 3,
           NEW b, Complete(b), \A q \in Reps : b[q] # <<>>
    PROVE  \E q \in Reps : b[q] = b[Succ(q, 1)]
<1>1. Reps = {0, 1, 2} /\ Succ(0, 1) = 1 /\ Succ(1, 1) = 2 /\ Succ(2, 1) = 0
  BY Instance DEF Succ, RoundInv
<1>2. CASE config.prompt
  <2>1. PICK f \in BOOLEAN : \A r \in Reps :
           b[r] # <<>> => \/ b[r] = Straight(f)
                          \/ b[r] = Crooked(f) /\ r \in faulty /\ "sdc" \in config.kinds
    BY <1>2, SaidIs
  <2>2. \A p, q \in faulty : p = q
    BY DEF StepInv, Faulty
  <2>3. \E q \in Reps : q \notin faulty /\ Succ(q, 1) \notin faulty
    BY <1>1, <2>2
  <2>4. \A q \in Reps : Succ(q, 1) \in Reps
    BY <1>1
  <2> QED BY <2>1, <2>3, <2>4
<1>3. CASE ~config.prompt
  <2>1. \A q \in Reps : \E f \in BOOLEAN : b[q] = Straight(f)
    BY <1>3, SaidIs
  <2>2. \A q \in Reps : b[q] \in {Straight(TRUE), Straight(FALSE)}
    <3> SUFFICES ASSUME NEW q \in Reps PROVE b[q] \in {Straight(TRUE), Straight(FALSE)}
      OBVIOUS
    <3>1. PICK f \in BOOLEAN : b[q] = Straight(f)
      BY <2>1
    <3>2. f = TRUE \/ f = FALSE
      OBVIOUS
    <3> QED BY <3>1, <3>2
  <2> QED BY <1>1, <2>2
<1> QED BY <1>2, <1>3

\* checkSDC of three: the one outvoted is the corrupted one, and what is sent is
\* the answer of one that agreed.
LEMMA CorrectsVote ==
    ASSUME RoundInv, StepInv, Decidable(config), NEW r \in Reps, rep_out[r] # <<>>, Corrects(r)
    PROVE  StepInv' /\ (config.prompt => ~blamed'.healthy)
<1> DEFINE b == Gather(r)
<1>1. PICK s \in Outvoted(b) :
        /\ BytesReady(b) > 0
        /\ s \in Reps /\ Succ(s, 2) \in Reps /\ rep_count = 3
        /\ Closes(b, Heir(Succ(s, 2), s), s)
        /\ blamed' = [rep |-> Succ(s, 2), why |-> "SDC", healthy |-> Succ(s, 2) \notin faulty]
        /\ faulty' = faulty \ {Succ(s, 2)}
  BY DEF Corrects
<1>2. /\ timer_started /\ Current \in 1 .. MaxReadings
      /\ b \in [Reps -> Seq(Item)] /\ Complete(b)
      /\ \A q \in Reps : b[q] \in Answers(Current)
  BY <1>1, GatherIs
<1>3. \A q \in Reps : b[q] # <<>>
  BY <1>2, AnswerLong, Instance DEF RoundInv
<1> HIDE DEF b
<1> DEFINE e == Succ(s, 2)
           m == Succ(s, 1)
<1>4. m \in Reps /\ m # s /\ e \in Reps /\ e # s /\ e # m /\ Reps = {s, m, e}
  BY <1>1, SuccType DEF RoundInv
<1>5. Agree(b, s, m) /\ ~Agree(b, s, e)
  BY <1>1 DEF Outvoted, Trusted
<1>6. b[s] = b[m] /\ b[s] # b[e]
  BY <1>2, <1>4, <1>5, AgreeIs DEF RoundInv
<1>7. PICK f \in BOOLEAN : b[s] = Straight(f)
  BY <1>2, <1>3, <1>4, <1>6, PairStraight
<1>8. config.prompt => e \in faulty
  <2> SUFFICES ASSUME config.prompt PROVE e \in faulty
    OBVIOUS
  <2>1. PICK g \in BOOLEAN : \A q \in Reps :
           b[q] # <<>> => \/ b[q] = Straight(g)
                          \/ b[q] = Crooked(g) /\ q \in faulty /\ "sdc" \in config.kinds
    BY <1>2, SaidIs
  <2>2. b[s] = Straight(g)
    BY <2>1, <1>1, <1>2, <1>3, <1>7, StraightCrooked
  <2> QED BY <2>1, <2>2, <1>3, <1>4, <1>6
<1>9. s \notin faulty
  <2>1. CASE config.prompt
    BY <2>1, <1>4, <1>8 DEF StepInv, Faulty
  <2>2. CASE ~config.prompt
    BY <2>2, <1>2, SaidIs
  <2> QED BY <2>1, <2>2
<1> DEFINE c == Heir(e, s)
<1>10. /\ c \in [Reps -> Reps] /\ c[s] = s /\ c[e] = s /\ c[m] = m
  BY <1>1, <1>4, HeirType DEF RoundInv, Heir
<1>11. \A q \in Reps : b[c[q]] = Straight(f)
  BY <1>4, <1>6, <1>7, <1>10
<1>12. \A q \in Reps : c[q] \in faulty => q \in faulty'
  BY <1>1, <1>4, <1>9, <1>10
<1>13. StepInv'
  <2>1. Closes(b, c, s) /\ s \in Reps
    BY <1>1
  <2> HIDE DEF c, e, m
  <2> QED BY <2>1, <1>2, <1>10, <1>11, <1>12, ClosesVote
<1>14. blamed'.healthy = (e \notin faulty)
  BY <1>1
<1> QED BY <1>8, <1>13, <1>14

\* A vote without a restart sends an answer that was not corrupted.
LEMMA ConcludesVote ==
    ASSUME RoundInv, StepInv, Decidable(config), NEW r \in Reps, rep_out[r] # <<>>, Concludes(r)
    PROVE  StepInv'
<1> DEFINE b == Gather(r)
<1>1. PICK s \in Trusted(b) :
        /\ BytesReady(b) > 0 /\ Outvoted(b) = {} /\ s \in Reps
        /\ Closes(b, Heir(s, s), s) /\ UNCHANGED <<blamed, faulty>>
  BY DEF Concludes
<1>2. /\ timer_started /\ Current \in 1 .. MaxReadings
      /\ b \in [Reps -> Seq(Item)] /\ Complete(b)
      /\ \A q \in Reps : b[q] \in Answers(Current)
  BY <1>1, GatherIs
<1>3. \A q \in Reps : b[q] # <<>>
  BY <1>2, AnswerLong, Instance DEF RoundInv
<1> HIDE DEF b
<1>4. \E f \in BOOLEAN : \A q \in Reps : b[q] = Straight(f)
  <2>1. CASE rep_count = 2
    <3>1. config.prompt /\ "sdc" \notin config.kinds
      BY <2>1 DEF Decidable, rep_count
    <3> QED BY <3>1, <1>2, <1>3, SaidIs
  <2>2. CASE rep_count = 3
    <3> DEFINE e == Succ(s, 2)
               m == Succ(s, 1)
    <3>1. m \in Reps /\ m # s /\ e \in Reps /\ Reps = {s, m, e}
      BY <1>1, <2>2, SuccType DEF RoundInv
    <3>2. Agree(b, s, m)
      BY <1>1, <2>2 DEF Trusted
    <3>3. Agree(b, s, e)
      BY <1>1, <2>2 DEF Outvoted
    <3>4. b[s] = b[m] /\ b[s] = b[e]
      BY <1>1, <1>2, <3>1, <3>2, <3>3, AgreeIs DEF RoundInv
    <3>5. PICK f \in BOOLEAN : b[s] = Straight(f)
      BY <1>1, <1>2, <1>3, <3>1, <3>4, PairStraight
    <3> QED BY <3>1, <3>4, <3>5
  <2> QED BY <2>1, <2>2, Instance DEF RoundInv
<1>5. PICK f \in BOOLEAN : \A q \in Reps : b[q] = Straight(f)
  BY <1>4
<1> DEFINE c == Heir(s, s)
<1>6. c \in [Reps -> Reps] /\ c[s] = s /\ \A q \in Reps : c[q] = q
  BY <1>1 DEF Heir
<1>7. /\ \A q \in Reps : b[c[q]] = Straight(f)
      /\ \A q \in Reps : c[q] \in faulty => q \in faulty'
  BY <1>1, <1>5, <1>6
<1> QED BY <1>1, <1>2, <1>6, <1>7, ClosesVote

\* A round that goes on has a voting buffer that is empty.
LEMMA CollectsVote ==
    ASSUME RoundInv, Covered, StepInv, Decidable(config), NEW r \in Reps, rep_out[r] # <<>>,
           Collects(r)
    PROVE  StepInv'
<1> USE DEF repVars, histVars
<1> DEFINE b == Gather(r)
<1>1. /\ BytesReady(b) = 0 \/ Trusted(b) = {}
      /\ buffers' = b /\ timer_started' = TRUE
      /\ UNCHANGED <<config, ext_out, rep_ack, repVars, histVars>>
  BY DEF Collects
<1>2. /\ timer_started /\ Current \in 1 .. MaxReadings
      /\ b \in [Reps -> Seq(Item)]
      /\ BytesReady(b) > 0 =>
           /\ Complete(b)
           /\ \A q \in Reps : b[q] \in Answers(Current)
      /\ BytesReady(b) = 0 => \E q \in Reps : b[q] = <<>>
  BY GatherIs
<1> HIDE DEF b
<1>3. BytesReady(b) = 0
  <2> SUFFICES ASSUME BytesReady(b) > 0 PROVE Trusted(b) # {}
    BY <1>1, <1>2, Ready DEF RoundInv
  <2>1. CASE rep_count = 2
    BY <2>1 DEF Trusted
  <2>2. CASE rep_count = 3
    <3>1. \A q \in Reps : b[q] # <<>>
      BY <1>2, AnswerLong, Instance DEF RoundInv
    <3>2. PICK p \in Reps : b[p] = b[Succ(p, 1)]
      BY <1>2, <2>2, <3>1, SomeAgree
    <3>3. Agree(b, p, Succ(p, 1))
      <4>1. Succ(p, 1) \in Reps
        BY SuccType DEF RoundInv
      <4> QED BY <4>1, <1>2, <3>2, AgreeIs DEF RoundInv
    <3>4. Reps = {0, 1, 2} /\ Reps \subseteq Nat
      BY <2>2, Instance DEF RoundInv
    <3>5. \E s \in Reps : /\ Agree(b, s, Succ(s, 1))
                          /\ \A q \in 0 .. s - 1 : ~Agree(b, q, Succ(q, 1))
      <4>1. CASE Agree(b, 0, Succ(0, 1))
        <5>1. 0 .. 0 - 1 = {}
          OBVIOUS
        <5> QED BY <4>1, <5>1, <3>4
      <4>2. CASE ~Agree(b, 0, Succ(0, 1)) /\ Agree(b, 1, Succ(1, 1))
        <5>1. 0 .. 1 - 1 = {0}
          OBVIOUS
        <5> QED BY <4>2, <5>1, <3>4
      <4>3. CASE ~Agree(b, 0, Succ(0, 1)) /\ ~Agree(b, 1, Succ(1, 1))
        <5>1. 0 .. 2 - 1 = {0, 1}
          OBVIOUS
        <5>2. Agree(b, 2, Succ(2, 1))
          BY <4>3, <3>3, <3>4
        <5> QED BY <4>3, <5>1, <5>2, <3>4
      <4> QED BY <4>1, <4>2, <4>3
    <3> QED BY <3>5, <2>2 DEF Trusted
  <2> QED BY <2>1, <2>2, Instance DEF RoundInv
<1>4. \E q \in Reps : buffers'[q] = <<>>
  BY <1>1, <1>2, <1>3
<1>5. Reps' = Reps /\ Current' = Current /\ \A q \in Reps : Pending(q)' = Pending(q)
  BY CollectsStep DEF Collects, Reps, rep_count, Current
<1>6. \A f : Straight(f)' = Straight(f) /\ Crooked(f)' = Crooked(f)
  BY <1>5 DEF Straight, Crooked, Update, Header, Unit
<1>7. Whole(ext_out)'
  BY <1>1 DEF StepInv, Whole, IsHeader
<1>8. Faulty'
  BY <1>1, <1>5 DEF StepInv, Faulty, Harmed
<1>9. ASSUME config.prompt PROVE \E f \in BOOLEAN : InStep(f)'
  <2>1. PICK f \in BOOLEAN : InStep(f)
    BY <1>2, <1>9 DEF StepInv
  <2>2. \A q \in Reps : Said(q, f)'
    BY <1>1, <1>5, <1>6, <2>1 DEF InStep, Said
  <2>3. InStep(f)'
    BY <1>1, <1>5, <2>1, <2>2 DEF InStep
  <2> QED BY <2>3
<1>10. ASSUME ~config.prompt, NEW q \in Reps
       PROVE  \E f \in BOOLEAN : Pending(q)' \in {<<>>, Straight(f)'}
  BY <1>2, <1>5, <1>6, <1>10 DEF StepInv
<1> QED BY <1>1, <1>4, <1>5, <1>7, <1>8, <1>9, <1>10 DEF StepInv

\* A timeout restarts the one replica that has not answered.
LEMMA TimeoutVote ==
    ASSUME RoundInv, StepInv, Decidable(config), VoterRestartHandler, UNCHANGED config
    PROVE  StepInv' /\ blamed'.why # "SDC"
<1>1. Complete(buffers) /\ \A q \in Reps : rep_out[q] = <<>>
  BY TimeoutCases
<1>2. PICK e \in Reps :
        /\ \A q \in Reps : Len(buffers[e]) <= Len(buffers[q])
        /\ Succ(e, rep_count - 1) \in Reps /\ Succ(e, rep_count - 1) # e
        /\ Closes(buffers, Heir(e, Succ(e, rep_count - 1)), Succ(e, rep_count - 1))
        /\ blamed' = [rep |-> e, why |-> "timeout", healthy |-> e \notin faulty]
        /\ faulty' = faulty \ {e}
  BY TimeoutCases
<1> DEFINE s == Succ(e, rep_count - 1)
           c == Heir(e, s)
<1>3. buffers \in [Reps -> Seq(Item)]
  BY DEF RoundInv, Types
<1>4. buffers[e] = <<>>
  <2>1. PICK q \in Reps : buffers[q] = <<>>
    BY <1>1 DEF StepInv, Complete
  <2>2. Len(buffers[q]) = 0 /\ Len(buffers[e]) <= Len(buffers[q])
    BY <1>2, <2>1
  <2>3. Len(buffers[e]) \in Nat
    BY <1>3, LenProperties
  <2>4. Len(buffers[e]) = 0
    BY <2>2, <2>3
  <2> QED BY <2>4, <1>3, EmptySeq
<1>5. e \in faulty
  BY <1>1, <1>4 DEF Complete, StepInv, Faulty, Harmed
<1>6. \A q \in Reps \ {e} : q \notin faulty /\ buffers[q] # <<>>
  BY <1>1, <1>5 DEF Complete, StepInv, Faulty, Harmed
<1>7. config.prompt
  BY <1>5 DEF StepInv, Faulty, Decidable
<1>8. PICK f \in BOOLEAN : \A q \in Reps \ {e} : buffers[q] = Straight(f)
  <2>1. PICK f \in BOOLEAN : \A q \in Reps :
          buffers[q] # <<>> => \/ buffers[q] = Straight(f)
                               \/ buffers[q] = Crooked(f) /\ q \in faulty /\ "sdc" \in config.kinds
    BY <1>1, <1>7, SaidIs
  <2> QED BY <1>6, <2>1
<1>9. s \in Reps /\ s # e
  BY <1>2
<1> HIDE DEF s
<1>10. c \in [Reps -> Reps] /\ c[s] = s /\ c[e] = s /\ \A q \in Reps \ {e} : c[q] = q
  BY <1>9 DEF Heir
<1>11. \A q \in Reps : c[q] # e
  BY <1>9, <1>10
<1>12. \A q \in Reps : c[q] \in Reps
  BY <1>10
<1>13. \A q \in Reps : buffers[c[q]] = Straight(f)
  BY <1>8, <1>11, <1>12
<1>14. \A q \in Reps : c[q] \in faulty => q \in faulty'
  BY <1>6, <1>11, <1>12
<1>15. Closes(buffers, c, s)
  BY <1>2 DEF s
<1> HIDE DEF c
<1>16. StepInv'
  BY <1>1, <1>3, <1>9, <1>10, <1>13, <1>14, <1>15, ClosesVote
<1>17. blamed'.why = "timeout"
  BY <1>2
<1> QED BY <1>16, <1>17

-----------------------------------------------------------------------------
\* Every step keeps the replicas in step.
LEMMA VoteStep ==
    ASSUME RoundInv, Covered, VoteInv, [Next]_vars
    PROVE  VoteInv'
<1> USE DEF extVars, voterVars, repVars, histVars
<1>1. UNCHANGED config
  BY DEF Next, Outside, Voter, Replicas, Injector, vars
<1>2. rep_count' = rep_count /\ (Decidable(config)' <=> Decidable(config))
  BY <1>1 DEF rep_count, Decidable
<1>3. UNCHANGED blamed => Blamed'
  BY <1>1, <1>2 DEF VoteInv, Blamed
<1>4. ASSUME Decidable(config), UNCHANGED vars PROVE StepInv'
  <2>1. UNCHANGED <<config, timer_started, buffers, rep_out, faulty, insertSDC, insertCFE,
                    status, rep_ack, resending_all, ext_out, sensed, ext_data>>
    BY <1>4 DEF vars
  <2>2. Current' = Current /\ Whole(ext_out)'
    BY <1>4, <2>1 DEF Current, VoteInv, StepInv, Whole, IsHeader
  <2>3. \A r \in Reps : Harmed(r)' => Harmed(r)
    BY <2>1 DEF Harmed
  <2>4. ~timer_started /\ config.prompt => Alike'
    BY <1>4, <2>1 DEF VoteInv, StepInv, Alike, Owed, Asked, Reps, rep_count
  <2> QED BY <1>4, <2>1, <2>2, <2>3, <2>4, StepFrame DEF VoteInv, RoundInv
<1>5. CASE UNCHANGED vars
  BY <1>2, <1>3, <1>4, <1>5 DEF VoteInv, vars
<1>6. CASE Outside
  <2>1. UNCHANGED blamed
    BY <1>6 DEF Outside, SendReading, RecvMapUpdate, StartAStar
  <2>2. Decidable(config) => StepInv'
    BY <1>1, <1>6, SendReadingVote, RecvMapUpdateVote, StartAStarVote DEF Outside, VoteInv
  <2> QED BY <1>2, <1>3, <2>1, <2>2 DEF VoteInv
<1>7. CASE Replicas
  <2>1. UNCHANGED blamed
    BY <1>7 DEF Replicas, Select, RecvReading, RecvAck
  <2>2. Decidable(config) => StepInv'
    BY <1>1, <1>7, SelectVote, RecvReadingVote, RecvAckVote DEF Replicas, VoteInv
  <2> QED BY <1>2, <1>3, <2>1, <2>2 DEF VoteInv
<1>8. CASE Injector
  <2>1. UNCHANGED blamed
    BY <1>8 DEF Injector, Fault
  <2>2. Decidable(config) => StepInv'
    BY <1>1, <1>8, FaultVote DEF Injector, VoteInv
  <2> QED BY <1>2, <1>3, <2>1, <2>2 DEF VoteInv
<1>9. CASE ProcessData
  <2>1. UNCHANGED blamed
    BY <1>9 DEF ProcessData
  <2> QED BY <1>1, <1>2, <1>3, <1>9, <2>1, ProcessDataVote DEF VoteInv
<1>10. CASE ProcessAck
  <2>1. UNCHANGED blamed
    BY <1>10 DEF ProcessAck
  <2> QED BY <1>1, <1>2, <1>3, <1>10, <2>1, ProcessAckVote DEF VoteInv
<1>11. CASE VoterRestartHandler
  <2>1. blamed'.why = "timeout"
    BY <1>1, <1>11, TimeoutCases
  <2>2. Blamed'
    BY <2>1 DEF Blamed
  <2> QED BY <1>1, <1>2, <1>11, <2>2, TimeoutVote DEF VoteInv
<1>12. ASSUME NEW r \in Reps, ProcessFromRep(r) PROVE VoteInv'
  <2>1. rep_out[r] # <<>> /\ (Corrects(r) \/ Concludes(r) \/ Collects(r))
    BY <1>1, <1>12, FromRepCases
  <2>2. CASE Corrects(r)
    <3>1. rep_count = 3
      BY <2>2 DEF Corrects
    <3>2. config.prompt => Decidable(config)
      BY <3>1 DEF Decidable, rep_count
    <3>3. Decidable(config) => StepInv' /\ (config.prompt => ~blamed'.healthy)
      BY <2>1, <2>2, CorrectsVote DEF VoteInv
    <3>4. Blamed'
      BY <1>1, <1>2, <3>1, <3>2, <3>3 DEF Blamed
    <3> QED BY <1>2, <3>3, <3>4 DEF VoteInv
  <2>3. CASE Concludes(r)
    <3>1. UNCHANGED blamed
      BY <2>3 DEF Concludes
    <3> QED BY <1>2, <1>3, <2>1, <2>3, <3>1, ConcludesVote DEF VoteInv
  <2>4. CASE Collects(r)
    <3>1. UNCHANGED blamed
      BY <2>4 DEF Collects
    <3> QED BY <1>2, <1>3, <2>1, <2>4, <3>1, CollectsVote DEF VoteInv
  <2> QED BY <2>1, <2>2, <2>3, <2>4
<1> QED BY <1>5, <1>6, <1>7, <1>8, <1>9, <1>10, <1>11, <1>12 DEF Next, Voter

\* The replicas stay in step where the voter can decide.
THEOREM VotesKept == Spec => [](RoundInv /\ Covered /\ VoteInv /\ config \in Instances)
<1> DEFINE I == RoundInv /\ Covered /\ VoteInv /\ config \in Instances
<1>1. Init => I
  BY InitRound, InitStep DEF Init
<1>2. I /\ [Next]_vars => I'
  <2> SUFFICES ASSUME I, [Next]_vars PROVE I'
    OBVIOUS
  <2>1. config' = config
    BY DEF Next, Outside, Voter, Replicas, Injector, vars
  <2> QED BY <2>1, RoundStep, VoteStep
<1> QED BY <1>1, <1>2, PTL DEF Spec

\* "Caught SDC" (voterd.c:438) is said of a faulty replica only, as long as
\* acknowledgements are handled in time: all replicas give the same answer, of
\* which one may be corrupted, so the two that checkSDC finds to agree are right.
THEOREM OnlyFaultyBlamed == Spec => []CaughtSDC
<1>1. VoteInv => CaughtSDC
  BY DEF VoteInv, Blamed, CaughtSDC
<1> QED BY <1>1, VotesKept, PTL

\* What AStar reads is whole updates, none corrupted (voterd.c sendPipe, checkSDC;
\* mapper.c updateMap), in every configuration where the voter can decide: three
\* answers of which two are the same, or two when nothing can be corrupted.
THEOREM UpdatesAreWhole == Spec => [](Decidable(config) => UpdatesWhole)
<1>1. VoteInv => (Decidable(config) => UpdatesWhole)
  BY DEF VoteInv, StepInv, Whole, UpdatesWhole
<1> QED BY <1>1, VotesKept, PTL
=============================================================================
