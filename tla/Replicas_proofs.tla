--------------------------- MODULE Replicas_proofs ---------------------------
(***************************************************************************)
(* Proofs about what a voter keeps for each of its replicas: the voting    *)
(* buffers (VoteBuff) and the slot with its pipes, which a process gets in *)
(* the fd handshake (Handshake).  The two share no state.                  *)
(*                                                                         *)
(* The voting buffers, for every buffer size, byte set and set of          *)
(* replicas: first the facts about one buffer (wrapping, filling, draining *)
(* and copying it), then the invariants, then the refinement.              *)
(*                                                                         *)
(* The handshake: the table of replicas is right (TableRight) and so are   *)
(* the pipes (RightPipes), for every voter, every number of replicas and   *)
(* every number of faults, whenever they strike.                           *)
(*                                                                         *)
(* HandshakeInv is the inductive invariant.  A process moves from the      *)
(* queue of connections (QueueInv) over the one connection the voter has   *)
(* open to a slot (TableInv); the slots that are being started are held by *)
(* nobody but that process.  CalmInv counts the processes that are under   *)
(* way: when faults strike only while the voter runs its main loop, there  *)
(* are as many of them as the voter is going to accept.                    *)
(***************************************************************************)
EXTENDS Handshake, VoteBuff, FiniteSetTheorems, SequenceTheorems,
        WellFoundedInduction, TLAPS

(***************************************************************************)
(* The voting buffers: one buffer.                                         *)
(***************************************************************************)

\* Below MAX the modulus of vote_buff.c changes nothing.
LEMMA ModSmall ==
    ASSUME NEW x \in Nat, x < MAX PROVE x % MAX = x
  BY MAXAssumption

\* From MAX on, and before twice MAX, it subtracts MAX once.
LEMMA ModWrap ==
    ASSUME NEW x \in Nat, MAX <= x, x < 2 * MAX PROVE x % MAX = x - MAX
  BY MAXAssumption

\* The index n places after another, for n at most MAX.
LEMMA ModIndex ==
    ASSUME NEW a \in Indexes, NEW b \in 0 .. MAX
    PROVE  /\ (a + b) % MAX \in Indexes
           /\ (a + b) % MAX = IF a + b < MAX THEN a + b ELSE a + b - MAX
<1>1. CASE a + b < MAX
  BY <1>1, ModSmall, MAXAssumption DEF Indexes
<1>2. CASE a + b >= MAX
  BY <1>2, ModWrap, MAXAssumption DEF Indexes
<1> QED BY <1>1, <1>2, MAXAssumption DEF Indexes

\* The contents of a ring are a sequence of as many bytes as its count.
LEMMA RingIsSeq ==
    ASSUME NEW buf \in [Indexes -> Bytes], NEW idx \in Indexes, NEW c \in 0 .. MAX
    PROVE  /\ Ring(buf, idx, c) \in Seq(Bytes)
           /\ Len(Ring(buf, idx, c)) = c
           /\ \A i \in 1 .. c :
                Ring(buf, idx, c)[i] = buf[(idx + i - 1) % MAX]
<1>1. \A i \in 1 .. c : (idx + i - 1) % MAX \in Indexes
  <2> TAKE i \in 1 .. c
  <2>1. i - 1 \in 0 .. MAX
    BY MAXAssumption
  <2>2. (idx + (i - 1)) % MAX \in Indexes
    BY <2>1, ModIndex
  <2> QED BY <2>2, MAXAssumption DEF Indexes
<1>2. Ring(buf, idx, c) \in [1 .. c -> Bytes]
  BY <1>1 DEF Ring
<1>3. c \in Nat
  BY MAXAssumption
<1> QED BY <1>2, <1>3 DEF Ring

\* A read wraps exactly when it reaches the end of the array, and the part
\* before the wrap is what is left up to there.
LEMMA WrapsWhen ==
    ASSUME NEW r \in Reps, EndIndex(r) \in Indexes, NEW n \in 1 .. MAX - 1
    PROVE  /\ Wraps(r, n) <=> EndIndex(r) + n >= MAX
           /\ Wraps(r, n) => PartRead(r, n) = MAX - EndIndex(r)
<1>1. n \in 0 .. MAX
  BY MAXAssumption
<1>2. (EndIndex(r) + n) % MAX =
        IF EndIndex(r) + n < MAX THEN EndIndex(r) + n ELSE EndIndex(r) + n - MAX
  BY <1>1, ModIndex
<1> QED BY <1>2, MAXAssumption DEF Wraps, PartRead, Indexes

\* What pipeToBuff leaves at each index.
LEMMA FilledIndex ==
    ASSUME NEW r \in Reps, NEW e \in Indexes, e = EndIndex(r),
           buffer[r] \in [Indexes -> Bytes],
           NEW n \in 1 .. MAX - 1, NEW data \in [1 .. n -> Bytes]
    PROVE  Filled(r, data) =
             [j \in Indexes |->
                IF e <= j /\ j < e + n THEN data[j - e + 1]
                ELSE IF j < e + n - MAX THEN data[MAX - e + j + 1]
                ELSE buffer[r][j]]
<1>1. Len(data) = n
  BY MAXAssumption
<1>2. CASE Wraps(r, n)
  <2>1. e + n >= MAX /\ PartRead(r, n) = MAX - e
    BY <1>2, WrapsWhen
  <2>2. n - PartRead(r, n) = e + n - MAX
    BY <2>1, MAXAssumption DEF Indexes
  <2> DEFINE part == PartRead(r, n)
             one  == MemcpySeq(buffer[r], e, data, 0, part)
             two  == MemcpySeq(one, 0, data, part, n - part)
  <2>3. Filled(r, data) = two
    BY <1>1, <1>2 DEF Filled
  <2>4. one = [j \in Indexes |-> IF e <= j THEN data[j - e + 1]
                                         ELSE buffer[r][j]]
    BY <2>1, MAXAssumption DEF MemcpySeq, Indexes
  <2>5. two = [j \in Indexes |-> IF j < e + n - MAX THEN data[MAX - e + j + 1]
                                                  ELSE one[j]]
    BY <2>1, <2>2, MAXAssumption DEF MemcpySeq, Indexes
  <2> HIDE DEF one, two
  <2> QED BY <2>1, <2>3, <2>4, <2>5, MAXAssumption DEF Indexes
<1>3. CASE ~Wraps(r, n)
  <2>1. e + n < MAX
    BY <1>3, WrapsWhen, MAXAssumption DEF Indexes
  <2>2. Filled(r, data) = MemcpySeq(buffer[r], e, data, 0, n)
    BY <1>1, <1>3 DEF Filled
  <2> QED BY <2>1, <2>2, MAXAssumption DEF MemcpySeq, Indexes
<1> QED BY <1>2, <1>3

\* pipeToBuff appends what it read to the contents.
LEMMA FillRing ==
    ASSUME BuffTypeOK, NEW r \in Reps,
           NEW n \in 1 .. MAX, NEW data \in [1 .. n -> Bytes],
           n < MAX - buff_count[r]
    PROVE  /\ Filled(r, data) \in [Indexes -> Bytes]
           /\ Ring(Filled(r, data), buff_index[r], buff_count[r] + n)
                = Contents(r) \o data
<1> DEFINE idx == buff_index[r]
           c   == buff_count[r]
           buf == buffer[r]
           e   == EndIndex(r)
           new == Filled(r, data)
<1>1. idx \in Indexes /\ c \in Indexes /\ buf \in [Indexes -> Bytes]
  BY DEF BuffTypeOK
<1>2. n \in 1 .. MAX - 1 /\ c \in 0 .. MAX /\ c + n \in 0 .. MAX
  BY <1>1, MAXAssumption DEF Indexes
<1>3. e \in Indexes /\ e = IF idx + c < MAX THEN idx + c ELSE idx + c - MAX
  BY <1>1, <1>2, ModIndex DEF EndIndex
<1>4. new = [j \in Indexes |->
                IF e <= j /\ j < e + n THEN data[j - e + 1]
                ELSE IF j < e + n - MAX THEN data[MAX - e + j + 1]
                ELSE buf[j]]
  BY <1>1, <1>2, <1>3, FilledIndex
<1>5. new \in [Indexes -> Bytes]
  <2>1. ASSUME NEW j \in Indexes PROVE new[j] \in Bytes
    <3> HIDE DEF new, e, buf, idx, c
    <3>1. CASE e <= j /\ j < e + n
      <4>1. j - e + 1 \in 1 .. n
        BY <1>2, <1>3, <3>1, MAXAssumption, SMTT(30) DEF Indexes
      <4>2. new[j] = data[j - e + 1]
        BY <1>4, <3>1
      <4> QED BY <4>1, <4>2
    <3>2. CASE ~(e <= j /\ j < e + n) /\ j < e + n - MAX
      <4>1. MAX - e + j + 1 \in 1 .. n
        BY SMTT(30), <1>2, <1>3, <3>2, MAXAssumption DEF Indexes
      <4>2. new[j] = data[MAX - e + j + 1]
        BY <1>4, <3>2
      <4> QED BY <4>1, <4>2
    <3>3. CASE ~(e <= j /\ j < e + n) /\ ~(j < e + n - MAX)
      BY <1>1, <1>4, <3>3
    <3> QED BY <3>1, <3>2, <3>3
  <2> HIDE DEF new, e, buf
  <2> QED BY <1>4, <2>1
<1>6. Contents(r) \in Seq(Bytes) /\ Len(Contents(r)) = c
      /\ \A i \in 1 .. c : Contents(r)[i] = buf[(idx + i - 1) % MAX]
  BY <1>1, <1>2, RingIsSeq DEF Contents
<1>7. data \in Seq(Bytes) /\ Len(data) = n
  BY <1>2, MAXAssumption
<1>8. Ring(new, idx, c + n) \in Seq(Bytes) /\ Len(Ring(new, idx, c + n)) = c + n
      /\ \A i \in 1 .. c + n :
            Ring(new, idx, c + n)[i] = new[(idx + i - 1) % MAX]
  BY <1>1, <1>2, <1>5, RingIsSeq
<1>9. /\ Contents(r) \o data \in Seq(Bytes)
      /\ Len(Contents(r) \o data) = c + n
      /\ \A i \in 1 .. c + n : (Contents(r) \o data)[i] =
             IF i <= c THEN Contents(r)[i] ELSE data[i - c]
  <2>1. /\ Contents(r) \o data \in Seq(Bytes)
        /\ Len(Contents(r) \o data) = Len(Contents(r)) + Len(data)
        /\ \A i \in 1 .. Len(Contents(r)) + Len(data) :
             (Contents(r) \o data)[i] =
               IF i <= Len(Contents(r)) THEN Contents(r)[i]
                                        ELSE data[i - Len(Contents(r))]
    BY <1>6, <1>7, ConcatProperties
  <2> HIDE DEF c
  <2> QED BY <1>6, <1>7, <2>1
<1>10. ASSUME NEW i \in 1 .. c + n
       PROVE  Ring(new, idx, c + n)[i] = (Contents(r) \o data)[i]
  <2> DEFINE j == (idx + (i - 1)) % MAX
  <2>1. /\ j \in Indexes
        /\ j = IF idx + (i - 1) < MAX THEN idx + (i - 1)
                                      ELSE idx + (i - 1) - MAX
    <3>1. i - 1 \in 0 .. MAX
      BY <1>1, <1>2, MAXAssumption DEF Indexes
    <3> QED BY <1>1, <3>1, ModIndex
  <2>2. idx + i - 1 = idx + (i - 1)
    BY <1>1, <1>2, MAXAssumption DEF Indexes
  <2>3. Ring(new, idx, c + n)[i] = new[j]
    BY <1>8, <2>2
  <2> HIDE DEF j, new, e, idx, c, buf
  <2>4. CASE i <= c
    <3>1. ~(e <= j /\ j < e + n) /\ ~(j < e + n - MAX)
      BY <1>1, <1>2, <1>3, <2>1, <2>4, MAXAssumption DEF Indexes
    <3>2. new[j] = buf[j]
      BY <1>4, <2>1, <3>1
    <3>3. Contents(r)[i] = buf[j]
      BY <1>2, <1>6, <2>2, <2>4, MAXAssumption DEF j, Indexes
    <3> QED BY <1>9, <2>3, <2>4, <3>2, <3>3
  <2>5. CASE i > c
    <3>1. new[j] = data[i - c]
      <4>1. CASE e <= j
        <5>1. j < e + n /\ j - e + 1 = i - c
          BY <1>1, <1>2, <1>3, <2>1, <2>5, <4>1, MAXAssumption DEF Indexes
        <5> QED BY <1>4, <2>1, <4>1, <5>1
      <4>2. CASE j < e
        <5>1. j < e + n - MAX /\ MAX - e + j + 1 = i - c
          BY <1>1, <1>2, <1>3, <2>1, <2>5, <4>2, MAXAssumption DEF Indexes
        <5>2. ~(e <= j)
          BY <1>3, <2>1, <4>2, MAXAssumption DEF Indexes
        <5> QED BY <1>4, <2>1, <5>1, <5>2
      <4> QED BY <4>1, <4>2, <1>3, <2>1, MAXAssumption DEF Indexes
    <3>2. ~(i <= c)
      BY <1>1, <1>2, <2>5, MAXAssumption DEF Indexes
    <3> QED BY <1>9, <2>3, <3>1, <3>2
  <2>6. i <= c \/ i > c
    BY <1>1, <1>2, MAXAssumption DEF Indexes
  <2> QED BY <2>4, <2>5, <2>6
<1>11. Ring(new, idx, c + n) = Contents(r) \o data
  <2> HIDE DEF new, idx, c
  <2> QED BY <1>8, <1>9, <1>10, SeqEqual
<1> QED BY <1>5, <1>11

\* Taking n bytes out drops the first n of the contents: fakeToPipe.
LEMMA DropRing ==
    ASSUME NEW buf \in [Indexes -> Bytes], NEW idx \in Indexes, NEW c \in Indexes,
           NEW n \in 0 .. c
    PROVE  Ring(buf, (idx + n) % MAX, c - n)
             = SubSeq(Ring(buf, idx, c), n + 1, Len(Ring(buf, idx, c)))
<1> DEFINE old == Ring(buf, idx, c)
           new == Ring(buf, (idx + n) % MAX, c - n)
           sub == SubSeq(old, n + 1, c)
<1>1. n \in 0 .. MAX /\ c \in 0 .. MAX /\ c - n \in 0 .. MAX
  BY MAXAssumption DEF Indexes
<1>2. /\ (idx + n) % MAX \in Indexes
      /\ (idx + n) % MAX = IF idx + n < MAX THEN idx + n ELSE idx + n - MAX
  BY <1>1, ModIndex
<1>3. /\ old \in Seq(Bytes) /\ Len(old) = c
      /\ \A i \in 1 .. c : old[i] = buf[(idx + i - 1) % MAX]
  BY <1>1, RingIsSeq
<1>4. /\ new \in Seq(Bytes) /\ Len(new) = c - n
      /\ \A i \in 1 .. c - n : new[i] = buf[(((idx + n) % MAX) + i - 1) % MAX]
  BY <1>1, <1>2, RingIsSeq
<1>5. /\ sub \in Seq(Bytes) /\ Len(sub) = c - n
      /\ \A i \in 1 .. c - n : sub[i] = old[n + i]
  <2> HIDE DEF old
  <2>1. \A i \in n + 1 .. c : old[i] \in Bytes
    BY <1>1, <1>3, ElementOfSeq
  <2>2. n + 1 \in Int /\ c \in Int
    BY <1>1
  <2>3. /\ sub \in Seq(Bytes)
        /\ Len(sub) = IF n + 1 <= c THEN c - (n + 1) + 1 ELSE 0
        /\ \A i \in 1 .. c - (n + 1) + 1 : sub[i] = old[n + 1 + i - 1]
    BY <2>1, <2>2, SubSeqProperties
  <2> HIDE DEF sub
  <2> QED BY <1>1, <2>3
<1>6. ASSUME NEW i \in 1 .. c - n PROVE new[i] = sub[i]
  <2>1. n + i \in 1 .. c /\ i - 1 \in 0 .. MAX /\ n + i - 1 \in 0 .. MAX
    BY <1>1, MAXAssumption DEF Indexes
  <2>2. sub[i] = buf[(idx + (n + i - 1)) % MAX]
    <3>1. idx + (n + i) - 1 = idx + (n + i - 1)
      BY <1>1 DEF Indexes
    <3> HIDE DEF old, sub
    <3> QED BY <1>3, <1>5, <2>1, <3>1
  <2>3. new[i] = buf[(((idx + n) % MAX) + (i - 1)) % MAX]
    <3> DEFINE k == (idx + n) % MAX
    <3>1. k + i - 1 = k + (i - 1)
      BY <1>1, <1>2, MAXAssumption DEF Indexes
    <3> HIDE DEF new, k
    <3> QED BY <1>4, <3>1 DEF k
  <2>4. (((idx + n) % MAX) + (i - 1)) % MAX =
          IF ((idx + n) % MAX) + (i - 1) < MAX
          THEN ((idx + n) % MAX) + (i - 1) ELSE ((idx + n) % MAX) + (i - 1) - MAX
    BY <1>2, <2>1, ModIndex
  <2>5. (idx + (n + i - 1)) % MAX =
          IF idx + (n + i - 1) < MAX
          THEN idx + (n + i - 1) ELSE idx + (n + i - 1) - MAX
    BY <2>1, ModIndex
  <2>6. (((idx + n) % MAX) + (i - 1)) % MAX = (idx + (n + i - 1)) % MAX
    <3> DEFINE k == (idx + n) % MAX
               x == (k + (i - 1)) % MAX
               y == (idx + (n + i - 1)) % MAX
    <3>1. x = IF k + (i - 1) < MAX THEN k + (i - 1) ELSE k + (i - 1) - MAX
      BY <2>4
    <3>2. k \in Indexes /\ k = IF idx + n < MAX THEN idx + n ELSE idx + n - MAX
      BY <1>2
    <3> HIDE DEF k, x, y
    <3>3. x = y
      BY <1>1, <2>1, <2>5, <3>1, <3>2, MAXAssumption DEF y, Indexes
    <3> QED BY <3>3 DEF k, x, y
  <2> QED BY <2>2, <2>3, <2>6
<1>7. new = sub
  <2> HIDE DEF new, sub
  <2> QED BY <1>4, <1>5, <1>6, SeqEqual
<1> QED BY <1>3, <1>7

\* buffToPipe writes the first n bytes of the contents.
LEMMA WrittenRing ==
    ASSUME NEW buf \in [Indexes -> Bytes], NEW idx \in Indexes, NEW c \in Indexes,
           NEW n \in 0 .. c
    PROVE  /\ Written(buf, idx, n) = SubSeq(Ring(buf, idx, c), 1, n)
           /\ Written(buf, idx, n) \in Seq(Bytes)
<1> DEFINE old == Ring(buf, idx, c)
           out == Written(buf, idx, n)
           sub == SubSeq(old, 1, n)
<1>1. n \in 0 .. MAX /\ c \in 0 .. MAX
  BY MAXAssumption DEF Indexes
<1>2. /\ old \in Seq(Bytes) /\ Len(old) = c
      /\ \A i \in 1 .. c : old[i] = buf[(idx + i - 1) % MAX]
  BY <1>1, RingIsSeq
<1>3. /\ sub \in Seq(Bytes) /\ Len(sub) = n
      /\ \A i \in 1 .. n : sub[i] = old[i]
  <2> HIDE DEF old
  <2>1. \A i \in 1 .. n : old[i] \in Bytes
    BY <1>1, <1>2, ElementOfSeq
  <2>2. /\ sub \in Seq(Bytes)
        /\ Len(sub) = IF 1 <= n THEN n - 1 + 1 ELSE 0
        /\ \A i \in 1 .. n - 1 + 1 : sub[i] = old[1 + i - 1]
    BY <1>1, <2>1, SubSeqProperties
  <2> HIDE DEF sub
  <2> QED BY <1>1, <2>2
<1>4. ASSUME NEW i \in 1 .. n
      PROVE  /\ i \in 1 .. c /\ (idx + i - 1) % MAX \in Indexes
             /\ (idx + i - 1) % MAX = IF idx + i - 1 < MAX
                                      THEN idx + i - 1 ELSE idx + i - 1 - MAX
  <2>1. i - 1 \in 0 .. MAX /\ i \in 1 .. c
    BY <1>1, MAXAssumption DEF Indexes
  <2>2. idx + (i - 1) = idx + i - 1
    BY <1>1 DEF Indexes
  <2>3. /\ (idx + (i - 1)) % MAX \in Indexes
        /\ (idx + (i - 1)) % MAX = IF idx + (i - 1) < MAX
                                   THEN idx + (i - 1) ELSE idx + (i - 1) - MAX
    BY <2>1, ModIndex
  <2> QED BY <2>1, <2>2, <2>3
<1>5. out = [i \in 1 .. n |-> buf[(idx + i - 1) % MAX]]
  <2>1. ASSUME NEW i \in 1 .. n
        PROVE  /\ idx + n < MAX => (idx + i - 1) % MAX = idx + i - 1
               /\ i <= MAX - idx => (idx + i - 1) % MAX = idx + i - 1
               /\ ~(i <= MAX - idx) =>
                    (idx + i - 1) % MAX = i - (MAX - idx) - 1
    <3> DEFINE k == (idx + i - 1) % MAX
    <3>1. k = IF idx + i - 1 < MAX THEN idx + i - 1 ELSE idx + i - 1 - MAX
      BY <1>4
    <3> HIDE DEF k
    <3>2. /\ idx + n < MAX => k = idx + i - 1
          /\ i <= MAX - idx => k = idx + i - 1
          /\ ~(i <= MAX - idx) => k = i - (MAX - idx) - 1
      BY <1>1, <3>1, MAXAssumption DEF Indexes
    <3> QED BY <3>2 DEF k
  <2> QED BY <2>1 DEF Written
<1>6. out \in [1 .. n -> Bytes]
  BY <1>4, <1>5
<1>7. out \in Seq(Bytes) /\ Len(out) = n
  <2> HIDE DEF out
  <2> QED BY <1>1, <1>5, <1>6
<1>8. \A i \in 1 .. n : out[i] = sub[i]
  <2> HIDE DEF out, sub, old
  <2> QED BY <1>2, <1>3, <1>4, <1>5
<1> HIDE DEF out, sub
<1>9. out = sub
  BY <1>3, <1>7, <1>8, SeqEqual
<1> QED BY <1>7, <1>9 DEF out, sub

\* copyPipe copies the contents, wrapped or not.
LEMMA CopyRing ==
    ASSUME BuffTypeOK, NEW e \in Reps, NEW s \in Reps
    PROVE  /\ Copied(e, s) \in [Indexes -> Bytes]
           /\ Ring(Copied(e, s), buff_index[s], buff_count[s]) = Contents(s)
<1> DEFINE idx == buff_index[s]
           c   == buff_count[s]
           new == Copied(e, s)
<1>1. /\ idx \in Indexes /\ c \in Indexes
      /\ buffer[s] \in [Indexes -> Bytes] /\ buffer[e] \in [Indexes -> Bytes]
  BY DEF BuffTypeOK
<1>2. new = [j \in Indexes |->
               IF \/ idx <= j /\ j < idx + c
                  \/ j < idx + c - MAX
               THEN buffer[s][j] ELSE buffer[e][j]]
  <2>1. CASE idx + c < MAX
    <3>1. new = Memcpy(buffer[e], idx, buffer[s], idx, c)
      BY <2>1 DEF Copied
    <3>2. \A j \in Indexes : ~(j < idx + c - MAX) /\ idx + (j - idx) = j
      BY <1>1, <2>1, MAXAssumption DEF Indexes
    <3> HIDE DEF new, idx, c
    <3> QED BY <3>1, <3>2 DEF Memcpy
  <2>2. CASE ~(idx + c < MAX)
    <3> DEFINE one == Memcpy(buffer[e], idx, buffer[s], idx, MAX - idx)
    <3>1. new = Memcpy(one, 0, buffer[s], 0, c - (MAX - idx))
      BY <2>2 DEF Copied
    <3>2. ASSUME NEW j \in Indexes
          PROVE  /\ j < idx + (MAX - idx)
                 /\ idx + (j - idx) = j /\ 0 + (j - 0) = j
                 /\ 0 <= j /\ j < 0 + (c - (MAX - idx)) <=> j < idx + c - MAX
                 /\ idx <= j => j < idx + c
      BY <1>1, <2>2, MAXAssumption DEF Indexes
    <3> HIDE DEF new, idx, c
    <3>3. one = [j \in Indexes |-> IF idx <= j THEN buffer[s][j] ELSE buffer[e][j]]
      BY <3>2 DEF Memcpy
    <3> HIDE DEF one
    <3>4. new = [j \in Indexes |-> IF j < idx + c - MAX THEN buffer[s][j] ELSE one[j]]
      BY <3>1, <3>2 DEF Memcpy
    <3> QED BY <3>2, <3>3, <3>4
  <2> QED BY <2>1, <2>2
<1>3. new \in [Indexes -> Bytes]
  <2> HIDE DEF new
  <2> QED BY <1>1, <1>2
<1>4. \A i \in 1 .. c : new[(idx + i - 1) % MAX] = buffer[s][(idx + i - 1) % MAX]
  <2> TAKE i \in 1 .. c
  <2> DEFINE j == (idx + (i - 1)) % MAX
  <2>1. i - 1 \in 0 .. MAX /\ idx + (i - 1) = idx + i - 1
    BY <1>1, MAXAssumption DEF Indexes
  <2>2. /\ j \in Indexes
        /\ j = IF idx + (i - 1) < MAX THEN idx + (i - 1)
                                      ELSE idx + (i - 1) - MAX
    BY <1>1, <2>1, ModIndex
  <2> HIDE DEF j, new
  <2>3. (idx <= j /\ j < idx + c) \/ j < idx + c - MAX
    BY <1>1, <2>2, MAXAssumption DEF Indexes
  <2>4. new[j] = buffer[s][j]
    BY <1>2, <2>2, <2>3
  <2> QED BY <2>1, <2>4 DEF j
<1>5. Ring(new, idx, c) = Contents(s)
  <2> HIDE DEF new
  <2> QED BY <1>4 DEF Ring, Contents
<1> QED BY <1>3, <1>5

\* A set of natural numbers that is not empty has a least member.
LEMMA NatMin ==
    ASSUME NEW T, T \subseteq Nat, T # {}
    PROVE  \E x \in T : \A y \in T : x <= y
<1> DEFINE R == {ij \in Nat \X Nat : ij[1] < ij[2]}
<1>1. IsWellFoundedOn(R, Nat)
  BY NatLessThanWellFounded DEF OpToRel
<1>2. \A x, y \in Nat : <<y, x>> \in R <=> y < x
  OBVIOUS
<1> HIDE DEF R
<1>3. \E x \in T : \A y \in T : ~ (<<y, x>> \in R)
  BY <1>1, WFMin
<1>4. \A x, y \in Nat : ~(y < x) => x <= y
  OBVIOUS
<1> QED BY <1>2, <1>3, <1>4

\* bytesReady is the smallest of the counts.
LEMMA BytesReadyIsMin ==
    ASSUME NEW c \in [Reps -> Indexes]
    PROVE  /\ BytesReady(c) \in Indexes
           /\ \A r \in Reps : BytesReady(c) <= c[r]
           /\ \E r \in Reps : BytesReady(c) = c[r]
<1> DEFINE T == {c[r] : r \in Reps}
<1>1. T \subseteq Nat /\ T # {}
  BY RepsAssumption DEF Indexes
<1>2. \E x \in T : \A y \in T : x <= y
  BY <1>1, NatMin
<1>3. \E n \in Indexes : (\A r \in Reps : n <= c[r]) /\ (\E r \in Reps : n = c[r])
  BY <1>2
<1> QED BY <1>3 DEF BytesReady

-----------------------------------------------------------------------------
(***************************************************************************)
(* The voting buffers: invariants.                                         *)
(***************************************************************************)

\* sendPipe keeps the types, whatever buffers it starts from.
LEMMA SendTypes ==
    ASSUME NEW buf \in [Reps -> [Indexes -> Bytes]],
           NEW idx \in [Reps -> Indexes], NEW c \in [Reps -> Indexes],
           NEW s \in Reps, sent \in Seq(Bytes), SendPipeFrom(buf, idx, c, s)
    PROVE  BuffTypeOK'
<1> DEFINE n == BytesReady(c)
<1>1. n \in Indexes /\ \A r \in Reps : n <= c[r]
  BY BytesReadyIsMin
<1>2. CASE n = 0
  BY <1>2 DEF SendPipeFrom, BuffTypeOK
<1>3. CASE n # 0
  <2>1. \A r \in Reps : (idx[r] + n) % MAX \in Indexes
    <3> TAKE r \in Reps
    <3>1. idx[r] \in Indexes /\ n \in 0 .. MAX
      BY <1>1, MAXAssumption DEF Indexes
    <3> HIDE DEF n
    <3> QED BY <3>1, ModIndex
  <2>2. \A r \in Reps : c[r] - n \in Indexes
    <3> HIDE DEF n
    <3> TAKE r \in Reps
    <3>1. c[r] \in Indexes /\ n <= c[r]
      BY <1>1
    <3> QED BY <1>1, <3>1, MAXAssumption DEF Indexes
  <2>3. Written(buf[s], idx[s], n) \in Seq(Bytes)
    <3>1. /\ buf[s] \in [Indexes -> Bytes] /\ idx[s] \in Indexes /\ c[s] \in Indexes
          /\ n <= c[s]
      BY <1>1
    <3> HIDE DEF n
    <3>2. n \in 0 .. c[s]
      BY <1>1, <3>1, MAXAssumption DEF Indexes
    <3> QED BY <3>1, <3>2, WrittenRing
  <2>4. /\ buffer' = buf
        /\ buff_index' = [r \in Reps |-> (idx[r] + n) % MAX]
        /\ buff_count' = [r \in Reps |-> c[r] - n]
        /\ sent' = Written(buf[s], idx[s], n)
    BY <1>3 DEF SendPipeFrom
  <2> HIDE DEF n
  <2> QED BY <2>1, <2>2, <2>3, <2>4 DEF BuffTypeOK
<1> QED BY <1>2, <1>3

\* The buffers a restart starts sendPipe from are typed.
LEMMA RestartTypes ==
    ASSUME BuffTypeOK, NEW e \in Reps, NEW s \in Reps
    PROVE  /\ [buffer EXCEPT ![e] = Copied(e, s)] \in [Reps -> [Indexes -> Bytes]]
           /\ [buff_index EXCEPT ![e] = buff_index[s]] \in [Reps -> Indexes]
           /\ [buff_count EXCEPT ![e] = buff_count[s]] \in [Reps -> Indexes]
  BY CopyRing DEF BuffTypeOK

\* One step of the buffers keeps the types.
LEMMA TypeStep ==
    ASSUME BuffTypeOK, [BuffNext]_buffVars PROVE BuffTypeOK'
<1>1. ASSUME NEW r \in Reps, NEW n \in 1 .. MAX, NEW data \in [1 .. n -> Bytes],
             PipeToBuff(r, data)
      PROVE  BuffTypeOK'
  <2>1. Len(data) = n
    BY MAXAssumption
  <2>2. CASE n < MAX - buff_count[r]
    <3>1. Filled(r, data) \in [Indexes -> Bytes]
      BY <2>2, FillRing
    <3>2. buff_count[r] + n \in Indexes
      BY <2>2, MAXAssumption DEF BuffTypeOK, Indexes
    <3>3. /\ buffer' = [buffer EXCEPT ![r] = Filled(r, data)]
          /\ buff_count' = [buff_count EXCEPT ![r] = @ + n]
          /\ UNCHANGED <<buff_index, sent>>
      BY <1>1, <2>1, <2>2, MAXAssumption DEF PipeToBuff, BuffTypeOK, Indexes
    <3> QED BY <3>1, <3>2, <3>3 DEF BuffTypeOK
  <2>3. CASE ~(n < MAX - buff_count[r])
    <3>1. UNCHANGED buffVars
      BY <1>1, <2>1, <2>3 DEF PipeToBuff
    <3> QED BY <3>1 DEF BuffTypeOK, buffVars
  <2> QED BY <2>2, <2>3
<1>2. ASSUME NEW s \in Reps, SendPipe(s) PROVE BuffTypeOK'
  BY <1>2, SendTypes DEF SendPipe, BuffTypeOK
<1>3. ASSUME NEW e \in Reps, NEW s \in Reps, RestartPrep(e, s) PROVE BuffTypeOK'
  <2>1. sent \in Seq(Bytes)
    BY DEF BuffTypeOK
  <2> QED BY <1>3, <2>1, RestartTypes, SendTypes DEF RestartPrep
<1>4. CASE UNCHANGED buffVars
  BY <1>4 DEF BuffTypeOK, buffVars
<1> QED BY <1>1, <1>2, <1>3, <1>4 DEF BuffNext

\* Every buffer's index and count stay below MAX_VOTE_PIPE_BUFF: the ring is
\* never full, so a count of 0 always means empty (vote_buff.c:53).
THEOREM BuffersTypeCorrect == BuffSpec => []BuffTypeOK
<1>1. BuffInit => BuffTypeOK
  BY MAXAssumption DEF BuffInit, BuffTypeOK, Indexes
<1> QED BY <1>1, TypeStep, PTL DEF BuffSpec

\* One step leaves all indexes equal: reads do not move them, votes move them
\* by the same amount and a restart copies one.
LEMMA IndexStep ==
    ASSUME IndexesAgree, BuffTypeOK, [BuffNext]_buffVars PROVE IndexesAgree'
<1>1. ASSUME NEW idx \in [Reps -> Indexes], NEW c, NEW buf, NEW s \in Reps,
             \A a, b \in Reps : idx[a] = idx[b],
             SendPipeFrom(buf, idx, c, s)
      PROVE  IndexesAgree'
  <2>1. CASE BytesReady(c) = 0
    BY <1>1, <2>1 DEF SendPipeFrom, IndexesAgree
  <2>2. CASE BytesReady(c) # 0
    BY <1>1, <2>2 DEF SendPipeFrom, IndexesAgree
  <2> QED BY <2>1, <2>2
<1>2. ASSUME NEW r \in Reps, NEW data, PipeToBuff(r, data) PROVE IndexesAgree'
  BY <1>2 DEF PipeToBuff, IndexesAgree, buffVars
<1>3. ASSUME NEW s \in Reps, SendPipe(s) PROVE IndexesAgree'
  BY <1>1, <1>3 DEF SendPipe, IndexesAgree, BuffTypeOK
<1>4. ASSUME NEW e \in Reps, NEW s \in Reps, RestartPrep(e, s)
      PROVE  IndexesAgree'
  <2> DEFINE idx == [buff_index EXCEPT ![e] = buff_index[s]]
  <2>1. idx \in [Reps -> Indexes] /\ \A a, b \in Reps : idx[a] = idx[b]
    BY DEF IndexesAgree, BuffTypeOK
  <2> HIDE DEF idx
  <2>2. SendPipeFrom([buffer EXCEPT ![e] = Copied(e, s)], idx,
                     [buff_count EXCEPT ![e] = buff_count[s]], s)
    BY <1>4 DEF RestartPrep, idx
  <2> QED BY <1>1, <2>1, <2>2
<1>5. CASE UNCHANGED buffVars
  BY <1>5 DEF IndexesAgree, buffVars
<1> QED BY <1>2, <1>3, <1>4, <1>5 DEF BuffNext

\* All replicas' voting buffers start at the same index, which compareBuffs
\* needs before it looks at a byte (vote_buff.c:123).
THEOREM IndexesStayEqual == BuffSpec => []IndexesAgree
<1>1. BuffInit => IndexesAgree
  BY DEF BuffInit, IndexesAgree
<1> QED BY <1>1, IndexStep, BuffersTypeCorrect, PTL DEF BuffSpec

\* The copies pipeToBuff makes stay inside the array and inside what was
\* read, whatever the index, the count and the length (vote_buff.c:57-62).
THEOREM CopiesStayInBounds == BuffSpec => []CopiesInBounds
<1>1. ASSUME BuffTypeOK, NEW r \in Reps, NEW n \in 1 .. MAX - buff_count[r] - 1
      PROVE  IF Wraps(r, n)
             THEN PartRead(r, n) \in 0 .. n /\ EndIndex(r) + PartRead(r, n) <= MAX
             ELSE EndIndex(r) + n <= MAX
  <2>1. buff_index[r] \in Indexes /\ buff_count[r] \in 0 .. MAX - 1
    BY <1>1 DEF BuffTypeOK, Indexes
  <2>2. n \in 1 .. MAX - 1 /\ buff_count[r] \in 0 .. MAX
    BY <1>1, <2>1, MAXAssumption
  <2>3. EndIndex(r) \in Indexes
    BY <2>1, <2>2, ModIndex DEF EndIndex
  <2>4. /\ Wraps(r, n) <=> EndIndex(r) + n >= MAX
        /\ Wraps(r, n) => PartRead(r, n) = MAX - EndIndex(r)
    BY <2>2, <2>3, WrapsWhen
  <2> QED BY <2>2, <2>3, <2>4, MAXAssumption DEF Indexes
<1>2. BuffTypeOK => CopiesInBounds
  BY <1>1 DEF CopiesInBounds
<1> QED BY <1>2, BuffersTypeCorrect, PTL

\* compareBuffs looks at exactly the indexes that hold the first n bytes.
LEMMA CompareIndexes ==
    ASSUME NEW f \in [Indexes -> Bytes], NEW g \in [Indexes -> Bytes],
           NEW idx \in Indexes, NEW n \in Indexes
    PROVE  (\A i \in 1 .. n : f[(idx + i - 1) % MAX] = g[(idx + i - 1) % MAX])
             <=> IF idx + n < MAX
                 THEN \A j \in idx .. idx + n - 1 : f[j] = g[j]
                 ELSE /\ \A j \in idx .. MAX - 1 : f[j] = g[j]
                      /\ \A j \in 0 .. n - (MAX - idx) - 1 : f[j] = g[j]
<1> DEFINE at(i) == (idx + i - 1) % MAX
<1>1. ASSUME NEW i \in 1 .. n
      PROVE  at(i) = IF idx + i - 1 < MAX THEN idx + i - 1
                                            ELSE idx + i - 1 - MAX
  <2>1. i - 1 \in 0 .. MAX /\ idx + (i - 1) = idx + i - 1
    BY MAXAssumption DEF Indexes
  <2>2. (idx + (i - 1)) % MAX = IF idx + (i - 1) < MAX THEN idx + (i - 1)
                                                       ELSE idx + (i - 1) - MAX
    BY <2>1, ModIndex
  <2> QED BY <2>1, <2>2
<1> HIDE DEF at
<1>2. CASE idx + n < MAX
  <2>1. \A i \in 1 .. n : at(i) = idx + i - 1 /\ idx + i - 1 \in idx .. idx + n - 1
    BY <1>1, <1>2, MAXAssumption DEF Indexes
  <2>2. \A j \in idx .. idx + n - 1 : j - idx + 1 \in 1 .. n /\ at(j - idx + 1) = j
    BY <2>1, <1>2, MAXAssumption DEF Indexes
  <2>3. (\A i \in 1 .. n : f[at(i)] = g[at(i)])
          <=> \A j \in idx .. idx + n - 1 : f[j] = g[j]
    BY <2>1, <2>2
  <2> QED BY <1>2, <2>3 DEF at
<1>3. CASE ~(idx + n < MAX)
  <2>1. \A i \in 1 .. n : at(i) \in idx .. MAX - 1
                            \/ at(i) \in 0 .. n - (MAX - idx) - 1
    <3> TAKE i \in 1 .. n
    <3>1. CASE idx + i - 1 < MAX
      BY <1>1, <3>1, MAXAssumption DEF Indexes
    <3>2. CASE ~(idx + i - 1 < MAX)
      BY <1>1, <3>2, MAXAssumption DEF Indexes
    <3> QED BY <3>1, <3>2
  <2>2. \A j \in idx .. MAX - 1 : \E i \in 1 .. n : at(i) = j
    <3> TAKE j \in idx .. MAX - 1
    <3>1. j - idx + 1 \in 1 .. n /\ idx + (j - idx + 1) - 1 = j /\ j < MAX
      BY <1>3, MAXAssumption DEF Indexes
    <3>2. at(j - idx + 1) = j
      BY <1>1, <3>1
    <3> QED BY <3>1, <3>2
  <2>3. \A j \in 0 .. n - (MAX - idx) - 1 : \E i \in 1 .. n : at(i) = j
    <3> TAKE j \in 0 .. n - (MAX - idx) - 1
    <3> DEFINE i == j + (MAX - idx) + 1
    <3>1. i \in 1 .. n /\ ~(idx + i - 1 < MAX) /\ idx + i - 1 - MAX = j
      BY <1>3, MAXAssumption DEF Indexes
    <3> HIDE DEF i
    <3>2. at(i) = j
      BY <1>1, <3>1
    <3> QED BY <3>1, <3>2
  <2>4. (\A i \in 1 .. n : f[at(i)] = g[at(i)])
          <=> /\ \A j \in idx .. MAX - 1 : f[j] = g[j]
              /\ \A j \in 0 .. n - (MAX - idx) - 1 : f[j] = g[j]
    BY <2>1, <2>2, <2>3
  <2> QED BY <1>3, <2>4 DEF at
<1> QED BY <1>2, <1>3

\* compareBuffs answers whether two replicas' bytes to be voted on are the
\* same, wherever in the ring they lie.
THEOREM ComparisonIsExact == BuffSpec => []CompareIsExact
<1>1. ASSUME BuffTypeOK, IndexesAgree PROVE CompareIsExact
  <2> DEFINE n == BytesReady(buff_count)
  <2>1. n \in Indexes /\ \A r \in Reps : n <= buff_count[r]
    BY <1>1, BytesReadyIsMin DEF BuffTypeOK
  <2>2. ASSUME NEW a \in Reps, NEW b \in Reps
        PROVE  CompareBuffs(a, b, n) <=> \A i \in 1 .. n : Contents(a)[i] = Contents(b)[i]
    <3> DEFINE idx == buff_index[a]
    <3>1. /\ buffer[a] \in [Indexes -> Bytes] /\ buffer[b] \in [Indexes -> Bytes]
          /\ idx \in Indexes /\ buff_index[b] = idx
          /\ buff_count[a] \in Indexes /\ buff_count[b] \in Indexes
          /\ n <= buff_count[a] /\ n <= buff_count[b]
      BY <1>1, <2>1 DEF BuffTypeOK, IndexesAgree
    <3> HIDE DEF n
    <3>2. \A i \in 1 .. n : i \in 1 .. buff_count[a] /\ i \in 1 .. buff_count[b]
      BY <2>1, <3>1, MAXAssumption DEF Indexes
    <3>3. \A i \in 1 .. n : /\ Contents(a)[i] = buffer[a][(idx + i - 1) % MAX]
                            /\ Contents(b)[i] = buffer[b][(idx + i - 1) % MAX]
      BY <3>1, <3>2 DEF Contents, Ring
    <3>4. CompareBuffs(a, b, n) <=>
            \A i \in 1 .. n : buffer[a][(idx + i - 1) % MAX]
                                = buffer[b][(idx + i - 1) % MAX]
      <4> DEFINE f == buffer[a]
                 g == buffer[b]
      <4> HIDE DEF f, g, idx
      <4>1. f \in [Indexes -> Bytes] /\ g \in [Indexes -> Bytes]
        BY <3>1 DEF f, g
      <4>2. (\A i \in 1 .. n : f[(idx + i - 1) % MAX] = g[(idx + i - 1) % MAX])
              <=> IF idx + n < MAX
                  THEN \A j \in idx .. idx + n - 1 : f[j] = g[j]
                  ELSE /\ \A j \in idx .. MAX - 1 : f[j] = g[j]
                       /\ \A j \in 0 .. n - (MAX - idx) - 1 : f[j] = g[j]
        BY <2>1, <3>1, <4>1, CompareIndexes
      <4>3. CompareBuffs(a, b, n) <=>
              IF idx + n < MAX
              THEN \A j \in idx .. idx + n - 1 : f[j] = g[j]
              ELSE /\ \A j \in idx .. MAX - 1 : f[j] = g[j]
                   /\ \A j \in 0 .. n - (MAX - idx) - 1 : f[j] = g[j]
        BY <3>1, Zenon DEF CompareBuffs, f, g, idx
      <4> QED BY <4>2, <4>3, Zenon DEF f, g
    <3> QED BY <3>3, <3>4
  <2> QED BY <2>2 DEF CompareIsExact
<1> QED BY <1>1, BuffersTypeCorrect, IndexesStayEqual, PTL

-----------------------------------------------------------------------------
(***************************************************************************)
(* The voting buffers implement the queues of VoteQueue.                   *)
(***************************************************************************)

\* sendPipe, from whatever buffers it starts, takes from the queues they hold
\* what all of them have.
LEMMA SendForwards ==
    ASSUME NEW buf \in [Reps -> [Indexes -> Bytes]],
           NEW idx \in [Reps -> Indexes], NEW c \in [Reps -> Indexes],
           NEW s \in Reps, SendPipeFrom(buf, idx, c, s)
    PROVE  Queues!Forward([r \in Reps |-> Ring(buf[r], idx[r], c[r])], s)
<1> DEFINE n == BytesReady(c)
           q == [r \in Reps |-> Ring(buf[r], idx[r], c[r])]
<1>1. /\ n \in Indexes
      /\ \A r \in Reps : n <= c[r]
      /\ \E r \in Reps : n = c[r]
  BY BytesReadyIsMin
<1>2. \A r \in Reps : /\ buf[r] \in [Indexes -> Bytes]
                      /\ idx[r] \in Indexes /\ c[r] \in Indexes
                      /\ c[r] \in 0 .. MAX
  BY MAXAssumption DEF Indexes
<1>3. \A r \in Reps : q[r] \in Seq(Bytes) /\ Len(q[r]) = c[r]
  BY <1>2, RingIsSeq
<1>4. n \in 0 .. Len(q[s]) /\ Queues!Shortest(q, n)
  <2> HIDE DEF n, q
  <2>1. n \in 0 .. c[s]
    BY <1>1, <1>2, MAXAssumption DEF Indexes
  <2> QED BY <1>1, <1>3, <2>1 DEF Queues!Shortest
<1>5. ASSUME NEW r \in Reps PROVE n \in 0 .. c[r]
  <2> HIDE DEF n
  <2>1. c[r] \in Indexes /\ n <= c[r] /\ n \in Indexes
    BY <1>1, <1>2
  <2> QED BY <2>1, MAXAssumption DEF Indexes
<1>6. /\ [r \in Reps |-> Contents(r)]' = [r \in Reps |-> Queues!Without(q[r], n)]
      /\ sent' = IF n = 0 THEN sent ELSE Queues!Prefix(q[s], n)
  <2>1. CASE n = 0
    <3>1. buffer' = buf /\ buff_index' = idx /\ buff_count' = c /\ sent' = sent
      BY <2>1 DEF SendPipeFrom
    <3>2. [r \in Reps |-> Contents(r)]' = q
      BY <3>1 DEF Contents
    <3>3. \A r \in Reps : Queues!Without(q[r], 0) = q[r]
      <4> TAKE r \in Reps
      <4>1. q[r] \in Seq(Bytes)
        BY <1>3
      <4>2. SubSeq(q[r], 1, Len(q[r])) = q[r]
        <5> HIDE DEF q
        <5> QED BY <4>1, SubSeqFull
      <4> QED BY <4>2 DEF Queues!Without
    <3>4. q = [r \in Reps |-> Queues!Without(q[r], 0)]
      BY <3>3
    <3> HIDE DEF q, n
    <3> QED BY <2>1, <3>1, <3>2, <3>4
  <2>2. CASE n # 0
    <3>1. /\ buffer' = buf
          /\ buff_index' = [r \in Reps |-> (idx[r] + n) % MAX]
          /\ buff_count' = [r \in Reps |-> c[r] - n]
          /\ sent' = Written(buf[s], idx[s], n)
      BY <2>2 DEF SendPipeFrom
    <3>2. [r \in Reps |-> Contents(r)]'
            = [r \in Reps |-> Ring(buf[r], (idx[r] + n) % MAX, c[r] - n)]
      <4> HIDE DEF n
      <4> QED BY <3>1 DEF Contents
    <3>3. \A r \in Reps : Ring(buf[r], (idx[r] + n) % MAX, c[r] - n)
                            = Queues!Without(q[r], n)
      <4> TAKE r \in Reps
      <4>1. q[r] = Ring(buf[r], idx[r], c[r]) /\ Len(q[r]) = c[r]
        BY <1>3
      <4> HIDE DEF n, q
      <4>2. /\ n \in 0 .. c[r]
            /\ buf[r] \in [Indexes -> Bytes] /\ idx[r] \in Indexes /\ c[r] \in Indexes
        BY <1>2, <1>5
      <4>3. Ring(buf[r], (idx[r] + n) % MAX, c[r] - n)
              = SubSeq(Ring(buf[r], idx[r], c[r]), n + 1,
                       Len(Ring(buf[r], idx[r], c[r])))
        BY <4>2, DropRing
      <4> QED BY <4>1, <4>3 DEF Queues!Without
    <3>4. Written(buf[s], idx[s], n) = Queues!Prefix(q[s], n)
      <4>1. q[s] = Ring(buf[s], idx[s], c[s])
        OBVIOUS
      <4> HIDE DEF n, q
      <4>2. Written(buf[s], idx[s], n) = SubSeq(Ring(buf[s], idx[s], c[s]), 1, n)
        BY <1>2, <1>5, WrittenRing
      <4> QED BY <4>1, <4>2 DEF Queues!Prefix
    <3> HIDE DEF n, q
    <3> QED BY <2>2, <3>1, <3>2, <3>3, <3>4
  <2> QED BY <2>1, <2>2
<1> HIDE DEF n, q
<1>7. Queues!Forward(q, s)
  BY <1>4, <1>6 DEF Queues!Forward
<1> QED BY <1>7 DEF q

\* Every step of the buffers is a step of the queues, or none.
LEMMA QueueStep ==
    ASSUME BuffTypeOK, [BuffNext]_buffVars PROVE [Queues!QNext]_(Queues!qvars)
<1> DEFINE queue == [r \in Reps |-> Contents(r)]
<1>1. ASSUME NEW r \in Reps, NEW n \in 1 .. MAX, NEW data \in [1 .. n -> Bytes],
             PipeToBuff(r, data)
      PROVE  Queues!Enqueue \/ UNCHANGED Queues!qvars
  <2>1. Len(data) = n
    BY MAXAssumption
  <2>2. CASE n < MAX - buff_count[r]
    <3>1. /\ buffer' = [buffer EXCEPT ![r] = Filled(r, data)]
          /\ buff_count' = [buff_count EXCEPT ![r] = @ + n]
          /\ buff_index' = buff_index /\ sent' = sent
      BY <1>1, <2>1, <2>2, MAXAssumption DEF PipeToBuff, BuffTypeOK, Indexes
    <3>2. Ring(Filled(r, data), buff_index[r], buff_count[r] + n)
            = Contents(r) \o data
      BY <2>2, FillRing
    <3>3. Contents(r)' = Contents(r) \o data
      BY <3>1, <3>2 DEF Contents, BuffTypeOK
    <3>4. \A t \in Reps : t # r => Contents(t)' = Contents(t)
      BY <3>1 DEF Contents, BuffTypeOK
    <3>5. queue' = [queue EXCEPT ![r] = @ \o data]
      BY <3>3, <3>4
    <3>6. n \in 1 .. MAX - 1
      BY <2>2, MAXAssumption DEF BuffTypeOK, Indexes
    <3> QED BY <3>1, <3>5, <3>6 DEF Queues!Enqueue
  <2>3. CASE ~(n < MAX - buff_count[r])
    <3>1. UNCHANGED buffVars
      BY <1>1, <2>1, <2>3 DEF PipeToBuff
    <3> QED BY <3>1 DEF Queues!qvars, buffVars, Contents
  <2> QED BY <2>2, <2>3
<1>2. ASSUME NEW s \in Reps, SendPipe(s) PROVE Queues!Send
  <2>1. Queues!Forward([r \in Reps |-> Ring(buffer[r], buff_index[r],
                                            buff_count[r])], s)
    BY <1>2, SendForwards DEF SendPipe, BuffTypeOK
  <2>2. queue = [r \in Reps |-> Ring(buffer[r], buff_index[r], buff_count[r])]
    BY DEF Contents
  <2>3. Queues!Forward(queue, s)
    BY <2>1, <2>2
  <2> QED BY <2>3 DEF Queues!Send
<1>3. ASSUME NEW e \in Reps, NEW s \in Reps, RestartPrep(e, s)
      PROVE  Queues!Replace
  <2> DEFINE buf == [buffer EXCEPT ![e] = Copied(e, s)]
             idx == [buff_index EXCEPT ![e] = buff_index[s]]
             c   == [buff_count EXCEPT ![e] = buff_count[s]]
  <2>1. /\ buf \in [Reps -> [Indexes -> Bytes]]
        /\ idx \in [Reps -> Indexes] /\ c \in [Reps -> Indexes]
    BY RestartTypes
  <2>2. SendPipeFrom(buf, idx, c, s) /\ e # s
    BY <1>3 DEF RestartPrep
  <2>3. Ring(buf[e], idx[e], c[e]) = Contents(s)
    BY CopyRing DEF BuffTypeOK
  <2>4. \A r \in Reps : r # e => Ring(buf[r], idx[r], c[r]) = Contents(r)
    BY DEF BuffTypeOK, Contents
  <2>5. [r \in Reps |-> Ring(buf[r], idx[r], c[r])] = [queue EXCEPT ![e] = queue[s]]
    <3> HIDE DEF buf, idx, c
    <3> QED BY <2>3, <2>4
  <2> HIDE DEF buf, idx, c
  <2>6. Queues!Forward([r \in Reps |-> Ring(buf[r], idx[r], c[r])], s)
    BY <2>1, <2>2, SendForwards
  <2>7. Queues!Forward([queue EXCEPT ![e] = queue[s]], s)
    BY <2>5, <2>6
  <2> QED BY <2>2, <2>7 DEF Queues!Replace
<1>4. CASE UNCHANGED buffVars
  BY <1>4 DEF Queues!qvars, buffVars, Contents
<1> QED BY <1>1, <1>2, <1>3, <1>4 DEF BuffNext, Queues!QNext

\* The circular buffers of vote_buff.c implement one queue of bytes per
\* replica: no read, vote or restart ever loses, repeats or reorders a byte,
\* wherever in the ring it happens.
THEOREM BuffersImplementQueues == BuffSpec => BuffersAreQueues
<1>1. BuffInit => Queues!QInit
  BY DEF BuffInit, Queues!QInit, Contents, Ring
<1> QED BY <1>1, QueueStep, BuffersTypeCorrect, PTL DEF BuffSpec, BuffersAreQueues, Queues!QSpec

-----------------------------------------------------------------------------
(***************************************************************************)
(* The handshake: who holds a slot.                                        *)
(***************************************************************************)

\* The voter has dealt with slot s: it is not being started, and none of the
\* slots before it is.
Settled(s) ==
    \/ pc = "up"
    \/ starting /\ s < slot /\ ~(Server = "VoterD" /\ pc = "fork")
    \/ ~starting /\ s # slot

\* The process at the other end of the connection.
Asked(p) == pc \in {"send", "read"} /\ p = conn

\* Process p has connected and has been sent nothing.
Waits(p) ==
    /\ proc[p].state \in {"connected", "hung", "dead"}
    /\ proc[p].slot = -1
    /\ msg[p] = <<>>
    /\ p \notin named

\* Process record r is that of a process that runs.
Lives(r) == r.state \in Stages \cup {"hung"}

\* What sendFDS may send as pipes, and what a process may hold.
Sent == {<<>>, TypedPipesM, TypedPipesD}

\* All a process can be in.
States == Stages \cup {"none", "hung", "dead"}

\* A process and a message, where S is the set of slots.
Held(S) == [state : States, slot : S \cup {-1}, turn : Nat, pipes : Sent,
            cpu : Nat, handlers : BOOLEAN, signalled : BOOLEAN]
Letter(S) == [pipes : Sent, cpu : Nat, slot : S, turn : Nat]

\* The type invariant, with the pipes as they were sent.
Shape ==
    /\ config \in Instances
    /\ pc \in {"fork", "accept", "send", "read", "up", "exited"}
    /\ slot \in Slots
    /\ starting \in BOOLEAN
    /\ conn \in Procs \cup {NoPid}
    /\ backlog \in Seq(Procs)
    /\ pid \in [Slots -> Procs \cup {NoPid}]
    /\ pinned_cpu \in [Slots -> Nat]
    /\ turn \in [Slots -> Nat]
    /\ proc \in [Procs -> Held(Slots)]
    /\ msg \in [Procs -> Seq(Letter(Slots))]
    /\ named \in SUBSET Procs
    /\ faulty \in SUBSET Procs

\* The queue of connections, and the connection that was accepted.
QueueInv ==
    /\ \A i \in DOMAIN backlog : Waits(backlog[i]) /\ ~Asked(backlog[i])
    /\ \A i, j \in DOMAIN backlog : backlog[i] = backlog[j] => i = j
    /\ pc = "send" => conn \in Procs /\ Waits(conn)
    /\ pc = "read" =>
         /\ conn \in Procs
         /\ proc[conn].state \notin {"none", "exec"}
         /\ conn \in named \/ proc[conn].state \in {"received", "named", "up"}
              => proc[conn].slot = slot

\* Each process on its own.
ProcessInv ==
    \A p \in Procs :
      /\ proc[p].state = "none" => proc[p] = Unborn
      /\ proc[p].state \in {"none", "exec"} => msg[p] = <<>>
      /\ proc[p].state \in {"none", "exec", "connected"} =>
           proc[p].slot = -1 /\ p \notin named
      /\ proc[p].state \in {"received", "named", "up"} => proc[p].slot # -1
      /\ Lives(proc[p]) /\ proc[p].slot # -1 => proc[p].turn = turn[proc[p].slot]
      /\ Server = "VoterM" /\ proc[p].slot # -1 => proc[p].cpu = proc[p].slot + 1
      /\ proc[p].state = "connected" /\ msg[p] # <<>> =>
           /\ pc = "read"
           /\ p = conn
           /\ Head(msg[p]).slot = slot
           /\ Head(msg[p]).turn = turn[slot]
           /\ Server = "VoterM" => Head(msg[p]).cpu = slot + 1

\* The table of replicas.
TableInv ==
    /\ \A s \in Slots :
         /\ pid[s] # NoPid => proc[pid[s]].state # "none"
         /\ Server = "VoterM" => pinned_cpu[s] = s + 1
         /\ \A p \in Procs : Lives(proc[p]) =>
              /\ Settled(s) => (pid[s] = p <=> proc[p].slot = s)
              /\ ~Settled(s) /\ proc[p].slot = s => s = slot /\ p = conn /\ pc = "read"
    /\ pc = "fork" => starting
    /\ Server = "VoterD" /\ ~starting /\ pc \in {"accept", "send", "read"}
         => pid[slot] = NoPid

\* Processes that have yet to connect or be accepted, or to be forked: a
\* signal that was sent stands for the process it brings.
Coming ==
    {p \in Procs : /\ Lives(proc[p])
                   /\ proc[p].signalled \/ (proc[p].slot = -1 /\ ~Asked(p))}

\* How many of them the voter counts on.
Due ==
    IF Server = "VoterD" /\ starting
    THEN CASE pc = "fork" -> slot
           [] pc = "accept" -> rep_count - slot
           [] OTHER -> rep_count - slot - 1
    ELSE IF pc = "accept" THEN 1 ELSE 0

\* Unless a fault strikes in the middle of a start.
CalmInv ==
    ~config.hostile =>
      /\ pc # "exited"
      /\ pc = "up" => ~starting
      /\ \A i \in DOMAIN backlog : Lives(proc[backlog[i]])
      /\ pc \in {"send", "read"} => Lives(proc[conn])
      /\ \A p \in Procs :
           /\ proc[p].state = "dead" => p \in faulty
           /\ proc[p].state = "hung" => p \in faulty /\ pc = "up"
           /\ proc[p].state = "up" => proc[p].handlers
           /\ Lives(proc[p]) /\ proc[p].signalled => proc[p].handlers /\ proc[p].slot # -1
      /\ \A s \in Slots : Settled(s) => /\ pid[s] # NoPid
                                        /\ pc # "up" => Lives(proc[pid[s]])
      /\ \A s, t \in Slots : pc = "up" /\ Failed(s) /\ Failed(t) => s = t
      /\ Cardinality(Coming) = Due

\* The inductive invariant.
HandshakeInv == Shape /\ QueueInv /\ ProcessInv /\ TableInv /\ CalmInv

-----------------------------------------------------------------------------
(***************************************************************************)
(* The handshake: facts about the constants.                               *)
(***************************************************************************)

\* The pids are finitely many numbers, and -1 is not one of them.
LEMMA PidFacts ==
    /\ Procs \subseteq Nat
    /\ NoPid \notin Procs
    /\ IsFiniteSet(Procs)
<1>1. MaxFaults \in Nat
  BY HandshakeAssumption
<1>2. /\ Procs \subseteq Nat
      /\ NoPid \notin Procs
  BY <1>1 DEF Procs, NoPid
<1>3. 3 + 2 * MaxFaults \in Int
  BY <1>1
<1>4. IsFiniteSet(1 .. 3 + 2 * MaxFaults)
  BY <1>3, FS_Interval
<1>5. QED
  BY <1>2, <1>4 DEF Procs

\* The pipes that sendFDS sends have the types of their links.
LEMMA SentTypes ==
    ASSUME NEW m \in Sent
    PROVE  \A k \in DOMAIN m : m[k].type = Links[m[k].fd].type
<1>1. CASE m = <<>>
  BY <1>1
<1>2. CASE m = TypedPipesM
  <2> DEFINE f == InsFirst
  <2> HIDE DEF f
  <2>1. m = [j \in DOMAIN Links |-> [type |-> Links[f[j]].type, fd |-> f[j]]]
    BY <1>2 DEF TypedPipesM, f
  <2>2. QED
    BY <2>1
<1>3. CASE m = TypedPipesD
  BY <1>3 DEF TypedPipesD
<1>4. QED
  BY <1>1, <1>2, <1>3 DEF Sent

\* Every set of pids has a least one.
LEMMA LeastPid ==
    ASSUME NEW T, T \subseteq Nat, T # {}
    PROVE  \E x \in T : \A y \in T : x <= y
<1>1. PICK x \in T : \A y \in T : <<y, x>> \notin OpToRel(<, Nat)
  BY NatLessThanWellFounded, WFMin
<1>2. \A y \in T : ~(y < x)
  BY <1>1 DEF OpToRel
<1>3. QED
  BY <1>2

\* fork() returns the pid of a process that did not exist.
LEMMA ForkedPid ==
    ASSUME MayFork
    PROVE  NextPid \in Procs /\ proc[NextPid].state = "none"
<1> DEFINE T == {p \in Procs : proc[p].state = "none"}
<1>1. T # {} /\ T \subseteq Nat
  BY PidFacts DEF MayFork
<1>2. PICK x \in T : \A y \in T : x <= y
  BY <1>1, LeastPid
<1>3. \A q \in 1 .. x - 1 : q \in Procs
  BY <1>2, HandshakeAssumption DEF Procs
<1>4. \A q \in 1 .. x - 1 : proc[q].state # "none"
  BY <1>1, <1>2, <1>3
<1>5. \E p \in Procs : /\ proc[p].state = "none"
                       /\ \A q \in 1 .. p - 1 : proc[q].state # "none"
  BY <1>4
<1>6. QED
  BY <1>5, Zenon DEF NextPid

-----------------------------------------------------------------------------
(***************************************************************************)
(* How a step changes the processes: f before it, g after it.              *)
(***************************************************************************)

\* Process q keeps what it was given.
Keeps(f, g, q) ==
    /\ g[q].slot = f[q].slot
    /\ g[q].turn = f[q].turn
    /\ g[q].pipes = f[q].pipes
    /\ g[q].cpu = f[q].cpu

\* Nothing but the state of process p becomes st.
Moves(f, g, p, st) ==
    /\ g[p].state = st
    /\ \A q \in Procs : /\ q # p => g[q] = f[q]
                        /\ Keeps(f, g, q)
                        /\ g[q].handlers = f[q].handlers
                        /\ g[q].signalled = f[q].signalled

\* An assignment to the state of one process.
LEMMA StateAssigned ==
    ASSUME NEW S, NEW f \in [Procs -> Held(S)], NEW p \in Procs, NEW st \in States,
           NEW g, g = [f EXCEPT ![p].state = st]
    PROVE  g \in [Procs -> Held(S)] /\ Moves(f, g, p, st)
<1>1. f[p] \in Held(S)
  OBVIOUS
<1>2. PICK r : r = [f[p] EXCEPT !.state = st]
  OBVIOUS
<1>3. /\ r \in Held(S)
      /\ r.state = st
      /\ r.slot = f[p].slot /\ r.turn = f[p].turn /\ r.pipes = f[p].pipes
      /\ r.cpu = f[p].cpu
      /\ r.handlers = f[p].handlers /\ r.signalled = f[p].signalled
  BY <1>1, <1>2 DEF Held
<1>4. g = [f EXCEPT ![p] = r]
  BY <1>2
<1>5. g \in [Procs -> Held(S)]
  BY <1>3, <1>4
<1>6. g[p] = r /\ \A q \in Procs : q # p => g[q] = f[q]
  BY <1>4
<1>7. QED
  BY <1>3, <1>5, <1>6 DEF Moves, Keeps

\* initController.
Initialized(f, p) == [f EXCEPT ![p].state = "up", ![p].handlers = TRUE]

\* What initController leaves the process with.
LEMMA ControllerUp ==
    ASSUME NEW S, NEW f \in [Procs -> Held(S)], NEW p \in Procs,
           NEW g, g = Initialized(f, p)
    PROVE  /\ g \in [Procs -> Held(S)]
           /\ g[p].state = "up" /\ g[p].handlers
           /\ \A q \in Procs : /\ q # p => g[q] = f[q]
                               /\ Keeps(f, g, q)
                               /\ g[q].signalled = f[q].signalled
<1>1. f[p] \in Held(S)
  OBVIOUS
<1>2. PICK r : r = [f[p] EXCEPT !.state = "up", !.handlers = TRUE]
  OBVIOUS
<1>3. /\ r \in Held(S)
      /\ r.state = "up" /\ r.handlers
      /\ r.slot = f[p].slot /\ r.turn = f[p].turn /\ r.pipes = f[p].pipes
      /\ r.cpu = f[p].cpu /\ r.signalled = f[p].signalled
  BY <1>1, <1>2 DEF Held, States, Stages
<1>4. g = [f EXCEPT ![p] = r]
  BY <1>2 DEF Initialized
<1>5. g \in [Procs -> Held(S)]
  BY <1>3, <1>4
<1>6. g[p] = r /\ \A q \in Procs : q # p => g[q] = f[q]
  BY <1>4
<1>7. QED
  BY <1>3, <1>5, <1>6 DEF Keeps

\* requestFDS: the process takes what message m says.
Received(f, p, m) ==
    [f EXCEPT ![p].state = "received", ![p].slot = m.slot, ![p].turn = m.turn,
              ![p].pipes = m.pipes, ![p].cpu = m.cpu]

\* What requestFDS leaves the process with.
LEMMA FDSReceived ==
    ASSUME NEW S, NEW f \in [Procs -> Held(S)], NEW p \in Procs, NEW m \in Letter(S),
           NEW g, g = Received(f, p, m)
    PROVE  /\ g \in [Procs -> Held(S)]
           /\ g[p].state = "received"
           /\ g[p].slot = m.slot /\ g[p].turn = m.turn /\ g[p].cpu = m.cpu
           /\ \A q \in Procs : /\ q # p => g[q] = f[q]
                               /\ g[q].handlers = f[q].handlers
                               /\ g[q].signalled = f[q].signalled
<1>1. f[p] \in Held(S)
  OBVIOUS
<1>2. PICK r : r = [f[p] EXCEPT !.state = "received", !.slot = m.slot,
                                !.turn = m.turn, !.pipes = m.pipes, !.cpu = m.cpu]
  OBVIOUS
<1>3. m.slot \in S /\ m.turn \in Nat /\ m.pipes \in Sent /\ m.cpu \in Nat
  BY DEF Letter
<1>4. /\ r \in Held(S)
      /\ r.state = "received"
      /\ r.slot = m.slot /\ r.turn = m.turn /\ r.cpu = m.cpu
      /\ r.handlers = f[p].handlers /\ r.signalled = f[p].signalled
  BY <1>1, <1>2, <1>3 DEF Held, States, Stages
<1>5. g = [f EXCEPT ![p] = r]
  BY <1>2 DEF Received
<1>6. g \in [Procs -> Held(S)]
  BY <1>4, <1>5
<1>7. g[p] = r /\ \A q \in Procs : q # p => g[q] = f[q]
  BY <1>5
<1>8. QED
  BY <1>4, <1>6, <1>7

\* restartHandler: process p forks process n.
Forked(f, p, n) ==
    [f EXCEPT ![p].signalled = FALSE,
              ![n] = [Unborn EXCEPT !.state = "exec", !.handlers = TRUE]]

\* What restartHandler leaves both processes with.
ForkedFrom(f, g, p, n) ==
    /\ g[n].state = "exec" /\ g[n].slot = -1 /\ ~g[n].signalled
    /\ ~g[p].signalled
    /\ g[p].state = f[p].state
    /\ g[p].handlers = f[p].handlers
    /\ Keeps(f, g, p)
    /\ \A q \in Procs : q \notin {p, n} => g[q] = f[q]

\* That is what the assignment does.
LEMMA HandlerForks ==
    ASSUME NEW S, NEW f \in [Procs -> Held(S)], NEW p \in Procs, NEW n \in Procs,
           p # n,
           NEW g, g = Forked(f, p, n)
    PROVE  g \in [Procs -> Held(S)] /\ ForkedFrom(f, g, p, n)
<1>1. f[p] \in Held(S)
  OBVIOUS
<1>2. PICK r : r = [f[p] EXCEPT !.signalled = FALSE]
  OBVIOUS
<1>3. PICK c : c = [Unborn EXCEPT !.state = "exec", !.handlers = TRUE]
  OBVIOUS
<1>4. /\ r \in Held(S)
      /\ r.state = f[p].state /\ r.handlers = f[p].handlers /\ ~r.signalled
      /\ r.slot = f[p].slot /\ r.turn = f[p].turn /\ r.pipes = f[p].pipes
      /\ r.cpu = f[p].cpu
  BY <1>1, <1>2 DEF Held
<1>5. /\ c \in Held(S)
      /\ c.state = "exec" /\ c.slot = -1 /\ ~c.signalled
  BY <1>3 DEF Held, States, Stages, Unborn, Sent
<1>6. g = [f EXCEPT ![p] = r, ![n] = c]
  BY <1>2, <1>3 DEF Forked
<1>7. g \in [Procs -> Held(S)]
  BY <1>4, <1>5, <1>6
<1>8. g[p] = r /\ g[n] = c /\ \A q \in Procs : q \notin {p, n} => g[q] = f[q]
  BY <1>6
<1>9. QED
  BY <1>4, <1>5, <1>7, <1>8 DEF Keeps, ForkedFrom

\* SIGKILL to slot e and RESTART_SIGNAL to slot r.
LEMMA SignalsSent ==
    ASSUME Shape, NEW e \in Slots, NEW r \in Slots, NEW g, g = Signalled(e, r)
    PROVE  /\ g \in [Procs -> Held(Slots)]
           /\ \A q \in Procs :
                /\ Keeps(proc, g, q)
                /\ g[q].handlers = proc[q].handlers
                /\ ~Lives(proc[q]) => g[q] = proc[q]
                /\ Lives(proc[q]) /\ q \in Reached(pid[e]) => g[q].state = "dead"
                /\ q \notin Reached(pid[e]) => g[q].state = proc[q].state
                /\ (Lives(proc[q]) /\ q \notin Reached(pid[e]))
                     => (g[q].signalled <=> \/ proc[q].signalled
                                            \/ rep_count > 1 /\ q \in Reached(pid[r]))
<1>1. SUFFICES ASSUME NEW q \in Procs
               PROVE  /\ g[q] \in Held(Slots)
                      /\ Keeps(proc, g, q)
                      /\ g[q].handlers = proc[q].handlers
                      /\ ~Lives(proc[q]) => g[q] = proc[q]
                      /\ Lives(proc[q]) /\ q \in Reached(pid[e]) => g[q].state = "dead"
                      /\ q \notin Reached(pid[e]) => g[q].state = proc[q].state
                      /\ (Lives(proc[q]) /\ q \notin Reached(pid[e]))
                           => (g[q].signalled <=> \/ proc[q].signalled
                                                  \/ rep_count > 1 /\ q \in Reached(pid[r]))
  <2>1. g = [p \in Procs |-> g[p]]
    BY DEF Signalled
  <2>2. QED
    BY <1>1, <2>1
<1>2. PICK o : o = proc[q]
  OBVIOUS
<1>3. o \in Held(Slots)
  BY <1>2 DEF Shape
<1>4. g[q] = IF Lives(proc[q]) /\ q \in Reached(pid[e]) THEN [o EXCEPT !.state = "dead"]
             ELSE IF Lives(proc[q]) /\ rep_count > 1 /\ q \in Reached(pid[r])
             THEN [o EXCEPT !.signalled = TRUE] ELSE o
  BY <1>2 DEF Signalled, Alive, Lives
<1>5. CASE Lives(proc[q]) /\ q \in Reached(pid[e])
  <2>1. g[q] = [o EXCEPT !.state = "dead"]
    BY <1>4, <1>5
  <2>2. /\ g[q] \in Held(Slots)
        /\ g[q].state = "dead"
        /\ g[q].slot = o.slot /\ g[q].turn = o.turn /\ g[q].pipes = o.pipes
        /\ g[q].cpu = o.cpu /\ g[q].handlers = o.handlers
    BY <1>3, <2>1 DEF Held, States
  <2>3. QED
    BY <1>2, <1>5, <2>2 DEF Keeps
<1>6. CASE /\ ~(Lives(proc[q]) /\ q \in Reached(pid[e]))
           /\ Lives(proc[q]) /\ rep_count > 1 /\ q \in Reached(pid[r])
  <2>1. g[q] = [o EXCEPT !.signalled = TRUE]
    BY <1>4, <1>6
  <2>2. /\ g[q] \in Held(Slots)
        /\ g[q].state = o.state /\ g[q].signalled
        /\ g[q].slot = o.slot /\ g[q].turn = o.turn /\ g[q].pipes = o.pipes
        /\ g[q].cpu = o.cpu /\ g[q].handlers = o.handlers
    BY <1>3, <2>1 DEF Held
  <2>3. QED
    BY <1>2, <1>6, <2>2 DEF Keeps
<1>7. CASE /\ ~(Lives(proc[q]) /\ q \in Reached(pid[e]))
           /\ ~(Lives(proc[q]) /\ rep_count > 1 /\ q \in Reached(pid[r]))
  <2>1. g[q] = o
    BY <1>4, <1>7
  <2>2. QED
    BY <1>2, <1>3, <1>7, <2>1 DEF Keeps
<1>8. QED
  BY <1>5, <1>6, <1>7

\* The slots, and the neighbour that is asked to fork.
LEMMA SlotFacts ==
    ASSUME config \in Instances
    PROVE  /\ rep_count \in 1 .. 3
           /\ Slots = 0 .. rep_count - 1
           /\ Server \in {"VoterM", "VoterD"}
           /\ \A e \in Slots : /\ (e + rep_count - 1) % rep_count \in Slots
                               /\ rep_count > 1 => (e + rep_count - 1) % rep_count # e
<1>1. /\ rep_count \in 1 .. 3
      /\ Slots = 0 .. rep_count - 1
      /\ Server \in {"VoterM", "VoterD"}
  BY HandshakeAssumption DEF rep_count, Slots, Server
<1>2. PICK n \in 1 .. 3 : n = rep_count
  BY <1>1
<1>3. \A e \in 0 .. n - 1 : /\ (e + n - 1) % n \in 0 .. n - 1
                            /\ n > 1 => (e + n - 1) % n # e
  <2>1. CASE n = 1
    BY <2>1
  <2>2. CASE n = 2
    BY <2>2
  <2>3. CASE n = 3
    BY <2>3
  <2>4. QED
    BY <2>1, <2>2, <2>3
<1>4. QED
  BY <1>1, <1>2, <1>3

-----------------------------------------------------------------------------
(***************************************************************************)
(* The handshake: the initial states.                                      *)
(***************************************************************************)

\* Nobody is started, and nobody under way.
LEMMA HandshakeStarts == Init => HandshakeInv
<1> SUFFICES ASSUME Init PROVE HandshakeInv
  OBVIOUS
<1>1. config \in Instances
  BY DEF Init
<1>2. /\ rep_count \in 1 .. 3
      /\ Slots = 0 .. rep_count - 1
      /\ Server \in {"VoterM", "VoterD"}
  BY <1>1, SlotFacts
<1>3. Unborn \in Held(Slots)
  BY DEF Unborn, Held, States, Sent
<1>4. Shape
  BY <1>1, <1>2, <1>3 DEF Init, Shape
<1>5. QueueInv
  BY DEF Init, QueueInv
<1>6. \A p \in Procs : /\ proc[p] = Unborn /\ proc[p].state = "none" /\ proc[p].slot = -1
                       /\ ~Lives(proc[p])
  BY DEF Init, Unborn, Lives, Stages
<1>7. ProcessInv
  BY <1>6 DEF Init, ProcessInv
<1>8. TableInv
  BY <1>2, <1>6, PidFacts DEF Init, TableInv, NoPid
<1>9. CalmInv
  <2>1. Coming = {}
    BY <1>6 DEF Coming
  <2>2. Due = 0
    BY DEF Init, Due
  <2>3. Cardinality(Coming) = Due
    BY <2>1, <2>2, FS_EmptySet
  <2>4. \A s \in Slots : ~Settled(s)
    BY <1>2 DEF Init, Settled
  <2>5. QED
    BY <1>6, <2>3, <2>4, PidFacts DEF Init, CalmInv, Unborn
<1>10. QED
  BY <1>4, <1>5, <1>7, <1>8, <1>9 DEF HandshakeInv

-----------------------------------------------------------------------------
(***************************************************************************)
(* The steps of the voter.                                                 *)
(***************************************************************************)

\* Counting the processes that are under way.
LEMMA Counting ==
    ASSUME NEW A \in SUBSET Procs
    PROVE  /\ IsFiniteSet(A)
           /\ Cardinality(A) \in Nat
           /\ Cardinality(A) = 0 <=> A = {}
           /\ \A x \in Procs \ A : Cardinality(A \cup {x}) = Cardinality(A) + 1
           /\ \A x \in A : Cardinality(A \ {x}) = Cardinality(A) - 1
           /\ \A x : Cardinality({x}) = 1
<1>1. IsFiniteSet(A)
  BY PidFacts, FS_Subset
<1>2. Cardinality(A) \in Nat
  BY <1>1, FS_CardinalityType
<1>3. Cardinality(A) = 0 <=> A = {}
  BY <1>1, FS_EmptySet
<1>4. \A x \in Procs \ A : Cardinality(A \cup {x}) = Cardinality(A) + 1
  BY <1>1, FS_AddElement
<1>5. \A x \in A : Cardinality(A \ {x}) = Cardinality(A) - 1
  BY <1>1, FS_RemoveElement
<1>6. \A x : Cardinality({x}) = 1
  BY FS_Singleton
<1>7. QED
  BY <1>1, <1>2, <1>3, <1>4, <1>5, <1>6

\* A step that leaves the configuration alone leaves what it says alone.
LEMMA SameConfig ==
    ASSUME UNCHANGED config
    PROVE  /\ Slots' = Slots
           /\ rep_count' = rep_count
           /\ Server' = Server
           /\ config'.hostile = config.hostile
  BY DEF Slots, rep_count, Server

\* What waits in the queue are processes that have connected.
LEMMA QueueFacts ==
    ASSUME Shape, QueueInv
    PROVE  \A i \in DOMAIN backlog :
             /\ backlog[i] \in Procs
             /\ proc[backlog[i]].state \in {"connected", "hung", "dead"}
             /\ proc[backlog[i]].slot = -1
<1>1. backlog \in Seq(Procs)
  BY DEF Shape
<1>2. \A i \in DOMAIN backlog : backlog[i] \in Procs
  BY <1>1
<1>3. QED
  BY <1>2 DEF QueueInv, Waits

\* forkReplicas adds a process that nobody knows of.
LEMMA ForkReplicasStep ==
    ASSUME HandshakeInv, ForkReplicas, UNCHANGED config
    PROVE  HandshakeInv'
<1> USE DEF HandshakeInv
<1>1. PICK n \in Procs : n = NextPid /\ proc[n].state = "none"
  BY ForkedPid DEF ForkReplicas
<1>2. /\ Slots' = Slots
      /\ rep_count' = rep_count
      /\ Server' = Server
      /\ config'.hostile = config.hostile
  BY SameConfig
<1>3. /\ rep_count \in 1 .. 3
      /\ Slots = 0 .. rep_count - 1
      /\ Server \in {"VoterM", "VoterD"}
  BY SlotFacts DEF Shape
<1>4. /\ proc' \in [Procs -> Held(Slots)]
      /\ Moves(proc, proc', n, "exec")
  <2>1. proc' = [proc EXCEPT ![n].state = "exec"]
    BY <1>1 DEF ForkReplicas
  <2>2. proc \in [Procs -> Held(Slots)] /\ "exec" \in States
    BY DEF Shape, States, Stages
  <2>3. QED
    BY <2>1, <2>2, StateAssigned
<1>5. /\ pc = "fork" /\ starting /\ starting' = starting /\ conn' = conn
      /\ backlog' = backlog /\ msg' = msg /\ named' = named /\ faulty' = faulty
      /\ turn' = turn /\ pinned_cpu' = pinned_cpu /\ config' = config
  BY DEF ForkReplicas, TableInv
<1>6. \/ /\ Server = "VoterM" /\ pc' = "accept" /\ pid' = pid /\ slot' = slot
      \/ /\ Server = "VoterD" /\ pid' = [pid EXCEPT ![slot] = n]
         /\ slot = rep_count - 1 /\ pc' = "accept" /\ slot' = 0
      \/ /\ Server = "VoterD" /\ pid' = [pid EXCEPT ![slot] = n]
         /\ slot # rep_count - 1 /\ pc' = "fork" /\ slot' = slot + 1
  BY <1>1 DEF ForkReplicas, ForkReplicasD, ForkReplicasM
<1>7. \A q \in Procs : /\ Keeps(proc, proc', q)
                       /\ q # n => (proc'[q] = proc[q] /\ (Lives(proc'[q]) <=> Lives(proc[q])))
                       /\ proc'[q].handlers = proc[q].handlers
                       /\ proc'[q].signalled = proc[q].signalled
  BY <1>4 DEF Moves, Lives
<1>8. /\ proc'[n].state = "exec" /\ Lives(proc'[n]) /\ ~Lives(proc[n])
      /\ proc[n] = Unborn
      /\ proc'[n].slot = -1 /\ ~proc'[n].signalled
      /\ msg[n] = <<>> /\ n \notin named
  BY <1>1, <1>4, <1>7 DEF Moves, Lives, Keeps, Unborn, ProcessInv, Stages
<1>9. Shape'
  <2>1. slot' \in Slots /\ pc' \in {"fork", "accept"}
    BY SMTT(30), <1>3, <1>6 DEF Shape
  <2>2. pid' \in [Slots -> Procs \cup {NoPid}]
    BY <1>6 DEF Shape
  <2>3. QED
    BY <1>2, <1>4, <1>5, <2>1, <2>2 DEF Shape
<1>10. QueueInv'
  <2>1. \A i \in DOMAIN backlog : backlog[i] \in Procs /\ backlog[i] # n
    BY <1>1, QueueFacts
  <2>2. QED
    BY <1>1, <1>5, <1>6, <1>7, <1>8, <2>1 DEF QueueInv, Waits, Asked
<1>11. ProcessInv'
  BY <1>2, <1>5, <1>6, <1>7, <1>8 DEF ProcessInv, Keeps
<1>12. TableInv'
  <2>1. \A s \in Slots : Settled(s)' <=> Settled(s)
    BY <1>2, <1>3, <1>5, <1>6 DEF Settled
  <2>2. \A s \in Slots : pid[s] # n
    BY <1>1, PidFacts DEF TableInv
  <2>3. \A s \in Slots : Settled(s) => pid'[s] = pid[s]
    BY <1>5, <1>6 DEF Settled, Shape
  <2>4. \A s \in Slots : pid'[s] # NoPid => pid'[s] = n \/ pid'[s] = pid[s]
    BY <1>6 DEF Shape
  <2>5. \A s \in Slots : pid[s] \in Procs \cup {NoPid}
    BY DEF Shape
  <2>6. \A s \in Slots : pid'[s] # NoPid => proc'[pid'[s]].state # "none"
    BY <1>7, <1>8, <2>4, <2>5 DEF TableInv
  <2>7. ASSUME NEW s \in Slots, NEW p \in Procs, Lives(proc'[p])
        PROVE  /\ Settled(s) => (pid'[s] = p <=> proc'[p].slot = s)
               /\ (~Settled(s) /\ proc'[p].slot = s) => FALSE
    <3>1. CASE p = n
      BY <1>3, <1>8, <2>2, <2>3, <3>1
    <3>2. CASE p # n
      BY <1>5, <1>7, <2>3, <2>7, <3>2 DEF TableInv, Keeps
    <3>3. QED
      BY <3>1, <3>2
  <2>8. QED
    BY <1>2, <1>5, <1>6, <2>1, <2>6, <2>7 DEF TableInv
<1>13. CalmInv'
  <2>1. SUFFICES ASSUME ~config.hostile
                 PROVE  CalmInv'
    BY <1>2 DEF CalmInv
  <2>2. Coming' = Coming \cup {n}
    BY <1>5, <1>6, <1>7, <1>8 DEF Coming, Keeps, Asked
  <2>3. n \notin Coming /\ Coming \in SUBSET Procs
    BY <1>8 DEF Coming
  <2>4. Cardinality(Coming') = Cardinality(Coming) + 1
    BY <2>2, <2>3, Counting
  <2>5. Cardinality(Coming) = Due
    BY <2>1 DEF CalmInv
  <2>6. Due' = Due + 1
    BY <1>2, <1>3, <1>5, <1>6 DEF Due, Shape
  <2>7. \A s \in Slots : Settled(s)' => /\ Settled(s) /\ pid'[s] = pid[s]
                                        /\ pid'[s] # NoPid /\ Lives(proc'[pid'[s]])
    <3>1. \A s \in Slots : Settled(s)' => Settled(s) /\ pid'[s] = pid[s]
      BY <1>2, <1>3, <1>5, <1>6 DEF Settled, Shape
    <3>2. \A s \in Slots : Settled(s) => pid[s] \in Procs /\ Lives(proc[pid[s]])
      BY <1>5, <2>1 DEF CalmInv, Shape
    <3>3. \A x \in Procs : Lives(proc[x]) => Lives(proc'[x])
      BY <1>7, <1>8
    <3>4. QED
      BY <3>1, <3>2, <3>3, PidFacts
  <2>8. \A i \in DOMAIN backlog : Lives(proc'[backlog[i]])
    BY <1>7, <1>8, <2>1 DEF CalmInv, Shape
  <2>9. \A p \in Procs :
           /\ proc'[p].state = "dead" => p \in faulty
           /\ proc'[p].state # "hung"
           /\ proc'[p].state = "up" => proc'[p].handlers
           /\ (Lives(proc'[p]) /\ proc'[p].signalled) => (proc'[p].handlers /\ proc'[p].slot # -1)
    BY <1>5, <1>7, <1>8, <2>1 DEF CalmInv
  <2>10. QED
    BY <1>2, <1>5, <1>6, <2>4, <2>5, <2>6, <2>7, <2>8, <2>9 DEF CalmInv
<1>14. QED
  BY <1>9, <1>10, <1>11, <1>12, <1>13

\* accept() takes the first process of the queue.
LEMMA AcceptStep ==
    ASSUME HandshakeInv, Accept, UNCHANGED config
    PROVE  HandshakeInv'
<1> USE DEF HandshakeInv
<1>1. /\ Slots' = Slots
      /\ rep_count' = rep_count
      /\ Server' = Server
      /\ config'.hostile = config.hostile
  BY SameConfig
<1>2. /\ rep_count \in 1 .. 3
      /\ Slots = 0 .. rep_count - 1
      /\ Server \in {"VoterM", "VoterD"}
  BY SlotFacts DEF Shape
<1>3. /\ pc = "accept" /\ pc' = "send" /\ slot' = slot /\ starting' = starting
      /\ pid' = pid /\ pinned_cpu' = pinned_cpu /\ turn' = turn /\ proc' = proc
      /\ msg' = msg /\ named' = named /\ faulty' = faulty /\ config' = config
      /\ backlog' = Tail(backlog) /\ backlog # <<>> /\ conn' = Head(backlog)
  BY DEF Accept
<1>4. /\ 1 \in DOMAIN backlog
      /\ conn' = backlog[1]
      /\ \A i \in DOMAIN backlog' : i + 1 \in DOMAIN backlog /\ backlog'[i] = backlog[i + 1]
      /\ \A i \in DOMAIN backlog' : i \in Nat \ {0}
      /\ backlog' \in Seq(Procs)
  <2>1. PICK b \in Seq(Procs) : b = backlog
    BY DEF Shape
  <2>2. /\ 1 \in DOMAIN b /\ Head(b) = b[1]
        /\ Tail(b) \in Seq(Procs)
        /\ \A i \in DOMAIN Tail(b) : /\ i + 1 \in DOMAIN b /\ Tail(b)[i] = b[i + 1]
                                     /\ i \in Nat \ {0}
    BY <1>3, <2>1
  <2>3. QED
    BY <1>3, <2>1, <2>2
<1>5. PICK p \in Procs : p = conn'
  BY <1>4, QueueFacts
<1>6. \A i \in DOMAIN backlog' : backlog'[i] # p
  BY <1>4, <1>5 DEF QueueInv
<1>7. Shape'
  BY <1>1, <1>3, <1>4, <1>5 DEF Shape
<1>8. Waits(p)
  BY <1>4, <1>5 DEF QueueInv
<1>9. QueueInv'
  <2>1. \A i \in DOMAIN backlog' : Waits(backlog'[i])
    BY <1>4 DEF QueueInv
  <2>2. \A i, j \in DOMAIN backlog' : backlog'[i] = backlog'[j] => i = j
    <3>1. TAKE i, j \in DOMAIN backlog'
    <3>2. i + 1 = j + 1 => i = j
      BY <1>4
    <3>3. QED
      BY <1>4, <3>2 DEF QueueInv
  <2>3. QED
    BY <1>3, <1>5, <1>6, <1>8, <2>1, <2>2 DEF QueueInv, Waits, Asked
<1>10. ProcessInv'
  BY <1>1, <1>3 DEF ProcessInv
<1>11. \A s \in Slots : Settled(s)' <=> Settled(s)
  BY <1>1, <1>3 DEF Settled
<1>12. TableInv'
  BY <1>1, <1>3, <1>11 DEF TableInv
<1>13. CalmInv'
  <2>1. SUFFICES ASSUME ~config.hostile
                 PROVE  CalmInv'
    BY <1>1 DEF CalmInv
  <2>2. Lives(proc[p]) /\ proc[p].slot = -1
    BY <1>4, <1>5, <1>8, <2>1 DEF CalmInv, Waits
  <2>3. ~proc[p].signalled
    BY <2>1, <2>2 DEF CalmInv
  <2>4. Coming' = Coming \ {p}
    BY <1>3, <1>5, <2>2, <2>3 DEF Coming, Asked
  <2>5. p \in Coming /\ Coming \in SUBSET Procs
    BY <1>3, <2>2 DEF Coming, Asked
  <2>6. Cardinality(Coming') = Cardinality(Coming) - 1
    BY <2>4, <2>5, Counting
  <2>7. Cardinality(Coming) = Due
    BY <2>1 DEF CalmInv
  <2>8. Due' = Due - 1
    BY <1>1, <1>2, <1>3 DEF Due, Shape
  <2>9. \A i \in DOMAIN backlog' : Lives(proc'[backlog'[i]])
    BY <1>3, <1>4, <2>1 DEF CalmInv
  <2>10. QED
    BY <1>1, <1>3, <1>5, <1>11, <2>2, <2>6, <2>7, <2>8, <2>9 DEF CalmInv, Failed
<1>14. QED
  BY <1>7, <1>9, <1>10, <1>12, <1>13

\* sendFDS: one message, with the pipes of the slot the voter is at.
LEMMA SendFDSStep ==
    ASSUME HandshakeInv, SendFDS, UNCHANGED config
    PROVE  HandshakeInv'
<1> USE DEF HandshakeInv
<1>1. /\ Slots' = Slots
      /\ rep_count' = rep_count
      /\ Server' = Server
      /\ config'.hostile = config.hostile
  BY SameConfig
<1>2. /\ rep_count \in 1 .. 3
      /\ Slots = 0 .. rep_count - 1
      /\ Server \in {"VoterM", "VoterD"}
  BY SlotFacts DEF Shape
<1>3. /\ pc = "send" /\ slot' = slot /\ starting' = starting /\ conn' = conn
      /\ backlog' = backlog
      /\ pid' = pid /\ pinned_cpu' = pinned_cpu /\ turn' = turn /\ proc' = proc
      /\ named' = named /\ faulty' = faulty /\ config' = config
  BY DEF SendFDS
<1>4. PICK p \in Procs : p = conn /\ Waits(p)
  BY <1>3 DEF QueueInv
<1>5. PICK m : m = [pipes |-> IF Server = "VoterM" THEN TypedPipesM ELSE TypedPipesD,
                    cpu |-> pinned_cpu[slot], slot |-> slot, turn |-> turn[slot]]
  OBVIOUS
<1>6. /\ m \in Letter(Slots)
      /\ m.slot = slot /\ m.turn = turn[slot] /\ m.cpu = pinned_cpu[slot]
  <2>1. /\ slot \in Slots /\ pinned_cpu[slot] \in Nat /\ turn[slot] \in Nat
    BY DEF Shape
  <2>2. PICK t : t = IF Server = "VoterM" THEN TypedPipesM ELSE TypedPipesD
    OBVIOUS
  <2>3. t \in Sent
    BY <2>2 DEF Sent
  <2>4. m = [pipes |-> t, cpu |-> pinned_cpu[slot], slot |-> slot, turn |-> turn[slot]]
    BY <1>5, <2>2
  <2>5. QED
    BY <2>1, <2>3, <2>4 DEF Letter
<1>7. \/ /\ proc[p].state # "dead" /\ pc' = "read"
         /\ msg' = [msg EXCEPT ![p] = Append(msg[p], m)]
      \/ /\ proc[p].state = "dead" /\ pc' = "exited" /\ msg' = msg
  BY <1>4, <1>5 DEF SendFDS
<1>8. msg' \in [Procs -> Seq(Letter(Slots))]
  <2>1. msg \in [Procs -> Seq(Letter(Slots))]
    BY DEF Shape
  <2>2. Append(msg[p], m) \in Seq(Letter(Slots))
    BY <1>6, <2>1
  <2>3. QED
    BY <1>7, <2>1, <2>2
<1>9. /\ \A q \in Procs : q # p => msg'[q] = msg[q]
      /\ pc' = "read" => Head(msg'[p]) = m
  <2>1. Append(<<>>, m) = <<m>>
    OBVIOUS
  <2>2. msg[p] = <<>> /\ msg \in [Procs -> Seq(Letter(Slots))]
    BY <1>4 DEF Waits, Shape
  <2>3. pc' = "read" => msg'[p] = <<m>>
    BY <1>7, <2>1, <2>2
  <2>4. Head(<<m>>) = m
    OBVIOUS
  <2>5. \A q \in Procs : q # p => msg'[q] = msg[q]
    BY <1>7, <2>2
  <2>6. QED
    BY <2>3, <2>4, <2>5
<1>10. Shape'
  BY <1>1, <1>3, <1>7, <1>8 DEF Shape
<1>11. \A i \in DOMAIN backlog : backlog[i] \in Procs /\ backlog[i] # p
  BY <1>3, <1>4, QueueFacts DEF QueueInv, Asked
<1>12. QueueInv'
  BY <1>3, <1>4, <1>7, <1>9, <1>11 DEF QueueInv, Waits, Asked
<1>13. ProcessInv'
  <2>1. Server = "VoterM" => pinned_cpu[slot] = slot + 1
    BY DEF TableInv, Shape
  <2>2. proc[p].state \in {"connected", "hung", "dead"}
    BY <1>4 DEF Waits
  <2>3. ASSUME NEW q \in Procs, proc[q].state = "connected", msg'[q] # <<>>
        PROVE  /\ pc' = "read" /\ q = conn
               /\ Head(msg'[q]).slot = slot /\ Head(msg'[q]).turn = turn[slot]
               /\ Server = "VoterM" => Head(msg'[q]).cpu = slot + 1
    <3>1. CASE q = p
      BY <1>4, <1>6, <1>7, <1>9, <2>1, <2>3, <3>1
    <3>2. CASE q # p
      BY <1>3, <1>9, <2>3, <3>2 DEF ProcessInv
    <3>3. QED
      BY <3>1, <3>2
  <2>4. \A q \in Procs : proc[q].state \in {"none", "exec"} => msg'[q] = <<>>
    BY <1>9, <2>2 DEF ProcessInv
  <2>5. QED
    BY <1>1, <1>3, <2>3, <2>4 DEF ProcessInv
<1>14. \A s \in Slots : Settled(s)' <=> Settled(s)
  BY <1>1, <1>3, <1>7 DEF Settled
<1>15. TableInv'
  BY <1>1, <1>3, <1>7, <1>14 DEF TableInv
<1>16. CalmInv'
  <2>1. SUFFICES ASSUME ~config.hostile
                 PROVE  CalmInv'
    BY <1>1 DEF CalmInv
  <2>2. Lives(proc[p])
    BY <1>3, <1>4, <2>1 DEF CalmInv
  <2>3. pc' = "read"
    BY <1>7, <2>2 DEF Lives, Stages
  <2>4. Coming' = Coming
    BY <1>3, <2>3 DEF Coming, Asked
  <2>5. Due' = Due
    BY <1>1, <1>3, <2>3 DEF Due
  <2>6. QED
    BY <1>1, <1>3, <1>14, <2>1, <2>3, <2>4, <2>5 DEF CalmInv, Failed
<1>17. QED
  BY <1>10, <1>12, <1>13, <1>15, <1>16

\* acceptSendFDS ends with the pid of the process that has the slot's pipes.
LEMMA ReadPidStep ==
    ASSUME HandshakeInv, ReadPid, UNCHANGED config
    PROVE  HandshakeInv'
<1> USE DEF HandshakeInv
<1>1. /\ Slots' = Slots
      /\ rep_count' = rep_count
      /\ Server' = Server
      /\ config'.hostile = config.hostile
  BY SameConfig
<1>2. /\ rep_count \in 1 .. 3
      /\ Slots = 0 .. rep_count - 1
      /\ Server \in {"VoterM", "VoterD"}
  BY SlotFacts DEF Shape
<1>3. /\ pc = "read" /\ conn' = NoPid /\ backlog' = backlog
      /\ pinned_cpu' = pinned_cpu /\ turn' = turn /\ proc' = proc /\ msg' = msg
      /\ named' = named /\ faulty' = faulty /\ config' = config
      /\ conn \in named /\ pid' = [pid EXCEPT ![slot] = conn]
  BY DEF ReadPid
<1>4. PICK p \in Procs : /\ p = conn /\ p \in named /\ proc[p].slot = slot
                         /\ proc[p].state # "none"
  BY <1>3 DEF QueueInv
<1>5. \/ /\ starting /\ slot < rep_count - 1 /\ slot' = slot + 1 /\ starting' = starting
         /\ \/ Server = "VoterM" /\ pc' = "fork"
            \/ Server = "VoterD" /\ pc' = "accept"
      \/ /\ ~(starting /\ slot < rep_count - 1)
         /\ pc' = "up" /\ starting' = FALSE /\ slot' = slot
  BY <1>2 DEF ReadPid, NextSlot
<1>6. /\ slot \in Slots /\ pid'[slot] = p
      /\ \A s \in Slots : s # slot => pid'[s] = pid[s]
      /\ pid' \in [Slots -> Procs \cup {NoPid}]
  BY <1>3, <1>4 DEF Shape
<1>7. Shape'
  <2>1. slot' \in Slots /\ pc' \in {"fork", "accept", "up"}
    BY <1>2, <1>5, <1>6
  <2>2. starting' \in BOOLEAN
    BY <1>5 DEF Shape
  <2>3. QED
    BY <1>1, <1>3, <1>6, <2>1, <2>2 DEF Shape
<1>8. QueueInv'
  BY <1>3, <1>5 DEF QueueInv, Waits, Asked
<1>9. ProcessInv'
  BY <1>1, <1>3, <1>4 DEF ProcessInv
<1>10. \A s \in Slots : Settled(s)' <=> Settled(s) \/ s = slot
  BY <1>1, <1>2, <1>3, <1>5, <1>6 DEF Settled
<1>11. ~Settled(slot)
  BY <1>2, <1>3, <1>6 DEF Settled
<1>12. TableInv'
  <2>1. \A s \in Slots : pid'[s] # NoPid => proc'[pid'[s]].state # "none"
    BY <1>3, <1>4, <1>6 DEF TableInv
  <2>2. ASSUME NEW s \in Slots, NEW q \in Procs, Lives(proc[q])
        PROVE  /\ Settled(s)' => (pid'[s] = q <=> proc[q].slot = s)
               /\ ~Settled(s)' => proc[q].slot # s
    <3>1. CASE s = slot
      BY <1>4, <1>6, <1>10, <1>11, <2>2, <3>1 DEF TableInv
    <3>2. CASE s # slot
      BY <1>6, <1>10, <2>2, <3>2 DEF TableInv
    <3>3. QED
      BY <3>1, <3>2
  <2>3. (Server = "VoterD" /\ ~starting' /\ pc' \in {"accept", "send", "read"}) => FALSE
    BY <1>5
  <2>4. pc' = "fork" => starting'
    BY <1>5
  <2>5. QED
    BY <1>1, <1>3, <2>1, <2>2, <2>3, <2>4 DEF TableInv
<1>13. CalmInv'
  <2>1. SUFFICES ASSUME ~config.hostile
                 PROVE  CalmInv'
    BY <1>1 DEF CalmInv
  <2>2. Coming' = Coming
    BY <1>2, <1>3, <1>4, <1>5, <1>6 DEF Coming, Asked
  <2>3. Due' = Due
    BY <1>1, <1>2, <1>3, <1>5, <1>6 DEF Due
  <2>4. Lives(proc[p])
    BY <1>3, <1>4, <2>1 DEF CalmInv
  <2>5. \A q \in Procs : proc[q].state # "hung"
    BY <1>3, <2>1 DEF CalmInv
  <2>6. \A s \in Slots : Settled(s)' => pid'[s] \in Procs /\ Lives(proc[pid'[s]])
    <3>1. \A s \in Slots : Settled(s) => pid[s] \in Procs /\ Lives(proc[pid[s]])
      BY <1>3, <2>1 DEF CalmInv, Shape
    <3>2. QED
      BY <1>6, <1>10, <2>4, <3>1
  <2>7. \A s \in Slots : pc' = "up" => ~Failed(s)'
    <3>1. \A s \in Slots : pc' = "up" => Settled(s)'
      BY DEF Settled
    <3>2. \A q \in Procs : Lives(proc[q]) => proc[q].state \notin {"dead", "hung"}
      BY <2>5 DEF Lives, Stages
    <3>3. QED
      BY <1>3, <2>6, <3>1, <3>2, PidFacts DEF Failed
  <2>8. QED
    BY <1>1, <1>3, <1>5, <2>1, <2>2, <2>3, <2>5, <2>6, <2>7, PidFacts DEF CalmInv
<1>14. QED
  BY <1>7, <1>8, <1>9, <1>12, <1>13

\* The process has died before it sent its pid: under VoterM, and at the
\* start, the voter exits; otherwise the slot is left with no pid.
LEMMA ReadPidFailedStep ==
    ASSUME HandshakeInv, ReadPidFailed, UNCHANGED config
    PROVE  HandshakeInv'
<1> USE DEF HandshakeInv
<1>1. /\ Slots' = Slots
      /\ rep_count' = rep_count
      /\ Server' = Server
      /\ config'.hostile = config.hostile
  BY SameConfig
<1>2. /\ rep_count \in 1 .. 3
      /\ Slots = 0 .. rep_count - 1
      /\ Server \in {"VoterM", "VoterD"}
  BY SlotFacts DEF Shape
<1>3. /\ pc = "read" /\ conn' = NoPid /\ backlog' = backlog /\ pid' = pid
      /\ pinned_cpu' = pinned_cpu /\ turn' = turn /\ proc' = proc /\ msg' = msg
      /\ named' = named /\ faulty' = faulty /\ config' = config
      /\ proc[conn].state = "dead"
  BY DEF ReadPidFailed
<1>4. PICK p \in Procs : p = conn /\ ~Lives(proc[p]) /\ proc[p].state = "dead"
  BY <1>3 DEF QueueInv, Lives, Stages
<1>5. /\ slot' = slot
      /\ \/ pc' = "exited" /\ starting' = starting
         \/ Server = "VoterD" /\ ~starting /\ pc' = "up" /\ starting' = FALSE
  BY <1>2 DEF ReadPidFailed, NextSlot
<1>6. Shape'
  BY <1>1, <1>3, <1>5 DEF Shape
<1>7. QueueInv'
  BY <1>3, <1>5 DEF QueueInv, Waits, Asked
<1>8. ProcessInv'
  BY <1>1, <1>3, <1>4 DEF ProcessInv
<1>9. \A s \in Slots : Settled(s)' => Settled(s) \/ (pc' = "up" /\ s = slot)
  BY <1>1, <1>2, <1>3, <1>5 DEF Settled
<1>10. \A s \in Slots : Settled(s) => Settled(s)'
  BY <1>1, <1>2, <1>3, <1>5 DEF Settled
<1>11. ~Settled(slot) /\ slot \in Slots
  BY <1>2, <1>3 DEF Settled, Shape
<1>12. TableInv'
  <2>1. ASSUME NEW s \in Slots, NEW q \in Procs, Lives(proc[q])
        PROVE  /\ Settled(s)' => (pid[s] = q <=> proc[q].slot = s)
               /\ ~Settled(s)' => proc[q].slot # s
    <3>1. CASE Settled(s)
      BY <1>10, <2>1, <3>1 DEF TableInv
    <3>2. CASE ~Settled(s)
      <4>1. proc[q].slot # s
        BY <1>4, <2>1, <3>2 DEF TableInv
      <4>2. Settled(s)' => pid[s] # q
        BY <1>3, <1>5, <1>9, <3>2, PidFacts DEF TableInv
      <4>3. QED
        BY <4>1, <4>2
    <3>3. QED
      BY <3>1, <3>2
  <2>2. QED
    BY <1>1, <1>3, <1>5, <2>1 DEF TableInv
<1>13. CalmInv'
  BY <1>1, <1>3, <1>4 DEF CalmInv
<1>14. QED
  BY <1>6, <1>7, <1>8, <1>12, <1>13

\* A restart kills whoever has the slot, and asks another replica to fork.
LEMMA RestartStep ==
    ASSUME HandshakeInv, NEW e \in Slots, Restart(e), UNCHANGED config
    PROVE  HandshakeInv'
<1> USE DEF HandshakeInv
<1>1. /\ Slots' = Slots
      /\ rep_count' = rep_count
      /\ Server' = Server
      /\ config'.hostile = config.hostile
  BY SameConfig
<1>2. /\ rep_count \in 1 .. 3
      /\ Slots = 0 .. rep_count - 1
      /\ Server \in {"VoterM", "VoterD"}
  BY SlotFacts DEF Shape
<1>3. PICK r \in Slots : /\ r = (e + rep_count - 1) % rep_count
                         /\ rep_count > 1 => r # e
  BY SlotFacts DEF Shape
<1>4. /\ pc = "up" /\ Failed(e) /\ proc' = Signalled(e, r) /\ slot' = e
      /\ conn' = conn /\ backlog' = backlog /\ msg' = msg /\ named' = named
      /\ faulty' = faulty /\ config' = config
      /\ turn' = [turn EXCEPT ![e] = @ + 1]
      /\ ~config.hostile => \A s \in Slots : ~Failed(s) => proc[pid[s]].state = "up"
  BY <1>3 DEF Restart
<1>5. \/ rep_count = 1 /\ pc' = "fork" /\ starting' = TRUE
      \/ rep_count > 1 /\ pc' = "accept" /\ starting' = FALSE
  <2>1. /\ starting' = (rep_count = 1)
        /\ pc' = IF rep_count = 1 THEN "fork" ELSE "accept"
    BY DEF Restart
  <2>2. CASE rep_count = 1
    BY <2>1, <2>2
  <2>3. CASE rep_count # 1
    <3>1. rep_count > 1
      BY <1>2, <2>3
    <3>2. QED
      BY <2>1, <2>3, <3>1
  <2>4. QED
    BY <2>2, <2>3
<1>6. \/ /\ Server = "VoterM" /\ pid' = pid /\ pinned_cpu' = pinned_cpu
      \/ /\ Server = "VoterD" /\ pid' = [pid EXCEPT ![e] = NoPid]
         /\ pinned_cpu' = [pinned_cpu EXCEPT ![e] = 1]
  BY DEF Restart, ResetSlotD, ResetSlotM
<1>7. /\ proc' \in [Procs -> Held(Slots)]
      /\ \A q \in Procs :
           /\ Keeps(proc, proc', q)
           /\ proc'[q].handlers = proc[q].handlers
           /\ ~Lives(proc[q]) => proc'[q] = proc[q]
           /\ Lives(proc[q]) /\ q \in Reached(pid[e]) => proc'[q].state = "dead"
           /\ q \notin Reached(pid[e]) => proc'[q].state = proc[q].state
           /\ (Lives(proc[q]) /\ q \notin Reached(pid[e]))
                => (proc'[q].signalled <=> \/ proc[q].signalled
                                           \/ rep_count > 1 /\ q \in Reached(pid[r]))
  BY <1>4, SignalsSent
<1>8. \A q \in Procs : \/ proc'[q].state = proc[q].state
                       \/ Lives(proc[q]) /\ proc'[q].state = "dead"
  BY <1>7
<1>9. \A q \in Procs : Lives(proc'[q]) => /\ Lives(proc[q])
                                          /\ q \notin Reached(pid[e])
                                          /\ proc'[q].state = proc[q].state
  BY <1>7, <1>8 DEF Lives, Stages
<1>10. /\ turn'[e] = turn[e] + 1
       /\ \A s \in Slots : s # e => turn'[s] = turn[s] /\ pid'[s] = pid[s]
       /\ turn' \in [Slots -> Nat]
       /\ pid' \in [Slots -> Procs \cup {NoPid}]
       /\ pinned_cpu' \in [Slots -> Nat]
  <2>1. turn \in [Slots -> Nat] /\ pid \in [Slots -> Procs \cup {NoPid}]
        /\ pinned_cpu \in [Slots -> Nat]
    BY DEF Shape
  <2>2. /\ turn'[e] = turn[e] + 1 /\ turn' \in [Slots -> Nat]
        /\ \A s \in Slots : s # e => turn'[s] = turn[s]
    BY <1>4, <2>1
  <2>3. /\ \A s \in Slots : s # e => pid'[s] = pid[s]
        /\ pid' \in [Slots -> Procs \cup {NoPid}]
    BY <1>6, <2>1
  <2>4. pinned_cpu' \in [Slots -> Nat]
    BY <1>6, <2>1
  <2>5. QED
    BY <2>2, <2>3, <2>4
<1>11. Shape'
  BY <1>1, <1>4, <1>5, <1>7, <1>10 DEF Shape
<1>12. \A p \in Procs : proc[p].slot = e => ~Lives(proc'[p])
  <2>1. Settled(e)
    BY <1>4 DEF Settled
  <2>2. \A p \in Procs : p \in Reached(p)
    BY DEF Reached
  <2>3. QED
    BY <1>9, <2>1, <2>2 DEF TableInv
<1>13. QueueInv'
  <2>1. \A i \in DOMAIN backlog : /\ backlog[i] \in Procs
                                  /\ Waits(backlog[i])
    BY QueueFacts DEF QueueInv
  <2>2. \A q \in Procs : Waits(q) => Waits(q)'
    BY <1>4, <1>7, <1>8 DEF Waits, Keeps
  <2>3. \A i \in DOMAIN backlog : Waits(backlog[i])'
    BY <1>4, <2>1, <2>2
  <2>4. pc' \in {"fork", "accept"}
    BY <1>5
  <2>5. QED
    BY <1>4, <2>3, <2>4 DEF QueueInv, Asked
<1>14. ProcessInv'
  <2>1. ASSUME NEW p \in Procs
        PROVE  /\ proc'[p].state = "none" => proc'[p] = Unborn
               /\ proc'[p].state \in {"none", "exec"} => msg[p] = <<>>
               /\ proc'[p].state \in {"none", "exec", "connected"} =>
                    (proc'[p].slot = -1 /\ p \notin named)
               /\ proc'[p].state \in {"received", "named", "up"} => proc'[p].slot # -1
               /\ (Server = "VoterM" /\ proc'[p].slot # -1) => proc'[p].cpu = proc'[p].slot + 1
               /\ proc'[p].state = "connected" => msg[p] = <<>>
    <3>1. proc[p].state = "none" => ~Lives(proc[p])
      BY DEF Lives, Stages
    <3>2. proc'[p].state = "none" => proc'[p] = proc[p]
      BY <1>7, <1>8, <3>1
    <3>3. proc[p].state = "connected" => msg[p] = <<>>
      BY <1>4 DEF ProcessInv
    <3>4. QED
      BY <1>7, <1>8, <3>2, <3>3 DEF ProcessInv, Keeps
  <2>2. ASSUME NEW p \in Procs, Lives(proc'[p]), proc'[p].slot # -1
        PROVE  proc'[p].turn = turn'[proc'[p].slot]
    <3>1. proc[p].slot \in Slots /\ proc[p].slot # e
      BY <1>7, <1>12, <2>2 DEF Keeps, Shape, Held
    <3>2. proc'[p].slot = proc[p].slot /\ proc'[p].turn = proc[p].turn
      BY <1>7 DEF Keeps
    <3>3. Lives(proc[p]) /\ proc[p].slot # -1
      BY <1>9, <2>2, <3>2
    <3>4. proc[p].turn = turn[proc[p].slot]
      BY <3>3 DEF ProcessInv
    <3>5. turn'[proc[p].slot] = turn[proc[p].slot]
      BY <1>10, <3>1
    <3>6. QED
      BY <3>2, <3>4, <3>5
  <2>3. QED
    BY <1>1, <1>4, <2>1, <2>2 DEF ProcessInv
<1>15. \A s \in Slots : Settled(s)' <=> s # e
  BY <1>1, <1>2, <1>4, <1>5 DEF Settled
<1>16. \A s \in Slots : Settled(s)
  BY <1>4 DEF Settled
<1>17. TableInv'
  <2>1. \A s \in Slots : pid'[s] # NoPid => proc'[pid'[s]].state # "none"
    <3>1. \A s \in Slots : pid'[s] # NoPid => pid'[s] = pid[s] /\ pid[s] \in Procs
      BY <1>6, <1>10 DEF Shape
    <3>2. QED
      BY <1>8, <3>1 DEF TableInv
  <2>2. \A s \in Slots : Server = "VoterM" => pinned_cpu'[s] = s + 1
    BY <1>6 DEF TableInv
  <2>3. ASSUME NEW s \in Slots, NEW p \in Procs, Lives(proc'[p])
        PROVE  /\ s # e => (pid'[s] = p <=> proc'[p].slot = s)
               /\ s = e => proc'[p].slot # s
    BY <1>7, <1>9, <1>10, <1>12, <1>16, <2>3 DEF TableInv, Keeps
  <2>4. (Server = "VoterD" /\ ~starting' /\ pc' \in {"accept", "send", "read"})
          => pid'[e] = NoPid
    BY <1>6 DEF Shape
  <2>5. pc' = "fork" => starting'
    BY <1>5
  <2>6. QED
    BY <1>1, <1>4, <1>15, <2>1, <2>2, <2>3, <2>4, <2>5 DEF TableInv
<1>18. CalmInv'
  <2>1. SUFFICES ASSUME ~config.hostile
                 PROVE  CalmInv'
    BY <1>1 DEF CalmInv
  <2>2. PICK d \in Procs : d = pid[e] /\ proc[d].state \in {"dead", "hung"}
    BY <1>4, <1>16, <2>1 DEF CalmInv, Failed, Shape
  <2>3. Reached(pid[e]) = {d}
    BY <2>2, PidFacts DEF Reached
  <2>4. Coming = {}
    <3>1. Due = 0
      BY <1>4, <2>1 DEF Due, CalmInv
    <3>2. Coming \in SUBSET Procs
      BY DEF Coming
    <3>3. Cardinality(Coming) = Due
      BY <2>1 DEF CalmInv
    <3>4. QED
      BY <3>1, <3>2, <3>3, Counting
  <2>5. \A p \in Procs : Lives(proc[p]) => ~proc[p].signalled /\ proc[p].slot # -1
    BY <1>4, <2>4 DEF Coming, Asked
  <2>6. \A p \in Procs : Lives(proc[p]) => \E s \in Slots : pid[s] = p
    <3>1. \A p \in Procs : proc[p].slot \in Slots \cup {-1}
      BY DEF Shape, Held
    <3>2. QED
      BY <1>16, <2>5, <3>1 DEF TableInv
  <2>7. \A s \in Slots : s # e => /\ pid[s] \in Procs /\ pid[s] # d
                                  /\ proc[pid[s]].state = "up"
    <3>1. \A s \in Slots : pid[s] \in Procs
      BY <1>16, <2>1 DEF CalmInv, Shape
    <3>2. \A s \in Slots : s # e => proc[pid[s]].state = "up"
      BY <1>4, <2>1 DEF CalmInv
    <3>3. QED
      BY <2>2, <3>1, <3>2
  <2>8. \A p \in Procs : proc'[p].state # "hung"
    <3>1. \A p \in Procs : (proc[p].state = "hung") => Lives(proc[p])
      BY DEF Lives
    <3>2. \A p \in Procs : (Lives(proc[p]) /\ p # d) => proc[p].state = "up"
      BY <2>2, <2>6, <2>7
    <3>3. \A p \in Procs : proc[p].state = "hung" => p = d
      BY <3>1, <3>2
    <3>4. \A p \in Procs : proc[p].state = "hung" => proc'[p].state = "dead"
      BY <1>7, <2>3, <3>1, <3>3
    <3>5. QED
      BY <1>8, <3>4
  <2>9. \A p \in Procs : proc'[p].state = "dead" => p \in faulty
    <3>1. d \in faulty
      BY <2>1, <2>2 DEF CalmInv
    <3>2. QED
      BY <1>7, <2>1, <2>3, <3>1 DEF CalmInv
  <2>10. \A s \in Slots : s # e => pid'[s] # NoPid /\ Lives(proc'[pid'[s]])
    <3>1. \A s \in Slots : s # e => proc'[pid[s]].state = "up"
      BY <1>7, <2>3, <2>7
    <3>2. QED
      BY <1>10, <2>7, <3>1, PidFacts DEF Lives, Stages
  <2>11. \A i \in DOMAIN backlog : FALSE
    <3>1. \A i \in DOMAIN backlog : backlog[i] \in Coming
      BY <1>4, <2>1, QueueFacts DEF Coming, Asked, CalmInv
    <3>2. QED
      BY <2>4, <3>1
  <2>12. \A p \in Procs : Lives(proc'[p]) /\ proc'[p].signalled =>
                            /\ rep_count > 1 /\ p = pid[r]
                            /\ proc'[p].handlers /\ proc'[p].slot # -1
    <3>1. SUFFICES ASSUME NEW p \in Procs, Lives(proc'[p]), proc'[p].signalled
                   PROVE  /\ rep_count > 1 /\ p = pid[r]
                          /\ proc'[p].handlers /\ proc'[p].slot # -1
      OBVIOUS
    <3>2. Lives(proc[p]) /\ p \notin Reached(pid[e])
      BY <1>9, <3>1
    <3>3. rep_count > 1 /\ p \in Reached(pid[r])
      BY <1>7, <2>5, <3>1, <3>2
    <3>4. p = pid[r] /\ proc[p].state = "up"
      BY <1>3, <2>7, <3>3, PidFacts DEF Reached
    <3>5. proc[p].handlers /\ proc[p].slot # -1
      BY <2>1, <2>5, <3>2, <3>4 DEF CalmInv
    <3>6. QED
      BY <1>7, <3>3, <3>4, <3>5 DEF Keeps
  <2>13. Coming' = IF rep_count > 1 THEN {pid[r]} ELSE {}
    <3>1. \A p \in Procs : Lives(proc'[p]) => proc'[p].slot # -1
      BY <1>7, <1>9, <2>5 DEF Keeps
    <3>2. \A p \in Coming' : rep_count > 1 /\ p = pid[r]
      BY <2>12, <3>1 DEF Coming
    <3>3. rep_count > 1 => pid[r] \in Coming'
      <4>1. SUFFICES ASSUME rep_count > 1
                     PROVE  pid[r] \in Coming'
        OBVIOUS
      <4>2. PICK x \in Procs : x = pid[r] /\ x # d /\ proc[x].state = "up"
        BY <1>3, <2>7, <4>1
      <4>3. Lives(proc[x]) /\ x \notin Reached(pid[e]) /\ x \in Reached(pid[r])
        BY <2>3, <4>2 DEF Lives, Stages, Reached
      <4>4. proc'[x].signalled /\ proc'[x].state = "up"
        BY <1>7, <4>1, <4>2, <4>3
      <4>5. QED
        BY <4>2, <4>4 DEF Coming, Lives, Stages
    <3>4. QED
      BY <3>2, <3>3
  <2>14. Cardinality(Coming') = Due'
    <3>1. Due' = IF rep_count > 1 THEN 1 ELSE 0
      BY <1>1, <1>2, <1>4, <1>5 DEF Due
    <3>2. Cardinality({pid[r]}) = 1
      BY FS_Singleton
    <3>3. QED
      BY <2>13, <3>1, <3>2, FS_EmptySet
  <2>15. \A p \in Procs : proc'[p].state = "up" => proc'[p].handlers
    BY <1>7, <1>8, <2>1 DEF CalmInv
  <2>16. pc' \in {"fork", "accept"}
    BY <1>5
  <2>17. QED
    BY <1>1, <1>4, <1>15, <2>8, <2>9, <2>10, <2>11, <2>12, <2>14, <2>15, <2>16
    DEF CalmInv
<1>19. QED
  BY <1>11, <1>13, <1>14, <1>17, <1>18

-----------------------------------------------------------------------------
(***************************************************************************)
(* The steps of a replica, and faults.                                     *)
(***************************************************************************)

\* connect() puts the process at the end of the queue.
LEMMA ConnectStep ==
    ASSUME HandshakeInv, NEW p \in Procs, Connect(p), UNCHANGED config
    PROVE  HandshakeInv'
<1> USE DEF HandshakeInv
<1>1. /\ Slots' = Slots
      /\ rep_count' = rep_count
      /\ Server' = Server
      /\ config'.hostile = config.hostile
  BY SameConfig
<1>2. /\ pc' = pc /\ slot' = slot /\ starting' = starting /\ conn' = conn
      /\ pid' = pid /\ pinned_cpu' = pinned_cpu /\ turn' = turn /\ msg' = msg
      /\ named' = named /\ faulty' = faulty /\ config' = config
      /\ proc[p].state = "exec" /\ backlog' = Append(backlog, p)
  BY DEF Connect
<1>3. /\ proc' \in [Procs -> Held(Slots)]
      /\ Moves(proc, proc', p, "connected")
  <2>1. proc' = [proc EXCEPT ![p].state = "connected"]
    BY DEF Connect
  <2>2. proc \in [Procs -> Held(Slots)] /\ "connected" \in States
    BY DEF Shape, States, Stages
  <2>3. QED
    BY <2>1, <2>2, StateAssigned
<1>4. /\ proc'[p].state = "connected" /\ Lives(proc[p]) /\ Lives(proc'[p])
      /\ \A q \in Procs : /\ q # p => proc'[q] = proc[q]
                          /\ Keeps(proc, proc', q)
                          /\ Lives(proc'[q]) <=> Lives(proc[q])
                          /\ proc'[q].handlers = proc[q].handlers
                          /\ proc'[q].signalled = proc[q].signalled
  BY <1>2, <1>3 DEF Moves, Lives, Stages
<1>5. PICK l \in Nat : l = Len(backlog)
  BY DEF Shape
<1>6. /\ backlog' \in Seq(Procs)
      /\ DOMAIN backlog = 1 .. l /\ DOMAIN backlog' = 1 .. l + 1
      /\ backlog'[l + 1] = p
      /\ \A i \in 1 .. l : backlog'[i] = backlog[i]
  <2>1. backlog \in Seq(Procs)
    BY DEF Shape
  <2>2. QED
    BY <1>2, <1>5, <2>1
<1>7. \A i \in 1 .. l : backlog[i] \in Procs /\ backlog[i] # p
  BY <1>2, <1>6, QueueFacts
<1>8. Shape'
  BY <1>1, <1>2, <1>3, <1>6 DEF Shape
<1>9. Waits(p)' /\ ~Asked(p)
  <2>1. proc[p].slot = -1 /\ p \notin named /\ msg[p] = <<>>
    BY <1>2 DEF ProcessInv
  <2>2. ~Asked(p)
    BY <1>2 DEF QueueInv, Asked, Waits
  <2>3. QED
    BY <1>2, <1>4, <2>1, <2>2 DEF Waits, Keeps
<1>10. QueueInv'
  <2>1. \A q \in Procs : (q # p /\ Waits(q)) => Waits(q)'
    BY <1>2, <1>4 DEF Waits
  <2>2. \A i \in 1 .. l + 1 :
           \E x \in Procs : x = backlog'[i] /\ Waits(x)' /\ ~Asked(x)
    <3>1. \A i \in 1 .. l :
             \E x \in Procs : x = backlog[i] /\ x # p /\ Waits(x) /\ ~Asked(x)
      BY <1>6, <1>7 DEF QueueInv
    <3>2. TAKE i \in 1 .. l + 1
    <3>3. CASE i \in 1 .. l
      <4>1. PICK x \in Procs : x = backlog[i] /\ x # p /\ Waits(x) /\ ~Asked(x)
        BY <3>1, <3>3
      <4>2. backlog'[i] = x
        BY <1>6, <3>3, <4>1
      <4>3. QED
        BY <2>1, <4>1, <4>2
    <3>4. CASE i = l + 1
      BY <1>6, <1>9, <3>4
    <3>5. QED
      BY <3>3, <3>4
  <2>3. \A i, j \in 1 .. l + 1 : backlog'[i] = backlog'[j] => i = j
    <3>1. TAKE i, j \in 1 .. l + 1
    <3>2. i \in 1 .. l \/ i = l + 1
      OBVIOUS
    <3>3. j \in 1 .. l \/ j = l + 1
      OBVIOUS
    <3>4. QED
      BY <1>6, <1>7, <3>2, <3>3 DEF QueueInv
  <2>4. QED
    BY <1>2, <1>4, <1>6, <1>9, <2>1, <2>2, <2>3 DEF QueueInv, Asked, Waits
<1>11. ProcessInv'
  BY <1>1, <1>2, <1>4 DEF ProcessInv, Keeps
<1>12. \A s \in Slots : Settled(s)' <=> Settled(s)
  BY <1>1, <1>2 DEF Settled
<1>13. TableInv'
  <2>1. \A s \in Slots : pid[s] # NoPid => proc'[pid[s]].state # "none"
    <3>1. \A s \in Slots : pid[s] \in Procs \cup {NoPid}
      BY DEF Shape
    <3>2. \A q \in Procs : proc[q].state # "none" => proc'[q].state # "none"
      BY <1>4
    <3>3. QED
      BY <3>1, <3>2 DEF TableInv
  <2>2. QED
    BY <1>1, <1>2, <1>4, <1>12, <2>1 DEF TableInv, Keeps
<1>14. CalmInv'
  <2>1. SUFFICES ASSUME ~config.hostile
                 PROVE  CalmInv'
    BY <1>1 DEF CalmInv
  <2>2. Coming' = Coming
    BY <1>2, <1>4 DEF Coming, Asked, Keeps
  <2>3. Due' = Due
    BY <1>1, <1>2 DEF Due
  <2>4. \A i \in DOMAIN backlog' : Lives(proc'[backlog'[i]])
    <3>1. \A i \in 1 .. l : Lives(proc'[backlog[i]])
      BY <1>4, <1>6, <1>7, <2>1 DEF CalmInv
    <3>2. TAKE i \in DOMAIN backlog'
    <3>3. i \in 1 .. l \/ i = l + 1
      BY <1>6
    <3>4. QED
      BY <1>4, <1>6, <3>1, <3>3
  <2>5. \A s \in Slots : Settled(s) => pid[s] # NoPid /\ (pc # "up" => Lives(proc'[pid[s]]))
    BY <1>4, <2>1 DEF CalmInv, Shape
  <2>6. \A s \in Slots : Failed(s)' => Failed(s)
    BY <1>2, <1>4 DEF Failed, Shape
  <2>7. pc \in {"send", "read"} => Lives(proc'[conn])
    BY <1>4, <2>1 DEF CalmInv, QueueInv
  <2>8. \A q \in Procs :
           /\ proc'[q].state = "dead" => q \in faulty
           /\ proc'[q].state = "hung" => (q \in faulty /\ pc = "up")
           /\ proc'[q].state = "up" => proc'[q].handlers
           /\ (Lives(proc'[q]) /\ proc'[q].signalled) => (proc'[q].handlers /\ proc'[q].slot # -1)
    BY <1>4, <2>1 DEF CalmInv, Keeps
  <2>9. QED
    BY <1>1, <1>2, <1>12, <2>1, <2>2, <2>3, <2>4, <2>5, <2>6, <2>7, <2>8 DEF CalmInv
<1>15. QED
  BY <1>8, <1>10, <1>11, <1>13, <1>14

\* requestFDS gives the process the slot of the message.
LEMMA RequestFDSStep ==
    ASSUME HandshakeInv, NEW p \in Procs, RequestFDS(p), UNCHANGED config
    PROVE  HandshakeInv'
<1> USE DEF HandshakeInv
<1>1. /\ Slots' = Slots
      /\ rep_count' = rep_count
      /\ Server' = Server
      /\ config'.hostile = config.hostile
  BY SameConfig
<1>2. /\ pc' = pc /\ slot' = slot /\ starting' = starting /\ conn' = conn
      /\ backlog' = backlog
      /\ pid' = pid /\ pinned_cpu' = pinned_cpu /\ turn' = turn
      /\ named' = named /\ faulty' = faulty /\ config' = config
      /\ proc[p].state = "connected" /\ msg[p] # <<>>
      /\ msg' = [msg EXCEPT ![p] = Tail(msg[p])]
  BY DEF RequestFDS, voterVars
<1>3. PICK m \in Letter(Slots) : m = Head(msg[p])
  BY <1>2 DEF Shape
<1>4. /\ pc = "read" /\ p = conn /\ m.slot = slot /\ m.turn = turn[slot]
      /\ Server = "VoterM" => m.cpu = slot + 1
      /\ proc[p].slot = -1 /\ p \notin named
  BY <1>2, <1>3 DEF ProcessInv
<1>5. /\ proc' \in [Procs -> Held(Slots)]
      /\ proc'[p].state = "received"
      /\ proc'[p].slot = m.slot /\ proc'[p].turn = m.turn /\ proc'[p].cpu = m.cpu
      /\ \A q \in Procs : /\ q # p => proc'[q] = proc[q]
                          /\ proc'[q].handlers = proc[q].handlers
                          /\ proc'[q].signalled = proc[q].signalled
  <2>1. proc' = Received(proc, p, m)
    BY <1>3 DEF RequestFDS, Received
  <2>2. proc \in [Procs -> Held(Slots)]
    BY DEF Shape
  <2>3. QED
    BY <2>1, <2>2, FDSReceived
<1>6. /\ Lives(proc[p]) /\ Lives(proc'[p])
      /\ \A q \in Procs : Lives(proc'[q]) <=> Lives(proc[q])
  BY <1>2, <1>5 DEF Lives, Stages
<1>7. /\ msg' \in [Procs -> Seq(Letter(Slots))]
      /\ \A q \in Procs : q # p => msg'[q] = msg[q]
  <2>1. msg \in [Procs -> Seq(Letter(Slots))] /\ Tail(msg[p]) \in Seq(Letter(Slots))
    BY <1>2 DEF Shape
  <2>2. QED
    BY <1>2, <2>1
<1>8. Shape'
  BY <1>1, <1>2, <1>5, <1>7 DEF Shape
<1>9. \A i \in DOMAIN backlog : backlog[i] \in Procs /\ backlog[i] # p
  BY <1>4, QueueFacts DEF QueueInv, Asked
<1>10. QueueInv'
  BY SMTT(30), <1>2, <1>4, <1>5, <1>7, <1>9 DEF QueueInv, Waits, Asked
<1>11. slot \in Slots /\ slot # -1
  BY SlotFacts DEF Shape
<1>12. ProcessInv'
  BY SMTT(30), <1>1, <1>2, <1>4, <1>5, <1>7, <1>11 DEF ProcessInv
<1>13. \A s \in Slots : Settled(s)' <=> Settled(s)
  BY <1>1, <1>2 DEF Settled
<1>14. TableInv'
  <2>1. \A s \in Slots : pid[s] # NoPid => proc'[pid[s]].state # "none"
    <3>1. \A s \in Slots : pid[s] \in Procs \cup {NoPid}
      BY DEF Shape
    <3>2. \A q \in Procs : proc[q].state # "none" => proc'[q].state # "none"
      BY <1>5
    <3>3. QED
      BY <3>1, <3>2 DEF TableInv
  <2>2. ~Settled(slot) /\ \A s \in Slots : s # -1
    BY <1>4, <1>11, SlotFacts DEF Settled, Shape
  <2>3. ASSUME NEW s \in Slots, NEW q \in Procs, Lives(proc'[q])
        PROVE  /\ Settled(s) => (pid[s] = q <=> proc'[q].slot = s)
               /\ (~Settled(s) /\ proc'[q].slot = s) => (s = slot /\ q = conn /\ pc = "read")
    <3>1. CASE q = p
      BY <1>4, <1>5, <1>6, <2>2, <3>1 DEF TableInv
    <3>2. CASE q # p
      BY <1>5, <1>6, <2>3, <3>2 DEF TableInv
    <3>3. QED
      BY <3>1, <3>2
  <2>4. QED
    BY <1>1, <1>2, <1>13, <2>1, <2>3 DEF TableInv
<1>15. CalmInv'
  <2>1. SUFFICES ASSUME ~config.hostile
                 PROVE  CalmInv'
    BY <1>1 DEF CalmInv
  <2>2. ~proc[p].signalled
    BY <1>4, <1>6, <2>1 DEF CalmInv
  <2>3. p \notin Coming /\ p \notin Coming'
    BY <1>2, <1>4, <1>5, <1>11, <2>2 DEF Coming, Asked
  <2>4. Coming' = Coming
    BY <1>2, <1>5, <2>3 DEF Coming, Asked
  <2>5. Due' = Due
    BY <1>1, <1>2 DEF Due
  <2>6. \A i \in DOMAIN backlog : Lives(proc'[backlog[i]])
    BY <1>6, <1>9, <2>1 DEF CalmInv
  <2>7. \A s \in Slots : Settled(s) => pid[s] # NoPid /\ (pc # "up" => Lives(proc'[pid[s]]))
    BY <1>6, <2>1 DEF CalmInv, Shape
  <2>8. \A q \in Procs :
           /\ proc'[q].state = "dead" => q \in faulty
           /\ proc'[q].state = "hung" => (q \in faulty /\ pc = "up")
           /\ proc'[q].state = "up" => proc'[q].handlers
           /\ (Lives(proc'[q]) /\ proc'[q].signalled) => (proc'[q].handlers /\ proc'[q].slot # -1)
    BY <1>5, <1>6, <2>1, <2>2 DEF CalmInv
  <2>9. QED
    BY <1>1, <1>2, <1>4, <1>6, <1>13, <2>1, <2>4, <2>5, <2>6, <2>7, <2>8 DEF CalmInv
<1>16. QED
  BY <1>8, <1>10, <1>12, <1>14, <1>15

\* The process sends its pid, which the voter waits for in acceptSendFDS.
LEMMA SendPidStep ==
    ASSUME HandshakeInv, NEW p \in Procs, SendPid(p), UNCHANGED config
    PROVE  HandshakeInv'
<1> USE DEF HandshakeInv
<1>1. /\ Slots' = Slots
      /\ rep_count' = rep_count
      /\ Server' = Server
      /\ config'.hostile = config.hostile
  BY SameConfig
<1>2. /\ pc' = pc /\ slot' = slot /\ starting' = starting /\ conn' = conn
      /\ backlog' = backlog /\ msg' = msg
      /\ pid' = pid /\ pinned_cpu' = pinned_cpu /\ turn' = turn /\ config' = config
      /\ named' = named \cup {p} /\ faulty' = faulty
      /\ proc[p].state = "received"
  BY DEF SendPid, voterVars
<1>3. /\ proc' \in [Procs -> Held(Slots)]
      /\ Moves(proc, proc', p, "named")
  <2>1. proc' = [proc EXCEPT ![p].state = "named"]
    BY DEF SendPid
  <2>2. proc \in [Procs -> Held(Slots)] /\ "named" \in States
    BY DEF Shape, States, Stages
  <2>3. QED
    BY <2>1, <2>2, StateAssigned
<1>4. /\ proc'[p].state = "named" /\ Lives(proc[p]) /\ Lives(proc'[p])
      /\ \A q \in Procs : /\ q # p => proc'[q] = proc[q]
                          /\ Keeps(proc, proc', q)
                          /\ Lives(proc'[q]) <=> Lives(proc[q])
                          /\ proc[q].handlers => proc'[q].handlers
                          /\ proc'[q].signalled = proc[q].signalled
  BY <1>2, <1>3 DEF Moves, Lives, Stages
<1>5. Shape'
  BY <1>1, <1>2, <1>3 DEF Shape
<1>6. \A i \in DOMAIN backlog : backlog[i] \in Procs /\ backlog[i] # p
  BY <1>2, QueueFacts
<1>7. QueueInv'
  BY <1>2, <1>4, <1>6 DEF QueueInv, Waits, Asked, Keeps
<1>8. ProcessInv'
  BY <1>1, <1>2, <1>4 DEF ProcessInv, Keeps
<1>9. \A s \in Slots : Settled(s)' <=> Settled(s)
  BY <1>1, <1>2 DEF Settled
<1>10. TableInv'
  <2>1. \A s \in Slots : pid[s] # NoPid => proc'[pid[s]].state # "none"
    <3>1. \A s \in Slots : pid[s] \in Procs \cup {NoPid}
      BY DEF Shape
    <3>2. \A q \in Procs : proc[q].state # "none" => proc'[q].state # "none"
      BY <1>4
    <3>3. QED
      BY <3>1, <3>2 DEF TableInv
  <2>2. QED
    BY <1>1, <1>2, <1>4, <1>9, <2>1 DEF TableInv, Keeps
<1>11. CalmInv'
  <2>1. SUFFICES ASSUME ~config.hostile
                 PROVE  CalmInv'
    BY <1>1 DEF CalmInv
  <2>2. Coming' = Coming
    BY <1>2, <1>4 DEF Coming, Asked, Keeps
  <2>3. Due' = Due
    BY <1>1, <1>2 DEF Due
  <2>4. \A i \in DOMAIN backlog : Lives(proc'[backlog[i]])
    BY <1>4, <1>6, <2>1 DEF CalmInv
  <2>5. \A s \in Slots : Settled(s) => pid[s] # NoPid /\ (pc # "up" => Lives(proc'[pid[s]]))
    BY <1>4, <2>1 DEF CalmInv, Shape
  <2>6. \A s \in Slots : Failed(s)' => Failed(s)
    BY <1>2, <1>4 DEF Failed, Shape
  <2>7. pc \in {"send", "read"} => Lives(proc'[conn])
    BY <1>4, <2>1 DEF CalmInv, QueueInv
  <2>8. \A q \in Procs :
           /\ proc'[q].state = "dead" => q \in faulty
           /\ proc'[q].state = "hung" => (q \in faulty /\ pc = "up")
           /\ proc'[q].state = "up" => proc'[q].handlers
           /\ (Lives(proc'[q]) /\ proc'[q].signalled) => (proc'[q].handlers /\ proc'[q].slot # -1)
    BY <1>3, <1>4, <2>1 DEF CalmInv, Keeps
  <2>9. QED
    BY <1>1, <1>2, <1>9, <2>1, <2>2, <2>3, <2>4, <2>5, <2>6, <2>7, <2>8 DEF CalmInv
<1>12. QED
  BY <1>5, <1>7, <1>8, <1>10, <1>11

\* initController installs the handlers.
LEMMA InitControllerStep ==
    ASSUME HandshakeInv, NEW p \in Procs, InitController(p), UNCHANGED config
    PROVE  HandshakeInv'
<1> USE DEF HandshakeInv
<1>1. /\ Slots' = Slots
      /\ rep_count' = rep_count
      /\ Server' = Server
      /\ config'.hostile = config.hostile
  BY SameConfig
<1>2. /\ pc' = pc /\ slot' = slot /\ starting' = starting /\ conn' = conn
      /\ backlog' = backlog /\ msg' = msg
      /\ pid' = pid /\ pinned_cpu' = pinned_cpu /\ turn' = turn /\ config' = config
      /\ named' = named /\ faulty' = faulty
      /\ proc[p].state = "named"
  BY DEF InitController, voterVars
<1>3. /\ proc' \in [Procs -> Held(Slots)]
      /\ proc'[p].state = "up" /\ proc'[p].handlers
      /\ \A q \in Procs : /\ q # p => proc'[q] = proc[q]
                          /\ Keeps(proc, proc', q)
                          /\ proc'[q].signalled = proc[q].signalled
  <2>1. proc' = Initialized(proc, p)
    BY DEF InitController, Initialized
  <2>2. proc \in [Procs -> Held(Slots)]
    BY DEF Shape
  <2>3. QED
    BY <2>1, <2>2, ControllerUp
<1>4. /\ proc'[p].state = "up" /\ Lives(proc[p]) /\ Lives(proc'[p])
      /\ \A q \in Procs : /\ q # p => proc'[q] = proc[q]
                          /\ Keeps(proc, proc', q)
                          /\ Lives(proc'[q]) <=> Lives(proc[q])
                          /\ proc[q].handlers => proc'[q].handlers
                          /\ proc'[q].signalled = proc[q].signalled
  BY <1>2, <1>3 DEF Lives, Stages
<1>5. Shape'
  BY <1>1, <1>2, <1>3 DEF Shape
<1>6. \A i \in DOMAIN backlog : backlog[i] \in Procs /\ backlog[i] # p
  BY <1>2, QueueFacts
<1>7. QueueInv'
  BY <1>2, <1>4, <1>6 DEF QueueInv, Waits, Asked, Keeps
<1>8. ProcessInv'
  BY <1>1, <1>2, <1>4 DEF ProcessInv, Keeps
<1>9. \A s \in Slots : Settled(s)' <=> Settled(s)
  BY <1>1, <1>2 DEF Settled
<1>10. TableInv'
  <2>1. \A s \in Slots : pid[s] # NoPid => proc'[pid[s]].state # "none"
    <3>1. \A s \in Slots : pid[s] \in Procs \cup {NoPid}
      BY DEF Shape
    <3>2. \A q \in Procs : proc[q].state # "none" => proc'[q].state # "none"
      BY <1>4
    <3>3. QED
      BY <3>1, <3>2 DEF TableInv
  <2>2. QED
    BY <1>1, <1>2, <1>4, <1>9, <2>1 DEF TableInv, Keeps
<1>11. CalmInv'
  <2>1. SUFFICES ASSUME ~config.hostile
                 PROVE  CalmInv'
    BY <1>1 DEF CalmInv
  <2>2. Coming' = Coming
    BY <1>2, <1>4 DEF Coming, Asked, Keeps
  <2>3. Due' = Due
    BY <1>1, <1>2 DEF Due
  <2>4. \A i \in DOMAIN backlog : Lives(proc'[backlog[i]])
    BY <1>4, <1>6, <2>1 DEF CalmInv
  <2>5. \A s \in Slots : Settled(s) => pid[s] # NoPid /\ (pc # "up" => Lives(proc'[pid[s]]))
    BY <1>4, <2>1 DEF CalmInv, Shape
  <2>6. \A s \in Slots : Failed(s)' => Failed(s)
    BY <1>2, <1>4 DEF Failed, Shape
  <2>7. pc \in {"send", "read"} => Lives(proc'[conn])
    BY <1>4, <2>1 DEF CalmInv, QueueInv
  <2>8. \A q \in Procs :
           /\ proc'[q].state = "dead" => q \in faulty
           /\ proc'[q].state = "hung" => (q \in faulty /\ pc = "up")
           /\ proc'[q].state = "up" => proc'[q].handlers
           /\ (Lives(proc'[q]) /\ proc'[q].signalled) => (proc'[q].handlers /\ proc'[q].slot # -1)
    BY <1>3, <1>4, <2>1 DEF CalmInv, Keeps
  <2>9. QED
    BY <1>1, <1>2, <1>9, <2>1, <2>2, <2>3, <2>4, <2>5, <2>6, <2>7, <2>8 DEF CalmInv
<1>12. QED
  BY <1>5, <1>7, <1>8, <1>10, <1>11

\* restartHandler: a new process that has yet to connect takes the place of
\* the signal.
LEMMA HandlerForksStep ==
    ASSUME HandshakeInv, NEW p \in Procs, RestartHandler(p), proc[p].handlers, UNCHANGED config
    PROVE  HandshakeInv'
<1> USE DEF HandshakeInv
<1>1. /\ Slots' = Slots
      /\ rep_count' = rep_count
      /\ Server' = Server
      /\ config'.hostile = config.hostile
  BY SameConfig
<1>2. /\ pc' = pc /\ slot' = slot /\ starting' = starting /\ conn' = conn
      /\ backlog' = backlog /\ msg' = msg
      /\ pid' = pid /\ pinned_cpu' = pinned_cpu /\ turn' = turn /\ config' = config
      /\ named' = named /\ faulty' = faulty
      /\ Lives(proc[p]) /\ proc[p].signalled /\ MayFork
  BY DEF RestartHandler, voterVars, Alive, Lives
<1>3. PICK n \in Procs : n = NextPid /\ proc[n].state = "none"
  BY <1>2, ForkedPid
<1>4. p # n /\ ~Lives(proc[n]) /\ msg[n] = <<>> /\ n \notin named
  BY <1>2, <1>3 DEF Lives, Stages, ProcessInv
<1>5. /\ proc' \in [Procs -> Held(Slots)]
      /\ proc'[n].state = "exec" /\ proc'[n].slot = -1 /\ ~proc'[n].signalled
      /\ ~proc'[p].signalled
      /\ proc'[p].state = proc[p].state
      /\ proc'[p].handlers = proc[p].handlers
      /\ Keeps(proc, proc', p)
      /\ \A q \in Procs : q \notin {p, n} => proc'[q] = proc[q]
  <2>1. proc' = Forked(proc, p, n)
    BY <1>3 DEF RestartHandler, Forked
  <2>2. proc \in [Procs -> Held(Slots)]
    BY DEF Shape
  <2>3. proc' \in [Procs -> Held(Slots)] /\ ForkedFrom(proc, proc', p, n)
    BY <1>4, <2>1, <2>2, HandlerForks
  <2>4. QED
    BY <2>3 DEF ForkedFrom
<1>6. /\ Lives(proc'[n]) /\ Lives(proc'[p])
      /\ \A q \in Procs : q # n => /\ Lives(proc'[q]) <=> Lives(proc[q])
                                   /\ proc'[q].state = proc[q].state
                                   /\ proc'[q].handlers = proc[q].handlers
                                   /\ Keeps(proc, proc', q)
  BY <1>2, <1>5 DEF Lives, Stages, Keeps
<1>7. Shape'
  BY <1>1, <1>2, <1>5 DEF Shape
<1>8. \A i \in DOMAIN backlog : backlog[i] \in Procs /\ backlog[i] # n
  BY <1>3, QueueFacts
<1>9. pc \in {"send", "read"} => conn \in Procs /\ conn # n
  BY <1>3 DEF QueueInv, Waits
<1>10. QueueInv'
  BY <1>2, <1>6, <1>8, <1>9 DEF QueueInv, Waits, Asked, Keeps
<1>11. ProcessInv'
  <2>1. ASSUME NEW q \in Procs, q # n
        PROVE  /\ proc'[q].state = "none" => proc'[q] = Unborn
               /\ proc'[q].state \in {"none", "exec"} => msg[q] = <<>>
               /\ proc'[q].state \in {"none", "exec", "connected"} =>
                    (proc'[q].slot = -1 /\ q \notin named)
               /\ proc'[q].state \in {"received", "named", "up"} => proc'[q].slot # -1
               /\ (Lives(proc'[q]) /\ proc'[q].slot # -1)
                    => proc'[q].turn = turn[proc'[q].slot]
               /\ (Server = "VoterM" /\ proc'[q].slot # -1) => proc'[q].cpu = proc'[q].slot + 1
               /\ (proc'[q].state = "connected" /\ msg[q] # <<>>) =>
                    /\ pc = "read" /\ q = conn
                    /\ Head(msg[q]).slot = slot /\ Head(msg[q]).turn = turn[slot]
                    /\ Server = "VoterM" => Head(msg[q]).cpu = slot + 1
    <3>1. proc'[q].state = "none" => proc'[q] = proc[q]
      BY <1>2, <1>5, <1>6, <2>1 DEF Lives, Stages
    <3>2. QED
      BY <1>6, <2>1, <3>1 DEF ProcessInv, Keeps
  <2>2. QED
    BY <1>1, <1>2, <1>4, <1>5, <2>1 DEF ProcessInv
<1>12. \A s \in Slots : Settled(s)' <=> Settled(s)
  BY <1>1, <1>2 DEF Settled
<1>13. \A s \in Slots : pid[s] \in Procs \cup {NoPid} /\ pid[s] # n /\ s # -1
  BY <1>3, PidFacts, SlotFacts DEF TableInv, Shape
<1>14. TableInv'
  <2>1. \A s \in Slots : pid[s] # NoPid => proc'[pid[s]].state # "none"
    BY <1>6, <1>13 DEF TableInv
  <2>2. ASSUME NEW s \in Slots, NEW q \in Procs, Lives(proc'[q])
        PROVE  /\ Settled(s) => (pid[s] = q <=> proc'[q].slot = s)
               /\ (~Settled(s) /\ proc'[q].slot = s) => (s = slot /\ q = conn /\ pc = "read")
    <3>1. CASE q = n
      BY <1>5, <1>13, <3>1
    <3>2. CASE q # n
      BY <1>6, <2>2, <3>2 DEF TableInv, Keeps
    <3>3. QED
      BY <3>1, <3>2
  <2>3. QED
    BY <1>1, <1>2, <1>12, <2>1, <2>2 DEF TableInv
<1>15. CalmInv'
  <2>1. SUFFICES ASSUME ~config.hostile
                 PROVE  CalmInv'
    BY <1>1 DEF CalmInv
  <2>2. proc[p].slot # -1
    BY <1>2, <2>1 DEF CalmInv
  <2>3. p \in Coming /\ n \notin Coming /\ Coming \in SUBSET Procs
    BY <1>2, <1>4 DEF Coming
  <2>4. p \notin Coming' /\ n \in Coming'
    BY <1>2, <1>5, <1>6, <1>9, <2>2 DEF Coming, Asked, Keeps
  <2>5. Coming' = (Coming \ {p}) \cup {n}
    <3>1. \A q \in Procs : q \notin {p, n} => (q \in Coming' <=> q \in Coming)
      BY <1>2, <1>5 DEF Coming, Asked
    <3>2. Coming' \subseteq Procs
      BY DEF Coming
    <3>3. QED
      BY <1>4, <2>3, <2>4, <3>1, <3>2
  <2>6. Cardinality(Coming') = Cardinality(Coming)
    <3>1. PICK A \in SUBSET Procs : A = Coming \ {p}
      BY <2>3
    <3>2. Cardinality(A) = Cardinality(Coming) - 1
      BY <2>3, <3>1, Counting
    <3>3. Cardinality(A \cup {n}) = Cardinality(A) + 1
      BY <2>3, <3>1, Counting
    <3>4. Cardinality(Coming) \in Nat
      BY <2>3, Counting
    <3>5. QED
      BY <2>5, <3>1, <3>2, <3>3, <3>4
  <2>7. Due' = Due
    BY <1>1, <1>2 DEF Due
  <2>8. \A i \in DOMAIN backlog : Lives(proc'[backlog[i]])
    BY <1>6, <1>8, <2>1 DEF CalmInv
  <2>9. \A s \in Slots : Settled(s) => pid[s] # NoPid /\ (pc # "up" => Lives(proc'[pid[s]]))
    BY <1>6, <1>13, <2>1 DEF CalmInv
  <2>10. \A s \in Slots : Failed(s)' => Failed(s)
    BY <1>2, <1>6, <1>13 DEF Failed
  <2>11. pc \in {"send", "read"} => Lives(proc'[conn])
    BY <1>6, <1>9, <2>1 DEF CalmInv
  <2>12. \A q \in Procs :
           /\ proc'[q].state = "dead" => q \in faulty
           /\ proc'[q].state = "hung" => (q \in faulty /\ pc = "up")
           /\ proc'[q].state = "up" => proc'[q].handlers
           /\ (Lives(proc'[q]) /\ proc'[q].signalled) => (proc'[q].handlers /\ proc'[q].slot # -1)
    BY <1>5, <1>6, <2>1 DEF CalmInv, Keeps
  <2>13. QED
    BY <1>1, <1>2, <1>12, <2>1, <2>6, <2>7, <2>8, <2>9, <2>10, <2>11, <2>12 DEF CalmInv
<1>16. QED
  BY <1>7, <1>10, <1>11, <1>14, <1>15

\* A process that ends or hangs leaves the queue and the table right.
LEMMA StopStep ==
    ASSUME HandshakeInv, NEW p \in Procs, NEW st \in {"dead", "hung"},
           Lives(proc[p]), proc' = [proc EXCEPT ![p].state = st],
           UNCHANGED <<config, voterVars, msg, named>>
    PROVE  /\ proc' \in [Procs -> Held(Slots)] /\ Moves(proc, proc', p, st)
           /\ QueueInv' /\ ProcessInv' /\ TableInv'
<1> USE DEF HandshakeInv
<1>1. /\ Slots' = Slots
      /\ rep_count' = rep_count
      /\ Server' = Server
      /\ config'.hostile = config.hostile
  BY SameConfig
<1>2. /\ pc' = pc /\ slot' = slot /\ starting' = starting /\ conn' = conn
      /\ backlog' = backlog /\ msg' = msg
      /\ pid' = pid /\ pinned_cpu' = pinned_cpu /\ turn' = turn /\ config' = config
      /\ named' = named
  BY DEF voterVars
<1>3. /\ proc' \in [Procs -> Held(Slots)]
      /\ Moves(proc, proc', p, st)
  <2>1. proc \in [Procs -> Held(Slots)] /\ st \in States
    BY DEF Shape, States
  <2>2. QED
    BY <2>1, StateAssigned
<1>4. /\ proc'[p].state = st /\ proc[p].state # "none"
      /\ \A q \in Procs : /\ q # p => proc'[q] = proc[q]
                          /\ Keeps(proc, proc', q)
                          /\ Lives(proc'[q]) => Lives(proc[q])
  BY <1>3 DEF Moves, Lives, Stages
<1>5. \A i \in DOMAIN backlog : backlog[i] \in Procs
  BY QueueFacts
<1>6. QueueInv'
  BY <1>2, <1>4, <1>5 DEF QueueInv, Waits, Asked, Keeps
<1>7. ProcessInv'
  BY <1>1, <1>2, <1>4 DEF ProcessInv, Keeps
<1>8. \A s \in Slots : Settled(s)' <=> Settled(s)
  BY <1>1, <1>2 DEF Settled
<1>9. TableInv'
  <2>1. \A s \in Slots : pid[s] # NoPid => proc'[pid[s]].state # "none"
    <3>1. \A s \in Slots : pid[s] \in Procs \cup {NoPid}
      BY DEF Shape
    <3>2. \A q \in Procs : proc[q].state # "none" => proc'[q].state # "none"
      BY <1>4
    <3>3. QED
      BY <3>1, <3>2 DEF TableInv
  <2>2. QED
    BY <1>1, <1>2, <1>4, <1>8, <2>1 DEF TableInv, Keeps
<1>10. QED
  BY <1>3, <1>6, <1>7, <1>9

\* A signal that comes before initController is deadly; it comes so early
\* only when a fault has struck in the middle of a start.
LEMMA HandlerMissingStep ==
    ASSUME HandshakeInv, NEW p \in Procs, RestartHandler(p), ~proc[p].handlers,
           UNCHANGED config
    PROVE  HandshakeInv'
<1> USE DEF HandshakeInv
<1>1. /\ Lives(proc[p]) /\ proc[p].signalled
      /\ proc' = [proc EXCEPT ![p].state = "dead"]
      /\ UNCHANGED <<config, voterVars, msg, named>> /\ faulty' = faulty
  BY DEF RestartHandler, Alive, Lives
<1>2. /\ proc' \in [Procs -> Held(Slots)]
      /\ QueueInv' /\ ProcessInv' /\ TableInv'
  BY <1>1, StopStep
<1>3. Slots' = Slots /\ config'.hostile = config.hostile
  BY SameConfig
<1>4. Shape'
  BY <1>1, <1>2, <1>3 DEF Shape, voterVars
<1>5. CalmInv'
  BY <1>1, <1>3 DEF CalmInv
<1>6. QED
  BY <1>2, <1>4, <1>5

\* The handler of RESTART_SIGNAL, whether it is installed or not.
LEMMA RestartHandlerStep ==
    ASSUME HandshakeInv, NEW p \in Procs, RestartHandler(p), UNCHANGED config
    PROVE  HandshakeInv'
<1>1. CASE proc[p].handlers
  BY <1>1, HandlerForksStep
<1>2. CASE ~proc[p].handlers
  BY <1>2, HandlerMissingStep
<1>3. QED
  BY <1>1, <1>2

\* A fault: in the main loop, and when no other slot has failed, it makes one
\* slot fail.
LEMMA FaultStep ==
    ASSUME HandshakeInv, NEW p \in Procs, NEW st \in {"dead", "hung"}, Fault(p, st),
           UNCHANGED config
    PROVE  HandshakeInv'
<1> USE DEF HandshakeInv
<1>1. /\ Lives(proc[p]) /\ proc[p].state \in Stages
      /\ proc' = [proc EXCEPT ![p].state = st]
      /\ UNCHANGED <<config, voterVars, msg, named>> /\ faulty' = faulty \cup {p}
      /\ \A s \in Slots : Failed(s) => pc # "up"
      /\ config.hostile \/ pc = "up"
  BY DEF Fault, Lives
<1>2. /\ proc' \in [Procs -> Held(Slots)]
      /\ Moves(proc, proc', p, st)
      /\ QueueInv' /\ ProcessInv' /\ TableInv'
  BY <1>1, StopStep
<1>3. /\ Slots' = Slots /\ rep_count' = rep_count /\ Server' = Server
      /\ config'.hostile = config.hostile
  BY SameConfig
<1>4. Shape'
  BY <1>1, <1>2, <1>3 DEF Shape, voterVars
<1>5. CalmInv'
  <2>1. SUFFICES ASSUME ~config.hostile
                 PROVE  CalmInv'
    BY <1>3 DEF CalmInv
  <2>2. /\ pc = "up" /\ pc' = pc /\ slot' = slot /\ starting' = starting /\ conn' = conn
        /\ backlog' = backlog /\ pid' = pid
        /\ \A s \in Slots : ~Failed(s)
    BY <1>1, <2>1 DEF voterVars
  <2>3. /\ proc'[p].state = st
        /\ \A q \in Procs : /\ q # p => proc'[q] = proc[q]
                            /\ Keeps(proc, proc', q)
                            /\ Lives(proc'[q]) => Lives(proc[q])
                            /\ proc'[q].handlers = proc[q].handlers
                            /\ proc'[q].signalled = proc[q].signalled
    BY <1>1, <1>2 DEF Moves, Lives
  <2>4. Coming = {}
    <3>1. Due = 0
      BY <2>1, <2>2 DEF Due, CalmInv
    <3>2. Coming \in SUBSET Procs
      BY DEF Coming
    <3>3. Cardinality(Coming) = Due
      BY <2>1 DEF CalmInv
    <3>4. QED
      BY <3>1, <3>2, <3>3, Counting
  <2>5. Coming' = {}
    <3>1. \A q \in Procs : q \in Coming' => q \in Coming
      BY <2>2, <2>3 DEF Coming, Asked, Keeps
    <3>2. Coming' \subseteq Procs
      BY DEF Coming
    <3>3. QED
      BY <2>4, <3>1, <3>2
  <2>6. Cardinality(Coming') = Due'
    <3>1. Due' = 0
      BY <1>3, <2>1, <2>2 DEF Due, CalmInv
    <3>2. QED
      BY <2>5, <3>1, FS_EmptySet
  <2>7. \A i \in DOMAIN backlog : FALSE
    <3>1. \A i \in DOMAIN backlog : backlog[i] \in Coming
      BY <2>1, <2>2, QueueFacts DEF Coming, Asked, CalmInv
    <3>2. QED
      BY <2>4, <3>1
  <2>8. \A s, t \in Slots : Failed(s)' /\ Failed(t)' => s = t
    <3>1. \A s \in Slots : pid[s] \in Procs
      BY <2>1, <2>2 DEF CalmInv, Shape, Settled
    <3>2. \A s \in Slots : Failed(s)' => pid[s] = p
      BY <2>2, <2>3, <3>1 DEF Failed
    <3>3. \A s \in Slots : pid[s] = p => proc[p].slot = s
      BY <1>1, <2>2 DEF TableInv, Settled
    <3>4. QED
      BY <3>2, <3>3
  <2>9. \A q \in Procs :
           /\ proc'[q].state = "dead" => q \in faulty'
           /\ proc'[q].state = "hung" => q \in faulty'
           /\ proc'[q].state = "up" => proc'[q].handlers
           /\ (Lives(proc'[q]) /\ proc'[q].signalled) => (proc'[q].handlers /\ proc'[q].slot # -1)
    BY <1>1, <2>1, <2>3 DEF CalmInv, Keeps
  <2>10. \A s \in Slots : Settled(s) /\ pid[s] # NoPid
    BY <2>1, <2>2 DEF CalmInv, Settled
  <2>11. QED
    BY <1>3, <2>1, <2>2, <2>6, <2>7, <2>8, <2>9, <2>10 DEF CalmInv
<1>6. QED
  BY <1>2, <1>4, <1>5

-----------------------------------------------------------------------------
(***************************************************************************)
(* The handshake: the theorems.                                            *)
(***************************************************************************)

\* Every step keeps the invariant.
LEMMA HandshakeKept == HandshakeInv /\ [Next]_vars => HandshakeInv'
<1> SUFFICES ASSUME HandshakeInv, [Next]_vars PROVE HandshakeInv'
  OBVIOUS
<1>1. CASE Voter
  BY <1>1, ForkReplicasStep, AcceptStep, SendFDSStep, ReadPidStep, ReadPidFailedStep,
     RestartStep DEF Voter
<1>2. ASSUME NEW p \in Procs, Replica(p) PROVE HandshakeInv'
  BY <1>2, ConnectStep, RequestFDSStep, SendPidStep, InitControllerStep,
     RestartHandlerStep DEF Replica
<1>3. CASE Injector
  BY <1>3, FaultStep DEF Injector
<1>4. CASE UNCHANGED vars
  <2>1. /\ UNCHANGED <<config, pc, slot, starting, conn, backlog, pid, pinned_cpu, turn>>
        /\ UNCHANGED <<proc, msg, named, faulty>>
    BY <1>4 DEF vars, voterVars
  <2>2. /\ Slots' = Slots /\ rep_count' = rep_count /\ Server' = Server
        /\ config'.hostile = config.hostile
    BY <2>1, SameConfig
  <2>3. Shape' /\ QueueInv'
    BY <2>1, <2>2 DEF HandshakeInv, Shape, QueueInv, Waits, Asked
  <2>4. ProcessInv'
    BY <2>1, <2>2 DEF HandshakeInv, ProcessInv
  <2>5. \A s \in Slots : Settled(s)' <=> Settled(s)
    BY <2>1, <2>2 DEF Settled
  <2>6. TableInv'
    BY <2>1, <2>2, <2>5 DEF HandshakeInv, TableInv
  <2>7. Coming' = Coming /\ Due' = Due
    BY <2>1, <2>2 DEF Coming, Due, Asked
  <2>8. CalmInv'
    BY <2>1, <2>2, <2>5, <2>7 DEF HandshakeInv, CalmInv, Failed
  <2>9. QED
    BY <2>3, <2>4, <2>6, <2>8 DEF HandshakeInv
<1>5. QED
  BY <1>1, <1>2, <1>3, <1>4 DEF Next

\* The invariant implies TableRight: in the main loop every slot is settled,
\* and nobody is under way.
LEMMA InvTable == HandshakeInv => TableRight
<1> SUFFICES ASSUME HandshakeInv, pc = "up"
             PROVE  /\ \A s \in Slots, p \in Procs : Alive(p) =>
                         (pid[s] = p <=> proc[p].slot = s /\ proc[p].turn = turn[s])
                    /\ ~config.hostile => \A p \in Procs :
                         /\ Alive(p) => \E s \in Slots : pid[s] = p
                         /\ proc[p].state = "dead" => p \in faulty
  BY DEF TableRight
<1> USE DEF HandshakeInv
<1>1. \A p \in Procs : Alive(p) <=> Lives(proc[p])
  BY DEF Alive, Lives
<1>2. \A s \in Slots : Settled(s) /\ s # -1
  BY SlotFacts DEF Settled, Shape
<1>3. \A s \in Slots, p \in Procs : Alive(p) =>
         (pid[s] = p <=> proc[p].slot = s /\ proc[p].turn = turn[s])
  BY <1>1, <1>2 DEF TableInv, ProcessInv
<1>4. ASSUME ~config.hostile, NEW p \in Procs
      PROVE  /\ Alive(p) => \E s \in Slots : pid[s] = p
             /\ proc[p].state = "dead" => p \in faulty
  <2>1. Coming = {}
    <3>1. Due = 0
      BY <1>4 DEF Due, CalmInv
    <3>2. Coming \in SUBSET Procs
      BY DEF Coming
    <3>3. Cardinality(Coming) = Due
      BY <1>4 DEF CalmInv
    <3>4. QED
      BY <3>1, <3>2, <3>3, Counting
  <2>2. Lives(proc[p]) => proc[p].slot # -1
    BY <2>1 DEF Coming, Asked
  <2>3. proc[p].slot \in Slots \cup {-1}
    BY DEF Shape, Held
  <2>4. QED
    BY <1>1, <1>2, <1>4, <2>2, <2>3 DEF TableInv, CalmInv
<1>5. QED
  BY <1>3, <1>4

\* It implies RightPipes: two processes of one slot do not live at a time.
LEMMA InvPipes == HandshakeInv => RightPipes
<1> SUFFICES ASSUME HandshakeInv PROVE RightPipes
  OBVIOUS
<1> USE DEF HandshakeInv
<1>1. ASSUME NEW p \in Procs
      PROVE  \A k \in DOMAIN proc[p].pipes :
               proc[p].pipes[k].type = Links[proc[p].pipes[k].fd].type
  <2>1. proc[p].pipes \in Sent
    BY DEF Shape, Held
  <2>2. QED
    BY <2>1, SentTypes
<1>2. ASSUME Server = "VoterM", NEW p \in Procs, NEW q \in Procs, p # q,
             proc[p].state = "up", proc[q].state = "up"
      PROVE  proc[p].cpu # proc[q].cpu
  <2>1. Lives(proc[p]) /\ Lives(proc[q])
    BY <1>2 DEF Lives, Stages
  <2>2. proc[p].slot \in Slots /\ proc[q].slot \in Slots
    BY <1>2 DEF ProcessInv, Shape, Held
  <2>3. /\ proc[p].cpu = proc[p].slot + 1 /\ proc[q].cpu = proc[q].slot + 1
        /\ proc[p].slot # -1 /\ proc[q].slot # -1
    BY <1>2 DEF ProcessInv
  <2>4. proc[p].slot # proc[q].slot
    <3>1. CASE Settled(proc[p].slot)
      BY <1>2, <2>1, <2>2, <3>1 DEF TableInv
    <3>2. CASE ~Settled(proc[p].slot)
      BY <1>2, <2>1, <2>2, <3>2 DEF TableInv
    <3>3. QED
      BY <3>1, <3>2
  <2>5. Slots \subseteq Int
    BY SlotFacts DEF Shape
  <2>6. PICK a \in Int, b \in Int : a = proc[p].slot /\ b = proc[q].slot
    BY <2>2, <2>5
  <2>7. proc[p].cpu = a + 1 /\ proc[q].cpu = b + 1 /\ a # b
    BY <2>3, <2>4, <2>6
  <2>8. QED
    BY <2>7
<1>3. QED
  BY <1>1, <1>2 DEF RightPipes

\* The table of replicas is right whenever the voter is in its main loop:
\* the pid in a slot is that of the process that holds the slot's pipes
\* (startReplicas, restartReplica, acceptSendFDS), and, when no fault strikes
\* in the middle of a start, no other process runs and none but faulty ones
\* were killed.
THEOREM TableStaysRight == Spec => []TableRight
<1>1. Spec => []HandshakeInv
  BY HandshakeStarts, HandshakeKept, PTL DEF Spec
<1>2. QED
  BY <1>1, InvTable, PTL

\* Every replica takes its pipes for what they are (sendFDS), and under
\* VoterM no two replicas share a CPU.
THEOREM PipesStayRight == Spec => []RightPipes
<1>1. Spec => []HandshakeInv
  BY HandshakeStarts, HandshakeKept, PTL DEF Spec
<1>2. QED
  BY <1>1, InvPipes, PTL
=============================================================================
