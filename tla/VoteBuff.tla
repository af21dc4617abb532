------------------------------ MODULE VoteBuff ------------------------------
(***************************************************************************)
(* The circular voting buffers of vote_buff.c, as VoterD uses them for one *)
(* output pipe of its replicas: reads fill a replica's buffer, a vote      *)
(* compares the bytes all replicas have and takes them out of every        *)
(* buffer, a restart copies one buffer over another.                       *)
(***************************************************************************)
EXTENDS Integers, Sequences

CONSTANTS
    Reps,     \* the replicas
    MAX,      \* MAX_VOTE_PIPE_BUFF
    Bytes     \* the values of a byte

ASSUME MAXAssumption == MAX \in Nat /\ MAX > 1
ASSUME RepsAssumption == Reps # {}

VARIABLES
    buff_index,   \* [Reps -> 0..MAX-1]: the oldest byte
    buff_count,   \* [Reps -> 0..MAX-1]: how many bytes there are
    buffer,       \* [Reps -> [0..MAX-1 -> Bytes]]
    sent          \* the bytes of the last write to the external pipe

buffVars == <<buff_index, buff_count, buffer, sent>>

Indexes == 0 .. MAX - 1

BuffTypeOK ==
    /\ buff_index \in [Reps -> Indexes]
    /\ buff_count \in [Reps -> Indexes]
    /\ buffer \in [Reps -> [Indexes -> Bytes]]
    /\ sent \in Seq(Bytes)

BuffInit ==
    /\ buff_index = [r \in Reps |-> 0]
    /\ buff_count = [r \in Reps |-> 0]
    /\ buffer \in [Reps -> [Indexes -> Bytes]]   \* never cleared
    /\ sent = <<>>

-----------------------------------------------------------------------------
\* memcpy(&dst[d], &src[s], n) for arrays that start at 0.
Memcpy(dst, d, src, s, n) ==
    [i \in Indexes |-> IF d <= i /\ i < d + n THEN src[s + (i - d)] ELSE dst[i]]

\* The same from a temporary that holds the sequence src.
MemcpySeq(dst, d, src, s, n) ==
    [i \in Indexes |-> IF d <= i /\ i < d + n THEN src[s + (i - d) + 1]
                                            ELSE dst[i]]

EndIndex(r) == (buff_index[r] + buff_count[r]) % MAX

\* Mutant of PartRead: measured from the oldest byte instead of the end.
PartFromIndex(r, n) == MAX - buff_index[r]

\* Bytes of data that go before the wrap, when there is one.
PartRead(r, n) == n - ((EndIndex(r) + n) % MAX)

Wraps(r, n) == EndIndex(r) > (EndIndex(r) + n) % MAX

\* pipeToBuff, after read() returned the bytes data.
Filled(r, data) ==
    LET n    == Len(data)
        part == PartRead(r, n)
    IN  IF Wraps(r, n)
        THEN MemcpySeq(MemcpySeq(buffer[r], EndIndex(r), data, 0, part),
                       0, data, part, n - part)
        ELSE MemcpySeq(buffer[r], EndIndex(r), data, 0, n)

\* A read that does not fit is dropped, and pipeToBuff returns -1.
PipeToBuff(r, data) ==
    \/ /\ Len(data) < MAX - buff_count[r]
       /\ buffer' = [buffer EXCEPT ![r] = Filled(r, data)]
       /\ buff_count' = [buff_count EXCEPT ![r] = @ + Len(data)]
       /\ UNCHANGED <<buff_index, sent>>
    \/ /\ Len(data) >= MAX - buff_count[r]
       /\ UNCHANGED buffVars

\* The bytes buffToPipe writes: n of them from index idx of buf, through a
\* temporary when they reach or cross the end.
Written(buf, idx, n) ==
    IF idx + n < MAX
    THEN [i \in 1 .. n |-> buf[idx + i - 1]]
    ELSE [i \in 1 .. n |-> IF i <= MAX - idx THEN buf[idx + i - 1]
                                             ELSE buf[i - (MAX - idx) - 1]]

\* bytesReady: the smallest count of c, a function on the replicas.
BytesReady(c) == CHOOSE n \in Indexes : /\ \A r \in Reps : n <= c[r]
                                      /\ \E r \in Reps : n = c[r]

\* sendPipe from the buffers buf with indexes idx and counts c: buffToPipe
\* for the sender, fakeToPipe for the others, and both advance.
SendPipeFrom(buf, idx, c, s) ==
    LET n == BytesReady(c) IN
    /\ buffer' = buf
    /\ IF n = 0
       THEN buff_index' = idx /\ buff_count' = c /\ UNCHANGED sent
       ELSE /\ buff_index' = [r \in Reps |-> (idx[r] + n) % MAX]
            /\ buff_count' = [r \in Reps |-> c[r] - n]
            /\ sent' = Written(buf[s], idx[s], n)

SendPipe(s) == SendPipeFrom(buffer, buff_index, buff_count, s)

\* Mutant of Copied: the bytes past the end of the array are forgotten.
CopiedToTheEnd(e, s) ==
    Memcpy(buffer[e], buff_index[s], buffer[s], buff_index[s], buff_count[s])

\* copyPipe into the buffer of e, which was reset, from that of s.
Copied(e, s) ==
    LET idx  == buff_index[s]
        n    == buff_count[s]
        part == MAX - idx
    IN  IF idx + n < MAX
        THEN Memcpy(buffer[e], idx, buffer[s], idx, n)
        ELSE Memcpy(Memcpy(buffer[e], idx, buffer[s], idx, part),
                    0, buffer[s], 0, n - part)

\* Mutant of RestartPrep: the index of e stays where resetVotePipe put it.
RestartIndexZero(e, s) ==
    /\ e # s
    /\ SendPipeFrom([buffer EXCEPT ![e] = Copied(e, s)],
                    [buff_index EXCEPT ![e] = 0],
                    [buff_count EXCEPT ![e] = buff_count[s]], s)

\* restart_prep on this pipe: e was reset and restarted from s, it gets s's
\* buffer, and what is then ready is sent.
RestartPrep(e, s) ==
    /\ e # s
    /\ SendPipeFrom([buffer EXCEPT ![e] = Copied(e, s)],
                    [buff_index EXCEPT ![e] = buff_index[s]],
                    [buff_count EXCEPT ![e] = buff_count[s]], s)

\* Mutant of CompareBuffs: the bytes after the wrap are not looked at.
CompareToTheEnd(a, b, n) ==
    /\ buff_index[a] = buff_index[b]
    /\ LET idx == buff_index[a]
           m   == IF idx + n < MAX THEN n ELSE MAX - idx
       IN  \A i \in idx .. idx + m - 1 : buffer[a][i] = buffer[b][i]

\* compareBuffs of the first n bytes; FALSE also when the indexes differ.
CompareBuffs(a, b, n) ==
    /\ buff_index[a] = buff_index[b]
    /\ LET idx == buff_index[a] IN
       IF idx + n < MAX
       THEN \A i \in idx .. idx + n - 1 : buffer[a][i] = buffer[b][i]
       ELSE /\ \A i \in idx .. MAX - 1 : buffer[a][i] = buffer[b][i]
            /\ \A i \in 0 .. n - (MAX - idx) - 1 : buffer[a][i] = buffer[b][i]

BuffNext ==
    \/ \E r \in Reps, n \in 1 .. MAX : \E data \in [1 .. n -> Bytes] :
         PipeToBuff(r, data)
    \/ \E s \in Reps : SendPipe(s)
    \/ \E e, s \in Reps : RestartPrep(e, s)

BuffSpec == BuffInit /\ [][BuffNext]_buffVars

-----------------------------------------------------------------------------
\* The c bytes that start at index idx of buf, oldest first.
Ring(buf, idx, c) == [i \in 1 .. c |-> buf[(idx + i - 1) % MAX]]

Contents(r) == Ring(buffer[r], buff_index[r], buff_count[r])

Queues == INSTANCE VoteQueue WITH
    MaxRead <- MAX - 1, queue <- [r \in Reps |-> Contents(r)]

\* Index arithmetic, two-part copies and the copy of a restart never lose,
\* repeat or reorder a byte: the buffers are queues (vote_buff.c:46-153).
BuffersAreQueues == Queues!QSpec

\* All replicas' buffers start at the same index: compareBuffs never takes
\* equal bytes for different ones because they lie elsewhere.
IndexesAgree == \A a, b \in Reps : buff_index[a] = buff_index[b]

\* compareBuffs decides whether the bytes to be voted on are the same, be
\* they in one piece or wrapped (vote_buff.c:122-139).
CompareIsExact ==
    \A a, b \in Reps :
        CompareBuffs(a, b, BytesReady(buff_count)) <=>
            \A i \in 1 .. BytesReady(buff_count) :
                Contents(a)[i] = Contents(b)[i]

\* No copy runs past the end of a buffer or of the bytes it is given:
\* the wrapped part of a read is never negative or longer than the read.
CopiesInBounds ==
    \A r \in Reps : \A n \in 1 .. MAX - buff_count[r] - 1 :
        IF Wraps(r, n)
        THEN PartRead(r, n) \in 0 .. n /\ EndIndex(r) + PartRead(r, n) <= MAX
        ELSE EndIndex(r) + n <= MAX
=============================================================================
