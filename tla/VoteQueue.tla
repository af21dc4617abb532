----------------------------- MODULE VoteQueue -----------------------------
(***************************************************************************)
(* What the voting buffers of one output pipe promise to VoterD: a queue   *)
(* of bytes per replica.  Bytes leave all the queues together, as many as  *)
(* the shortest one holds, and one replica's copy of them is forwarded.    *)
(***************************************************************************)
EXTENDS Naturals, Sequences

CONSTANTS Reps, Bytes, MaxRead

VARIABLES
    queue,    \* [Reps -> Seq(Bytes)]
    sent      \* the bytes of the last forwarding write

qvars == <<queue, sent>>

Prefix(s, n)  == SubSeq(s, 1, n)
Without(s, n) == SubSeq(s, n + 1, Len(s))

QInit == queue = [r \in Reps |-> <<>>] /\ sent = <<>>

\* Bytes arrive from a replica.  A read that does not fit is lost as a whole,
\* which is the stuttering step of this specification.
Enqueue ==
    /\ \E r \in Reps, n \in 1 .. MaxRead : \E data \in [1 .. n -> Bytes] :
         queue' = [queue EXCEPT ![r] = @ \o data]
    /\ UNCHANGED sent

\* n is the length of the shortest queue of q.
Shortest(q, n) ==
    /\ \A r \in Reps : n <= Len(q[r])
    /\ \E r \in Reps : n = Len(q[r])

\* From queues q, what all replicas have is taken and s's copy is forwarded.
Forward(q, s) ==
    \E n \in 0 .. Len(q[s]) :
        /\ Shortest(q, n)
        /\ queue' = [r \in Reps |-> Without(q[r], n)]
        /\ sent' = IF n = 0 THEN sent ELSE Prefix(q[s], n)

Send == \E s \in Reps : Forward(queue, s)

\* A restarted replica inherits the queue of the replica it was copied from,
\* and what is ready then is forwarded.
Replace ==
    \E e, s \in Reps : e # s /\ Forward([queue EXCEPT ![e] = queue[s]], s)

QNext == Enqueue \/ Send \/ Replace

QSpec == QInit /\ [][QNext]_qvars
=============================================================================
