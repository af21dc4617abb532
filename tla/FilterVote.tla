----------------------------- MODULE FilterVote -----------------------------
(***************************************************************************)
(* VoterM (voter/voterm.c) in front of two or three replicas of Filter     *)
(* (controllers/filter.c), which answers a reading with three writes, the  *)
(* timed one last.  VoterM has the protocol around a round; this module is *)
(* about how the answers of one round are gathered:                        *)
(*  - by collectFromReps (QUAD_CORE), with a select() that the kernel      *)
(*    carries out pipe after pipe while the replicas go on writing;        *)
(*  - by sendCollect (SINGLE_CORE), one replica after the other, with the  *)
(*    voter on the only CPU and at the highest priority.                   *)
(***************************************************************************)
EXTENDS Integers, Sequences, FiniteSets, FiniteSetsExt

CONSTANTS
    Instances,     \* the configurations to look at
    MaxRounds,     \* bound: readings sent
    MaxFaults      \* bound: faults injected

\* rep_count: 2 (DMR) or 3 (TMR); SINGLE_CORE: which of the two builds; scan:
\* select() looks at one pipe after the other; kinds: the faults that strike.
ASSUME FilterVoteAssumption ==
    /\ Instances \subseteq [rep_count : 2..3, SINGLE_CORE : BOOLEAN, scan : BOOLEAN,
                            kinds : SUBSET {"kill", "sdc", "cfe"}]
    /\ MaxRounds \in Nat /\ MaxFaults \in Nat

\* The outputs, in the order Filter writes them; the last one is timed.
MAP == 1
LOG == 2
L_N == 3
Outs == {MAP, LOG, L_N}

Msg == [seq : Nat, bad : BOOLEAN]
NoOutput == [p \in Outs |-> <<>>]

VARIABLES
    config,         \* one of Instances
    \* the outside
    ext_in,         \* readings waiting for the voter
    ext_out,        \* [Outs -> Seq(Msg)]: all the voter ever wrote
    sensed,         \* readings sent so far
    \* the voter
    pc,
    ext_in_buffer,  \* the reading of this round
    pos, seen,      \* pipes select() has looked at, and found ready
    turn,           \* the replica sendCollect is at
    rep_done,       \* also done_count of sendCollect
    buffers,        \* [Reps -> [Outs -> Seq(Msg)]]
    fault_index,
    \* the pipes between them
    fd_ins,         \* [Reps -> Seq(Nat)]
    fd_outs,        \* [Reps -> [Outs -> Seq(Msg)]]
    \* the replicas
    status,         \* "up", "looping" or "dead"
    insertSDC, insertCFE,
    cmd,            \* [Reps -> [msg, next]]: command(), and the pipe it is at
    \* history
    faulty,         \* replicas hit by a fault and not restarted since
    faults          \* faults injected so far

outVars  == <<ext_in, ext_out, sensed>>
scanVars == <<pos, seen, turn, rep_done>>
repVars  == <<status, insertSDC, insertCFE, cmd>>
histVars == <<faulty, faults>>
vars == <<config, outVars, pc, ext_in_buffer, scanVars, buffers, fault_index, fd_ins,
          fd_outs, repVars, histVars>>

rep_count   == config.rep_count
SINGLE_CORE == config.SINGLE_CORE
Reps        == 0 .. rep_count - 1

Idle == [msg |-> [seq |-> 0, bad |-> FALSE], next |-> L_N + 1]

Init ==
    /\ config \in Instances
    /\ ext_in = <<>> /\ ext_out = NoOutput /\ sensed = 0
    /\ pc = "recv" /\ ext_in_buffer = 0
    /\ pos = 0 /\ seen = {} /\ turn = 0 /\ rep_done = 0
    /\ buffers = [r \in Reps |-> NoOutput] /\ fault_index = 0
    /\ fd_ins = [r \in Reps |-> <<>>] /\ fd_outs = [r \in Reps |-> NoOutput]
    /\ status = [r \in Reps |-> "up"]
    /\ insertSDC = [r \in Reps |-> FALSE] /\ insertCFE = [r \in Reps |-> FALSE]
    /\ cmd = [r \in Reps |-> Idle]
    /\ faulty = {} /\ faults = 0

\* Bench, which waits for the robot's answer to the last reading.
SendReading ==
    /\ sensed < MaxRounds
    /\ Len(ext_out[L_N]) >= sensed
    /\ sensed' = sensed + 1
    /\ ext_in' = Append(ext_in, sensed + 1)
    /\ UNCHANGED <<ext_out, pc, ext_in_buffer, scanVars, buffers, fault_index,
                   fd_ins, fd_outs, repVars, histVars>>

-----------------------------------------------------------------------------
(***************************************************************************)
(* Filter: enterLoop and command().                                        *)
(***************************************************************************)
\* A wake-up: the simulated control-flow error never returns from it.
FilterRead(r) ==
    /\ status[r] = "up" /\ cmd[r] = Idle /\ fd_ins[r] # <<>>
    /\ IF insertCFE[r]
       THEN /\ status' = [status EXCEPT ![r] = "looping"]
            /\ UNCHANGED <<insertSDC, cmd, fd_ins>>
       ELSE /\ fd_ins' = [fd_ins EXCEPT ![r] = Tail(@)]
            /\ cmd' = [cmd EXCEPT ![r] =
                         [msg |-> [seq |-> Head(fd_ins[r]), bad |-> insertSDC[r]],
                          next |-> MAP]]
            /\ insertSDC' = [insertSDC EXCEPT ![r] = FALSE]
            /\ UNCHANGED status
    /\ UNCHANGED <<outVars, pc, ext_in_buffer, scanVars, buffers, fault_index,
                   fd_outs, insertCFE, histVars>>

\* The pipe the p-th write of command() goes to.
NextOut(p) == p

FilterWrite(r) ==
    /\ status[r] = "up" /\ cmd[r] # Idle
    /\ fd_outs' = [fd_outs EXCEPT ![r][NextOut(cmd[r].next)] = Append(@, cmd[r].msg)]
    /\ cmd' = [cmd EXCEPT ![r] =
                 IF @.next = L_N THEN Idle ELSE [msg |-> @.msg, next |-> @.next + 1]]
    /\ UNCHANGED <<outVars, pc, ext_in_buffer, scanVars, buffers, fault_index,
                   fd_ins, status, insertSDC, insertCFE, histVars>>

\* fault_injection/c_injector.c, one fault at a time.
Fault(r, kind) ==
    /\ faults < MaxFaults /\ faulty = {} /\ status[r] = "up"
    /\ faults' = faults + 1 /\ faulty' = {r}
    /\ status' = IF kind = "kill" THEN [status EXCEPT ![r] = "dead"] ELSE status
    /\ insertSDC' = [insertSDC EXCEPT ![r] = @ \/ kind = "sdc"]
    /\ insertCFE' = [insertCFE EXCEPT ![r] = @ \/ kind = "cfe"]
    /\ UNCHANGED <<outVars, pc, ext_in_buffer, scanVars, buffers, fault_index,
                   fd_ins, fd_outs, cmd>>

-----------------------------------------------------------------------------
(***************************************************************************)
(* The voter.                                                              *)
(***************************************************************************)
RecvData ==
    /\ pc = "recv" /\ ext_in # <<>>
    /\ ext_in_buffer' = Head(ext_in) /\ ext_in' = Tail(ext_in)
    /\ turn' = 0 /\ rep_done' = 0
    /\ pc' = "send"
    /\ UNCHANGED <<ext_out, sensed, pos, seen, buffers, fault_index, fd_ins,
                   fd_outs, repVars, histVars>>

\* sendToReps writes to all replicas, sendCollect to the one it is at.
SendToReps ==
    /\ pc = "send"
    /\ fd_ins' = [r \in Reps |-> IF SINGLE_CORE /\ r # turn THEN fd_ins[r]
                                 ELSE Append(fd_ins[r], ext_in_buffer)]
    /\ pos' = 0 /\ seen' = {}
    /\ pc' = "select"
    /\ UNCHANGED <<outVars, ext_in_buffer, turn, rep_done, buffers, fault_index,
                   fd_outs, repVars, histVars>>

\* The pipes in select_set that have data.
Ready == {x \in Reps \X Outs : /\ fd_outs[x[1]][x[2]] # <<>>
                               /\ SINGLE_CORE => x[1] = turn}

\* The descriptors of the outputs rise with the replica and the pipe, and the
\* kernel looks at them in that order.
PipeAt(i) == <<i \div Cardinality(Outs), (i % Cardinality(Outs)) + 1>>

\* select(): all pipes at once, or one more.  It returns after the last one,
\* or starts again if it found none.
Select ==
    /\ pc = "select"
    /\ pos = 0 => Ready # {}
    /\ LET last == rep_count * Cardinality(Outs) - 1
           looked == IF config.scan THEN {PipeAt(pos)} ELSE Ready
           ended  == ~config.scan \/ pos = last
       IN  /\ seen' = seen \cup (looked \cap Ready)
           /\ pos' = IF ended THEN 0 ELSE pos + 1
           /\ pc' = IF ended /\ seen' # {} THEN "read" ELSE pc
    /\ UNCHANGED <<outVars, ext_in_buffer, turn, rep_done, buffers, fault_index,
                   fd_ins, fd_outs, repVars, histVars>>

\* Where the voter goes from the replica it is at: on to the next, or to the
\* vote when all have answered, or to the restart.
NextTurn(done) ==
    /\ turn' = (turn + 1) % rep_count
    /\ pc' = IF turn < rep_count - 1 THEN "send"
             ELSE IF done = rep_count THEN "vote" ELSE "kill"

\* The reported pipes that stop the timer.
TimedReads == {x \in seen : x[2] = L_N}

\* Every pipe that was reported is read into its buffer.
ReadReported ==
    /\ pc = "read"
    /\ buffers' = [r \in Reps |-> [p \in Outs |->
                     IF <<r, p>> \in seen THEN fd_outs[r][p] ELSE buffers[r][p]]]
    /\ fd_outs' = [r \in Reps |-> [p \in Outs |->
                     IF <<r, p>> \in seen THEN <<>> ELSE fd_outs[r][p]]]
    /\ seen' = {}
    /\ rep_done' = rep_done + Cardinality(TimedReads)
    /\ IF SINGLE_CORE
       THEN IF TimedReads # {} THEN NextTurn(rep_done')
            ELSE pc' = "select" /\ UNCHANGED turn
       ELSE pc' = (IF rep_done' >= rep_count THEN "vote" ELSE "select") /\ UNCHANGED turn
    /\ UNCHANGED <<outVars, ext_in_buffer, pos, fault_index, fd_ins, repVars, histVars>>

\* The timer expires after every replica that still runs has answered and
\* its answer was read ("healthy reps respond", voterm.c:853).
InTime(r) ==
    status[r] = "up" /\ ~insertCFE[r] =>
        fd_ins[r] = <<>> /\ cmd[r] = Idle /\ fd_outs[r] = NoOutput

\* findFaultReplica
Score(r) == Cardinality({p \in Outs : buffers[r][p] # <<>>})
LowestScore ==
    LET Low == {r \in Reps : /\ Score(r) < Cardinality(Outs)
                             /\ \A q \in Reps : Score(r) <= Score(q)}
    IN  IF Low = {} THEN 0 ELSE Min(Low)

\* Mutant of Timeout: sendCollect does not say whom it waited for.
TimeoutUnnamed ==
    /\ pc = "select" /\ pos = 0 /\ seen = {}
    /\ \A r \in Reps : r = turn \/ ~SINGLE_CORE => InTime(r)
    /\ IF SINGLE_CORE THEN NextTurn(rep_done) /\ UNCHANGED fault_index
       ELSE fault_index' = LowestScore /\ pc' = "kill" /\ UNCHANGED turn
    /\ UNCHANGED <<outVars, ext_in_buffer, pos, seen, rep_done, buffers, fd_ins,
                   fd_outs, repVars, histVars>>

Timeout ==
    /\ pc = "select" /\ pos = 0 /\ seen = {}
    /\ \A r \in Reps : r = turn \/ ~SINGLE_CORE => InTime(r)
    /\ IF SINGLE_CORE THEN fault_index' = turn /\ NextTurn(rep_done)
       ELSE fault_index' = LowestScore /\ pc' = "kill" /\ UNCHANGED turn
    /\ UNCHANGED <<outVars, ext_in_buffer, pos, seen, rep_done, buffers, fd_ins,
                   fd_outs, repVars, histVars>>

NoFault == -1

\* Mutant of OddOneOut: 0 and 1 mixed up.
OddOneSwapped(a, b, c) ==
    IF a # b THEN (IF a # c THEN 1 ELSE 0) ELSE IF a # c THEN 2 ELSE NoFault

OddOneOut(a, b, c) ==
    IF a # b THEN (IF a # c THEN 0 ELSE 1) ELSE IF a # c THEN 2 ELSE NoFault

\* A later pipe overrides an earlier one.
LastFault(F) ==
    LET S == {p \in Outs : F[p] # NoFault}
    IN  IF S = {} THEN NoFault ELSE F[Max(S)]

\* checkSDC: with two replicas the one that has sent less, or else 0; with
\* three the odd one out, by length first and then by content.
SDCFault ==
    LET b(r) == buffers[r]
        counts == [p \in Outs |-> OddOneOut(Len(b(0)[p]), Len(b(1)[p]), Len(b(2)[p]))]
    IN  IF rep_count = 2
        THEN LastFault([p \in Outs |-> IF Len(b(0)[p]) > Len(b(1)[p]) THEN 1
                                       ELSE IF b(0)[p] # b(1)[p] THEN 0 ELSE NoFault])
        ELSE IF LastFault(counts) # NoFault THEN LastFault(counts)
        ELSE LastFault([p \in Outs |-> OddOneOut(b(0)[p], b(1)[p], b(2)[p])])

CheckSDC ==
    /\ pc = "vote"
    /\ IF SDCFault = NoFault THEN pc' = "send0" /\ UNCHANGED fault_index
       ELSE pc' = "kill" /\ fault_index' = SDCFault
    /\ UNCHANGED <<outVars, ext_in_buffer, scanVars, buffers, fd_ins, fd_outs,
                   repVars, histVars>>

KillAndClean ==
    /\ pc = "kill"
    /\ status' = [status EXCEPT ![fault_index] = "dead"]
    /\ fd_ins' = [fd_ins EXCEPT ![fault_index] = <<>>]
    /\ fd_outs' = [fd_outs EXCEPT ![fault_index] = NoOutput]
    /\ pc' = "restart"
    /\ UNCHANGED <<outVars, ext_in_buffer, scanVars, buffers, fault_index,
                   insertSDC, insertCFE, cmd, histVars>>

\* Mutant of Restarter: the replica after the faulty one, without the wrap.
RestarterNext(f) == IF f < rep_count - 1 THEN f + 1 ELSE f

Restarter(f) == (f + (rep_count - 1)) % rep_count

\* startReplicas(false, ...): accept() waits for the restarter's child.
StartReplica ==
    /\ pc = "restart"
    /\ LET s == Restarter(fault_index) IN
         /\ status[s] # "dead"
         /\ status' = [status EXCEPT ![fault_index] = status[s]]
         /\ insertSDC' = [insertSDC EXCEPT ![fault_index] = insertSDC[s]]
         /\ insertCFE' = [insertCFE EXCEPT ![fault_index] = insertCFE[s]]
         /\ cmd' = [cmd EXCEPT ![fault_index] = cmd[s]]
    /\ faulty' = faulty \ {fault_index}
    /\ pc' = "sendRestarter"
    /\ UNCHANGED <<outVars, ext_in_buffer, scanVars, buffers, fault_index, fd_ins,
                   fd_outs, faults>>

SendData ==
    /\ pc \in {"send0", "sendRestarter"}
    /\ LET s == IF pc = "send0" THEN 0 ELSE Restarter(fault_index)
       IN  ext_out' = [p \in Outs |-> ext_out[p] \o buffers[s][p]]
    /\ buffers' = [r \in Reps |-> NoOutput]
    /\ ext_in_buffer' = 0
    /\ pc' = "recv"
    /\ UNCHANGED <<ext_in, sensed, scanVars, fault_index, fd_ins, fd_outs,
                   repVars, histVars>>

-----------------------------------------------------------------------------
Voter ==
    /\ \/ RecvData \/ SendToReps \/ Select \/ ReadReported \/ Timeout
       \/ CheckSDC \/ KillAndClean \/ StartReplica \/ SendData
    /\ UNCHANGED config
Replicas == (\E r \in Reps : FilterRead(r) \/ FilterWrite(r)) /\ UNCHANGED config
Injector ==
    /\ \E r \in Reps, kind \in config.kinds : Fault(r, kind)
    /\ UNCHANGED config
Bench == SendReading /\ UNCHANGED config

Next == Bench \/ Voter \/ Replicas \/ Injector

Spec == Init /\ [][Next]_vars

\* The voter and every replica that can run do, and the timer expires.
FairSpec == Spec /\ WF_vars(Voter) /\ WF_vars(Replicas)

-----------------------------------------------------------------------------
TypeOK ==
    /\ config \in Instances
    /\ ext_in \in Seq(Nat) /\ ext_out \in [Outs -> Seq(Msg)] /\ sensed \in Nat
    /\ pc \in {"recv", "send", "select", "read", "vote", "kill", "restart",
               "send0", "sendRestarter"}
    /\ ext_in_buffer \in Nat /\ pos \in Nat /\ seen \subseteq Reps \X Outs
    /\ turn \in Reps /\ rep_done \in 0 .. rep_count
    /\ buffers \in [Reps -> [Outs -> Seq(Msg)]] /\ fault_index \in Reps
    /\ fd_ins \in [Reps -> Seq(Nat)] /\ fd_outs \in [Reps -> [Outs -> Seq(Msg)]]
    /\ status \in [Reps -> {"up", "looping", "dead"}]
    /\ insertSDC \in [Reps -> BOOLEAN] /\ insertCFE \in [Reps -> BOOLEAN]
    /\ faulty \subseteq Reps /\ faults \in Nat

Right(p) == \A i \in DOMAIN ext_out[p] : ext_out[p][i] = [seq |-> i, bad |-> FALSE]

\* Whatever one fault does, every reading comes out on all three pipes, once,
\* in order and not corrupted (checkSDC, findFaultReplica, sendData).  When
\* the replicas write while select() looks at one pipe after the other, this
\* is so for the timed output, which is what ArtPot gets.
OutputsRight ==
    \A p \in IF config.scan THEN {L_N} ELSE Outs :
        /\ Right(p)
        /\ pc = "recv" => Len(ext_out[p]) + Len(ext_in) = sensed

\* The replica that is killed is the one that failed, in either build, when
\* select() sees all pipes at once.
BlameIsRight == pc = "kill" /\ ~config.scan => fault_index \in faulty

\* Every reading comes out on the timed pipe in the end.
EveryReadingAnswered == []<>(Len(ext_out[L_N]) = sensed)
=============================================================================
