------------------------------- MODULE VoterM -------------------------------
(***************************************************************************)
(* VoterM (voter/voterm.c, QUAD_CORE build) in front of the replicas of an *)
(* ArtPot controller: SMR, DMR or TMR.  The voter is one sequential        *)
(* process; every replica is a process of its own and all of them run at   *)
(* the same time.  They are joined by kernel pipes, kept as sequences of   *)
(* messages: the voter keeps both ends of every pipe open, so a replica    *)
(* that dies leaves neither an end of file nor a broken pipe behind and    *)
(* only the timer notices it.                                              *)
(*                                                                         *)
(* A fault is what fault_injection/c_injector.c does to one process:       *)
(* SIGKILL, the simulated SDC (the next command is corrupted) or the       *)
(* simulated CFE (the next wake-up never ends).                            *)
(***************************************************************************)
EXTENDS ArtPot, Integers, FiniteSets, FiniteSetsExt

CONSTANTS
    Instances,     \* the configurations to look at, with the faults of each
    MaxRounds,     \* bound: sensor readings the environment sends
    MaxFaults,     \* bound: faults injected
    InitBuffers    \* what a voting buffer may hold before its first use

FaultKinds == {"kill", "sdc", "cfe"}

ASSUME InstancesAssumption ==
    Instances \subseteq [rep_count : 1..3, kinds : SUBSET FaultKinds]
ASSUME BoundsAssumption == MaxRounds \in Nat /\ MaxFaults \in Nat
ASSUME InitBuffersAssumption == InitBuffers \subseteq Seq(Msg)

VARIABLES
    \* the configuration
    rep_count,          \* 1 (SMR), 2 (DMR) or 3 (TMR), from argv
    kinds,              \* the kinds of faults that strike
    \* the outside: Bench or Filter on DATA, AStar on the waypoint pipes
    ext_in,             \* [Ins -> Seq(Nat)]: pipes into the voter
    ext_out,            \* [Outs -> Seq(Msg)]: all the voter ever wrote
    sensed,             \* readings sent so far
    ways,               \* waypoint responses sent so far
    \* the voter
    pc,                 \* where main() is
    active_pipe_index,
    ext_in_buffer,      \* what recvData read
    buffers,            \* [Reps -> [Outs -> Seq(Msg)]]: buffers, buff_counts
    rep_done,
    fault_index,
    \* the pipes between the voter and the replicas
    fd_ins,             \* [Reps -> [Ins -> Seq(Nat)]]
    fd_outs,            \* [Reps -> [Outs -> Seq(Msg)]]
    \* the replicas
    status,             \* "up", "looping" (insertCFE took effect) or "dead"
    ctl,                \* the controller's state
    insertSDC,
    insertCFE,
    selected,           \* pipes the last select() reported, not handled yet
    unsent,             \* the part of the answer command() has yet to write
    \* history
    ref,                \* state of a fault-free ArtPot given the same inputs
    faulty,             \* replicas hit by a fault and not restarted since
    faults              \* faults injected so far

configVars == <<rep_count, kinds>>
envVars   == <<ext_in, ext_out, sensed, ways>>
voterVars == <<pc, active_pipe_index, ext_in_buffer, buffers, rep_done,
               fault_index>>
pipeVars  == <<fd_ins, fd_outs>>
repVars   == <<status, ctl, insertSDC, insertCFE, selected, unsent>>
histVars  == <<ref, faulty, faults>>
vars == <<configVars, envVars, voterVars, pipeVars, repVars, histVars>>

Reps == 0 .. rep_count - 1

\* The replica is in select(), with nothing left of the last wake-up.
Idle(r) == selected[r] = {} /\ unsent[r] = NoOutput

\* timer_start_index and timer_stop_index, as parseArgs fills them from the
\* pair (DATA, MOV_CMD); an unused slot keeps the 0 of a global.
timer_start_index == {DATA}
timer_stop_index == [p \in Ins |-> IF p = DATA THEN MOV_CMD ELSE 0]

\* The replica that is copied on a restart and whose answer is then sent.
Restarter(f) == (f + (rep_count - 1)) % rep_count

TypeOK ==
    /\ rep_count \in 1..3
    /\ kinds \subseteq FaultKinds
    /\ ext_in \in [Ins -> Seq(Nat)]
    /\ ext_out \in [Outs -> Seq(Msg)]
    /\ sensed \in Nat
    /\ ways \in Nat
    /\ pc \in {"recv", "send", "collect", "vote", "timeout", "restart",
               "fork", "resend", "recollect", "send0", "sendRestarter"}
    /\ active_pipe_index \in Ins
    /\ ext_in_buffer \in Seq(Nat)
    /\ buffers \in [Reps -> [Outs -> Seq(Msg)]]
    /\ rep_done \in Nat
    /\ fault_index \in Reps
    /\ fd_ins \in [Reps -> [Ins -> Seq(Nat)]]
    /\ fd_outs \in [Reps -> [Outs -> Seq(Msg)]]
    /\ status \in [Reps -> {"up", "looping", "dead"}]
    /\ ctl \in [Reps -> Ctl]
    /\ insertSDC \in [Reps -> BOOLEAN]
    /\ insertCFE \in [Reps -> BOOLEAN]
    /\ selected \in [Reps -> SUBSET Ins]
    /\ unsent \in [Reps -> [Outs -> Seq(Msg)]]
    /\ ref \in Ctl
    /\ faulty \in SUBSET Reps
    /\ faults \in Nat

\* initVoterM has run: every replica was forked, executed and given its
\* pipes.  buff_counts is malloc'ed and not cleared, hence InitBuffers; the
\* instances with faults take it that the heap was zero, as a fault in the
\* very first round is judged by those counts.
Init ==
    /\ \E i \in Instances : rep_count = i.rep_count /\ kinds = i.kinds
    /\ ext_in = [p \in Ins |-> <<>>]
    /\ ext_out = [p \in Outs |-> <<>>]
    /\ sensed = 0
    /\ ways = 0
    /\ pc = "recv"
    /\ active_pipe_index = DATA
    /\ ext_in_buffer = <<>>
    /\ IF kinds = {} THEN buffers \in [Reps -> [Outs -> InitBuffers]]
                     ELSE buffers = [r \in Reps |-> NoOutput]
    /\ rep_done = 0
    /\ fault_index = 0
    /\ fd_ins = [r \in Reps |-> [p \in Ins |-> <<>>]]
    /\ fd_outs = [r \in Reps |-> NoOutput]
    /\ status = [r \in Reps |-> "up"]
    /\ ctl = [r \in Reps |-> CtlInit]
    /\ insertSDC = [r \in Reps |-> FALSE]
    /\ insertCFE = [r \in Reps |-> FALSE]
    /\ selected = [r \in Reps |-> {}]
    /\ unsent = [r \in Reps |-> NoOutput]
    /\ ref = CtlInit
    /\ faulty = {}
    /\ faults = 0

-----------------------------------------------------------------------------
(***************************************************************************)
(* The environment.                                                        *)
(***************************************************************************)

\* The next sensor reading.  The benchmarker drops what the sensor delivers
\* while it waits for the answer to the last reading it passed on
\* (waiting_response), with no timeout: one lost answer stops the robot.
SendReading ==
    /\ sensed < MaxRounds
    /\ Len(ext_out[MOV_CMD]) >= sensed
    /\ sensed' = sensed + 1
    /\ ext_in' = [ext_in EXCEPT ![DATA] = Append(@, sensed + 1)]
    /\ UNCHANGED <<configVars, ext_out, ways, voterVars, pipeVars, repVars,
                   histVars>>

\* AStar answers the next waypoint request it has been sent.
SendWaypoints ==
    /\ ways < Len(ext_out[WAY_REQ])
    /\ ways' = ways + 1
    /\ ext_in' = [ext_in EXCEPT ![WAY_RES] = Append(@, ways + 1)]
    /\ UNCHANGED <<configVars, ext_out, sensed, voterVars, pipeVars, repVars,
                   histVars>>

-----------------------------------------------------------------------------
(***************************************************************************)
(* The voter: main() and the functions it calls.                           *)
(***************************************************************************)

\* recvData: all that is waiting in the lowest-numbered pipe with data.
RecvData ==
    /\ pc = "recv"
    /\ \E p \in Ins :
         /\ ext_in[p] # <<>>
         /\ \A q \in Ins : q < p => ext_in[q] = <<>>
         /\ active_pipe_index' = p
         /\ ext_in_buffer' = ext_in[p]
         /\ ext_in' = [ext_in EXCEPT ![p] = <<>>]
    /\ pc' = "send"
    /\ UNCHANGED <<ext_out, sensed, ways, buffers, rep_done, fault_index,
                   pipeVars, repVars, histVars>>

\* write() to every replica's copy of the active pipe, dead or alive.
WrittenToReps ==
    [r \in Reps |-> [fd_ins[r] EXCEPT ![active_pipe_index] =
                                          @ \o ext_in_buffer]]

\* checkWaitOnInput: only a timed input is answered.
WaitOnInput == active_pipe_index \in timer_start_index

\* sendToReps, and the start of collectFromReps when an answer is due.  An
\* untimed input is forgotten by the voter once it is written.
SendToReps ==
    /\ pc = "send"
    /\ fd_ins' = WrittenToReps
    /\ IF WaitOnInput
       THEN /\ pc' = "collect"
            /\ rep_done' = 0
            /\ UNCHANGED <<ext_in_buffer, ref>>
       ELSE /\ pc' = "recv"
            /\ ref' = RecvWay(ref, ext_in_buffer[Len(ext_in_buffer)])
            /\ ext_in_buffer' = <<>>
            /\ UNCHANGED rep_done
    /\ UNCHANGED <<envVars, active_pipe_index, buffers, fault_index, fd_outs,
                   repVars, faulty, faults>>

\* The pipes select() reports, and of those the ones that stop the timer:
\* each read of one counts as a replica that is done.
Ready == {x \in Reps \X Outs : fd_outs[x[1]][x[2]] # <<>>}
DoneReads == {x \in Ready : x[2] = timer_stop_index[active_pipe_index]}

\* One turn of collectFromReps: every ready pipe is emptied into its buffer,
\* over whatever an earlier turn left there.
CollectReady(expected, next) ==
    /\ Ready # {}
    /\ buffers' = [r \in Reps |-> [p \in Outs |->
                     IF <<r, p>> \in Ready THEN fd_outs[r][p]
                                           ELSE buffers[r][p]]]
    /\ fd_outs' = [r \in Reps |-> NoOutput]
    /\ rep_done' = rep_done + Cardinality(DoneReads)
    /\ pc' = IF rep_done' >= expected THEN next ELSE pc
    /\ UNCHANGED <<envVars, active_pipe_index, ext_in_buffer, fault_index,
                   fd_ins, repVars, histVars>>

\* Mutant of CollectFromReps: a majority of answers is enough.
CollectMajority == pc = "collect" /\ CollectReady(rep_count - 1, "vote")

CollectFromReps == pc = "collect" /\ CollectReady(rep_count, "vote")

\* The timer of collectFromReps, and the timing assumption the code makes of
\* DMR and TMR (voterm.c:853): by then the answer of every replica that is
\* still running has been written and read.
InTime(r) ==
    (status[r] = "up" /\ ~insertCFE[r]) =>
        fd_ins[r][DATA] = <<>> /\ Idle(r) /\ fd_outs[r] = NoOutput

\* Mutant of Timeout: the timer is never set.
TimerNotSet == pc = "collect" /\ FALSE

Timeout ==
    /\ pc = "collect"
    /\ rep_count > 1 => \A r \in Reps : InTime(r)
    /\ pc' = "timeout"
    /\ UNCHANGED <<envVars, active_pipe_index, ext_in_buffer, buffers,
                   rep_done, fault_index, pipeVars, repVars, histVars>>

\* killAndClean: SIGKILL, and both ends of every pipe of f are closed.  The
\* voting buffers of f are left as they are.
KillAndClean(f) ==
    /\ status' = [status EXCEPT ![f] = "dead"]
    /\ insertSDC' = [insertSDC EXCEPT ![f] = FALSE]
    /\ insertCFE' = [insertCFE EXCEPT ![f] = FALSE]
    /\ selected' = [selected EXCEPT ![f] = {}]
    /\ unsent' = [unsent EXCEPT ![f] = NoOutput]
    /\ ctl' = [ctl EXCEPT ![f] = CtlInit]
    /\ fd_ins' = [fd_ins EXCEPT ![f] = [p \in Ins |-> <<>>]]
    /\ fd_outs' = [fd_outs EXCEPT ![f] = NoOutput]

NoFault == -1

\* Mutants of OddOneOut: replicas numbered from 1; 0 and 1 mixed up.
OddOneFromOne(a, b, c) ==
    IF a # b THEN (IF a # c THEN 1 ELSE 2)
             ELSE (IF a # c THEN 3 ELSE NoFault)
OddOneSwapped(a, b, c) ==
    IF a # b THEN (IF a # c THEN 1 ELSE 0)
             ELSE (IF a # c THEN 2 ELSE NoFault)

\* The vote of checkSDC on one quantity of the three replicas.
OddOneOut(a, b, c) ==
    IF a # b THEN (IF a # c THEN 0 ELSE 1)
             ELSE (IF a # c THEN 2 ELSE NoFault)

\* The checks run over the pipes in order, and a later pipe overrides.
LastFault(F) ==
    LET S == {p \in Outs : F[p] # NoFault}
    IN  IF S = {} THEN NoFault ELSE F[Max(S)]

BuffCount(r, p) == Len(buffers[r][p])

CountFault == LastFault([p \in Outs |->
    OddOneOut(BuffCount(0, p), BuffCount(1, p), BuffCount(2, p))])

ContentFault == LastFault([p \in Outs |->
    OddOneOut(buffers[0][p], buffers[1][p], buffers[2][p])])

\* Mutant of DmrFault: only the lengths are compared.
DmrCountsOnly == LastFault([p \in Outs |->
    IF BuffCount(0, p) < BuffCount(1, p) THEN 0
    ELSE IF BuffCount(0, p) > BuffCount(1, p) THEN 1 ELSE NoFault])

\* Two replicas can only be compared: the shorter answer is blamed, and of
\* two of the same length replica 0.
DmrFault == LastFault([p \in Outs |->
    IF BuffCount(0, p) # BuffCount(1, p)
    THEN IF BuffCount(0, p) < BuffCount(1, p) THEN 0 ELSE 1
    ELSE IF buffers[0][p] # buffers[1][p] THEN 0 ELSE NoFault])

SDCFault ==
    CASE rep_count = 1 -> NoFault
      [] rep_count = 2 -> DmrFault
      [] rep_count = 3 -> IF CountFault # NoFault THEN CountFault
                                                 ELSE ContentFault

CheckSDC ==
    /\ pc = "vote"
    /\ IF SDCFault = NoFault
       THEN /\ pc' = "send0"
            /\ UNCHANGED <<fault_index, pipeVars, repVars>>
       ELSE /\ pc' = "restart"
            /\ fault_index' = SDCFault
            /\ KillAndClean(SDCFault)
    /\ UNCHANGED <<envVars, active_pipe_index, ext_in_buffer, buffers,
                   rep_done, histVars>>

\* findFaultReplica: the replica with output on the fewest pipes, the lowest
\* index among equals, 0 when every replica has output on every pipe.
Score(r) == Cardinality({p \in Outs : buffers[r][p] # <<>>})

LowestScore ==
    LET Low == {r \in Reps : /\ Score(r) < Cardinality(Outs)
                             /\ \A q \in Reps : Score(r) <= Score(q)}
    IN  IF Low = {} THEN 0 ELSE Min(Low)

FindFaultReplica ==
    /\ pc = "timeout"
    /\ fault_index' = LowestScore
    /\ KillAndClean(LowestScore)
    /\ pc' = IF rep_count = 1 THEN "fork" ELSE "restart"
    /\ UNCHANGED <<envVars, active_pipe_index, ext_in_buffer, buffers,
                   rep_done, histVars>>

\* Mutant of RestartReplica: a new process instead of a copy.
RestartFromScratch ==
    /\ pc = "restart"
    /\ status' = [status EXCEPT ![fault_index] = "up"]
    /\ faulty' = faulty \ {fault_index}
    /\ pc' = "sendRestarter"
    /\ UNCHANGED <<envVars, active_pipe_index, ext_in_buffer, buffers,
                   rep_done, fault_index, pipeVars, ctl, insertSDC, insertCFE,
                   selected, unsent, ref, faults>>

\* startReplicas(false, f, 1): the restarter's signal handler forks, the
\* child takes f's new, empty pipes and goes on from where its parent is.
\* accept() blocks until it does: a dead restarter blocks the voter for good.
RestartReplica ==
    /\ pc = "restart"
    /\ LET r == Restarter(fault_index) IN
         /\ status[r] # "dead"
         /\ status' = [status EXCEPT ![fault_index] = status[r]]
         /\ ctl' = [ctl EXCEPT ![fault_index] = ctl[r]]
         /\ insertSDC' = [insertSDC EXCEPT ![fault_index] = insertSDC[r]]
         /\ insertCFE' = [insertCFE EXCEPT ![fault_index] = insertCFE[r]]
         /\ selected' = [selected EXCEPT ![fault_index] = selected[r]]
         /\ unsent' = [unsent EXCEPT ![fault_index] = unsent[r]]
    /\ faulty' = faulty \ {fault_index}
    /\ pc' = "sendRestarter"
    /\ UNCHANGED <<envVars, active_pipe_index, ext_in_buffer, buffers,
                   rep_done, fault_index, pipeVars, ref, faults>>

\* startReplicas(true, 0, 1), SMR: a new process, from its initial state.
ForkReplica ==
    /\ pc = "fork"
    /\ status' = [status EXCEPT ![fault_index] = "up"]
    /\ faulty' = faulty \ {fault_index}
    /\ ref' = CtlInit
    /\ pc' = "resend"
    /\ UNCHANGED <<envVars, active_pipe_index, ext_in_buffer, buffers,
                   rep_done, fault_index, pipeVars, ctl, insertSDC, insertCFE,
                   selected, unsent, faults>>

\* SMR again: the input is written once more and awaited without a timer.
ResendToReps ==
    /\ pc = "resend"
    /\ fd_ins' = WrittenToReps
    /\ rep_done' = 0
    /\ pc' = "recollect"
    /\ UNCHANGED <<envVars, active_pipe_index, ext_in_buffer, buffers,
                   fault_index, fd_outs, repVars, histVars>>

RecollectFromReps == pc = "recollect" /\ CollectReady(1, "sendRestarter")

\* Mutant of SendData: the voting buffers keep their counts.
SendKeepingBuffers(s) ==
    /\ ext_out' = [p \in Outs |-> ext_out[p] \o buffers[s][p]]
    /\ ref' = AfterCommand(ref, Head(ext_in_buffer))
    /\ ext_in_buffer' = <<>>
    /\ pc' = "recv"
    /\ UNCHANGED <<ext_in, sensed, ways, active_pipe_index, buffers, rep_done,
                   fault_index, pipeVars, repVars, faulty, faults>>

\* Mutant of SendData: only the pipe that stopped the timer is forwarded.
SendTimedOnly(s) ==
    /\ ext_out' = [ext_out EXCEPT ![MOV_CMD] = @ \o buffers[s][MOV_CMD]]
    /\ buffers' = [r \in Reps |-> NoOutput]
    /\ ref' = AfterCommand(ref, Head(ext_in_buffer))
    /\ ext_in_buffer' = <<>>
    /\ pc' = "recv"
    /\ UNCHANGED <<ext_in, sensed, ways, active_pipe_index, rep_done,
                   fault_index, pipeVars, repVars, faulty, faults>>

\* sendData(s): every pipe of s with output is forwarded, every replica's
\* buffers are cleared.
SendData(s) ==
    /\ ext_out' = [p \in Outs |-> ext_out[p] \o buffers[s][p]]
    /\ buffers' = [r \in Reps |-> NoOutput]
    /\ ref' = AfterCommand(ref, Head(ext_in_buffer))
    /\ ext_in_buffer' = <<>>
    /\ pc' = "recv"
    /\ UNCHANGED <<ext_in, sensed, ways, active_pipe_index, rep_done,
                   fault_index, pipeVars, repVars, faulty, faults>>

SendVoted     == pc = "send0" /\ SendData(0)

\* Mutant of SendRestarter: the answer of the replica that failed is sent.
SendFaulty    == pc = "sendRestarter" /\ SendData(fault_index)

SendRestarter == pc = "sendRestarter" /\ SendData(Restarter(fault_index))

-----------------------------------------------------------------------------
(***************************************************************************)
(* A replica: ArtPot's enterLoop.                                          *)
(***************************************************************************)

\* select() returns: the pipes with data are noted, or the process enters
\* the endless loop of a simulated control-flow error.
Select(r) ==
    /\ status[r] = "up"
    /\ Idle(r)
    /\ \E p \in Ins : fd_ins[r][p] # <<>>
    /\ IF insertCFE[r]
       THEN /\ status' = [status EXCEPT ![r] = "looping"]
            /\ UNCHANGED selected
       ELSE /\ selected' = [selected EXCEPT
                              ![r] = {p \in Ins : fd_ins[r][p] # <<>>}]
            /\ UNCHANGED status
    /\ UNCHANGED <<envVars, voterVars, pipeVars, ctl, insertSDC, insertCFE,
                   unsent, histVars>>

\* The waypoint pipe is looked at first.
ReadWaypoints(r) ==
    /\ status[r] = "up"
    /\ WAY_RES \in selected[r]
    /\ fd_ins[r][WAY_RES] # <<>>
    /\ ctl' = [ctl EXCEPT ![r] = RecvWay(@, Head(fd_ins[r][WAY_RES]))]
    /\ fd_ins' = [fd_ins EXCEPT ![r][WAY_RES] = Tail(@)]
    /\ selected' = [selected EXCEPT ![r] = @ \ {WAY_RES}]
    /\ UNCHANGED <<envVars, voterVars, fd_outs, status, insertSDC, insertCFE,
                   unsent, histVars>>

\* Then the data pipe, and command() works out the answer.
ReadReading(r) ==
    /\ status[r] = "up"
    /\ DATA \in selected[r]
    /\ WAY_RES \notin selected[r]
    /\ fd_ins[r][DATA] # <<>>
    /\ unsent' = [unsent EXCEPT
                    ![r] = Answer(ctl[r], Head(fd_ins[r][DATA]), insertSDC[r])]
    /\ ctl' = [ctl EXCEPT ![r] = AfterCommand(@, Head(fd_ins[r][DATA]))]
    /\ insertSDC' = [insertSDC EXCEPT ![r] = FALSE]
    /\ fd_ins' = [fd_ins EXCEPT ![r][DATA] = Tail(@)]
    /\ selected' = [selected EXCEPT ![r] = @ \ {DATA}]
    /\ UNCHANGED <<envVars, voterVars, fd_outs, status, insertCFE, histVars>>

\* command() writes the request, if any, and then the velocity: two system
\* calls, with anything in between.
WriteAnswer(r, p) ==
    /\ status[r] = "up"
    /\ unsent[r][p] # <<>>
    /\ \A q \in Outs : q < p => unsent[r][q] = <<>>
    /\ fd_outs' = [fd_outs EXCEPT ![r][p] = @ \o unsent[r][p]]
    /\ unsent' = [unsent EXCEPT ![r][p] = <<>>]
    /\ UNCHANGED <<envVars, voterVars, fd_ins, status, ctl, insertSDC,
                   insertCFE, selected, histVars>>

Replica(r) ==
    /\ \/ Select(r)
       \/ ReadWaypoints(r)
       \/ ReadReading(r)
       \/ \E p \in Outs : WriteAnswer(r, p)
    /\ UNCHANGED configVars

-----------------------------------------------------------------------------
(***************************************************************************)
(* Faults.  Replication masks one fault at a time: the next one strikes    *)
(* only after the replica hit by the last one has been restarted.          *)
(***************************************************************************)

Fault(r) ==
    /\ faults < MaxFaults
    /\ faulty = {}
    /\ status[r] # "dead"
    /\ pc \notin {"resend", "recollect"}
    /\ faults' = faults + 1
    /\ faulty' = {r}
    /\ UNCHANGED <<envVars, voterVars, pipeVars, ref>>

KillReplica(r) ==
    /\ "kill" \in kinds
    /\ Fault(r)
    /\ status' = [status EXCEPT ![r] = "dead"]
    /\ selected' = [selected EXCEPT ![r] = {}]
    /\ unsent' = [unsent EXCEPT ![r] = NoOutput]
    /\ UNCHANGED <<ctl, insertSDC, insertCFE>>

TestSDCHandler(r) ==
    /\ "sdc" \in kinds
    /\ Fault(r)
    /\ insertSDC' = [insertSDC EXCEPT ![r] = TRUE]
    /\ UNCHANGED <<status, ctl, insertCFE, selected, unsent>>

TestCFEHandler(r) ==
    /\ "cfe" \in kinds
    /\ Fault(r)
    /\ insertCFE' = [insertCFE EXCEPT ![r] = TRUE]
    /\ UNCHANGED <<status, ctl, insertSDC, selected, unsent>>

-----------------------------------------------------------------------------
Env == SendReading \/ SendWaypoints

Voter ==
    /\ \/ RecvData \/ SendToReps \/ CollectFromReps \/ Timeout \/ CheckSDC
       \/ FindFaultReplica \/ RestartReplica \/ ForkReplica \/ ResendToReps
       \/ RecollectFromReps \/ SendVoted \/ SendRestarter
    /\ UNCHANGED configVars

Injector ==
    /\ \E r \in Reps :
         KillReplica(r) \/ TestSDCHandler(r) \/ TestCFEHandler(r)
    /\ UNCHANGED configVars

Next == Env \/ Voter \/ (\E r \in Reps : Replica(r)) \/ Injector

Spec == Init /\ [][Next]_vars

\* The kernel runs the voter and every replica that can run, and the timer
\* expires if nothing else happens.  Nothing is assumed of the environment's
\* readings or of the faults; AStar answers what it is asked.
Fairness ==
    /\ WF_vars(Voter)
    /\ \A r \in 0..2 : WF_vars(r \in Reps /\ Replica(r))
    /\ WF_vars(SendWaypoints)

FairSpec == Spec /\ Fairness
-----------------------------------------------------------------------------
(***************************************************************************)
(* Properties.                                                             *)
(***************************************************************************)

\* The inputs the voter has not finished with: what waits outside, preceded
\* by what it is working on.
Outstanding ==
    [p \in Ins |-> IF pc # "recv" /\ p = active_pipe_index
                   THEN ext_in_buffer \o ext_in[p] ELSE ext_in[p]]

\* What this configuration promises: three replicas mask every fault, two
\* let a corruption through, and one starts again from nothing.
Promise ==
    IF rep_count = 1 THEN "restarts"
    ELSE IF rep_count = 2 /\ "sdc" \in kinds THEN "corrupts" ELSE "masks"

Fault_Free == INSTANCE Component WITH
    Values <- 0 .. MaxRounds, in <- Outstanding, out <- ext_out,
    state <- ref, promise <- Promise

\* To the rest of the system the voter and its replicas are one ArtPot that
\* keeps the promise of its configuration.  With three replicas it never
\* fails: whatever is killed, corrupted or caught in a loop, and when, each
\* reading is answered once, in order, with the bytes a fault-free controller
\* writes; two do as much for kills and loops, and one, restarted, answers
\* every reading once and in order all the same (voterm.c:764-863).
Masking == Fault_Free!CSpec

\* No answer is left over when the voter turns to the next input: one read
\* in a later round would be counted as an answer to that round's reading
\* (collectFromReps counts reads, not replicas).
NoLeftovers ==
    pc = "recv" /\ ext_out[MOV_CMD] # <<>> => \A r \in Reps :
        /\ buffers[r] = NoOutput
        /\ fd_outs[r] = NoOutput
        /\ status[r] = "up" => unsent[r] = NoOutput

\* The state a replica will have once it has read the waypoints that are
\* waiting for it.
Caught_up(r) ==
    IF fd_ins[r][WAY_RES] = <<>> THEN ctl[r]
    ELSE RecvWay(ctl[r], fd_ins[r][WAY_RES][Len(fd_ins[r][WAY_RES])])

\* Between rounds every running replica of DMR and TMR, restarted ones
\* included, is in the state the inputs so far lead a fault-free controller
\* to: a restart copies all of the state and loses none of the untimed inputs.
ReplicasAgree ==
    pc = "recv" /\ rep_count > 1 => \A r \in Reps : status[r] = "up" => Caught_up(r) = ref

\* Where the voter masks faults it kills a replica only when that replica is
\* the faulty one: neither the vote nor the timeout blames a healthy one.
BlameIsRight ==
    [][Promise = "masks" /\ pc' = "restart" /\ pc # pc' =>
           fault_index' \in faulty]_vars

\* Every corrupted answer is noticed: when the vote ends without a fault, no
\* replica's answer is corrupted.  With two replicas this is all the vote can
\* do ("Can only detect SDCs", voterm.c:277).
SDCDetected ==
    pc = "send0" => \A r \in Reps : \A i \in 1 .. Len(buffers[r][MOV_CMD]) :
        ~buffers[r][MOV_CMD][i].bad

\* The replica asked to fork is alive and has finished its round, so that
\* accept() returns and the child has nothing half done to repeat on its new
\* pipes (startReplicas, voterm.c:457-461).
RestarterReady ==
    pc = "restart" => /\ status[Restarter(fault_index)] = "up"
                      /\ ~insertCFE[Restarter(fault_index)]
                      /\ ~insertSDC[Restarter(fault_index)]
                      /\ Idle(Restarter(fault_index))

\* Every reading is answered in the end, faults or not: no fault leaves the
\* voter blocked in a select, a read or an accept.
EveryReadingAnswered ==
    []<>(sensed = Len(ext_out[MOV_CMD]))

\* A controller that waits for waypoints gets them in the end, so that once
\* the readings stop none is left waiting: way_pending is never set with no
\* request or response on its way (art_pot.c:203).
WaypointsArrive ==
    []<>(\A r \in Reps : status[r] = "up" => ~ctl[r].way_pending)
=============================================================================
