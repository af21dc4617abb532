------------------------------- MODULE VoterD -------------------------------
(***************************************************************************)
(* VoterD (voter/voterd.c with src/replicas.c) in front of two or three    *)
(* replicas of AStar: DMR or TMR.  The voter is one sequential process, on *)
(* a CPU of its own; every replica runs on another one (QUAD_CORE in       *)
(* include/system_config.h).  They are joined by pipes, and the voter      *)
(* votes on the queues that VoteBuff implements.  MapSync has the case of  *)
(* one replica, and what AStar's messages mean.                            *)
(*                                                                         *)
(* The voter means to keep the replicas in step: it takes an input only    *)
(* while no answer is due (timer_started) and no replica has sent more     *)
(* than another (checkSync).  burst says how many updates may wait in its  *)
(* pipe, and so come in with one read.                                     *)
(***************************************************************************)
EXTENDS Integers, Sequences, FiniteSets, SequencesExt

CONSTANTS
    Instances,     \* the configurations to look at
    MaxFaults      \* bound: faults injected

\* rep_count: 2 (DMR) or 3 (TMR); burst: the bound on the updates and the
\* requests that wait for the voter; inputs: the bound on those ever sent,
\* together; kinds: the faults that strike.
ASSUME InstancesAssumption ==
    Instances \subseteq [rep_count : 2..3, burst : 1..2, inputs : Nat,
                         kinds : SUBSET {"kill", "sdc", "cfe"}]
ASSUME BoundsAssumption == MaxFaults \in Nat

\* The pipes, in the order the plumber links them.
MAP_UPDATE == 0
COMM_ACK   == 1
WAY_REQ    == 2
WAY_RES    == 3
Ins  == {MAP_UPDATE, WAY_REQ}
Outs == {COMM_ACK, WAY_RES}

\* timer_start_index and timer_stop_index, by the number of the timed pair.
timer_start_index == <<MAP_UPDATE, WAY_REQ>>
timer_stop_index  == <<COMM_ACK, WAY_RES>>

\* What AStar keeps.  plan: how many updates it has planned with, all of them
\* with new obstacles; cur: the plan its waypoints were taken from.
AStarState == [plan : Nat, cur : Nat, ready_to_send : BOOLEAN,
               fake_hash : Nat]
AStarInit == [plan |-> 0, cur |-> 0, ready_to_send |-> FALSE, fake_hash |-> 0]

\* An acknowledgement carries the hash and asks, the first time, for the
\* whole map; a waypoint message carries the plan it belongs to.
Ack(s)  == [hash |-> s.fake_hash, resend_request |-> s.plan = 0]
Way(p)  == [plan |-> p]
Answers == [hash : Nat, resend_request : BOOLEAN] \cup [plan : Nat]

VARIABLES
    config,          \* one of Instances: the arguments of the voter
    \* the outside: Mapper and ArtPot, with the voters in front of them
    ext_in,          \* [Ins -> Nat]: messages waiting for the voter
    ext_out,         \* [Outs -> Seq(Answers)]: all the voter ever wrote
    sent,            \* [Ins -> Nat]: messages sent so far
    \* the voter
    pc,              \* "loop", "scan", "steal", "fork" or "return"
    ext_set,         \* external pipes of select_set, not looked at yet
    select_set,      \* the same for the replicas' pipes, <<pipe, replica>>
    timer_started,
    current_timer,
    buffers,         \* [Reps -> [Outs -> Seq(Answers)]]: vot_pipes
    priority,        \* [Reps -> 0..2]: above default_priority
    restartee,
    restarter,
    stealing,        \* pipes that stealPipes, or returnPipes, has yet to do
    stolen,          \* [Ins -> Nat]: restarter_buff_count
    \* the replicas and their pipes
    rep_in,          \* [Reps -> [Ins -> Nat]]
    rep_out,         \* [Reps -> [Outs -> Seq(Answers)]]
    status,          \* "up", "looping" (insertCFE took effect) or "dead"
    selected,        \* pipes the last select() reported, not handled yet
    st,              \* AStar's state
    insertSDC,
    insertCFE,
    \* history
    ref,             \* state of a fault-free AStar that is in step
    expected,        \* [Outs -> Seq(Answers)]: what it would have answered
    faulty,          \* replicas hit by a fault and not restarted since
    faults

extVars  == <<ext_in, ext_out, sent>>
timeVars == <<timer_started, current_timer>>
restVars == <<restartee, restarter, stealing, stolen>>
repVars  == <<status, selected, st, insertSDC, insertCFE>>
histVars == <<ref, expected, faulty, faults>>
vars == <<config, extVars, pc, ext_set, select_set, timeVars, buffers, priority,
          restVars, rep_in, rep_out, repVars, histVars>>

rep_count == config.rep_count
Reps == 0 .. rep_count - 1

NoInput  == [p \in Ins |-> 0]
NoOutput == [p \in Outs |-> <<>>]

TypeOK ==
    /\ config \in Instances
    /\ ext_in \in [Ins -> Nat]
    /\ ext_out \in [Outs -> Seq(Answers)]
    /\ sent \in [Ins -> Nat]
    /\ pc \in {"loop", "scan", "steal", "fork", "return"}
    /\ ext_set \in SUBSET Ins
    /\ select_set \in SUBSET (Outs \X Reps)
    /\ timer_started \in BOOLEAN
    /\ current_timer \in 1 .. 2
    /\ buffers \in [Reps -> [Outs -> Seq(Answers)]]
    /\ priority \in [Reps -> 0 .. 2]
    /\ restartee \in Reps
    /\ restarter \in Reps
    /\ stealing \in SUBSET Ins
    /\ stolen \in [Ins -> Nat]
    /\ rep_in \in [Reps -> [Ins -> Nat]]
    /\ rep_out \in [Reps -> [Outs -> Seq(Answers)]]
    /\ status \in [Reps -> {"up", "looping", "dead"}]
    /\ selected \in [Reps -> SUBSET Ins]
    /\ st \in [Reps -> AStarState]
    /\ insertSDC \in [Reps -> BOOLEAN]
    /\ insertCFE \in [Reps -> BOOLEAN]
    /\ ref \in AStarState
    /\ expected \in [Outs -> Seq(Answers)]
    /\ faulty \in SUBSET Reps
    /\ faults \in Nat

Init ==
    /\ config \in Instances
    /\ ext_in = NoInput
    /\ ext_out = NoOutput
    /\ sent = NoInput
    /\ pc = "loop"
    /\ ext_set = {}
    /\ select_set = {}
    /\ timer_started = FALSE
    /\ current_timer = 1
    /\ buffers = [r \in Reps |-> NoOutput]
    /\ priority = [r \in Reps |-> 0]
    /\ restartee = 0
    /\ restarter = 0
    /\ stealing = {}
    /\ stolen = NoInput
    /\ rep_in = [r \in Reps |-> NoInput]
    /\ rep_out = [r \in Reps |-> NoOutput]
    /\ status = [r \in Reps |-> "up"]
    /\ selected = [r \in Reps |-> {}]
    /\ st = [r \in Reps |-> AStarInit]
    /\ insertSDC = [r \in Reps |-> FALSE]
    /\ insertCFE = [r \in Reps |-> FALSE]
    /\ ref = AStarInit
    /\ expected = NoOutput
    /\ faulty = {}
    /\ faults = 0

-----------------------------------------------------------------------------
(***************************************************************************)
(* The environment: Mapper sends an update per reading, ArtPot a request   *)
(* when it has no other pending.  AStar's inputs are told apart by their   *)
(* number only: every update brings an obstacle, and no request insists on *)
(* new waypoints (MapSync and Search have those that do otherwise).        *)
(***************************************************************************)

\* way_pending of ArtPot.
WayPending == sent[WAY_REQ] > Len(ext_out[WAY_RES])

Send(p) ==
    /\ ext_in[p] < config.burst
    /\ sent[MAP_UPDATE] + sent[WAY_REQ] < config.inputs
    /\ p = WAY_REQ => ~WayPending
    /\ ext_in' = [ext_in EXCEPT ![p] = @ + 1]
    /\ sent' = [sent EXCEPT ![p] = @ + 1]
    /\ UNCHANGED <<ext_out, pc, ext_set, select_set, timeVars, buffers,
                   priority, restVars, rep_in, rep_out, repVars, histVars>>

-----------------------------------------------------------------------------
(***************************************************************************)
(* AStar.                                                                  *)
(***************************************************************************)

\* One update with a new obstacle: a new path, kept for the next request.  An injected SDC stays
\* in fake_hash.
AfterUpdate(s, sdc) ==
    [s EXCEPT !.plan = @ + 1, !.ready_to_send = TRUE,
              !.fake_hash = IF sdc THEN @ + 1 ELSE @]

\* One request without padding: new waypoints if there is a new path.
AfterRequest(s) ==
    [s EXCEPT !.cur = IF s.ready_to_send THEN s.plan ELSE @,
              !.ready_to_send = FALSE]

\* The acknowledgement of that update.
UpdateAck(s, sdc) == [Ack(s) EXCEPT !.hash = AfterUpdate(s, sdc).fake_hash]

Select(r) ==
    /\ status[r] = "up"
    /\ selected[r] = {}
    /\ LET ready == {p \in Ins : rep_in[r][p] > 0} IN
         /\ ready # {}
         /\ IF insertCFE[r]
            THEN status' = [status EXCEPT ![r] = "looping"] /\ UNCHANGED selected
            ELSE selected' = [selected EXCEPT ![r] = ready] /\ UNCHANGED status
    /\ UNCHANGED <<extVars, pc, ext_set, select_set, timeVars, buffers,
                   priority, restVars, rep_in, rep_out, st, insertSDC,
                   insertCFE, histVars>>

\* Both handlers block in read() when stealPipes was quicker.
RecvMapUpdate(r) ==
    /\ status[r] = "up"
    /\ MAP_UPDATE \in selected[r]
    /\ rep_in[r][MAP_UPDATE] > 0
    /\ rep_in' = [rep_in EXCEPT ![r][MAP_UPDATE] = @ - 1]
    /\ selected' = [selected EXCEPT ![r] = @ \ {MAP_UPDATE}]
    /\ st' = [st EXCEPT ![r] = AfterUpdate(@, insertSDC[r])]
    /\ insertSDC' = [insertSDC EXCEPT ![r] = FALSE]
    /\ rep_out' = [rep_out EXCEPT ![r][COMM_ACK] =
                     Append(@, UpdateAck(st[r], insertSDC[r]))]
    /\ UNCHANGED <<extVars, pc, ext_set, select_set, timeVars, buffers,
                   priority, restVars, status, insertCFE, histVars>>

SendWaypoints(r) ==
    /\ status[r] = "up"
    /\ selected[r] = {WAY_REQ}
    /\ rep_in[r][WAY_REQ] > 0
    /\ rep_in' = [rep_in EXCEPT ![r][WAY_REQ] = @ - 1]
    /\ selected' = [selected EXCEPT ![r] = {}]
    /\ st' = [st EXCEPT ![r] = AfterRequest(@)]
    /\ rep_out' = [rep_out EXCEPT ![r][WAY_RES] =
                     Append(@, Way(AfterRequest(st[r]).cur))]
    /\ UNCHANGED <<extVars, pc, ext_set, select_set, timeVars, buffers,
                   priority, restVars, status, insertSDC, insertCFE, histVars>>

\* Only one replica is faulty at a time.
Fault(r, kind) ==
    /\ faults < MaxFaults
    /\ faulty = {}
    /\ status[r] = "up"
    /\ faults' = faults + 1
    /\ faulty' = {r}
    /\ CASE kind = "kill" -> /\ status' = [status EXCEPT ![r] = "dead"]
                             /\ UNCHANGED <<insertSDC, insertCFE>>
         [] kind = "sdc"  -> /\ insertSDC' = [insertSDC EXCEPT ![r] = TRUE]
                             /\ UNCHANGED <<status, insertCFE>>
         [] kind = "cfe"  -> /\ insertCFE' = [insertCFE EXCEPT ![r] = TRUE]
                             /\ UNCHANGED <<status, insertSDC>>
    /\ UNCHANGED <<extVars, pc, ext_set, select_set, timeVars, buffers,
                   priority, restVars, rep_in, rep_out, selected, st, ref,
                   expected>>

-----------------------------------------------------------------------------
(***************************************************************************)
(* The replica table.  b is a value of buffers.                            *)
(***************************************************************************)

\* bytesReady: what all replicas have sent on p.
BytesReady(b, p) ==
    CHOOSE n \in {Len(b[r][p]) : r \in Reps} : \A r \in Reps : n <= Len(b[r][p])

\* aheadRep and rep_gap: how far r is behind the best, over all pipes.
Ahead(b, p) ==
    CHOOSE n \in {Len(b[r][p]) : r \in Reps} : \A r \in Reps : n >= Len(b[r][p])
RepGap(b, r) ==
    (Ahead(b, COMM_ACK) - Len(b[r][COMM_ACK]))
        + (Ahead(b, WAY_RES) - Len(b[r][WAY_RES]))

\* Mutant of BehindRep: the replica that has sent most.
FurthestRep(b, p) ==
    CHOOSE r \in Reps : \A q \in Reps : Len(b[r][p]) >= Len(b[q][p])

\* behindRep: the replica with the fewest bytes on p, among equals the one
\* of the highest priority, among those the first.
BehindRep(b, p) ==
    LET further(r, q) == \/ Len(b[r][p]) < Len(b[q][p])
                         \/ /\ Len(b[r][p]) = Len(b[q][p])
                            /\ priority[r] > priority[q]
    IN  CHOOSE r \in Reps :
            /\ \A q \in Reps : ~further(q, r)
            /\ \A q \in Reps : further(r, q) \/ r <= q

\* The two replicas balanceReps puts first: starting and second.
PutFirst(b) ==
    LET starting == CHOOSE r \in Reps : \A q \in Reps :
                      RepGap(b, r) >= RepGap(b, q) + (IF q < r THEN 1 ELSE 0)
    IN  [starting |-> starting,
         second |-> IF /\ rep_count = 3 /\ starting # 2
                       /\ RepGap(b, 2) > RepGap(b, 1)
                    THEN 2 ELSE 1]

\* balanceReps sets the priorities.  sched_set_policy fails for a replica
\* that is dead.
BalanceReps(b, alive) ==
    \E first \in {PutFirst(b)} :
      priority' = [r \in Reps |-> IF r \notin alive THEN priority[r]
                                  ELSE IF r = first.starting THEN 2
                                  ELSE IF r = first.second THEN 1 ELSE 0]

Alive == {r \in Reps : status[r] # "dead"}

\* The buffers after sendPipe on p.
Sent(b, p) ==
    [r \in Reps |-> [b[r] EXCEPT ![p] =
                       SubSeq(@, BytesReady(b, p) + 1, Len(@))]]

\* sendPipe on p from replica s, with the timer as it is then.
SendPipe(b, p, s) ==
    /\ buffers' = Sent(b, p)
    /\ ext_out' = [ext_out EXCEPT ![p] =
                     @ \o SubSeq(b[s][p], 1, BytesReady(b, p))]

-----------------------------------------------------------------------------
(***************************************************************************)
(* The voter.                                                              *)
(***************************************************************************)
CheckSync ==
    \A p \in Outs : \A r, q \in Reps : Len(buffers[r][p]) = Len(buffers[q][p])

\* Mutant of ExtWanted: the timer is not looked at.
ExtWithoutTimer == {p \in Ins : CheckSync /\ ext_in[p] > 0}

\* The external pipes select() finds ready.
ExtWanted == {p \in Ins : ~timer_started /\ CheckSync /\ ext_in[p] > 0}

RepWanted == {x \in Outs \X Reps : rep_out[x[2]][x[1]] # <<>>}

\* select() in doOneUpdate.  Only the first external pipe will be read.
VoterSelect ==
    /\ pc = "loop"
    /\ ExtWanted # {} \/ RepWanted # {}
    /\ ext_set' = {p \in ExtWanted : \A q \in ExtWanted : p <= q}
    /\ select_set' = RepWanted
    /\ pc' = "scan"
    /\ UNCHANGED <<extVars, timeVars, buffers, priority, restVars, rep_in,
                   rep_out, repVars, histVars>>

\* Where the voter goes when the pipes in todo are left to look at.
Resume(todo) == IF todo = {} THEN "loop" ELSE "scan"

\* The reference's answers to n messages on p.
RefStates(p, n) ==
    [i \in 1 .. n + 1 |->
       IF p = MAP_UPDATE
       THEN [ref EXCEPT !.plan = @ + (i - 1),
                        !.ready_to_send = @ \/ i > 1]
       ELSE IF i = 1 THEN ref ELSE AfterRequest(ref)]

RefAnswers(p, n) ==
    [i \in 1 .. n |-> IF p = MAP_UPDATE THEN Ack(RefStates(p, n)[i])
                                        ELSE Way(AfterRequest(ref).cur)]

\* processData for all that waits on p.
ProcessData(p) ==
    /\ pc = "scan"
    /\ p \in ext_set
    /\ ext_set' = {}
    /\ ext_in' = [ext_in EXCEPT ![p] = 0]
    /\ rep_in' = [r \in Reps |-> [rep_in[r] EXCEPT ![p] = @ + ext_in[p]]]
    /\ IF timer_started
       THEN UNCHANGED timeVars
       ELSE /\ timer_started' = TRUE
            /\ current_timer' = CHOOSE i \in 1 .. 2 : timer_start_index[i] = p
    /\ BalanceReps(buffers, Alive)
    /\ ref' = RefStates(p, ext_in[p])[ext_in[p] + 1]
    /\ LET o == timer_stop_index[IF p = MAP_UPDATE THEN 1 ELSE 2] IN
       expected' = [expected EXCEPT ![o] = @ \o RefAnswers(p, ext_in[p])]
    /\ pc' = Resume(select_set)
    /\ UNCHANGED <<ext_out, sent, select_set, buffers, restVars, rep_out,
                   repVars, faulty, faults>>

\* Mutant of Agree: one byte too few is compared.
AgreeButLast(b, p, r, q) ==
    LET n == BytesReady(b, p) - 1
    IN  SubSeq(b[r][p], 1, n) = SubSeq(b[q][p], 1, n)

\* compareBuffs of what is ready on p from replicas r and q.
Agree(b, p, r, q) ==
    LET n == BytesReady(b, p) IN SubSeq(b[r][p], 1, n) = SubSeq(b[q][p], 1, n)

Succ(r, k) == (r + k) % rep_count

\* The replica whose copy checkSDC would send: replica 0 in DMR, in TMR the
\* first that agrees with the next one, if there is one.
Trusted(b, p) ==
    IF rep_count = 2 THEN {0}
    ELSE {r \in Reps : /\ Agree(b, p, r, Succ(r, 1))
                       /\ \A q \in 0 .. r - 1 : ~Agree(b, p, q, Succ(q, 1))}

\* checkSDC in TMR finds a replica to restart.
Outvoted(b, p) ==
    {r \in Trusted(b, p) : rep_count = 3 /\ ~Agree(b, p, r, Succ(r, 2))}

\* restart_prep, as far as the select() of stealPipes.  A caller has set the
\* buffers.
RestartPrep(e, s) ==
    /\ restartee' = e
    /\ restarter' = s
    /\ stealing' = {p \in Ins : rep_in[s][p] > 0}
    /\ stolen' = NoInput
    /\ pc' = "steal"

\* processFromRep for the next pipe of select_set: the timer, pipeToBuff,
\* balanceReps and checkSDC.  The read blocks when nothing is there.  A send
\* takes the same from every replica, so the gaps after it are those before.
First(S) == CHOOSE x \in S : \A y \in S : x[1] < y[1] \/ (x[1] = y[1] /\ x[2] <= y[2])

ProcessFromRep ==
    /\ pc = "scan"
    /\ ext_set = {}
    /\ \E x \in {First(select_set)} :
       \E b \in {[buffers EXCEPT ![x[2]][x[1]] = @ \o rep_out[x[2]][x[1]]]} :
       LET p == x[1]
           n == BytesReady(b, p)
       IN
         /\ rep_out[x[2]][p] # <<>>
         /\ rep_out' = [rep_out EXCEPT ![x[2]][p] = <<>>]
         /\ select_set' = select_set \ {x}
         /\ current_timer' = IF timer_started THEN current_timer
                             ELSE CHOOSE i \in 1 .. 2 : timer_stop_index[i] = p
         /\ \/ /\ n > 0
               /\ \E s \in Outvoted(b, p) : RestartPrep(Succ(s, 2), s)
               /\ buffers' = b
               /\ timer_started' = FALSE
               /\ UNCHANGED ext_out
            \/ /\ n > 0
               /\ Outvoted(b, p) = {}
               /\ \E s \in Trusted(b, p) : SendPipe(b, p, s)
               /\ timer_started' = FALSE
               /\ pc' = Resume(select_set')
               /\ UNCHANGED restVars
            \/ /\ n = 0 \/ Trusted(b, p) = {}
               /\ buffers' = b
               /\ timer_started' = TRUE
               /\ pc' = Resume(select_set')
               /\ UNCHANGED <<ext_out, restVars>>
         /\ BalanceReps(b, Alive)
    /\ UNCHANGED <<ext_in, sent, ext_set, rep_in, repVars, histVars>>

\* The timer expires only after all that run have answered: the time it is
\* set to is meant to be long enough.
AllAnswered ==
    \A r \in Reps : /\ rep_out[r] = NoOutput
                    /\ status[r] = "up" =>
                         /\ rep_in[r] = NoInput
                         /\ selected[r] = {}

\* voterRestartHandler.
VoterRestartHandler ==
    /\ pc = "loop"
    /\ timer_started
    /\ AllAnswered
    /\ LET e == BehindRep(buffers, timer_stop_index[current_timer]) IN
         RestartPrep(e, (e + (rep_count - 1)) % rep_count)
    /\ timer_started' = FALSE
    /\ UNCHANGED <<extVars, ext_set, select_set, current_timer, buffers,
                   priority, rep_in, rep_out, repVars, histVars>>

\* stealPipes reads what select() reported; it blocks when the replica was
\* quicker.
StealPipe ==
    /\ pc = "steal"
    /\ stealing # {}
    /\ LET p == CHOOSE q \in stealing : \A u \in stealing : q <= u IN
         /\ rep_in[restarter][p] > 0
         /\ stolen' = [stolen EXCEPT ![p] = rep_in[restarter][p]]
         /\ rep_in' = [rep_in EXCEPT ![restarter][p] = 0]
         /\ stealing' = stealing \ {p}
    /\ UNCHANGED <<extVars, pc, ext_set, select_set, timeVars, buffers,
                   priority, restartee, restarter, rep_out, repVars, histVars>>

\* restartReplica up to the signal: the restartee is killed for good.
KillRestartee ==
    /\ pc = "steal"
    /\ stealing = {}
    /\ pc' = "fork"
    /\ status' = [status EXCEPT ![restartee] = "dead"]
    /\ priority' = [r \in Reps |-> IF r = restartee \/ r \notin Alive
                                   THEN priority[r]
                                   ELSE IF r = restarter THEN 2 ELSE 0]
    /\ UNCHANGED <<extVars, ext_set, select_set, timeVars, buffers, restVars,
                   rep_in, rep_out, selected, st, insertSDC, insertCFE,
                   histVars>>

\* A restarter that blocks in read() is woken by the signal, in both copies,
\* without a message: it goes on to the next pipe.
Interrupted(s) ==
    IF selected[s] = {} THEN {}
    ELSE LET p == CHOOSE q \in selected[s] : \A u \in selected[s] : q <= u
         IN  IF rep_in[s][p] > 0 THEN {} ELSE {p}

\* Mutant of ForkAndSend: copyPipe is left out.
ForkWithoutCopy ==
    /\ pc = "fork"
    /\ status[restarter] # "dead"
    /\ selected' = [selected EXCEPT ![restartee] = selected[restarter]]
    /\ status' = [status EXCEPT ![restartee] = status[restarter]]
    /\ st' = [st EXCEPT ![restartee] = st[restarter]]
    /\ rep_in' = [rep_in EXCEPT ![restartee] = NoInput]
    /\ rep_out' = [rep_out EXCEPT ![restartee] = NoOutput]
    /\ buffers' = [buffers EXCEPT ![restartee] = NoOutput]
    /\ insertCFE' = [insertCFE EXCEPT ![restartee] = FALSE]
    /\ insertSDC' = [insertSDC EXCEPT ![restartee] = FALSE]
    /\ faulty' = faulty \ {restartee}
    /\ stealing' = {p \in Ins : stolen[p] > 0}
    /\ pc' = "return"
    /\ UNCHANGED <<extVars, ext_set, select_set, timeVars, priority,
                   restartee, restarter, stolen, ref, expected, faults>>

\* The rest of restartReplica and of the loop over the pipes: the restarter
\* forks, the copy connects and gets new pipes, the restarter's buffers are
\* copied, and what is ready is sent.  accept() blocks when nobody forks.
\* The new pipes have the numbers of the old ones, which were closed just
\* before: select_set stands for them too.
ForkAndSend ==
    /\ pc = "fork"
    /\ status[restarter] # "dead"
    /\ \E b \in {[buffers EXCEPT ![restartee] = buffers[restarter]]} :
       LET e == restartee
           s == restarter
       IN
         /\ \E skip \in SUBSET Interrupted(s) :
              selected' = [selected EXCEPT ![e] = selected[s] \ skip,
                                           ![s] = selected[s] \ skip]
         /\ status' = [status EXCEPT ![e] = status[s]]
         /\ st' = [st EXCEPT ![e] = st[s]]
         /\ insertSDC' = [insertSDC EXCEPT ![e] = insertSDC[s]]
         /\ insertCFE' = [insertCFE EXCEPT ![e] = insertCFE[s]]
         /\ rep_in' = [rep_in EXCEPT ![e] = NoInput]
         /\ rep_out' = [rep_out EXCEPT ![e] = NoOutput]
         /\ buffers' = [r \in Reps |-> [p \in Outs |-> Sent(b, p)[r][p]]]
         /\ ext_out' = [p \in Outs |->
                          ext_out[p] \o SubSeq(b[s][p], 1, BytesReady(b, p))]
         /\ BalanceReps([buffers EXCEPT ![e] = NoOutput], Alive \cup {e})
         /\ faulty' = IF s \in faulty THEN faulty ELSE faulty \ {e}
    /\ stealing' = {p \in Ins : stolen[p] > 0}
    /\ pc' = "return"
    /\ UNCHANGED <<ext_in, sent, ext_set, select_set, timeVars, restartee,
                   restarter, stolen, ref, expected, faults>>

\* Mutant of ReturnPipe: the restarter does not get its input back.
ReturnToRestartee ==
    /\ pc = "return"
    /\ stealing # {}
    /\ rep_in' = [rep_in EXCEPT ![restartee] = stolen]
    /\ stealing' = {}
    /\ UNCHANGED <<extVars, pc, ext_set, select_set, timeVars, buffers,
                   priority, restartee, restarter, stolen, rep_out, repVars,
                   histVars>>

\* returnPipes for both replicas, pipe by pipe; then the voter goes on.
ReturnPipe ==
    /\ pc = "return"
    /\ stealing # {}
    /\ LET p == CHOOSE q \in stealing : \A u \in stealing : q <= u IN
         /\ rep_in' = [r \in Reps |->
                         IF r \in {restartee, restarter}
                         THEN [rep_in[r] EXCEPT ![p] = @ + stolen[p]]
                         ELSE rep_in[r]]
         /\ stealing' = stealing \ {p}
    /\ UNCHANGED <<extVars, pc, ext_set, select_set, timeVars, buffers,
                   priority, restartee, restarter, stolen, rep_out, repVars,
                   histVars>>

Restarted ==
    /\ pc = "return"
    /\ stealing = {}
    /\ pc' = Resume(select_set)
    /\ stolen' = NoInput
    /\ UNCHANGED <<extVars, ext_set, select_set, timeVars, buffers, priority,
                   restartee, restarter, stealing, rep_in, rep_out, repVars,
                   histVars>>

-----------------------------------------------------------------------------
Environment == (\E p \in Ins : Send(p)) /\ UNCHANGED config
Injector ==
    /\ \E r \in Reps, kind \in config.kinds : Fault(r, kind)
    /\ UNCHANGED config
Replicas ==
    /\ \E r \in Reps : Select(r) \/ RecvMapUpdate(r) \/ SendWaypoints(r)
    /\ UNCHANGED config
Voter ==
    /\ \/ VoterSelect
       \/ \E p \in Ins : ProcessData(p)
       \/ ProcessFromRep
       \/ VoterRestartHandler
       \/ StealPipe
       \/ KillRestartee
       \/ ForkAndSend
       \/ ReturnPipe
       \/ Restarted
    /\ UNCHANGED config

Next == Environment \/ Replicas \/ Injector \/ Voter

Spec == Init /\ [][Next]_vars

\* The kernel always lets some process go on that can, and the timer expires
\* when nothing else stops it.
Fairness == WF_vars(Voter \/ Replicas)

FairSpec == Spec /\ Fairness

-----------------------------------------------------------------------------
\* One input at a time, as long as nothing piles up in front of the voter.
InStep == config.burst = 1

\* In step, whatever one fault at a time does, what leaves the voter is what
\* one AStar that never fails would have sent: no answer is lost, repeated,
\* out of order or corrupted (voterd.c:383-474, restart_prep).  Out of step
\* it need not be: the first pair of acknowledgements stops the timer while a
\* request is due, and the next update overtakes that request in some
\* replicas.
VotedAnswersRight ==
    InStep => \A p \in Outs : IsPrefix(ext_out[p], expected[p])

\* In step, only the faulty replica is killed (behindRep, checkSDC).
OnlyFaultyKilled == InStep /\ pc \in {"steal", "fork"} => restartee \in faulty

\* In step the voter never waits where nobody writes: the replica that is to
\* fork is there (accept), every pipe that is left of a scan has data, also
\* after a restart in the middle of it has put new pipes under the old
\* numbers (voterd.c:309-319), and stealPipes does not wait for a message
\* that its replica has taken itself ("This stops them from processing mid
\* restart", voterd.c:102).
NeverBlocks ==
    InStep =>
      /\ pc \in {"steal", "fork"} => status[restarter] = "up"
      /\ pc = "scan" => \A x \in select_set : rep_out[x[2]][x[1]] # <<>>
      /\ pc = "steal" => \A p \in stealing : rep_in[restarter][p] > 0

\* Between restarts every replica has planned with each update the voter
\* took, or has it in its pipe: a restart neither loses nor repeats an input
\* that was stolen and given back (stealPipes, returnPipes).  In step,
\* replicas that have taken the same inputs are in the same state.
HealthyAgree ==
    pc \in {"loop", "scan"} =>
      /\ \A r \in Reps : st[r].plan + rep_in[r][MAP_UPDATE] = ref.plan
      /\ InStep =>
           \A r, q \in Reps \ faulty :
             /\ selected[r] = {} /\ selected[q] = {}
             /\ rep_in[r] = rep_in[q]
             => st[r] = st[q]

AllInputsAnswered ==
    ext_in = NoInput /\ \A p \in Outs : Len(ext_out[p]) = Len(expected[p])

\* In step, every input is taken and answered in the end, whatever one fault
\* does.
AnsweredInStep == []<>(InStep => AllInputsAnswered)

\* Every input is taken and answered in the end, whatever one fault does, and
\* however many inputs come at once: the voter is there to "protect against
\* them using triple redundancy" (README.md:5).
EveryInputAnswered == []<>AllInputsAnswered
=============================================================================
