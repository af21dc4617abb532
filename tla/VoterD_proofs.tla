---------------------------- MODULE VoterD_proofs ----------------------------
(***************************************************************************)
(* Proofs about VoterD.  In step, with two or three replicas and one fault *)
(* at a time, it answers as one AStar that never fails, kills only the     *)
(* faulty replica and never waits in vain; and however many inputs come at *)
(* once, no restart loses or repeats an update.  They hold for every       *)
(* bound and every set of faults that the number of replicas can mask.     *)
(***************************************************************************)
EXTENDS VoterD, SequenceTheorems, TLAPS

(***************************************************************************)
(* What holds however many inputs come at once.                            *)
(***************************************************************************)
\* The number of updates the voter holds for replica r while it restarts one.
Stolen(r) ==
    IF \/ pc \in {"steal", "fork"} /\ r = restarter
       \/ pc = "return" /\ r \in {restarter, restartee} /\ MAP_UPDATE \in stealing
    THEN stolen[MAP_UPDATE] ELSE 0

\* Each update that the voter took is in a replica's plan, in its pipe, or
\* stolen from it.
PlansInv ==
    \A r \in Reps :
        \/ pc = "fork" /\ r = restartee
        \/ st[r].plan + rep_in[r][MAP_UPDATE] + Stolen(r) = ref.plan

\* What stealPipes has not taken, it has yet to do.
StealInv ==
    /\ pc \in {"steal", "fork"} =>
         \A p \in Ins : /\ rep_in[restarter][p] > 0 => p \in stealing
                        /\ p \in stealing => stolen[p] = 0
    /\ pc = "fork" => stealing = {}
    /\ pc \in {"steal", "fork", "return"} => restarter # restartee

\* There is something to look at while the voter scans.
ScanInv == pc = "scan" => ext_set # {} \/ select_set # {}

(***************************************************************************)
(* In step.                                                                *)
(***************************************************************************)
Only(p)    == [q \in Ins |-> IF q = p THEN 1 ELSE 0]
Just(p, a) == [q \in Outs |-> IF q = p THEN <<a>> ELSE <<>>]

\* What AStar does with an input of pipe p, and what it answers.
After(p, s) == IF p = MAP_UPDATE THEN AfterUpdate(s, FALSE) ELSE AfterRequest(s)
Reply(p, s) == IF p = MAP_UPDATE THEN Ack(s) ELSE Way(AfterRequest(s).cur)

\* The input whose answer is due, and that answer.
Due    == timer_start_index[current_timer]
DueOut == timer_stop_index[current_timer]
DueAns == expected[DueOut][Len(expected[DueOut])]

\* Faults come one at a time, and what is wrong with a replica is a fault.
Faults ==
    /\ \A q, r \in faulty : q = r
    /\ \A r \in Reps :
         /\ status[r] # "up" \/ insertSDC[r] \/ insertCFE[r] => r \in faulty
         /\ insertSDC[r] => "sdc" \in config.kinds

\* Nothing is under way: all replicas have answered all inputs.
Rest ==
    /\ \A r \in Reps : /\ rep_in[r] = NoInput /\ selected[r] = {}
                       /\ rep_out[r] = NoOutput /\ buffers[r] = NoOutput
                       /\ st[r] = ref
    /\ ext_out = expected

\* All that was answered but the present input has been sent.
OneDue ==
    /\ ext_out[DueOut] \o <<DueAns>> = expected[DueOut]
    /\ \A p \in Outs \ {DueOut} : ext_out[p] = expected[p]

\* r has yet to read the input.
Waits(r) ==
    /\ rep_in[r] = Only(Due) /\ selected[r] \subseteq {Due}
    /\ rep_out[r] = NoOutput /\ buffers[r] = NoOutput
    /\ After(Due, st[r]) = ref /\ Reply(Due, st[r]) = DueAns

\* r has answered a, which is in its pipe or in the voter's buffer.
Answered(r, a) ==
    /\ rep_in[r] = NoInput /\ selected[r] = {}
    /\ \/ rep_out[r] = Just(DueOut, a) /\ buffers[r] = NoOutput
       \/ rep_out[r] = NoOutput /\ buffers[r] = Just(DueOut, a)

Right(r) == Answered(r, DueAns) /\ st[r] = ref
Wrong(r) ==
    /\ r \in faulty /\ "sdc" \in config.kinds
    /\ \E a \in Answers : a # DueAns /\ Answered(r, a)

Busy ==
    /\ OneDue
    /\ \A r \in Reps : Waits(r) \/ Right(r) \/ Wrong(r)
    /\ \A r, q \in Reps : Waits(r) /\ Waits(q) => st[r] = st[q]
    /\ \E r \in Reps : buffers[r] = NoOutput

\* The faulty replica is replaced when all the others' answers are there.
Replacing ==
    /\ OneDue
    /\ restartee \in faulty /\ restarter # restartee
    /\ \A r \in Reps \ {restartee} : Right(r) /\ rep_out[r] = NoOutput

StepPhase ==
    /\ \A p \in Ins : ext_in[p] <= 1
    /\ stealing = {} /\ stolen = NoInput
    /\ pc # "scan" => ext_set = {} /\ select_set = {}
    /\ pc = "loop" => IF timer_started THEN Busy ELSE Rest
    /\ pc = "scan" => IF timer_started
                      THEN /\ Busy /\ ext_set = {}
                           /\ \A x \in select_set : rep_out[x[2]][x[1]] # <<>>
                      ELSE /\ Rest /\ select_set = {}
                           /\ \A p \in ext_set : ext_in[p] = 1
    /\ pc \in {"steal", "fork"} => ~timer_started /\ Replacing
    /\ pc = "return" => ~timer_started /\ Rest

StepInv == InStep => Faults /\ StepPhase

\* What holds all the time.
VoterDInv == TypeOK /\ PlansInv /\ StealInv /\ ScanInv /\ StepInv

-----------------------------------------------------------------------------
(***************************************************************************)
(* Types.                                                                  *)
(***************************************************************************)

\* There are two or three replicas, counted from 0.
LEMMA RepsFacts ==
    ASSUME config \in Instances
    PROVE  /\ \/ rep_count = 2 /\ Reps = {0, 1}
              \/ rep_count = 3 /\ Reps = {0, 1, 2}
           /\ config.burst \in Nat /\ config.inputs \in Nat
           /\ config.kinds \subseteq {"kill", "sdc", "cfe"}
<1>1. config \in [rep_count : 2..3, burst : 1..2, inputs : Nat,
                  kinds : SUBSET {"kill", "sdc", "cfe"}]
  BY InstancesAssumption
<1> QED BY <1>1 DEF rep_count, Reps

\* The pipes.
LEMMA Pipes ==
    /\ Ins = {0, 2} /\ Outs = {1, 3}
    /\ MAP_UPDATE = 0 /\ WAY_REQ = 2 /\ COMM_ACK = 1 /\ WAY_RES = 3
    /\ \A i \in 1 .. 2 : timer_start_index[i] \in Ins /\ timer_stop_index[i] \in Outs
    /\ NoInput \in [Ins -> Nat] /\ NoOutput \in [Outs -> Seq(Answers)]
    /\ \A p \in Ins : NoInput[p] = 0
    /\ \A p \in Outs : NoOutput[p] = <<>>
BY DEF Ins, Outs, MAP_UPDATE, WAY_REQ, COMM_ACK, WAY_RES, timer_start_index,
       timer_stop_index, NoInput, NoOutput

\* The timed pair of an input, and that of an output.
LEMMA Timed ==
    /\ \A p \in Ins : /\ (CHOOSE i \in 1 .. 2 : timer_start_index[i] = p) \in 1 .. 2
                      /\ timer_start_index[CHOOSE i \in 1 .. 2 : timer_start_index[i] = p] = p
    /\ \A p \in Outs : (CHOOSE i \in 1 .. 2 : timer_stop_index[i] = p) \in 1 .. 2
<1>1. \A p \in Ins : \E i \in 1 .. 2 : timer_start_index[i] = p
  BY DEF Ins, MAP_UPDATE, WAY_REQ, timer_start_index
<1>2. \A p \in Outs : \E i \in 1 .. 2 : timer_stop_index[i] = p
  BY DEF Outs, COMM_ACK, WAY_RES, timer_stop_index
<1> QED BY <1>1, <1>2

\* What the replicas have sent on p, and the least of it.
LEMMA ReadyFacts ==
    ASSUME config \in Instances, NEW b \in [Reps -> [Outs -> Seq(Answers)]],
           NEW p \in Outs
    PROVE  /\ BytesReady(b, p) \in Nat
           /\ \A r \in Reps : Len(b[r][p]) \in Nat /\ BytesReady(b, p) <= Len(b[r][p])
           /\ \E r \in Reps : BytesReady(b, p) = Len(b[r][p])
<1> DEFINE len == [r \in Reps |-> Len(b[r][p])]
           S == {Len(b[r][p]) : r \in Reps}
<1>1. \A r \in Reps : Len(b[r][p]) \in Nat
  OBVIOUS
<1>2. \E n \in S : \A r \in Reps : n <= Len(b[r][p])
  <2>1. CASE Reps = {0, 1}
    <3>1. PICK l0 \in Nat, l1 \in Nat : l0 = Len(b[0][p]) /\ l1 = Len(b[1][p])
      BY <1>1, <2>1
    <3>2. l0 <= l1 \/ l1 <= l0
      BY <3>1
    <3> QED BY <2>1, <3>1, <3>2
  <2>2. CASE Reps = {0, 1, 2}
    <3>1. PICK l0 \in Nat, l1 \in Nat, l2 \in Nat :
             l0 = Len(b[0][p]) /\ l1 = Len(b[1][p]) /\ l2 = Len(b[2][p])
      BY <1>1, <2>2
    <3>2. \/ l0 <= l0 /\ l0 <= l1 /\ l0 <= l2
          \/ l1 <= l0 /\ l1 <= l1 /\ l1 <= l2
          \/ l2 <= l0 /\ l2 <= l1 /\ l2 <= l2
      BY <3>1
    <3> QED BY <2>2, <3>1, <3>2
  <2> QED BY <2>1, <2>2, RepsFacts
<1>3. BytesReady(b, p) \in S /\ \A r \in Reps : BytesReady(b, p) <= Len(b[r][p])
  BY <1>2 DEF BytesReady
<1> QED BY <1>1, <1>3

\* The next pipe of a scan is one of those left.
LEMMA FirstFacts ==
    ASSUME config \in Instances, NEW S \in SUBSET (Outs \X Reps), S # {}
    PROVE  First(S) \in S /\ First(S)[1] \in Outs /\ First(S)[2] \in Reps
<1>1. \A x \in S : /\ x[1] \in {1, 3} /\ x[2] \in 0 .. 2 /\ x = <<x[1], x[2]>>
                   /\ x[1] \in Outs /\ x[2] \in Reps
  BY RepsFacts, Pipes
<1>2. ASSUME NEW n \in {1, 3}, \E x \in S : x[1] = n
      PROVE  \E x \in S : x[1] = n /\ \A y \in S : y[1] = n => x[2] <= y[2]
  <2>1. CASE <<n, 0>> \in S
    BY <1>1, <2>1
  <2>2. CASE <<n, 0>> \notin S /\ <<n, 1>> \in S
    <3>1. \A y \in S : y[1] = n => 1 <= y[2]
      BY <1>1, <2>2
    <3> QED BY <2>2, <3>1
  <2>3. CASE <<n, 0>> \notin S /\ <<n, 1>> \notin S
    <3>1. \A y \in S : y[1] = n => y[2] = 2
      BY <1>1, <2>3
    <3> QED BY <1>2, <3>1
  <2> QED BY <2>1, <2>2, <2>3
<1>3. \E x \in S : \A y \in S : x[1] < y[1] \/ (x[1] = y[1] /\ x[2] <= y[2])
  <2>1. CASE \E x \in S : x[1] = 1
    <3>1. PICK x \in S : x[1] = 1 /\ \A y \in S : y[1] = 1 => x[2] <= y[2]
      BY <1>2, <2>1
    <3>2. \A y \in S : x[1] < y[1] \/ (x[1] = y[1] /\ x[2] <= y[2])
      BY <1>1, <3>1
    <3> QED BY <3>2
  <2>2. CASE ~\E x \in S : x[1] = 1
    <3>1. \A y \in S : y[1] = 3
      BY <1>1, <2>2
    <3>2. PICK x \in S : x[1] = 3 /\ \A y \in S : y[1] = 3 => x[2] <= y[2]
      BY <1>2, <3>1
    <3> QED BY <3>1, <3>2
  <2> QED BY <2>1, <2>2
<1>4. First(S) \in S
  BY <1>3 DEF First
<1> QED BY <1>1, <1>4

\* Who is behind is one of the replicas, and none has sent less.
LEMMA BehindFacts ==
    ASSUME config \in Instances, buffers \in [Reps -> [Outs -> Seq(Answers)]],
           priority \in [Reps -> 0 .. 2], NEW p \in Outs
    PROVE  /\ BehindRep(buffers, p) \in Reps
           /\ \A q \in Reps :
                ~(Len(buffers[q][p]) < Len(buffers[BehindRep(buffers, p)][p]))
<1> DEFINE F(r, q) == \/ Len(buffers[r][p]) < Len(buffers[q][p])
                      \/ /\ Len(buffers[r][p]) = Len(buffers[q][p])
                         /\ priority[r] > priority[q]
           Best(r) == /\ \A q \in Reps : ~F(q, r)
                      /\ \A q \in Reps : F(r, q) \/ r <= q
<1>1. \A r \in Reps : Len(buffers[r][p]) \in Nat /\ priority[r] \in Nat
  <2>1. \A r \in Reps : buffers[r][p] \in Seq(Answers)
    OBVIOUS
  <2>2. \A r \in Reps : priority[r] \in Nat
    <3>1. \A r \in Reps : priority[r] \in 0 .. 2
      OBVIOUS
    <3>2. \A i \in 0 .. 2 : i \in Nat
      OBVIOUS
    <3> QED BY <3>1, <3>2, Zenon
  <2> QED BY <2>1, <2>2
<1>2. \E r \in Reps : Best(r)
  <2>1. CASE Reps = {0, 1}
    <3>1. PICK l0 \in Nat, l1 \in Nat : l0 = Len(buffers[0][p]) /\ l1 = Len(buffers[1][p])
      BY <1>1, <2>1
    <3>2. PICK p0 \in Nat, p1 \in Nat : p0 = priority[0] /\ p1 = priority[1]
      BY <1>1, <2>1
    <3>3. Best(0) \/ Best(1)
      BY <2>1, <3>1, <3>2
    <3> QED BY <2>1, <3>3
  <2>2. CASE Reps = {0, 1, 2}
    <3>1. PICK l0 \in Nat, l1 \in Nat, l2 \in Nat :
             l0 = Len(buffers[0][p]) /\ l1 = Len(buffers[1][p]) /\ l2 = Len(buffers[2][p])
      BY <1>1, <2>2
    <3>2. PICK p0 \in Nat, p1 \in Nat, p2 \in Nat :
             p0 = priority[0] /\ p1 = priority[1] /\ p2 = priority[2]
      BY <1>1, <2>2
    <3>3. Best(0) \/ Best(1) \/ Best(2)
      BY <2>2, <3>1, <3>2
    <3> QED BY <2>2, <3>3
  <2> QED BY <2>1, <2>2, RepsFacts
<1>3. BehindRep(buffers, p) = CHOOSE r \in Reps : Best(r)
  BY DEF BehindRep
<1>4. BehindRep(buffers, p) \in Reps /\ Best(BehindRep(buffers, p))
  BY <1>2, <1>3
<1> QED BY <1>4

\* The neighbours of a replica are replicas.
LEMMA SuccFacts ==
    ASSUME config \in Instances, NEW r \in Reps
    PROVE  /\ Succ(r, 1) \in Reps /\ Succ(r, 2) \in Reps
           /\ (r + (rep_count - 1)) % rep_count \in Reps
           /\ (r + (rep_count - 1)) % rep_count # r
           /\ rep_count = 3 => /\ Succ(0, 1) = 1 /\ Succ(1, 1) = 2 /\ Succ(2, 1) = 0
                               /\ Succ(0, 2) = 2 /\ Succ(1, 2) = 0 /\ Succ(2, 2) = 1
<1>1. CASE rep_count = 2 /\ Reps = {0, 1}
  BY <1>1 DEF Succ
<1>2. CASE rep_count = 3 /\ Reps = {0, 1, 2}
  BY <1>2 DEF Succ
<1> QED BY <1>1, <1>2, RepsFacts

\* AStar keeps its types.
LEMMA AStarType ==
    ASSUME NEW s \in AStarState, NEW sdc \in BOOLEAN
    PROVE  /\ AfterUpdate(s, sdc) \in AStarState
           /\ AfterRequest(s) \in AStarState
           /\ UpdateAck(s, sdc) \in Answers /\ Ack(s) \in Answers
           /\ Way(AfterRequest(s).cur) \in Answers
<1>1. AfterUpdate(s, sdc) \in AStarState
  <2>1. PICK h \in Nat : h = IF sdc THEN s.fake_hash + 1 ELSE s.fake_hash
    BY DEF AStarState
  <2>2. AfterUpdate(s, sdc) = [s EXCEPT !.plan = @ + 1, !.ready_to_send = TRUE,
                                        !.fake_hash = h]
    BY <2>1 DEF AfterUpdate
  <2>3. s.plan + 1 \in Nat
    BY DEF AStarState
  <2>4. \A n \in Nat : [s EXCEPT !.plan = n, !.ready_to_send = TRUE, !.fake_hash = h] \in AStarState
    BY DEF AStarState
  <2> QED BY <2>2, <2>3, <2>4
<1>2. AfterRequest(s) \in AStarState
  BY DEF AStarState, AfterRequest
<1>3. Ack(s) \in [hash : Nat, resend_request : BOOLEAN]
  BY DEF Ack, AStarState
<1>4. UpdateAck(s, sdc) \in [hash : Nat, resend_request : BOOLEAN]
  BY <1>1, <1>3 DEF UpdateAck, AStarState
<1>5. Way(AfterRequest(s).cur) \in [plan : Nat]
  BY <1>2 DEF Way, AStarState
<1> QED BY <1>1, <1>2, <1>3, <1>4, <1>5 DEF Answers

\* balanceReps keeps priorities in their range.
LEMMA BalanceType ==
    ASSUME priority \in [Reps -> 0 .. 2], NEW b, NEW alive, BalanceReps(b, alive)
    PROVE  priority' \in [Reps -> 0 .. 2]
  BY DEF BalanceReps

\* sendPipe keeps the types of the buffers and of what was sent.
LEMMA SentType ==
    ASSUME config \in Instances, NEW b \in [Reps -> [Outs -> Seq(Answers)]],
           NEW p \in Outs
    PROVE  /\ Sent(b, p) \in [Reps -> [Outs -> Seq(Answers)]]
           /\ \A s \in Reps : SubSeq(b[s][p], 1, BytesReady(b, p)) \in Seq(Answers)
<1>1. /\ BytesReady(b, p) \in Nat
      /\ \A r \in Reps : Len(b[r][p]) \in Nat /\ BytesReady(b, p) <= Len(b[r][p])
  BY ReadyFacts
<1>2. ASSUME NEW r \in Reps
      PROVE  /\ SubSeq(b[r][p], BytesReady(b, p) + 1, Len(b[r][p])) \in Seq(Answers)
             /\ SubSeq(b[r][p], 1, BytesReady(b, p)) \in Seq(Answers)
  <2>1. b[r][p] \in Seq(Answers)
    OBVIOUS
  <2>2. PICK n \in Nat : n = BytesReady(b, p) /\ n <= Len(b[r][p])
    BY <1>1
  <2> QED BY <2>1, <2>2, SubSeqProperties
<1>3. ASSUME NEW r \in Reps
      PROVE  [b[r] EXCEPT ![p] = SubSeq(@, BytesReady(b, p) + 1, Len(@))]
               \in [Outs -> Seq(Answers)]
  BY <1>2
<1> QED BY <1>2, <1>3 DEF Sent

\* What an assignment to one place of an array does to its type.
LEMMA Assign ==
    ASSUME NEW S, NEW T, NEW f \in [S -> T], NEW x \in S, NEW v \in T
    PROVE  [f EXCEPT ![x] = v] \in [S -> T]
  OBVIOUS

\* The same for one place of an array of arrays.
LEMMA AssignTwo ==
    ASSUME NEW S, NEW T, NEW U, NEW f \in [S -> [T -> U]], NEW x \in S,
           NEW y \in T, NEW v \in U
    PROVE  [f EXCEPT ![x][y] = v] \in [S -> [T -> U]]
  OBVIOUS

\* Init has the types.
LEMMA InitType == Init => TypeOK
<1> SUFFICES ASSUME Init PROVE TypeOK
  OBVIOUS
<1>1. config \in Instances /\ 0 \in Reps
  BY RepsFacts DEF Init
<1>2. AStarInit \in AStarState
  BY DEF AStarInit, AStarState
<1>3. NoInput \in [Ins -> Nat] /\ NoOutput \in [Outs -> Seq(Answers)]
  BY Pipes
<1>4. /\ ext_in \in [Ins -> Nat] /\ sent \in [Ins -> Nat] /\ stolen \in [Ins -> Nat]
      /\ ext_out \in [Outs -> Seq(Answers)] /\ expected \in [Outs -> Seq(Answers)]
  BY <1>3 DEF Init
<1>5. /\ buffers \in [Reps -> [Outs -> Seq(Answers)]]
      /\ rep_out \in [Reps -> [Outs -> Seq(Answers)]]
      /\ rep_in \in [Reps -> [Ins -> Nat]]
  BY <1>3 DEF Init
<1>6. /\ priority \in [Reps -> 0 .. 2]
      /\ status \in [Reps -> {"up", "looping", "dead"}]
      /\ selected \in [Reps -> SUBSET Ins]
  BY DEF Init
<1>7. /\ st \in [Reps -> AStarState] /\ ref \in AStarState
      /\ insertSDC \in [Reps -> BOOLEAN] /\ insertCFE \in [Reps -> BOOLEAN]
  BY <1>2 DEF Init
<1>8. /\ pc = "loop" /\ ext_set = {} /\ select_set = {} /\ timer_started = FALSE
      /\ current_timer \in 1 .. 2 /\ restartee \in Reps /\ restarter \in Reps
      /\ stealing = {} /\ faulty = {} /\ faults = 0
  BY <1>1 DEF Init
<1> QED BY <1>1, <1>4, <1>5, <1>6, <1>7, <1>8 DEF TypeOK

\* An input for the voter.
LEMMA EnvironmentType ==
    ASSUME TypeOK, NEW p \in Ins, Send(p), UNCHANGED config
    PROVE  TypeOK'
<1>1. Reps' = Reps
  BY DEF Reps, rep_count
<1>2. ext_in \in [Ins -> Nat] /\ sent \in [Ins -> Nat]
  BY DEF TypeOK
<1>3. ext_in' \in [Ins -> Nat] /\ sent' \in [Ins -> Nat]
  BY <1>2, Assign DEF Send
<1> QED BY <1>1, <1>3 DEF TypeOK, Send, timeVars, restVars, repVars, histVars

\* A replica's steps.
LEMMA ReplicaType ==
    ASSUME TypeOK, NEW r \in Reps, UNCHANGED config,
           Select(r) \/ RecvMapUpdate(r) \/ SendWaypoints(r)
    PROVE  TypeOK'
<1>1. Reps' = Reps
  BY DEF Reps, rep_count
<1>2. MAP_UPDATE \in Ins /\ WAY_REQ \in Ins /\ COMM_ACK \in Outs /\ WAY_RES \in Outs
  BY Pipes
<1>3. /\ rep_in \in [Reps -> [Ins -> Nat]] /\ rep_out \in [Reps -> [Outs -> Seq(Answers)]]
      /\ st \in [Reps -> AStarState] /\ insertSDC \in [Reps -> BOOLEAN]
      /\ selected \in [Reps -> SUBSET Ins] /\ status \in [Reps -> {"up", "looping", "dead"}]
  BY DEF TypeOK
<1>4. st[r] \in AStarState /\ insertSDC[r] \in BOOLEAN /\ selected[r] \in SUBSET Ins
  BY <1>3
<1>5. CASE Select(r)
  <2>1. PICK ready : /\ ready \in SUBSET Ins
                     /\ IF insertCFE[r]
                        THEN status' = [status EXCEPT ![r] = "looping"] /\ UNCHANGED selected
                        ELSE selected' = [selected EXCEPT ![r] = ready] /\ UNCHANGED status
    BY <1>5 DEF Select
  <2>2. status' \in [Reps -> {"up", "looping", "dead"}] /\ selected' \in [Reps -> SUBSET Ins]
    BY <1>3, <2>1
  <2> QED BY <1>1, <1>5, <2>2 DEF TypeOK, Select, extVars, timeVars, restVars, histVars
<1>6. CASE RecvMapUpdate(r)
  <2>1. /\ AfterUpdate(st[r], insertSDC[r]) \in AStarState
        /\ UpdateAck(st[r], insertSDC[r]) \in Answers
    BY <1>4, AStarType
  <2>2. rep_in[r][MAP_UPDATE] \in Nat /\ rep_in[r][MAP_UPDATE] > 0
    BY <1>2, <1>3, <1>6 DEF RecvMapUpdate
  <2>3. rep_in' \in [Reps -> [Ins -> Nat]]
    <3>1. rep_in[r][MAP_UPDATE] - 1 \in Nat
      BY <2>2
    <3> QED BY <1>2, <1>3, <1>6, <3>1, AssignTwo DEF RecvMapUpdate
  <2>4. selected' \in [Reps -> SUBSET Ins] /\ insertSDC' \in [Reps -> BOOLEAN]
    BY <1>3, <1>4, <1>6 DEF RecvMapUpdate
  <2>5. st' \in [Reps -> AStarState]
    BY <1>3, <1>6, <2>1 DEF RecvMapUpdate
  <2>6. rep_out' \in [Reps -> [Outs -> Seq(Answers)]]
    <3>1. rep_out[r][COMM_ACK] \in Seq(Answers)
      BY <1>2, <1>3
    <3>2. Append(rep_out[r][COMM_ACK], UpdateAck(st[r], insertSDC[r])) \in Seq(Answers)
      BY <2>1, <3>1
    <3> QED BY <1>2, <1>3, <1>6, <3>2, AssignTwo DEF RecvMapUpdate
  <2> QED BY <1>1, <1>6, <2>3, <2>4, <2>5, <2>6
          DEF TypeOK, RecvMapUpdate, extVars, timeVars, restVars, histVars
<1>7. CASE SendWaypoints(r)
  <2>1. /\ AfterRequest(st[r]) \in AStarState
        /\ Way(AfterRequest(st[r]).cur) \in Answers
    BY <1>4, AStarType
  <2>2. rep_in[r][WAY_REQ] \in Nat /\ rep_in[r][WAY_REQ] > 0
    BY <1>2, <1>3, <1>7 DEF SendWaypoints
  <2>3. rep_in' \in [Reps -> [Ins -> Nat]]
    <3>1. rep_in[r][WAY_REQ] - 1 \in Nat
      BY <2>2
    <3> QED BY <1>2, <1>3, <1>7, <3>1, AssignTwo DEF SendWaypoints
  <2>4. selected' \in [Reps -> SUBSET Ins]
    BY <1>3, <1>7 DEF SendWaypoints
  <2>5. st' \in [Reps -> AStarState]
    BY <1>3, <1>7, <2>1 DEF SendWaypoints
  <2>6. rep_out' \in [Reps -> [Outs -> Seq(Answers)]]
    <3>1. rep_out[r][WAY_RES] \in Seq(Answers)
      BY <1>2, <1>3
    <3>2. Append(rep_out[r][WAY_RES], Way(AfterRequest(st[r]).cur)) \in Seq(Answers)
      BY <2>1, <3>1
    <3> QED BY <1>2, <1>3, <1>7, <3>2, AssignTwo DEF SendWaypoints
  <2> QED BY <1>1, <1>7, <2>3, <2>4, <2>5, <2>6
          DEF TypeOK, SendWaypoints, extVars, timeVars, restVars, histVars
<1> QED BY <1>5, <1>6, <1>7

\* A fault.
LEMMA FaultType ==
    ASSUME TypeOK, NEW r \in Reps, NEW kind \in {"kill", "sdc", "cfe"},
           Fault(r, kind), UNCHANGED config
    PROVE  TypeOK'
<1>1. Reps' = Reps
  BY DEF Reps, rep_count
<1>2. /\ faults \in Nat /\ status \in [Reps -> {"up", "looping", "dead"}]
      /\ insertSDC \in [Reps -> BOOLEAN] /\ insertCFE \in [Reps -> BOOLEAN]
  BY DEF TypeOK
<1>3. faults' \in Nat /\ faulty' \in SUBSET Reps
  BY <1>2 DEF Fault
<1>4. /\ status' \in [Reps -> {"up", "looping", "dead"}]
      /\ insertSDC' \in [Reps -> BOOLEAN] /\ insertCFE' \in [Reps -> BOOLEAN]
  <2>1. CASE kind = "kill"
    <3>1. status' = [status EXCEPT ![r] = "dead"] /\ UNCHANGED <<insertSDC, insertCFE>>
      BY <2>1 DEF Fault
    <3> QED BY <1>2, <3>1
  <2>2. CASE kind = "sdc"
    <3>1. insertSDC' = [insertSDC EXCEPT ![r] = TRUE] /\ UNCHANGED <<status, insertCFE>>
      BY <2>2 DEF Fault
    <3> QED BY <1>2, <3>1
  <2>3. CASE kind = "cfe"
    <3>1. insertCFE' = [insertCFE EXCEPT ![r] = TRUE] /\ UNCHANGED <<status, insertSDC>>
      BY <2>3 DEF Fault
    <3> QED BY <1>2, <3>1
  <2> QED BY <2>1, <2>2, <2>3
<1> QED BY <1>1, <1>3, <1>4 DEF TypeOK, Fault, extVars, timeVars, restVars

\* The faultless AStar keeps its types too.
LEMMA RefType ==
    ASSUME ref \in AStarState, NEW p \in Ins, NEW n \in Nat
    PROVE  /\ RefStates(p, n)[n + 1] \in AStarState
           /\ RefAnswers(p, n) \in Seq(Answers)
<1>1. ASSUME NEW i \in 1 .. n + 1
      PROVE  RefStates(p, n)[i] \in AStarState
  <2>1. RefStates(p, n)[i] =
          IF p = MAP_UPDATE
          THEN [ref EXCEPT !.plan = @ + (i - 1), !.ready_to_send = @ \/ i > 1]
          ELSE IF i = 1 THEN ref ELSE AfterRequest(ref)
    BY DEF RefStates
  <2>2. [ref EXCEPT !.plan = @ + (i - 1), !.ready_to_send = @ \/ i > 1] \in AStarState
    <3>1. ref.plan + (i - 1) \in Nat /\ (ref.ready_to_send \/ i > 1) \in BOOLEAN
      BY DEF AStarState
    <3>2. \A k \in Nat, b \in BOOLEAN :
            [ref EXCEPT !.plan = k, !.ready_to_send = b] \in AStarState
      BY DEF AStarState
    <3> QED BY <3>1, <3>2
  <2>3. AfterRequest(ref) \in AStarState
    BY AStarType
  <2> QED BY <2>1, <2>2, <2>3
<1>2. ASSUME NEW i \in 1 .. n
      PROVE  (IF p = MAP_UPDATE THEN Ack(RefStates(p, n)[i])
                                ELSE Way(AfterRequest(ref).cur)) \in Answers
  <2>1. Ack(RefStates(p, n)[i]) \in Answers
    <3>1. RefStates(p, n)[i] \in AStarState
      BY <1>1
    <3> QED BY <3>1, AStarType
  <2>2. Way(AfterRequest(ref).cur) \in Answers
    BY AStarType
  <2> QED BY <2>1, <2>2
<1>3. RefAnswers(p, n) \in [1 .. n -> Answers]
  BY <1>2 DEF RefAnswers
<1> QED BY <1>1, <1>3

\* The voter's select.
LEMMA VoterSelectType ==
    ASSUME TypeOK, ScanInv, VoterSelect, UNCHANGED config
    PROVE  TypeOK' /\ ScanInv'
<1>1. Reps' = Reps
  BY DEF Reps, rep_count
<1>2. ext_set' \in SUBSET Ins /\ select_set' \in SUBSET (Outs \X Reps)
  BY DEF VoterSelect, ExtWanted, RepWanted
<1>3. ext_set' # {} \/ select_set' # {}
  <2>1. ASSUME ExtWanted # {}
        PROVE  \E p \in ExtWanted : \A q \in ExtWanted : p <= q
    <3>1. ExtWanted \subseteq {0, 2}
      BY Pipes DEF ExtWanted
    <3>2. CASE 0 \in ExtWanted
      BY <3>1, <3>2
    <3>3. CASE 0 \notin ExtWanted
      <4>1. ExtWanted = {2}
        BY <2>1, <3>1, <3>3
      <4> QED BY <4>1
    <3> QED BY <3>2, <3>3
  <2> QED BY <2>1 DEF VoterSelect
<1>4. TypeOK'
  BY <1>1, <1>2 DEF TypeOK, VoterSelect, extVars, timeVars, restVars, repVars, histVars
<1> QED BY <1>3, <1>4 DEF ScanInv

\* The voter passes an input on.
LEMMA ProcessDataType ==
    ASSUME TypeOK, ScanInv, NEW p \in Ins, ProcessData(p), UNCHANGED config
    PROVE  TypeOK' /\ ScanInv'
<1>1. Reps' = Reps
  BY DEF Reps, rep_count
<1>2. /\ ext_in \in [Ins -> Nat] /\ rep_in \in [Reps -> [Ins -> Nat]] /\ ref \in AStarState
      /\ expected \in [Outs -> Seq(Answers)] /\ priority \in [Reps -> 0 .. 2]
      /\ timer_started \in BOOLEAN /\ current_timer \in 1 .. 2
  BY DEF TypeOK
<1>3. ext_in[p] \in Nat
  BY <1>2
<1>4. ext_in' \in [Ins -> Nat]
  BY <1>2, Assign DEF ProcessData
<1>5. rep_in' \in [Reps -> [Ins -> Nat]]
  <2>1. ASSUME NEW r \in Reps
        PROVE  [rep_in[r] EXCEPT ![p] = @ + ext_in[p]] \in [Ins -> Nat]
    <3>1. rep_in[r] \in [Ins -> Nat] /\ rep_in[r][p] + ext_in[p] \in Nat
      BY <1>2, <1>3
    <3> QED BY <3>1, Assign
  <2> QED BY <2>1 DEF ProcessData
<1>6. timer_started' \in BOOLEAN /\ current_timer' \in 1 .. 2
  BY <1>2, Timed DEF ProcessData, timeVars
<1>7. priority' \in [Reps -> 0 .. 2]
  BY <1>2, BalanceType DEF ProcessData
<1>8. ref' \in AStarState
  BY <1>2, <1>3, RefType DEF ProcessData
<1>9. expected' \in [Outs -> Seq(Answers)]
  <2>1. RefAnswers(p, ext_in[p]) \in Seq(Answers)
    BY <1>2, <1>3, RefType
  <2>2. PICK o \in Outs : expected' = [expected EXCEPT ![o] = @ \o RefAnswers(p, ext_in[p])]
    <3>1. timer_stop_index[IF p = MAP_UPDATE THEN 1 ELSE 2] \in Outs
      BY Pipes
    <3> QED BY <3>1 DEF ProcessData
  <2>3. expected[o] \o RefAnswers(p, ext_in[p]) \in Seq(Answers)
    BY <1>2, <2>1
  <2> QED BY <1>2, <2>2, <2>3, Assign
<1>10. pc' \in {"loop", "scan"} /\ ext_set' = {} /\ (pc' = "scan" => select_set' # {})
  BY DEF ProcessData, Resume
<1>11. TypeOK'
  BY <1>1, <1>4, <1>5, <1>6, <1>7, <1>8, <1>9, <1>10
     DEF TypeOK, ProcessData, restVars, repVars
<1> QED BY <1>10, <1>11 DEF ScanInv

\* restart_prep chooses replicas.
LEMMA RestartPrepType ==
    ASSUME TypeOK, NEW e \in Reps, NEW s \in Reps, RestartPrep(e, s)
    PROVE  /\ restartee' \in Reps /\ restarter' \in Reps /\ stealing' \in SUBSET Ins
           /\ stolen' \in [Ins -> Nat] /\ pc' = "steal"
  BY Pipes DEF RestartPrep

\* What a step of the scan does with pipe x, b being the buffers after the
\* read.
Scanned(x, b) ==
    /\ rep_out[x[2]][x[1]] # <<>>
    /\ rep_out' = [rep_out EXCEPT ![x[2]][x[1]] = <<>>]
    /\ select_set' = select_set \ {x}
    /\ current_timer' = IF timer_started THEN current_timer
                        ELSE CHOOSE i \in 1 .. 2 : timer_stop_index[i] = x[1]
    /\ BalanceReps(b, Alive)

\* checkSDC finds a replica to restart,
RestartsOne(x, b) ==
    /\ BytesReady(b, x[1]) > 0
    /\ \E s \in Outvoted(b, x[1]) : RestartPrep(Succ(s, 2), s)
    /\ buffers' = b
    /\ timer_started' = FALSE
    /\ UNCHANGED ext_out

\* or lets the voter send,
SendsOne(x, b) ==
    /\ BytesReady(b, x[1]) > 0
    /\ Outvoted(b, x[1]) = {}
    /\ \E s \in Trusted(b, x[1]) : SendPipe(b, x[1], s)
    /\ timer_started' = FALSE
    /\ pc' = Resume(select_set')
    /\ UNCHANGED restVars

\* or waits for more.
WaitsForMore(x, b) ==
    /\ BytesReady(b, x[1]) = 0 \/ Trusted(b, x[1]) = {}
    /\ buffers' = b
    /\ timer_started' = TRUE
    /\ pc' = Resume(select_set')
    /\ UNCHANGED <<ext_out, restVars>>

\* A scan step is one of the three, for the first pipe left.
LEMMA ProcessFromRepCases ==
    ASSUME TypeOK, ScanInv, ProcessFromRep
    PROVE  \E x \in select_set, b \in [Reps -> [Outs -> Seq(Answers)]] :
             /\ x = First(select_set) /\ x[1] \in Outs /\ x[2] \in Reps
             /\ b = [buffers EXCEPT ![x[2]][x[1]] = @ \o rep_out[x[2]][x[1]]]
             /\ Scanned(x, b)
             /\ RestartsOne(x, b) \/ SendsOne(x, b) \/ WaitsForMore(x, b)
<1>1. /\ buffers \in [Reps -> [Outs -> Seq(Answers)]]
      /\ rep_out \in [Reps -> [Outs -> Seq(Answers)]]
      /\ select_set \in SUBSET (Outs \X Reps) /\ config \in Instances
  BY DEF TypeOK
<1>2. select_set # {}
  BY DEF ProcessFromRep, ScanInv
<1>3. PICK x \in {First(select_set)} :
        \E b \in {[buffers EXCEPT ![x[2]][x[1]] = @ \o rep_out[x[2]][x[1]]]} :
          /\ Scanned(x, b)
          /\ RestartsOne(x, b) \/ SendsOne(x, b) \/ WaitsForMore(x, b)
  BY ZenonT(30) DEF ProcessFromRep, Scanned, RestartsOne, SendsOne, WaitsForMore
<1>4. x \in select_set /\ x[1] \in Outs /\ x[2] \in Reps
  BY <1>1, <1>2, FirstFacts
<1>5. [buffers EXCEPT ![x[2]][x[1]] = @ \o rep_out[x[2]][x[1]]]
        \in [Reps -> [Outs -> Seq(Answers)]]
  <2>1. buffers[x[2]][x[1]] \in Seq(Answers) /\ rep_out[x[2]][x[1]] \in Seq(Answers)
    BY <1>1, <1>4
  <2>2. buffers[x[2]][x[1]] \o rep_out[x[2]][x[1]] \in Seq(Answers)
    BY <2>1, ConcatProperties
  <2> QED BY <1>1, <1>4, <2>2, AssignTwo
<1>6. PICK b \in {[buffers EXCEPT ![x[2]][x[1]] = @ \o rep_out[x[2]][x[1]]]} :
          /\ Scanned(x, b)
          /\ RestartsOne(x, b) \/ SendsOne(x, b) \/ WaitsForMore(x, b)
  BY <1>3
<1> QED BY <1>4, <1>5, <1>6

\* An answer of a replica.
LEMMA ProcessFromRepType ==
    ASSUME TypeOK, ScanInv, ProcessFromRep, UNCHANGED config
    PROVE  TypeOK' /\ ScanInv'
<1>1. Reps' = Reps
  BY DEF Reps, rep_count
<1>2. /\ rep_out \in [Reps -> [Outs -> Seq(Answers)]] /\ priority \in [Reps -> 0 .. 2]
      /\ ext_out \in [Outs -> Seq(Answers)] /\ config \in Instances
      /\ current_timer \in 1 .. 2 /\ select_set \in SUBSET (Outs \X Reps)
  BY DEF TypeOK
<1>3. PICK x \in select_set, b \in [Reps -> [Outs -> Seq(Answers)]] :
             /\ x = First(select_set) /\ x[1] \in Outs /\ x[2] \in Reps
             /\ Scanned(x, b)
             /\ RestartsOne(x, b) \/ SendsOne(x, b) \/ WaitsForMore(x, b)
  BY ProcessFromRepCases
<1>4. rep_out' \in [Reps -> [Outs -> Seq(Answers)]]
  BY <1>2, <1>3, AssignTwo DEF Scanned
<1>5. /\ select_set' \in SUBSET (Outs \X Reps) /\ current_timer' \in 1 .. 2
      /\ priority' \in [Reps -> 0 .. 2]
  BY <1>2, <1>3, Timed, BalanceType DEF Scanned
<1>6. /\ buffers' \in [Reps -> [Outs -> Seq(Answers)]]
      /\ ext_out' \in [Outs -> Seq(Answers)]
      /\ timer_started' \in BOOLEAN
      /\ pc' \in {"loop", "scan", "steal"}
      /\ pc' = "scan" => select_set' # {}
      /\ restartee' \in Reps /\ restarter' \in Reps /\ stealing' \in SUBSET Ins
      /\ stolen' \in [Ins -> Nat]
  <2>1. CASE RestartsOne(x, b)
    <3>1. PICK s \in Reps : RestartPrep(Succ(s, 2), s)
      BY <2>1, SuccFacts, <1>2 DEF RestartsOne, Outvoted, Trusted
    <3>2. Succ(s, 2) \in Reps
      BY <1>2, SuccFacts
    <3> QED BY <1>2, <1>3, <2>1, <3>1, <3>2, RestartPrepType DEF RestartsOne
  <2>2. CASE SendsOne(x, b)
    <3>1. PICK s \in Reps : SendPipe(b, x[1], s)
      BY <1>2, <2>2, RepsFacts DEF SendsOne, Trusted
    <3>2. /\ Sent(b, x[1]) \in [Reps -> [Outs -> Seq(Answers)]]
          /\ SubSeq(b[s][x[1]], 1, BytesReady(b, x[1])) \in Seq(Answers)
      BY <1>2, <1>3, SentType
    <3>3. ext_out[x[1]] \o SubSeq(b[s][x[1]], 1, BytesReady(b, x[1])) \in Seq(Answers)
      BY <1>2, <1>3, <3>2
    <3>4. buffers' \in [Reps -> [Outs -> Seq(Answers)]] /\ ext_out' \in [Outs -> Seq(Answers)]
      BY <1>2, <1>3, <3>1, <3>2, <3>3, Assign DEF SendPipe
    <3>5. restartee \in Reps /\ restarter \in Reps /\ stealing \in SUBSET Ins /\ stolen \in [Ins -> Nat]
      BY DEF TypeOK
    <3> QED BY <2>2, <3>4, <3>5 DEF SendsOne, Resume, restVars
  <2>3. CASE WaitsForMore(x, b)
    <3>1. restartee \in Reps /\ restarter \in Reps /\ stealing \in SUBSET Ins /\ stolen \in [Ins -> Nat]
      BY DEF TypeOK
    <3> QED BY <1>2, <1>3, <2>3, <3>1 DEF WaitsForMore, Resume, restVars
  <2> QED BY <1>3, <2>1, <2>2, <2>3
<1>7. UNCHANGED <<ext_in, sent, ext_set, rep_in, repVars, histVars>>
  BY DEF ProcessFromRep
<1>8. TypeOK'
  BY <1>1, <1>4, <1>5, <1>6, <1>7 DEF TypeOK, repVars, histVars
<1> QED BY <1>6, <1>8 DEF ScanInv

\* The timeout.
LEMMA VoterRestartHandlerType ==
    ASSUME TypeOK, ScanInv, VoterRestartHandler, UNCHANGED config
    PROVE  TypeOK' /\ ScanInv'
<1>1. Reps' = Reps
  BY DEF Reps, rep_count
<1>2. /\ buffers \in [Reps -> [Outs -> Seq(Answers)]] /\ priority \in [Reps -> 0 .. 2]
      /\ config \in Instances /\ current_timer \in 1 .. 2
  BY DEF TypeOK
<1>3. PICK e : /\ e = BehindRep(buffers, timer_stop_index[current_timer])
               /\ RestartPrep(e, (e + (rep_count - 1)) % rep_count)
  BY DEF VoterRestartHandler
<1>4. timer_stop_index[current_timer] \in Outs
  BY <1>2, Pipes
<1>5. e \in Reps
  BY <1>2, <1>3, <1>4, BehindFacts
<1>6. (e + (rep_count - 1)) % rep_count \in Reps
  BY <1>2, <1>5, SuccFacts
<1>7. /\ restartee' \in Reps /\ restarter' \in Reps /\ stealing' \in SUBSET Ins
      /\ stolen' \in [Ins -> Nat] /\ pc' = "steal"
  BY <1>3, <1>5, <1>6, RestartPrepType
<1>8. TypeOK'
  BY <1>1, <1>7 DEF TypeOK, VoterRestartHandler, extVars, repVars, histVars
<1> QED BY <1>7, <1>8 DEF ScanInv

\* The least of some pipes is one of them.
LEMMA LeastPipe ==
    ASSUME NEW S \in SUBSET Ins, S # {}
    PROVE  (CHOOSE q \in S : \A u \in S : q <= u) \in S
<1>1. S \subseteq {0, 2}
  BY Pipes
<1>2. \E q \in S : \A u \in S : q <= u
  <2>1. CASE 0 \in S
    BY <1>1, <2>1
  <2>2. CASE 0 \notin S
    <3>1. S = {2}
      BY <1>1, <2>2
    <3> QED BY <3>1
  <2> QED BY <2>1, <2>2
<1> QED BY <1>2

\* What leaves the voter in ForkAndSend, and what stays in the buffers.
LEMMA ForkAndSendCases ==
    ASSUME TypeOK, ForkAndSend
    PROVE  \E b \in [Reps -> [Outs -> Seq(Answers)]] :
             /\ b = [buffers EXCEPT ![restartee] = buffers[restarter]]
             /\ buffers' = [r \in Reps |-> [p \in Outs |-> Sent(b, p)[r][p]]]
             /\ ext_out' = [p \in Outs |->
                   ext_out[p] \o SubSeq(b[restarter][p], 1, BytesReady(b, p))]
<1>1. PICK b \in {[buffers EXCEPT ![restartee] = buffers[restarter]]} :
             /\ buffers' = [r \in Reps |-> [p \in Outs |-> Sent(b, p)[r][p]]]
             /\ ext_out' = [p \in Outs |->
                   ext_out[p] \o SubSeq(b[restarter][p], 1, BytesReady(b, p))]
  BY DEF ForkAndSend
<1>2. b \in [Reps -> [Outs -> Seq(Answers)]]
  <2>1. buffers \in [Reps -> [Outs -> Seq(Answers)]] /\ restarter \in Reps /\ restartee \in Reps
    BY DEF TypeOK
  <2> QED BY <1>1, <2>1
<1> QED BY <1>1, <1>2

\* A restart.
LEMMA RestartType ==
    ASSUME TypeOK, ScanInv, UNCHANGED config,
           StealPipe \/ KillRestartee \/ ForkAndSend \/ ReturnPipe \/ Restarted
    PROVE  TypeOK' /\ ScanInv'
<1>1. Reps' = Reps
  BY DEF Reps, rep_count
<1>2. /\ rep_in \in [Reps -> [Ins -> Nat]] /\ stolen \in [Ins -> Nat]
      /\ stealing \in SUBSET Ins /\ restarter \in Reps /\ restartee \in Reps
      /\ priority \in [Reps -> 0 .. 2]
      /\ status \in [Reps -> {"up", "looping", "dead"}]
      /\ selected \in [Reps -> SUBSET Ins]
      /\ config \in Instances /\ faulty \in SUBSET Reps
  BY DEF TypeOK
<1>3. CASE StealPipe
  <2>1. PICK p \in Ins : /\ stolen' = [stolen EXCEPT ![p] = rep_in[restarter][p]]
                         /\ rep_in' = [rep_in EXCEPT ![restarter][p] = 0]
                         /\ stealing' = stealing \ {p}
    BY <1>2, <1>3, LeastPipe DEF StealPipe
  <2>2. rep_in[restarter][p] \in Nat
    BY <1>2
  <2>3. stolen' \in [Ins -> Nat] /\ stealing' \in SUBSET Ins
    BY <1>2, <2>1, <2>2, Assign
  <2>4. rep_in' \in [Reps -> [Ins -> Nat]]
    BY <1>2, <2>1, AssignTwo
  <2>5. pc' = "steal"
    BY <1>3 DEF StealPipe
  <2> QED BY <1>1, <1>3, <2>3, <2>4, <2>5
          DEF TypeOK, StealPipe, ScanInv, extVars, timeVars, repVars, histVars
<1>4. CASE KillRestartee
  <2>1. status' \in [Reps -> {"up", "looping", "dead"}]
    BY <1>2, <1>4 DEF KillRestartee
  <2>2. priority' \in [Reps -> 0 .. 2]
    BY <1>2, <1>4 DEF KillRestartee
  <2>3. pc' = "fork"
    BY <1>4 DEF KillRestartee
  <2> QED BY <1>1, <1>4, <2>1, <2>2, <2>3
          DEF TypeOK, KillRestartee, ScanInv, extVars, timeVars, restVars, histVars
<1>5. CASE ForkAndSend
  <2>1. PICK b \in [Reps -> [Outs -> Seq(Answers)]] :
             /\ b = [buffers EXCEPT ![restartee] = buffers[restarter]]
             /\ buffers' = [r \in Reps |-> [p \in Outs |-> Sent(b, p)[r][p]]]
             /\ ext_out' = [p \in Outs |->
                   ext_out[p] \o SubSeq(b[restarter][p], 1, BytesReady(b, p))]
    BY <1>5, ForkAndSendCases
  <2>2. buffers' \in [Reps -> [Outs -> Seq(Answers)]]
    <3>1. ASSUME NEW r \in Reps, NEW p \in Outs
          PROVE  Sent(b, p)[r][p] \in Seq(Answers)
      <4>1. Sent(b, p) \in [Reps -> [Outs -> Seq(Answers)]]
        BY <1>2, SentType
      <4> QED BY <4>1
    <3> QED BY <2>1, <3>1
  <2>3. ext_out' \in [Outs -> Seq(Answers)]
    <3>1. \A p \in Outs : SubSeq(b[restarter][p], 1, BytesReady(b, p)) \in Seq(Answers)
      BY <1>2, SentType
    <3>2. \A p \in Outs : ext_out[p] \in Seq(Answers)
      BY DEF TypeOK
    <3>3. \A p \in Outs : ext_out[p] \o SubSeq(b[restarter][p], 1, BytesReady(b, p)) \in Seq(Answers)
      BY <3>1, <3>2, ConcatProperties
    <3> QED BY <2>1, <3>3
  <2>4. priority' \in [Reps -> 0 .. 2]
    BY <1>2, <1>5, BalanceType DEF ForkAndSend
  <2>5. /\ selected' \in [Reps -> SUBSET Ins] /\ faulty' \in SUBSET Reps
        /\ status' \in [Reps -> {"up", "looping", "dead"}]
    <3>1. PICK skip : selected' = [selected EXCEPT ![restartee] = selected[restarter] \ skip,
                                                   ![restarter] = selected[restarter] \ skip]
      BY <1>5 DEF ForkAndSend
    <3>2. selected[restarter] \ skip \in SUBSET Ins
      BY <1>2
    <3>3. selected' \in [Reps -> SUBSET Ins]
      BY <1>2, <3>1, <3>2
    <3>4. status' = [status EXCEPT ![restartee] = status[restarter]]
      BY <1>5 DEF ForkAndSend
    <3>5. faulty' \in {faulty, faulty \ {restartee}}
      BY <1>5 DEF ForkAndSend
    <3> QED BY <1>2, <3>3, <3>4, <3>5
  <2>6. st' \in [Reps -> AStarState] /\ insertSDC' \in [Reps -> BOOLEAN]
        /\ insertCFE' \in [Reps -> BOOLEAN]
    <3>1. /\ st' = [st EXCEPT ![restartee] = st[restarter]]
          /\ insertSDC' = [insertSDC EXCEPT ![restartee] = insertSDC[restarter]]
          /\ insertCFE' = [insertCFE EXCEPT ![restartee] = insertCFE[restarter]]
      BY <1>5 DEF ForkAndSend
    <3>2. st \in [Reps -> AStarState] /\ insertSDC \in [Reps -> BOOLEAN]
          /\ insertCFE \in [Reps -> BOOLEAN]
      BY DEF TypeOK
    <3> QED BY <1>2, <3>1, <3>2
  <2>7. /\ rep_in' \in [Reps -> [Ins -> Nat]] /\ rep_out' \in [Reps -> [Outs -> Seq(Answers)]]
    <3>1. /\ rep_in' = [rep_in EXCEPT ![restartee] = NoInput]
          /\ rep_out' = [rep_out EXCEPT ![restartee] = NoOutput]
      BY <1>5 DEF ForkAndSend
    <3>2. rep_out \in [Reps -> [Outs -> Seq(Answers)]]
      BY DEF TypeOK
    <3> QED BY <1>2, <3>1, <3>2, Pipes
  <2>8. stealing' \in SUBSET Ins /\ pc' = "return"
    BY <1>5 DEF ForkAndSend
  <2>9. UNCHANGED <<ext_in, sent, ext_set, select_set, timeVars, restartee,
                   restarter, stolen, ref, expected, faults>>
    BY <1>5 DEF ForkAndSend
  <2> QED BY <1>1, <2>2, <2>3, <2>4, <2>5, <2>6, <2>7, <2>8, <2>9
          DEF TypeOK, ScanInv, timeVars
<1>6. CASE ReturnPipe
  <2>1. (CHOOSE q \in stealing : \A u \in stealing : q <= u) \in Ins
    BY <1>2, <1>6, LeastPipe DEF ReturnPipe
  <2>2. PICK p \in Ins :
          /\ rep_in' = [r \in Reps |-> IF r \in {restartee, restarter}
                                       THEN [rep_in[r] EXCEPT ![p] = @ + stolen[p]]
                                       ELSE rep_in[r]]
          /\ stealing' = stealing \ {p}
    BY <1>6, <2>1, Zenon DEF ReturnPipe
  <2>3. rep_in' \in [Reps -> [Ins -> Nat]]
    <3>1. ASSUME NEW r \in Reps
          PROVE  [rep_in[r] EXCEPT ![p] = @ + stolen[p]] \in [Ins -> Nat]
      <4>1. rep_in[r] \in [Ins -> Nat] /\ rep_in[r][p] + stolen[p] \in Nat
        BY <1>2
      <4> QED BY <4>1, Assign
    <3> QED BY <1>2, <2>2, <3>1
  <2>4. stealing' \in SUBSET Ins /\ pc' = "return"
    BY <1>2, <1>6, <2>2 DEF ReturnPipe
  <2> QED BY <1>1, <1>6, <2>3, <2>4
          DEF TypeOK, ReturnPipe, ScanInv, extVars, timeVars, repVars, histVars
<1>7. CASE Restarted
  <2>1. pc' \in {"loop", "scan"} /\ (pc' = "scan" => select_set' # {})
    BY <1>7 DEF Restarted, Resume
  <2>2. stolen' \in [Ins -> Nat]
    BY <1>7, Pipes DEF Restarted
  <2> QED BY <1>1, <1>7, <2>1, <2>2
          DEF TypeOK, Restarted, ScanInv, extVars, timeVars, repVars, histVars
<1> QED BY <1>3, <1>4, <1>5, <1>6, <1>7

\* Every step keeps the types.
LEMMA NextType ==
    TypeOK /\ ScanInv /\ [Next]_vars => TypeOK' /\ ScanInv' /\ config' = config
<1> SUFFICES ASSUME TypeOK, ScanInv, [Next]_vars
             PROVE  TypeOK' /\ ScanInv' /\ config' = config
  OBVIOUS
<1>1. ASSUME NEW p \in Ins, Send(p), UNCHANGED config
      PROVE  TypeOK' /\ ScanInv'
  BY <1>1, EnvironmentType DEF ScanInv, Send
<1>2. ASSUME NEW r \in Reps, Select(r) \/ RecvMapUpdate(r) \/ SendWaypoints(r), UNCHANGED config
      PROVE  TypeOK' /\ ScanInv'
  BY <1>2, ReplicaType DEF ScanInv, Select, RecvMapUpdate, SendWaypoints
<1>3. ASSUME NEW r \in Reps, NEW kind \in config.kinds, Fault(r, kind), UNCHANGED config
      PROVE  TypeOK' /\ ScanInv'
  <2>1. kind \in {"kill", "sdc", "cfe"}
    BY <1>3, RepsFacts DEF TypeOK
  <2> QED BY <1>3, <2>1, FaultType DEF ScanInv, Fault
<1>4. CASE UNCHANGED vars
  <2>1. Reps' = Reps
    BY <1>4 DEF Reps, rep_count, vars
  <2> QED BY <1>4, <2>1 DEF TypeOK, ScanInv, vars, extVars, timeVars, restVars, repVars, histVars
<1>5. config' = config
  BY DEF Next, Environment, Replicas, Injector, Voter, vars
<1>6. CASE Environment
  BY <1>1, <1>5, <1>6 DEF Environment
<1>7. CASE Replicas
  BY <1>2, <1>5, <1>7 DEF Replicas
<1>8. CASE Injector
  BY <1>3, <1>5, <1>8 DEF Injector
<1>9. CASE Voter
  BY <1>5, <1>9, VoterSelectType, ProcessDataType, ProcessFromRepType,
     VoterRestartHandlerType, RestartType DEF Voter
<1> QED BY <1>4, <1>5, <1>6, <1>7, <1>8, <1>9 DEF Next

-----------------------------------------------------------------------------
(***************************************************************************)
(* Updates, however many come at once.                                     *)
(***************************************************************************)

\* What an input does to the number of updates in the plan.
LEMMA PlanFacts ==
    ASSUME NEW s \in AStarState, NEW sdc \in BOOLEAN
    PROVE  AfterUpdate(s, sdc).plan = s.plan + 1 /\ AfterRequest(s).plan = s.plan
  BY DEF AfterUpdate, AfterRequest, AStarState

\* The faultless AStar plans with every update of a read.
LEMMA RefPlan ==
    ASSUME ref \in AStarState, NEW p \in Ins, NEW n \in Nat
    PROVE  RefStates(p, n)[n + 1].plan = IF p = MAP_UPDATE THEN ref.plan + n ELSE ref.plan
<1>1. n + 1 \in 1 .. n + 1
  OBVIOUS
<1>2. CASE p = MAP_UPDATE
  <2>1. RefStates(p, n)[n + 1] =
          [ref EXCEPT !.plan = @ + ((n + 1) - 1), !.ready_to_send = @ \/ (n + 1) > 1]
    BY <1>1, <1>2 DEF RefStates
  <2>2. RefStates(p, n)[n + 1].plan = ref.plan + ((n + 1) - 1)
    BY <2>1 DEF AStarState
  <2>3. ref.plan \in Nat
    BY DEF AStarState
  <2> QED BY <1>2, <2>2, <2>3
<1>3. CASE p # MAP_UPDATE
  <2>1. RefStates(p, n)[n + 1] = IF n + 1 = 1 THEN ref ELSE AfterRequest(ref)
    BY <1>1, <1>3 DEF RefStates
  <2> QED BY <1>3, <2>1, PlanFacts
<1> QED BY <1>2, <1>3

\* The types that the plans need.
LEMMA PlanTypes ==
    ASSUME TypeOK
    PROVE  /\ restarter \in Reps /\ restartee \in Reps
           /\ \A r \in Reps : /\ st[r] \in AStarState /\ st[r].plan \in Nat
                              /\ \A p \in Ins : rep_in[r][p] \in Nat
           /\ \A p \in Ins : stolen[p] \in Nat
           /\ ref \in AStarState /\ ref.plan \in Nat
           /\ MAP_UPDATE \in Ins
<1>1. st \in [Reps -> AStarState] /\ ref \in AStarState
  BY DEF TypeOK
<1>2. rep_in \in [Reps -> [Ins -> Nat]] /\ stolen \in [Ins -> Nat]
  BY DEF TypeOK
<1>3. restarter \in Reps /\ restartee \in Reps /\ MAP_UPDATE \in Ins
  BY Pipes DEF TypeOK
<1> QED BY <1>1, <1>2, <1>3 DEF AStarState

\* A step that leaves the counts alone.
LEMMA PlansUnchanged ==
    ASSUME TypeOK, PlansInv, StealInv, Reps' = Reps,
           UNCHANGED <<pc, restartee, restarter, stealing, stolen, rep_in, st, ref>>
    PROVE  PlansInv' /\ StealInv'
  BY DEF PlansInv, StealInv, Stolen

\* A replica takes an update from its pipe into its plan.
LEMMA ReplicaPlans ==
    ASSUME TypeOK, PlansInv, StealInv, Reps' = Reps, NEW q \in Reps,
           RecvMapUpdate(q) \/ SendWaypoints(q)
    PROVE  PlansInv' /\ StealInv'
<1>1. UNCHANGED <<pc, restartee, restarter, stealing, stolen, ref>>
  BY DEF RecvMapUpdate, SendWaypoints, restVars, histVars
<1>2. /\ st \in [Reps -> AStarState] /\ rep_in \in [Reps -> [Ins -> Nat]]
      /\ insertSDC \in [Reps -> BOOLEAN]
  BY DEF TypeOK
<1>3. MAP_UPDATE \in Ins /\ WAY_REQ \in Ins /\ MAP_UPDATE # WAY_REQ
  BY Pipes
<1>4. \A r \in Reps : st'[r].plan + rep_in'[r][MAP_UPDATE] = st[r].plan + rep_in[r][MAP_UPDATE]
  <2> SUFFICES ASSUME NEW r \in Reps
               PROVE  st'[r].plan + rep_in'[r][MAP_UPDATE] = st[r].plan + rep_in[r][MAP_UPDATE]
    OBVIOUS
  <2>1. CASE r # q
    <3>1. st'[r] = st[r] /\ rep_in'[r] = rep_in[r]
      BY <1>2, <2>1 DEF RecvMapUpdate, SendWaypoints
    <3> QED BY <3>1
  <2>2. CASE r = q /\ RecvMapUpdate(q)
    <3>1. st'[q] = AfterUpdate(st[q], insertSDC[q])
      BY <1>2, <2>2 DEF RecvMapUpdate
    <3>2. rep_in'[q][MAP_UPDATE] = rep_in[q][MAP_UPDATE] - 1
      BY <1>2, <1>3, <2>2 DEF RecvMapUpdate
    <3>3. st'[q].plan = st[q].plan + 1
      BY <1>2, <3>1, PlanFacts
    <3> QED BY <2>2, <3>2, <3>3, PlanTypes
  <2>3. CASE r = q /\ SendWaypoints(q)
    <3>1. st'[q] = AfterRequest(st[q])
      BY <1>2, <2>3 DEF SendWaypoints
    <3>2. rep_in'[q][MAP_UPDATE] = rep_in[q][MAP_UPDATE]
      BY <1>2, <1>3, <2>3 DEF SendWaypoints
    <3>3. st'[q].plan = st[q].plan
      BY <1>2, <3>1, PlanFacts
    <3> QED BY <2>3, <3>2, <3>3
  <2> QED BY <2>1, <2>2, <2>3
<1>5. ASSUME NEW r \in Reps, NEW p \in Ins
      PROVE  rep_in'[r][p] > 0 => rep_in[r][p] > 0
  <2>1. CASE RecvMapUpdate(q)
    <3>1. rep_in' = [rep_in EXCEPT ![q][MAP_UPDATE] = @ - 1]
      BY <2>1 DEF RecvMapUpdate
    <3> QED BY <1>2, <1>3, <3>1
  <2>2. CASE SendWaypoints(q)
    <3>1. rep_in' = [rep_in EXCEPT ![q][WAY_REQ] = @ - 1]
      BY <2>2 DEF SendWaypoints
    <3> QED BY <1>2, <1>3, <3>1
  <2> QED BY <2>1, <2>2
<1>6. StealInv'
  BY <1>1, <1>5, PlanTypes DEF StealInv
<1>7. PlansInv'
  BY <1>1, <1>4 DEF PlansInv, Stolen
<1> QED BY <1>6, <1>7

\* The voter passes updates on.
LEMMA ProcessDataPlans ==
    ASSUME TypeOK, PlansInv, StealInv, Reps' = Reps, NEW p \in Ins, ProcessData(p)
    PROVE  PlansInv' /\ StealInv'
<1>1. /\ pc = "scan" /\ pc' \in {"loop", "scan"}
      /\ rep_in' = [r \in Reps |-> [rep_in[r] EXCEPT ![p] = @ + ext_in[p]]]
      /\ ref' = RefStates(p, ext_in[p])[ext_in[p] + 1]
      /\ UNCHANGED <<st, restVars>>
  BY DEF ProcessData, Resume, repVars
<1>2. ext_in[p] \in Nat /\ rep_in \in [Reps -> [Ins -> Nat]]
  BY DEF TypeOK
<1>3. ref'.plan = IF p = MAP_UPDATE THEN ref.plan + ext_in[p] ELSE ref.plan
  BY <1>1, <1>2, RefPlan DEF TypeOK
<1>4. ASSUME NEW r \in Reps
      PROVE  st'[r].plan + rep_in'[r][MAP_UPDATE] = ref'.plan
  <2>1. st[r].plan + rep_in[r][MAP_UPDATE] = ref.plan
    <3>1. Stolen(r) = 0 /\ pc # "fork"
      BY <1>1 DEF Stolen
    <3> QED BY <3>1, PlanTypes DEF PlansInv
  <2>2. rep_in'[r][MAP_UPDATE] =
          IF p = MAP_UPDATE THEN rep_in[r][MAP_UPDATE] + ext_in[p] ELSE rep_in[r][MAP_UPDATE]
    BY <1>1, <1>2, PlanTypes
  <2> QED BY <1>1, <1>2, <1>3, <2>1, <2>2, PlanTypes
<1>5. ASSUME NEW r \in Reps PROVE Stolen(r)' = 0 /\ pc' # "fork"
  BY <1>1 DEF Stolen
<1>6. ASSUME NEW r \in Reps
      PROVE  st'[r].plan + rep_in'[r][MAP_UPDATE] + Stolen(r)' = ref'.plan
  BY <1>3, <1>4, <1>2, <1>5, PlanTypes
<1> QED BY <1>1, <1>6 DEF PlansInv, StealInv

\* restart_prep has nothing stolen yet.
LEMMA RestartPrepPlans ==
    ASSUME TypeOK, PlansInv, Reps' = Reps, pc \in {"loop", "scan"},
           NEW e \in Reps, NEW s \in Reps, e # s, RestartPrep(e, s),
           UNCHANGED <<rep_in, st, ref>>
    PROVE  PlansInv' /\ StealInv'
<1>1. /\ restarter' = s /\ restartee' = e /\ pc' = "steal"
      /\ stealing' = {p \in Ins : rep_in[s][p] > 0}
      /\ \A p \in Ins : stolen'[p] = 0
  BY Pipes DEF RestartPrep
<1>2. \A r \in Reps : Stolen(r) = 0 /\ Stolen(r)' = 0
  BY <1>1, PlanTypes DEF Stolen
<1>3. PlansInv'
  BY <1>1, <1>2 DEF PlansInv
<1>4. StealInv'
  BY <1>1 DEF StealInv
<1> QED BY <1>3, <1>4

\* The voter takes an answer.
LEMMA ProcessFromRepPlans ==
    ASSUME TypeOK, ScanInv, PlansInv, StealInv, Reps' = Reps, ProcessFromRep
    PROVE  PlansInv' /\ StealInv'
<1>1. pc = "scan" /\ UNCHANGED <<rep_in, st, ref>> /\ config \in Instances
  BY DEF ProcessFromRep, repVars, histVars, TypeOK
<1>2. PICK x, b :
        /\ x[1] \in Outs
        /\ RestartsOne(x, b) \/ SendsOne(x, b) \/ WaitsForMore(x, b)
  BY ProcessFromRepCases
<1>3. CASE RestartsOne(x, b)
  <2>1. PICK s \in Reps : rep_count = 3 /\ RestartPrep(Succ(s, 2), s)
    BY <1>1, <1>3, RepsFacts DEF RestartsOne, Outvoted, Trusted
  <2>2. Succ(s, 2) \in Reps /\ Succ(s, 2) # s
    BY <1>1, <2>1, SuccFacts, RepsFacts
  <2> QED BY <1>1, <2>1, <2>2, RestartPrepPlans
<1>4. CASE SendsOne(x, b) \/ WaitsForMore(x, b)
  <2>1. pc' \in {"loop", "scan"} /\ UNCHANGED restVars
    BY <1>4 DEF SendsOne, WaitsForMore, Resume
  <2>2. \A r \in Reps : Stolen(r) = 0 /\ Stolen(r)' = 0
    BY <1>1, <2>1 DEF Stolen
  <2> QED BY <1>1, <2>1, <2>2 DEF PlansInv, StealInv
<1> QED BY <1>2, <1>3, <1>4

\* The timer expires.
LEMMA VoterRestartHandlerPlans ==
    ASSUME TypeOK, PlansInv, StealInv, Reps' = Reps, VoterRestartHandler
    PROVE  PlansInv' /\ StealInv'
<1>1. /\ buffers \in [Reps -> [Outs -> Seq(Answers)]] /\ priority \in [Reps -> 0 .. 2]
      /\ config \in Instances /\ current_timer \in 1 .. 2
  BY DEF TypeOK
<1>2. PICK e : /\ e = BehindRep(buffers, timer_stop_index[current_timer])
               /\ RestartPrep(e, (e + (rep_count - 1)) % rep_count)
  BY DEF VoterRestartHandler
<1>3. e \in Reps
  BY <1>1, <1>2, BehindFacts, Pipes
<1>4. /\ (e + (rep_count - 1)) % rep_count \in Reps
      /\ (e + (rep_count - 1)) % rep_count # e
  BY <1>1, <1>3, SuccFacts
<1>5. pc = "loop" /\ UNCHANGED <<rep_in, st, ref>>
  BY DEF VoterRestartHandler, repVars, histVars
<1> QED BY <1>2, <1>3, <1>4, <1>5, RestartPrepPlans

\* stealPipes.
LEMMA StealPipePlans ==
    ASSUME TypeOK, PlansInv, StealInv, Reps' = Reps, StealPipe
    PROVE  PlansInv' /\ StealInv'
<1>1. /\ rep_in \in [Reps -> [Ins -> Nat]] /\ stolen \in [Ins -> Nat]
      /\ stealing \in SUBSET Ins /\ restarter \in Reps
  BY DEF TypeOK
<1>2. (CHOOSE q \in stealing : \A u \in stealing : q <= u) \in stealing
  BY <1>1, LeastPipe DEF StealPipe
<1>3. PICK p \in stealing : /\ stolen' = [stolen EXCEPT ![p] = rep_in[restarter][p]]
                            /\ rep_in' = [rep_in EXCEPT ![restarter][p] = 0]
                            /\ stealing' = stealing \ {p}
  BY <1>2, Zenon DEF StealPipe
<1>4. pc = "steal" /\ UNCHANGED <<pc, restartee, restarter, st, ref>>
  BY DEF StealPipe, repVars, histVars
<1>5. p \in Ins /\ stolen[p] = 0
  BY <1>1, <1>3, <1>4 DEF StealInv
<1>6. ASSUME NEW r \in Reps
      PROVE  rep_in'[r][MAP_UPDATE] + Stolen(r)' = rep_in[r][MAP_UPDATE] + Stolen(r)
  <2>1. CASE r = restarter
    <3>1. Stolen(r) = stolen[MAP_UPDATE] /\ Stolen(r)' = stolen'[MAP_UPDATE]
      BY <1>4, <2>1 DEF Stolen
    <3>2. CASE p = MAP_UPDATE
      <4>1. stolen'[MAP_UPDATE] = rep_in[restarter][MAP_UPDATE] /\ rep_in'[restarter][MAP_UPDATE] = 0
        BY <1>1, <1>3, <1>5, <3>2
      <4> QED BY <1>5, <2>1, <3>1, <3>2, <4>1, PlanTypes
    <3>3. CASE p # MAP_UPDATE
      <4>1. /\ stolen'[MAP_UPDATE] = stolen[MAP_UPDATE]
            /\ rep_in'[restarter][MAP_UPDATE] = rep_in[restarter][MAP_UPDATE]
        BY <1>1, <1>3, <1>5, <3>3, PlanTypes
      <4> QED BY <2>1, <3>1, <4>1
    <3> QED BY <3>2, <3>3
  <2>2. CASE r # restarter
    <3>1. rep_in'[r] = rep_in[r]
      BY <1>1, <1>3, <2>2
    <3>2. Stolen(r) = 0 /\ Stolen(r)' = 0
      BY <1>4, <2>2 DEF Stolen
    <3> QED BY <3>1, <3>2
  <2> QED BY <2>1, <2>2
<1>7. \A r \in Reps : Stolen(r) \in Nat /\ Stolen(r)' \in Nat /\ rep_in'[r][MAP_UPDATE] \in Nat
  <2>1. \A q \in Ins : stolen'[q] \in Nat /\ \A r \in Reps : rep_in'[r][q] \in Nat
    BY <1>1, <1>3, <1>5
  <2> QED BY <2>1, PlanTypes DEF Stolen
<1>8. PlansInv'
  <2> SUFFICES ASSUME NEW r \in Reps
               PROVE  st[r].plan + rep_in'[r][MAP_UPDATE] + Stolen(r)' = ref.plan
    BY <1>4 DEF PlansInv
  <2>1. st[r].plan + rep_in[r][MAP_UPDATE] + Stolen(r) = ref.plan
    BY <1>4 DEF PlansInv
  <2> QED BY <1>6, <1>7, <2>1, PlanTypes
<1>9. StealInv'
  <2> SUFFICES ASSUME NEW q \in Ins
               PROVE  /\ rep_in'[restarter][q] > 0 => q \in stealing'
                      /\ q \in stealing' => stolen'[q] = 0
    BY <1>4 DEF StealInv
  <2>1. CASE q = p
    BY <1>1, <1>3, <1>5, <2>1
  <2>2. CASE q # p
    <3>1. rep_in'[restarter][q] = rep_in[restarter][q] /\ stolen'[q] = stolen[q]
      BY <1>1, <1>3, <1>5, <2>2
    <3> QED BY <1>3, <1>4, <2>2, <3>1 DEF StealInv
  <2> QED BY <2>1, <2>2
<1> QED BY <1>8, <1>9

\* The restartee is killed, when everything is stolen.
LEMMA KillRestarteePlans ==
    ASSUME TypeOK, PlansInv, StealInv, Reps' = Reps, KillRestartee
    PROVE  PlansInv' /\ StealInv'
<1>1. /\ pc = "steal" /\ pc' = "fork" /\ stealing = {}
      /\ UNCHANGED <<restartee, restarter, stealing, stolen, rep_in, st, ref>>
  BY DEF KillRestartee, restVars, histVars
<1>2. \A r \in Reps : Stolen(r)' = Stolen(r)
  BY <1>1 DEF Stolen
<1> QED BY <1>1, <1>2 DEF PlansInv, StealInv

\* The copy has the plan of its restarter, and both will get what was stolen.
LEMMA ForkAndSendPlans ==
    ASSUME TypeOK, PlansInv, StealInv, Reps' = Reps, ForkAndSend
    PROVE  PlansInv' /\ StealInv'
<1>1. /\ pc = "fork" /\ pc' = "return"
      /\ st' = [st EXCEPT ![restartee] = st[restarter]]
      /\ rep_in' = [rep_in EXCEPT ![restartee] = NoInput]
      /\ stealing' = {p \in Ins : stolen[p] > 0}
      /\ UNCHANGED <<restartee, restarter, stolen, ref>>
  BY DEF ForkAndSend
<1>2. /\ st \in [Reps -> AStarState] /\ rep_in \in [Reps -> [Ins -> Nat]]
      /\ restarter \in Reps /\ restartee \in Reps /\ restarter # restartee
  BY <1>1 DEF TypeOK, StealInv
<1>3. rep_in[restarter][MAP_UPDATE] = 0
  BY <1>1, PlanTypes DEF StealInv
<1>4. ASSUME NEW r \in {restarter, restartee} PROVE Stolen(r)' = stolen[MAP_UPDATE]
  BY <1>1, PlanTypes DEF Stolen
<1>5. st[restarter].plan + stolen[MAP_UPDATE] = ref.plan
  <2>1. st[restarter].plan + rep_in[restarter][MAP_UPDATE] + Stolen(restarter) = ref.plan
    BY <1>1, <1>2 DEF PlansInv
  <2>2. Stolen(restarter) = stolen[MAP_UPDATE]
    BY <1>1 DEF Stolen
  <2> QED BY <1>3, <2>1, <2>2, PlanTypes
<1>6. ASSUME NEW r \in Reps
      PROVE  st'[r].plan + rep_in'[r][MAP_UPDATE] + Stolen(r)' = ref.plan
  <2>1. CASE r = restartee
    <3>1. st'[r] = st[restarter] /\ rep_in'[r][MAP_UPDATE] = 0
      BY <1>1, <1>2, <2>1, Pipes
    <3> QED BY <1>4, <1>5, <2>1, <3>1, PlanTypes
  <2>2. CASE r = restarter
    <3>1. st'[r] = st[restarter] /\ rep_in'[r][MAP_UPDATE] = 0
      BY <1>1, <1>2, <1>3, <2>2
    <3> QED BY <1>4, <1>5, <2>2, <3>1, PlanTypes
  <2>3. CASE r # restartee /\ r # restarter
    <3>1. st'[r] = st[r] /\ rep_in'[r] = rep_in[r]
      BY <1>1, <1>2, <2>3
    <3>2. Stolen(r)' = 0 /\ Stolen(r) = 0
      BY <1>1, <2>3 DEF Stolen
    <3> QED BY <1>1, <2>3, <3>1, <3>2 DEF PlansInv
  <2> QED BY <2>1, <2>2, <2>3
<1> QED BY <1>1, <1>2, <1>6 DEF PlansInv, StealInv

\* returnPipes.
LEMMA ReturnPipePlans ==
    ASSUME TypeOK, PlansInv, StealInv, Reps' = Reps, ReturnPipe
    PROVE  PlansInv' /\ StealInv'
<1>1. /\ rep_in \in [Reps -> [Ins -> Nat]] /\ stolen \in [Ins -> Nat]
      /\ stealing \in SUBSET Ins
  BY DEF TypeOK
<1>2. (CHOOSE q \in stealing : \A u \in stealing : q <= u) \in stealing
  BY <1>1, LeastPipe DEF ReturnPipe
<1>3. PICK p \in stealing :
          /\ rep_in' = [r \in Reps |-> IF r \in {restartee, restarter}
                                       THEN [rep_in[r] EXCEPT ![p] = @ + stolen[p]]
                                       ELSE rep_in[r]]
          /\ stealing' = stealing \ {p}
  BY <1>2, Zenon DEF ReturnPipe
<1>4. pc = "return" /\ UNCHANGED <<pc, restartee, restarter, stolen, st, ref>>
  BY DEF ReturnPipe, repVars, histVars
<1>5. ASSUME NEW r \in Reps
      PROVE  rep_in'[r][MAP_UPDATE] + Stolen(r)' = rep_in[r][MAP_UPDATE] + Stolen(r)
  <2>1. CASE r \in {restartee, restarter}
    <3>1. /\ Stolen(r) = IF MAP_UPDATE \in stealing THEN stolen[MAP_UPDATE] ELSE 0
          /\ Stolen(r)' = IF MAP_UPDATE \in stealing' THEN stolen[MAP_UPDATE] ELSE 0
      BY <1>4, <2>1 DEF Stolen
    <3>2. rep_in'[r] = [rep_in[r] EXCEPT ![p] = @ + stolen[p]]
      BY <1>3, <2>1
    <3>3. rep_in[r] \in [Ins -> Nat]
      BY <1>1
    <3>4. CASE p = MAP_UPDATE
      <4>1. rep_in'[r][MAP_UPDATE] = rep_in[r][MAP_UPDATE] + stolen[MAP_UPDATE]
        BY <3>2, <3>3, <3>4, PlanTypes
      <4>2. Stolen(r) = stolen[MAP_UPDATE] /\ Stolen(r)' = 0
        BY <1>3, <3>1, <3>4
      <4> QED BY <4>1, <4>2, PlanTypes
    <3>5. CASE p # MAP_UPDATE
      <4>1. rep_in'[r][MAP_UPDATE] = rep_in[r][MAP_UPDATE]
        BY <3>2, <3>3, <3>5, PlanTypes
      <4>2. Stolen(r)' = Stolen(r)
        BY <1>3, <3>1, <3>5
      <4> QED BY <4>1, <4>2
    <3> QED BY <3>4, <3>5
  <2>2. CASE r \notin {restartee, restarter}
    <3>1. rep_in'[r] = rep_in[r]
      BY <1>3, <2>2
    <3>2. Stolen(r) = 0 /\ Stolen(r)' = 0
      BY <1>4, <2>2 DEF Stolen
    <3> QED BY <3>1, <3>2
  <2> QED BY <2>1, <2>2
<1>6. \A r \in Reps : /\ Stolen(r) \in Nat /\ Stolen(r)' \in Nat
                      /\ rep_in'[r][MAP_UPDATE] \in Nat
  <2>1. ASSUME NEW r \in Reps PROVE rep_in'[r][MAP_UPDATE] \in Nat
    <3>1. rep_in[r] \in [Ins -> Nat] /\ stolen[p] \in Nat
      BY <1>1, <1>3
    <3>2. rep_in'[r] \in {rep_in[r], [rep_in[r] EXCEPT ![p] = @ + stolen[p]]}
      BY <1>3
    <3>3. p \in Ins /\ MAP_UPDATE \in Ins
      BY <1>1, <1>3, PlanTypes
    <3> QED BY <3>1, <3>2, <3>3
  <2> QED BY <1>4, <2>1, PlanTypes DEF Stolen
<1>7. PlansInv'
  <2> SUFFICES ASSUME NEW r \in Reps
               PROVE  st[r].plan + rep_in'[r][MAP_UPDATE] + Stolen(r)' = ref.plan
    BY <1>4 DEF PlansInv
  <2>1. st[r].plan + rep_in[r][MAP_UPDATE] + Stolen(r) = ref.plan
    BY <1>4 DEF PlansInv
  <2> QED BY <1>5, <1>6, <2>1, PlanTypes
<1>8. StealInv'
  BY <1>4 DEF StealInv
<1> QED BY <1>7, <1>8

\* The restart is over, and all is given back.
LEMMA RestartedPlans ==
    ASSUME TypeOK, PlansInv, StealInv, Reps' = Reps, Restarted
    PROVE  PlansInv' /\ StealInv'
<1>1. /\ pc = "return" /\ pc' \in {"loop", "scan"} /\ stealing = {}
      /\ UNCHANGED <<rep_in, st, ref>>
  BY DEF Restarted, Resume, repVars, histVars
<1>2. \A r \in Reps : Stolen(r) = 0 /\ Stolen(r)' = 0
  BY <1>1 DEF Stolen
<1> QED BY <1>1, <1>2 DEF PlansInv, StealInv

\* At the start nothing was taken.
LEMMA InitPlans == Init => PlansInv /\ StealInv
<1> SUFFICES ASSUME Init PROVE PlansInv /\ StealInv
  OBVIOUS
<1>1. ASSUME NEW r \in Reps
      PROVE  st[r].plan = 0 /\ rep_in[r][MAP_UPDATE] = 0 /\ Stolen(r) = 0 /\ ref.plan = 0
  BY Pipes DEF Init, AStarInit, Stolen
<1> QED BY <1>1 DEF Init, PlansInv, StealInv

\* Every step keeps the updates.
LEMMA NextPlans ==
    ASSUME TypeOK, ScanInv, PlansInv, StealInv, [Next]_vars
    PROVE  PlansInv' /\ StealInv'
<1>1. Reps' = Reps
  BY NextType DEF Reps, rep_count
<1>2. ASSUME NEW p \in Ins, Send(p) PROVE PlansInv' /\ StealInv'
  BY <1>1, <1>2, PlansUnchanged DEF Send, restVars, repVars, histVars
<1>3. ASSUME NEW r \in Reps, Select(r) PROVE PlansInv' /\ StealInv'
  BY <1>1, <1>3, PlansUnchanged DEF Select, restVars, histVars
<1>4. ASSUME NEW r \in Reps, NEW kind, Fault(r, kind) PROVE PlansInv' /\ StealInv'
  BY <1>1, <1>4, PlansUnchanged DEF Fault, restVars
<1>5. CASE VoterSelect
  <2>1. /\ pc = "loop" /\ pc' = "scan"
        /\ UNCHANGED <<restartee, restarter, stealing, stolen, rep_in, st, ref>>
    BY <1>5 DEF VoterSelect, restVars, repVars, histVars
  <2>2. \A r \in Reps : Stolen(r) = 0 /\ Stolen(r)' = 0
    BY <2>1 DEF Stolen
  <2> QED BY <1>1, <2>1, <2>2 DEF PlansInv, StealInv
<1>6. CASE UNCHANGED vars
  BY <1>1, <1>6, PlansUnchanged DEF vars, restVars, repVars, histVars
<1>7. CASE Voter
  BY <1>1, <1>5, <1>7, ProcessDataPlans, ProcessFromRepPlans, VoterRestartHandlerPlans,
     StealPipePlans, KillRestarteePlans, ForkAndSendPlans, ReturnPipePlans, RestartedPlans
     DEF Voter
<1>8. CASE Replicas
  BY <1>1, <1>3, <1>8, ReplicaPlans DEF Replicas
<1>9. CASE Environment \/ Injector
  BY <1>2, <1>4, <1>9 DEF Environment, Injector
<1> QED BY <1>6, <1>7, <1>8, <1>9 DEF Next

-----------------------------------------------------------------------------
(***************************************************************************)
(* In step.                                                                *)
(***************************************************************************)

\* Two replicas cannot mask a wrong answer: they do not say whose it is.
DMRNotCorrupted ==
    \A c \in Instances : c.rep_count = 2 => "sdc" \notin c.kinds

\* One input in a replica's pipes, and one answer.
LEMMA OnlyFacts ==
    ASSUME NEW p \in Ins
    PROVE  /\ Only(p)[p] = 1 /\ Only(p) # NoInput
           /\ \A q \in Ins : q # p => Only(p)[q] = 0
           /\ [Only(p) EXCEPT ![p] = @ - 1] = NoInput
           /\ [NoInput EXCEPT ![p] = @ + 1] = Only(p)
<1>1. Only(p)[p] = 1 /\ NoInput[p] = 0 /\ \A q \in Ins : q # p => Only(p)[q] = 0
  BY DEF Only, NoInput
<1>2. [Only(p) EXCEPT ![p] = @ - 1] = NoInput
  <2>1. Only(p)[p] - 1 = 0
    BY <1>1
  <2>2. [Only(p) EXCEPT ![p] = 0] = NoInput
    BY DEF Only, NoInput
  <2> QED BY <2>1, <2>2
<1>3. [NoInput EXCEPT ![p] = @ + 1] = Only(p)
  <2>1. NoInput[p] + 1 = 1
    BY <1>1
  <2>2. [NoInput EXCEPT ![p] = 1] = Only(p)
    BY DEF Only, NoInput
  <2> QED BY <2>1, <2>2
<1> QED BY <1>1, <1>2, <1>3

\* One answer, in a pipe or a buffer.
LEMMA JustFacts ==
    ASSUME NEW o \in Outs, NEW a
    PROVE  /\ Just(o, a)[o] = <<a>> /\ Len(Just(o, a)[o]) = 1 /\ Just(o, a) # NoOutput
           /\ \A q \in Outs : q # o => Just(o, a)[q] = <<>>
           /\ [NoOutput EXCEPT ![o] = Append(@, a)] = Just(o, a)
           /\ [NoOutput EXCEPT ![o] = @ \o Just(o, a)[o]] = Just(o, a)
           /\ [Just(o, a) EXCEPT ![o] = <<>>] = NoOutput
<1>1. Just(o, a)[o] = <<a>> /\ Len(<<a>>) = 1 /\ <<a>> # <<>>
  BY DEF Just
<1>2. NoOutput[o] = <<>> /\ Append(<<>>, a) = <<a>> /\ <<>> \o <<a>> = <<a>>
  <2>1. <<>> \o <<a>> = <<a>>
    BY <1>1
  <2> QED BY <2>1 DEF NoOutput
<1>3. \A q \in Outs : q # o => Just(o, a)[q] = <<>>
  BY DEF Just
<1>4. [NoOutput EXCEPT ![o] = Append(@, a)] = Just(o, a)
  BY <1>2 DEF NoOutput, Just
<1>5. [NoOutput EXCEPT ![o] = @ \o Just(o, a)[o]] = Just(o, a)
  <2>1. NoOutput[o] \o Just(o, a)[o] = <<a>>
    BY <1>1, <1>2
  <2> QED BY <2>1 DEF NoOutput, Just
<1>6. [Just(o, a) EXCEPT ![o] = <<>>] = NoOutput
  BY DEF NoOutput, Just
<1>7. Just(o, a) # NoOutput
  BY <1>1, <1>2
<1> QED BY <1>1, <1>3, <1>4, <1>5, <1>6, <1>7

\* The two timed pairs.
LEMMA DueFacts ==
    ASSUME TypeOK
    PROVE  /\ Due \in Ins /\ DueOut \in Outs
           /\ \/ Due = MAP_UPDATE /\ DueOut = COMM_ACK /\ Due # WAY_REQ
              \/ Due = WAY_REQ /\ DueOut = WAY_RES /\ Due # MAP_UPDATE
<1>1. current_timer = 1 \/ current_timer = 2
  BY DEF TypeOK
<1> QED BY <1>1, Pipes DEF Due, DueOut, timer_start_index, timer_stop_index

\* What holds of every replica in step.
LEMMA StepTypes ==
    ASSUME TypeOK
    PROVE  /\ \A r \in Reps :
                /\ st[r] \in AStarState /\ rep_in[r] \in [Ins -> Nat]
                /\ rep_out[r] \in [Outs -> Seq(Answers)]
                /\ buffers[r] \in [Outs -> Seq(Answers)]
                /\ selected[r] \in SUBSET Ins /\ insertSDC[r] \in BOOLEAN
                /\ insertCFE[r] \in BOOLEAN
                /\ status[r] \in {"up", "looping", "dead"}
           /\ config \in Instances /\ ref \in AStarState
<1>1. /\ st \in [Reps -> AStarState] /\ rep_in \in [Reps -> [Ins -> Nat]]
      /\ rep_out \in [Reps -> [Outs -> Seq(Answers)]]
      /\ buffers \in [Reps -> [Outs -> Seq(Answers)]]
      /\ selected \in [Reps -> SUBSET Ins] /\ insertSDC \in [Reps -> BOOLEAN]
      /\ insertCFE \in [Reps -> BOOLEAN]
      /\ status \in [Reps -> {"up", "looping", "dead"}]
  BY DEF TypeOK
<1>2. config \in Instances /\ ref \in AStarState
  BY DEF TypeOK
<1> QED BY <1>1, <1>2

\* Which phase a step starts from, by the guards of a running replica that
\* has something to read: it waits, or is about to be replaced.
LEMMA ReaderWaits ==
    ASSUME TypeOK, StepPhase, NEW r \in Reps, NEW p \in Ins, rep_in[r][p] > 0
    PROVE  \/ /\ pc \in {"loop", "scan"} /\ timer_started /\ Busy /\ Waits(r) /\ p = Due
           \/ pc \in {"steal", "fork"} /\ Replacing /\ ~timer_started /\ r = restartee
<1>1. rep_in[r] # NoInput
  BY Pipes
<1>2. ~Rest
  BY <1>1 DEF Rest
<1>3. \A q \in Ins : Only(q)[p] > 0 => p = q
  BY OnlyFacts
<1>4. CASE Busy
  <2>1. Waits(r)
    BY <1>1, <1>4 DEF Busy, Right, Wrong, Answered
  <2>2. p = Due
    BY <1>3, <2>1, DueFacts DEF Waits
  <2>3. \/ pc \in {"loop", "scan"} /\ timer_started
        \/ pc \in {"steal", "fork"} /\ Replacing
    <3>1. pc \in {"loop", "scan", "steal", "fork", "return"}
      BY DEF TypeOK
    <3> QED BY <1>2, <3>1 DEF StepPhase
  <2>4. CASE pc \in {"steal", "fork"} /\ Replacing
    <3>1. r = restartee
      BY <1>1, <2>4 DEF Replacing, Right, Answered
    <3> QED BY <2>4, <3>1 DEF StepPhase
  <2> QED BY <1>4, <2>1, <2>2, <2>3, <2>4
<1>5. CASE ~Busy
  <2>1. pc \in {"steal", "fork"} /\ Replacing
    <3>1. pc \in {"loop", "scan", "steal", "fork", "return"}
      BY DEF TypeOK
    <3> QED BY <1>2, <1>5, <3>1 DEF StepPhase
  <2>2. r = restartee
    BY <1>1, <2>1 DEF Replacing, Right, Answered
  <2> QED BY <2>1, <2>2 DEF StepPhase
<1> QED BY <1>4, <1>5

\* The phase does not depend on who runs, nor on more replicas being faulty.
LEMMA PhaseSame ==
    ASSUME StepPhase, Reps' = Reps, faulty \subseteq faulty',
           UNCHANGED <<config, extVars, pc, ext_set, select_set, timeVars, buffers,
                       restVars, rep_in, rep_out, selected, st, ref, expected>>
    PROVE  StepPhase'
<1>1. UNCHANGED <<Due, DueOut, DueAns>>
  BY DEF Due, DueOut, DueAns, timeVars
<1>2. \A r \in Reps : /\ Waits(r) => Waits(r)'
                      /\ Right(r) => Right(r)'
                      /\ Wrong(r) => Wrong(r)'
                      /\ Waits(r)' => Waits(r)
  BY <1>1 DEF Waits, Right, Wrong, Answered
<1>3. Busy => Busy'
  BY <1>1, <1>2 DEF Busy, OneDue, extVars
<1>4. Rest => Rest'
  BY DEF Rest, extVars
<1>5. Replacing => Replacing'
  BY <1>1, <1>2 DEF Replacing, OneDue, extVars, restVars
<1> QED BY <1>3, <1>4, <1>5 DEF StepPhase, extVars, timeVars, restVars

\* A replica that waits goes on to wait or answers.
LEMMA BusyOne ==
    ASSUME TypeOK, Busy, Reps' = Reps, NEW r \in Reps, Waits(r),
           UNCHANGED <<config, current_timer, buffers, ext_out, expected, ref, faulty>>,
           \A q \in Reps \ {r} : /\ rep_in'[q] = rep_in[q] /\ rep_out'[q] = rep_out[q]
                                 /\ st'[q] = st[q] /\ selected'[q] = selected[q],
           (Waits(r)' /\ st'[r] = st[r]) \/ Right(r)' \/ Wrong(r)'
    PROVE  Busy'
<1>1. UNCHANGED <<Due, DueOut, DueAns>>
  BY DEF Due, DueOut, DueAns
<1>2. ASSUME NEW q \in Reps \ {r}
      PROVE  /\ Waits(q) <=> Waits(q)'
             /\ Right(q) => Right(q)'
             /\ Wrong(q) => Wrong(q)'
  BY <1>1, <1>2 DEF Waits, Right, Wrong, Answered
<1>3. \A q \in Reps : Waits(q)' \/ Right(q)' \/ Wrong(q)'
  BY <1>2 DEF Busy
<1>4. ASSUME NEW q \in Reps, Waits(q)' PROVE Waits(q) /\ st'[q] = st[q]
  <2>1. CASE q = r
    <3>1. rep_in'[r] # NoInput
      BY <1>4, <2>1, <1>1, DueFacts, OnlyFacts DEF Waits
    <3>2. ~Right(r)' /\ ~Wrong(r)'
      BY <3>1, <2>1, Pipes DEF Right, Wrong, Answered, NoInput
    <3> QED BY <2>1, <3>2
  <2>2. CASE q # r
    BY <1>2, <1>4, <2>2
  <2> QED BY <2>1, <2>2
<1>5. \A q, u \in Reps : Waits(q)' /\ Waits(u)' => st'[q] = st'[u]
  BY <1>4 DEF Busy
<1>6. OneDue' /\ \E q \in Reps : buffers'[q] = NoOutput
  BY <1>1 DEF Busy, OneDue
<1>7. NoOutput' = NoOutput
  BY DEF NoOutput
<1> QED BY <1>3, <1>5, <1>6, <1>7 DEF Busy

\* A step of a replica that has an input.
LEMMA ReaderStep ==
    ASSUME TypeOK, StepPhase, Reps' = Reps, NEW r \in Reps, NEW p \in Ins,
           rep_in[r][p] > 0,
           UNCHANGED <<config, extVars, pc, ext_set, select_set, timeVars, buffers,
                       restVars, ref, expected, faulty>>,
           \A q \in Reps \ {r} : /\ rep_in'[q] = rep_in[q] /\ rep_out'[q] = rep_out[q]
                                 /\ st'[q] = st[q] /\ selected'[q] = selected[q],
           \A o \in Outs : rep_out[r][o] # <<>> => rep_out'[r][o] # <<>>,
           Waits(r) => (Waits(r)' /\ st'[r] = st[r]) \/ Right(r)' \/ Wrong(r)'
    PROVE  StepPhase'
<1>1. CASE /\ pc \in {"loop", "scan"} /\ timer_started /\ Busy /\ Waits(r)
  <2>1. Busy'
    BY <1>1, BusyOne DEF extVars, timeVars
  <2>2. \A x \in select_set : rep_out[x[2]][x[1]] # <<>> => rep_out'[x[2]][x[1]] # <<>>
    <3>1. \A x \in select_set : x[1] \in Outs /\ x[2] \in Reps
      BY DEF TypeOK
    <3> QED BY <3>1
  <2> QED BY <1>1, <2>1, <2>2 DEF StepPhase, extVars, timeVars, restVars
<1>2. CASE pc \in {"steal", "fork"} /\ Replacing /\ ~timer_started /\ r = restartee
  <2>1. UNCHANGED <<Due, DueOut, DueAns>>
    BY DEF Due, DueOut, DueAns, timeVars
  <2>2. \A q \in Reps \ {restartee} : Right(q) => Right(q)'
    BY <1>2, <2>1 DEF Right, Answered
  <2>3. Replacing'
    BY <1>2, <2>1, <2>2 DEF Replacing, OneDue, extVars, restVars
  <2> QED BY <1>2, <2>3 DEF StepPhase, extVars, timeVars, restVars
<1> QED BY <1>1, <1>2, ReaderWaits

\* Without a data error an acknowledgement is the right one, with one its
\* hash is off.
LEMMA ReplyFacts ==
    ASSUME NEW s \in AStarState
    PROVE  /\ UpdateAck(s, FALSE) = Ack(s)
           /\ UpdateAck(s, TRUE) = [Ack(s) EXCEPT !.hash = @ + 1]
           /\ UpdateAck(s, TRUE) \in Answers /\ UpdateAck(s, TRUE) # Ack(s)
<1>1. AfterUpdate(s, FALSE).fake_hash = s.fake_hash /\ s.fake_hash \in Nat
  BY DEF AfterUpdate, AStarState
<1>2. AfterUpdate(s, TRUE).fake_hash = s.fake_hash + 1
  BY DEF AfterUpdate, AStarState
<1>3. Ack(s) \in [hash : Nat, resend_request : BOOLEAN] /\ Ack(s).hash = s.fake_hash
  BY <1>1 DEF Ack, AStarState
<1>4. [Ack(s) EXCEPT !.hash = s.fake_hash] = Ack(s)
  BY <1>3
<1>5. [Ack(s) EXCEPT !.hash = s.fake_hash + 1] = [Ack(s) EXCEPT !.hash = @ + 1]
  BY <1>3
<1>6. [Ack(s) EXCEPT !.hash = s.fake_hash + 1] # Ack(s)
  BY <1>1, <1>3
<1> QED BY <1>1, <1>2, <1>3, <1>4, <1>5, <1>6, AStarType DEF UpdateAck

\* A waiting replica that reads its input answers.
LEMMA RecvAnswers ==
    ASSUME TypeOK, Faults, NEW r \in Reps, Waits(r),
           UNCHANGED <<config, expected, current_timer, buffers, ref, faulty>>,
           RecvMapUpdate(r) \/ SendWaypoints(r)
    PROVE  Right(r)' \/ Wrong(r)'
<1>1. UNCHANGED <<Due, DueOut, DueAns>>
  BY DEF Due, DueOut, DueAns
<1>2. /\ st \in [Reps -> AStarState] /\ rep_in \in [Reps -> [Ins -> Nat]]
      /\ rep_out \in [Reps -> [Outs -> Seq(Answers)]] /\ insertSDC \in [Reps -> BOOLEAN]
      /\ selected \in [Reps -> SUBSET Ins]
  BY DEF TypeOK
<1>3. st[r] \in AStarState /\ insertSDC[r] \in BOOLEAN
  BY <1>2
<1>4. /\ rep_in[r] = Only(Due) /\ selected[r] \subseteq {Due}
      /\ rep_out[r] = NoOutput /\ buffers[r] = NoOutput
      /\ After(Due, st[r]) = ref /\ Reply(Due, st[r]) = DueAns
  BY DEF Waits
<1>5. buffers'[r] = NoOutput /\ NoOutput' = NoOutput /\ NoInput' = NoInput
  BY <1>4 DEF NoOutput, NoInput
<1>6. CASE RecvMapUpdate(r)
  <2>1. Due = MAP_UPDATE /\ DueOut = COMM_ACK
    BY <1>4, <1>6, DueFacts DEF RecvMapUpdate
  <2>2. rep_in'[r] = NoInput
    <3>1. rep_in'[r] = [rep_in[r] EXCEPT ![Due] = @ - 1]
      BY <1>2, <1>6, <2>1 DEF RecvMapUpdate
    <3> QED BY <1>4, <3>1, OnlyFacts, DueFacts
  <2>3. selected'[r] = {}
    BY <1>2, <1>4, <1>6, <2>1 DEF RecvMapUpdate
  <2>4. rep_out'[r] = Just(DueOut, UpdateAck(st[r], insertSDC[r]))
    <3>1. rep_out'[r] = [rep_out[r] EXCEPT ![DueOut] = Append(@, UpdateAck(st[r], insertSDC[r]))]
      BY <1>2, <1>6, <2>1 DEF RecvMapUpdate
    <3> QED BY ZenonT(30), <1>4, <3>1, JustFacts, DueFacts
  <2>5. st'[r] = AfterUpdate(st[r], insertSDC[r])
    BY <1>2, <1>6 DEF RecvMapUpdate
  <2>6. DueAns = Ack(st[r]) /\ AfterUpdate(st[r], FALSE) = ref
    BY <1>4, <2>1 DEF Reply, After
  <2>7. CASE insertSDC[r] = FALSE
    <3>1. rep_out'[r] = Just(DueOut, DueAns) /\ st'[r] = ref
      BY <1>3, <2>4, <2>5, <2>6, <2>7, ReplyFacts
    <3> QED BY <1>1, <1>5, <2>2, <2>3, <3>1 DEF Right, Answered
  <2>8. CASE insertSDC[r] = TRUE
    <3>1. PICK a \in Answers : a # DueAns /\ rep_out'[r] = Just(DueOut, a)
      BY <1>3, <2>4, <2>6, <2>8, ReplyFacts
    <3>2. Answered(r, a)'
      BY <1>1, <1>5, <2>2, <2>3, <3>1 DEF Answered
    <3>3. r \in faulty /\ "sdc" \in config.kinds
      BY <2>8 DEF Faults
    <3> QED BY <1>1, <3>1, <3>2, <3>3 DEF Wrong, Answers
  <2> QED BY <1>3, <2>7, <2>8
<1>7. CASE SendWaypoints(r)
  <2>1. Due = WAY_REQ /\ DueOut = WAY_RES /\ Due # MAP_UPDATE
    BY <1>4, <1>7, DueFacts DEF SendWaypoints
  <2>2. rep_in'[r] = NoInput
    <3>1. rep_in'[r] = [rep_in[r] EXCEPT ![Due] = @ - 1]
      BY <1>2, <1>7, <2>1 DEF SendWaypoints
    <3> QED BY <1>4, <3>1, OnlyFacts, DueFacts
  <2>3. selected'[r] = {}
    BY <1>2, <1>7 DEF SendWaypoints
  <2>4. rep_out'[r] = Just(DueOut, Way(AfterRequest(st[r]).cur))
    <3>1. rep_out'[r] = [rep_out[r] EXCEPT ![DueOut] = Append(@, Way(AfterRequest(st[r]).cur))]
      BY <1>2, <1>7, <2>1 DEF SendWaypoints
    <3> QED BY ZenonT(30), <1>4, <3>1, JustFacts, DueFacts
  <2>5. st'[r] = AfterRequest(st[r])
    BY <1>2, <1>7 DEF SendWaypoints
  <2>6. rep_out'[r] = Just(DueOut, DueAns) /\ st'[r] = ref
    BY <1>4, <2>1, <2>4, <2>5 DEF Reply, After
  <2> QED BY <1>1, <1>5, <2>2, <2>3, <2>6 DEF Right, Answered
<1> QED BY <1>6, <1>7

\* Replicas keep in step.
LEMMA ReplicaKeeps ==
    ASSUME TypeOK, Faults, StepPhase, Reps' = Reps, NEW r \in Reps, UNCHANGED config,
           Select(r) \/ RecvMapUpdate(r) \/ SendWaypoints(r)
    PROVE  Faults' /\ StepPhase'
<1>1. /\ st \in [Reps -> AStarState] /\ rep_in \in [Reps -> [Ins -> Nat]]
      /\ rep_out \in [Reps -> [Outs -> Seq(Answers)]] /\ insertSDC \in [Reps -> BOOLEAN]
      /\ selected \in [Reps -> SUBSET Ins] /\ insertCFE \in [Reps -> BOOLEAN]
      /\ status \in [Reps -> {"up", "looping", "dead"}]
  BY DEF TypeOK
<1>2. CASE Select(r)
  <2>1. PICK ready \in {{p \in Ins : rep_in[r][p] > 0}} :
          /\ ready # {}
          /\ IF insertCFE[r]
             THEN status' = [status EXCEPT ![r] = "looping"] /\ UNCHANGED selected
             ELSE selected' = [selected EXCEPT ![r] = ready] /\ UNCHANGED status
    BY <1>2 DEF Select
  <2>2. PICK p \in Ins : rep_in[r][p] > 0
    BY <2>1
  <2>3. /\ UNCHANGED <<extVars, pc, ext_set, select_set, timeVars, buffers,
                       restVars, rep_in, rep_out, st, ref, expected, faulty>>
        /\ UNCHANGED <<insertSDC, insertCFE>>
    BY <1>2 DEF Select, histVars
  <2>4. Faults'
    <3>1. \A q \in Reps : status'[q] # "up" => status[q] # "up" \/ insertCFE[q]
      BY <1>1, <2>1
    <3> QED BY <2>3, <3>1 DEF Faults
  <2>5. \A q \in Reps \ {r} : selected'[q] = selected[q]
    BY <1>1, <2>1
  <2>6. ASSUME Waits(r) PROVE Waits(r)' /\ st'[r] = st[r]
    <3>1. UNCHANGED <<Due, DueOut, DueAns>>
      BY <2>3 DEF Due, DueOut, DueAns, timeVars
    <3>2. ready = {Due}
      <4>1. rep_in[r] = Only(Due)
        BY <2>6 DEF Waits
      <4>2. \A q \in Ins : rep_in[r][q] > 0 <=> q = Due
        BY <4>1, OnlyFacts, DueFacts
      <4> QED BY <2>1, <4>2, DueFacts
    <3>3. selected'[r] \subseteq {Due}
      <4>1. selected[r] \subseteq {Due}
        BY <2>6 DEF Waits
      <4> QED BY <1>1, <2>1, <3>2, <4>1
    <3> QED BY <2>3, <2>6, <3>1, <3>3 DEF Waits
  <2>7. StepPhase'
    BY <2>2, <2>3, <2>5, <2>6, ReaderStep
  <2> QED BY <2>4, <2>7
<1>3. CASE RecvMapUpdate(r) \/ SendWaypoints(r)
  <2>1. PICK p \in Ins : rep_in[r][p] > 0
    BY <1>3, Pipes DEF RecvMapUpdate, SendWaypoints
  <2>2. UNCHANGED <<extVars, pc, ext_set, select_set, timeVars, buffers,
                    restVars, status, insertCFE, ref, expected, faulty>>
    BY <1>3 DEF RecvMapUpdate, SendWaypoints, histVars
  <2>3. Faults'
    <3>1. \A q \in Reps : insertSDC'[q] => insertSDC[q]
      BY <1>1, <1>3 DEF RecvMapUpdate, SendWaypoints
    <3> QED BY <2>2, <3>1 DEF Faults
  <2>4. ASSUME NEW q \in Reps \ {r}
        PROVE  /\ rep_in'[q] = rep_in[q] /\ rep_out'[q] = rep_out[q]
               /\ st'[q] = st[q] /\ selected'[q] = selected[q]
    BY <1>1, <1>3 DEF RecvMapUpdate, SendWaypoints
  <2>5. ASSUME NEW o \in Outs, rep_out[r][o] # <<>> PROVE rep_out'[r][o] # <<>>
    <3>1. rep_out[r][o] \in Seq(Answers)
      BY <1>1
    <3>2. \A a \in Answers : Append(rep_out[r][o], a) # <<>>
      BY <3>1, AppendProperties
    <3>3. /\ UpdateAck(st[r], insertSDC[r]) \in Answers
          /\ Way(AfterRequest(st[r]).cur) \in Answers
      <4>1. st[r] \in AStarState /\ insertSDC[r] \in BOOLEAN
        BY <1>1
      <4> QED BY <4>1, AStarType
    <3>4. PICK a \in Answers, u \in Outs : rep_out' = [rep_out EXCEPT ![r][u] = Append(@, a)]
      BY <1>3, <3>3, Pipes DEF RecvMapUpdate, SendWaypoints
    <3> QED BY <1>1, <2>5, <3>2, <3>4
  <2>6. Waits(r) => Right(r)' \/ Wrong(r)'
    BY <1>3, <2>2, RecvAnswers DEF timeVars
  <2>7. StepPhase'
    BY <2>1, <2>2, <2>4, <2>5, <2>6, ReaderStep
  <2> QED BY <2>3, <2>7
<1> QED BY <1>2, <1>3

\* Inputs come one at a time.
LEMMA SendKeeps ==
    ASSUME TypeOK, InStep, Faults, StepPhase, Reps' = Reps, NEW p \in Ins, Send(p),
           UNCHANGED config
    PROVE  Faults' /\ StepPhase'
<1>1. /\ ext_in[p] < 1
      /\ ext_in' = [ext_in EXCEPT ![p] = @ + 1]
      /\ UNCHANGED <<ext_out, pc, ext_set, select_set, timeVars, buffers,
                     restVars, rep_in, rep_out, repVars, histVars>>
  BY DEF Send, InStep
<1>2. ext_in \in [Ins -> Nat]
  BY DEF TypeOK
<1>3. /\ \A q \in Ins : ext_in'[q] <= 1
      /\ \A q \in Ins : ext_in[q] = 1 => ext_in'[q] = 1
  BY <1>1, <1>2 DEF StepPhase
<1>4. UNCHANGED <<Due, DueOut, DueAns>>
  BY <1>1 DEF Due, DueOut, DueAns, timeVars, histVars
<1>5. (Busy => Busy') /\ (Rest => Rest') /\ (Replacing => Replacing')
  <2>1. \A r \in Reps : /\ Waits(r) <=> Waits(r)'
                        /\ Right(r) <=> Right(r)'
                        /\ Wrong(r) <=> Wrong(r)'
    BY <1>1, <1>4 DEF Waits, Right, Wrong, Answered, repVars, histVars
  <2>2. OneDue => OneDue'
    BY <1>1, <1>4 DEF OneDue, histVars
  <2>3. Busy => Busy'
    BY <1>1, <2>1, <2>2 DEF Busy, repVars
  <2>4. Rest => Rest'
    BY <1>1 DEF Rest, repVars, histVars
  <2>5. Replacing => Replacing'
    BY <1>1, <2>1, <2>2 DEF Replacing, repVars, restVars, histVars
  <2> QED BY <2>3, <2>4, <2>5
<1>6. \A q \in ext_set : q \in Ins
  BY DEF TypeOK
<1>7. Faults'
  BY <1>1 DEF Faults, repVars, histVars
<1>8. StepPhase'
  BY <1>1, <1>3, <1>5, <1>6 DEF StepPhase, timeVars, restVars
<1> QED BY <1>7, <1>8

\* A fault makes one replica faulty when none is.
LEMMA FaultKeeps ==
    ASSUME TypeOK, Faults, StepPhase, Reps' = Reps, NEW r \in Reps,
           NEW kind \in config.kinds, Fault(r, kind), UNCHANGED config
    PROVE  Faults' /\ StepPhase'
<1>1. /\ faulty = {} /\ faulty' = {r}
      /\ UNCHANGED <<extVars, pc, ext_set, select_set, timeVars, buffers,
                     restVars, rep_in, rep_out, selected, st, ref, expected>>
  BY DEF Fault
<1>2. /\ insertSDC \in [Reps -> BOOLEAN] /\ insertCFE \in [Reps -> BOOLEAN]
      /\ status \in [Reps -> {"up", "looping", "dead"}]
      /\ kind \in {"kill", "sdc", "cfe"}
  BY RepsFacts DEF TypeOK
<1>3. ASSUME NEW q \in Reps \ {r}
      PROVE  status'[q] = status[q] /\ insertSDC'[q] = insertSDC[q] /\ insertCFE'[q] = insertCFE[q]
  <2>1. CASE kind = "kill"
    BY <1>2, <1>3, <2>1 DEF Fault
  <2>2. CASE kind = "sdc"
    BY <1>2, <1>3, <2>2 DEF Fault
  <2>3. CASE kind = "cfe"
    BY <1>2, <1>3, <2>3 DEF Fault
  <2> QED BY <1>2, <2>1, <2>2, <2>3
<1>4. insertSDC'[r] => insertSDC[r] \/ kind = "sdc"
  BY <1>2 DEF Fault
<1>5. Faults'
  BY <1>1, <1>3, <1>4 DEF Faults
<1>6. StepPhase'
  BY <1>1, PhaseSame
<1> QED BY <1>5, <1>6

\* The voter looks at an input only when nothing is under way.
LEMMA VoterSelectKeeps ==
    ASSUME TypeOK, InStep, Faults, StepPhase, Reps' = Reps, VoterSelect, UNCHANGED config
    PROVE  Faults' /\ StepPhase'
<1>1. /\ pc = "loop" /\ pc' = "scan" /\ ext_set' \subseteq ExtWanted
      /\ select_set' = RepWanted
      /\ UNCHANGED <<extVars, timeVars, buffers, restVars, rep_in, rep_out, repVars, histVars>>
  BY DEF VoterSelect
<1>2. Faults'
  BY <1>1 DEF Faults, repVars, histVars
<1>3. UNCHANGED <<Due, DueOut, DueAns>>
  BY <1>1 DEF Due, DueOut, DueAns, timeVars, histVars
<1>4. (Busy => Busy') /\ (Rest => Rest')
  BY <1>1, <1>3 DEF Busy, OneDue, Waits, Right, Wrong, Answered, Rest, extVars, repVars, histVars
<1>5. CASE timer_started
  <2>1. ExtWanted = {}
    BY <1>5 DEF ExtWanted
  <2>2. \A x \in RepWanted : rep_out[x[2]][x[1]] # <<>>
    BY DEF RepWanted
  <2>3. StepPhase'
    BY <1>1, <1>4, <1>5, <2>1, <2>2 DEF StepPhase, extVars, timeVars, restVars
  <2> QED BY <1>2, <2>3
<1>6. CASE ~timer_started
  <2>1. Rest
    BY <1>1, <1>6 DEF StepPhase
  <2>2. RepWanted = {}
    BY <2>1, Pipes DEF RepWanted, Rest
  <2>3. \A p \in ExtWanted : p \in Ins /\ ext_in[p] > 0 /\ ext_in[p] <= 1 /\ ext_in[p] \in Nat
    BY DEF ExtWanted, StepPhase, TypeOK
  <2>4. \A p \in ext_set' : ext_in[p] = 1
    BY <1>1, <2>3
  <2>5. StepPhase'
    BY <1>1, <1>4, <1>6, <2>1, <2>2, <2>4 DEF StepPhase, extVars, timeVars, restVars
  <2> QED BY <1>2, <2>5
<1> QED BY <1>5, <1>6 DEF TypeOK

\* One input takes the faultless AStar one step further.
LEMMA RefOne ==
    ASSUME ref \in AStarState, NEW p \in Ins
    PROVE  /\ RefStates(p, 1)[1 + 1] = After(p, ref)
           /\ RefAnswers(p, 1) = <<Reply(p, ref)>>
<1>1. 1 \in 1 .. 1 + 1 /\ 2 \in 1 .. 1 + 1 /\ 1 .. 1 = {1}
  OBVIOUS
<1> DEFINE Goal(n) == RefStates(p, 1)[n] = After(p, ref) /\ RefAnswers(p, 1) = <<Reply(p, ref)>>
<1>2. Goal(2) => Goal(1 + 1)
  <2>1. 1 + 1 = 2
    OBVIOUS
  <2> QED BY <2>1, Zenon
<1>3. ASSUME p = MAP_UPDATE PROVE Goal(2)
  <2>1. RefStates(p, 1)[2] = [ref EXCEPT !.plan = @ + (2 - 1), !.ready_to_send = @ \/ 2 > 1]
    BY <1>1, <1>3 DEF RefStates
  <2>2. RefStates(p, 1)[1] = [ref EXCEPT !.plan = @ + (1 - 1), !.ready_to_send = @ \/ 1 > 1]
    BY <1>1, <1>3 DEF RefStates
  <2>3. RefStates(p, 1)[2] = AfterUpdate(ref, FALSE)
    <3>1. /\ ref.plan + (2 - 1) = ref.plan + 1
          /\ (ref.ready_to_send \/ 2 > 1) = TRUE
      BY DEF AStarState
    <3>2. \A n, b : [ref EXCEPT !.plan = n, !.ready_to_send = b, !.fake_hash = ref.fake_hash]
                     = [ref EXCEPT !.plan = n, !.ready_to_send = b]
      BY DEF AStarState
    <3>3. AfterUpdate(ref, FALSE) = [ref EXCEPT !.plan = @ + 1, !.ready_to_send = TRUE]
      BY <3>2 DEF AfterUpdate
    <3> QED BY <2>1, <3>1, <3>3
  <2>4. RefStates(p, 1)[1] = ref
    <3>1. /\ ref.plan + (1 - 1) = ref.plan
          /\ (ref.ready_to_send \/ 1 > 1) = ref.ready_to_send
      BY DEF AStarState
    <3>2. [ref EXCEPT !.plan = ref.plan, !.ready_to_send = ref.ready_to_send] = ref
      BY DEF AStarState
    <3> QED BY <2>2, <3>1, <3>2
  <2>5. RefAnswers(p, 1) = [i \in {1} |-> Ack(ref)]
    BY <1>1, <1>3, <2>4 DEF RefAnswers
  <2>6. RefAnswers(p, 1) = <<Ack(ref)>>
    BY <2>5
  <2>7. After(p, ref) = AfterUpdate(ref, FALSE) /\ Reply(p, ref) = Ack(ref)
    BY <1>3 DEF After, Reply
  <2> QED BY <2>3, <2>6, <2>7, Zenon
<1>4. ASSUME p # MAP_UPDATE PROVE Goal(2)
  <2>1. RefStates(p, 1)[2] = AfterRequest(ref)
    BY <1>1, <1>4 DEF RefStates
  <2>2. RefAnswers(p, 1) = [i \in {1} |-> Way(AfterRequest(ref).cur)]
    BY <1>1, <1>4 DEF RefAnswers
  <2>3. RefAnswers(p, 1) = <<Way(AfterRequest(ref).cur)>>
    BY <2>2
  <2>4. After(p, ref) = AfterRequest(ref) /\ Reply(p, ref) = Way(AfterRequest(ref).cur)
    BY <1>4 DEF After, Reply
  <2> QED BY <2>1, <2>3, <2>4, Zenon
<1> QED BY <1>2, <1>3, <1>4

\* The voter takes an input: it is due at every replica.
LEMMA ProcessDataKeeps ==
    ASSUME TypeOK, InStep, Faults, StepPhase, Reps' = Reps, NEW p \in Ins,
           ProcessData(p), UNCHANGED config
    PROVE  Faults' /\ StepPhase'
<1> DEFINE i == CHOOSE j \in 1 .. 2 : timer_start_index[j] = p
           o == timer_stop_index[IF p = MAP_UPDATE THEN 1 ELSE 2]
<1>1. /\ pc = "scan" /\ p \in ext_set /\ ~timer_started
      /\ Rest /\ select_set = {} /\ ext_in[p] = 1
      /\ \A q \in Ins : ext_in[q] <= 1
      /\ stealing = {} /\ stolen = NoInput
  BY DEF ProcessData, StepPhase
<1>2. /\ ext_set' = {}
      /\ ext_in' = [ext_in EXCEPT ![p] = 0]
      /\ rep_in' = [r \in Reps |-> [rep_in[r] EXCEPT ![p] = @ + 1]]
      /\ timer_started' = TRUE /\ current_timer' = i
      /\ ref' = RefStates(p, 1)[1 + 1]
      /\ expected' = [expected EXCEPT ![o] = @ \o RefAnswers(p, 1)]
      /\ pc' = Resume(select_set)
      /\ UNCHANGED <<ext_out, select_set, buffers, restVars, rep_out, repVars, faulty>>
  BY <1>1 DEF ProcessData, timeVars
<1>3. /\ ext_in \in [Ins -> Nat] /\ expected \in [Outs -> Seq(Answers)]
      /\ ref \in AStarState /\ i \in 1 .. 2 /\ timer_start_index[i] = p
  BY Timed DEF TypeOK
<1>4. Due' = p /\ DueOut' = o /\ o \in Outs
  <2>1. i = IF p = MAP_UPDATE THEN 1 ELSE 2
    BY <1>3, Pipes DEF timer_start_index
  <2> QED BY <1>2, <1>3, <2>1, Pipes DEF Due, DueOut
<1>5. ref' = After(p, ref) /\ RefAnswers(p, 1) = <<Reply(p, ref)>>
  BY <1>2, <1>3, RefOne
<1>6. /\ expected'[o] = expected[o] \o <<Reply(p, ref)>>
      /\ \A q \in Outs \ {o} : expected'[q] = expected[q]
      /\ expected[o] \in Seq(Answers)
  BY <1>2, <1>3, <1>4, <1>5
<1>7. DueAns' = Reply(p, ref)
  <2>1. Reply(p, ref) \in Answers
    BY <1>3, AStarType DEF Reply
  <2>2. /\ Len(expected[o] \o <<Reply(p, ref)>>) = Len(expected[o]) + 1
        /\ (expected[o] \o <<Reply(p, ref)>>)[Len(expected[o]) + 1] = Reply(p, ref)
    BY <1>6, <2>1
  <2> QED BY <1>4, <1>6, <2>2 DEF DueAns
<1>8. ASSUME NEW r \in Reps PROVE Waits(r)' /\ st'[r] = ref /\ buffers'[r] = NoOutput
  <2>1. /\ rep_in[r] = NoInput /\ selected[r] = {} /\ rep_out[r] = NoOutput
        /\ buffers[r] = NoOutput /\ st[r] = ref
    BY <1>1 DEF Rest
  <2>2. rep_in'[r] = Only(p)
    BY <1>2, <2>1, OnlyFacts
  <2>3. NoOutput' = NoOutput
    BY DEF NoOutput
  <2> QED BY <1>2, <1>4, <1>5, <1>7, <2>1, <2>2, <2>3 DEF Waits, repVars
<1>9. OneDue'
  <2>1. ext_out' = expected
    BY <1>1, <1>2 DEF Rest
  <2> QED BY <1>4, <1>6, <1>7, <2>1 DEF OneDue
<1>10. Busy'
  <2>1. \E r \in Reps : TRUE
    BY RepsFacts DEF TypeOK
  <2>2. NoOutput' = NoOutput
    BY DEF NoOutput
  <2> QED BY <1>8, <1>9, <2>1, <2>2 DEF Busy
<1>11. \A q \in Ins : ext_in'[q] <= 1
  BY <1>1, <1>2, <1>3
<1>12. Faults'
  BY <1>2 DEF Faults, repVars
<1>13. StepPhase'
  <2>1. pc' = "loop" /\ select_set' = {} /\ stealing' = {} /\ stolen' = NoInput
    BY <1>1, <1>2 DEF Resume, restVars
  <2> QED BY <1>2, <1>10, <1>11, <2>1 DEF StepPhase, NoInput
<1> QED BY <1>12, <1>13

\* A scan reads an answer that is due.
LEMMA ReadAnswer ==
    ASSUME TypeOK, StepPhase, pc = "scan", ext_set = {}, NEW x \in select_set
    PROVE  /\ timer_started /\ Busy
           /\ x[1] = DueOut /\ x[2] \in Reps /\ x = <<DueOut, x[2]>>
           /\ buffers[x[2]] = NoOutput
           /\ ~Waits(x[2])
           /\ \E a \in Answers : rep_out[x[2]] = Just(DueOut, a)
<1>1. x[1] \in Outs /\ x[2] \in Reps /\ x = <<x[1], x[2]>>
  BY DEF TypeOK
<1>2. timer_started /\ Busy /\ rep_out[x[2]][x[1]] # <<>>
  BY DEF StepPhase
<1>3. rep_out[x[2]] # NoOutput
  BY <1>1, <1>2, Pipes
<1>4. ~Waits(x[2])
  BY <1>3 DEF Waits
<1>5. PICK a : rep_out[x[2]] = Just(DueOut, a) /\ buffers[x[2]] = NoOutput
  BY <1>1, <1>2, <1>3, <1>4 DEF Busy, Right, Wrong, Answered
<1>6. DueOut \in Outs
  BY DueFacts
<1>7. /\ Just(DueOut, a)[DueOut] = <<a>>
      /\ \A q \in Outs : q # DueOut => Just(DueOut, a)[q] = <<>>
  BY <1>6, JustFacts
<1>8. x[1] = DueOut
  BY <1>1, <1>2, <1>5, <1>7
<1>9. a \in Answers
  <2>1. rep_out[x[2]][DueOut] = <<a>>
    BY <1>5, <1>7
  <2>2. rep_out[x[2]][DueOut] \in Seq(Answers)
    BY <1>1, DueFacts, StepTypes
  <2> QED BY <2>1, <2>2
<1> QED BY <1>1, <1>2, <1>4, <1>5, <1>8, <1>9

\* What it has read waits in the buffer.
LEMMA ReadKeeps ==
    ASSUME TypeOK, StepPhase, pc = "scan", ext_set = {}, NEW x \in select_set,
           Reps' = Reps,
           buffers' = [buffers EXCEPT ![x[2]][x[1]] = @ \o rep_out[x[2]][x[1]]],
           rep_out' = [rep_out EXCEPT ![x[2]][x[1]] = <<>>],
           UNCHANGED <<config, rep_in, selected, st, current_timer, expected,
                       ext_out, ref, faulty>>
    PROVE  /\ OneDue'
           /\ \A r \in Reps : Waits(r)' \/ Right(r)' \/ Wrong(r)'
           /\ \A r, q \in Reps : Waits(r)' /\ Waits(q)' => st'[r] = st'[q]
           /\ UNCHANGED <<Due, DueOut, DueAns>>
           /\ \A y \in select_set \ {x} : rep_out'[y[2]][y[1]] # <<>>
<1>1. UNCHANGED <<Due, DueOut, DueAns>>
  BY DEF Due, DueOut, DueAns
<1>2. /\ timer_started /\ Busy /\ x[1] = DueOut /\ x[2] \in Reps /\ x = <<DueOut, x[2]>>
      /\ buffers[x[2]] = NoOutput /\ ~Waits(x[2])
  BY ReadAnswer
<1>3. PICK a \in Answers : rep_out[x[2]] = Just(DueOut, a)
  BY ReadAnswer
<1>4. /\ buffers \in [Reps -> [Outs -> Seq(Answers)]]
      /\ rep_out \in [Reps -> [Outs -> Seq(Answers)]] /\ DueOut \in Outs
  BY DueFacts DEF TypeOK
<1>5. /\ buffers'[x[2]] = Just(DueOut, a) /\ rep_out'[x[2]] = NoOutput
      /\ \A r \in Reps \ {x[2]} : buffers'[r] = buffers[r] /\ rep_out'[r] = rep_out[r]
  <2>1. /\ buffers'[x[2]] = [buffers[x[2]] EXCEPT ![DueOut] = @ \o rep_out[x[2]][DueOut]]
        /\ rep_out'[x[2]] = [rep_out[x[2]] EXCEPT ![DueOut] = <<>>]
    BY <1>2, <1>4
  <2>2. \A r \in Reps \ {x[2]} : buffers'[r] = buffers[r] /\ rep_out'[r] = rep_out[r]
    BY <1>2, <1>4
  <2>3. /\ [NoOutput EXCEPT ![DueOut] = @ \o Just(DueOut, a)[DueOut]] = Just(DueOut, a)
        /\ [Just(DueOut, a) EXCEPT ![DueOut] = <<>>] = NoOutput
    BY <1>4, JustFacts
  <2>4. buffers'[x[2]] = Just(DueOut, a)
    BY <1>2, <1>3, <2>1, <2>3
  <2>5. rep_out'[x[2]] = NoOutput
    BY <1>3, <2>1, <2>3
  <2> QED BY <2>2, <2>4, <2>5
<1>6. NoOutput' = NoOutput /\ NoInput' = NoInput
  BY DEF NoOutput, NoInput
<1>7. ASSUME NEW r \in Reps \ {x[2]}
      PROVE  /\ Waits(r) <=> Waits(r)'
             /\ Right(r) => Right(r)'
             /\ Wrong(r) => Wrong(r)'
  BY <1>1, <1>5 DEF Waits, Right, Wrong, Answered
<1>8. ~Waits(x[2])' /\ (Right(x[2]) => Right(x[2])') /\ (Wrong(x[2]) => Wrong(x[2])')
  <2>1. Just(DueOut, a) # NoOutput
    BY <1>4, JustFacts
  <2>2. ~Waits(x[2])'
    BY <1>5, <1>6, <2>1 DEF Waits
  <2>3. ASSUME NEW u, Answered(x[2], u) PROVE Answered(x[2], u)'
    <3>1. rep_out[x[2]] = Just(DueOut, u)
      BY <1>3, <2>1, <2>3 DEF Answered
    <3>2. a = u
      <4>1. Just(DueOut, u)[DueOut] = <<u>> /\ Just(DueOut, a)[DueOut] = <<a>>
        BY <1>4, JustFacts
      <4>2. <<u>> = <<a>>
        BY <1>3, <3>1, <4>1
      <4> QED BY <4>2
    <3> QED BY <1>1, <1>5, <1>6, <2>3, <3>2 DEF Answered
  <2> QED BY <1>1, <2>2, <2>3 DEF Right, Wrong
<1>9. \A r \in Reps : Waits(r)' \/ Right(r)' \/ Wrong(r)'
  BY <1>2, <1>7, <1>8 DEF Busy
<1>10. \A r, q \in Reps : Waits(r)' /\ Waits(q)' => st'[r] = st'[q]
  BY <1>2, <1>7, <1>8 DEF Busy
<1>11. OneDue'
  BY <1>1, <1>2 DEF Busy, OneDue
<1>12. ASSUME NEW y \in select_set \ {x} PROVE rep_out'[y[2]][y[1]] # <<>>
  <2>1. y[1] = DueOut /\ y[2] \in Reps /\ y = <<DueOut, y[2]>>
    BY ReadAnswer
  <2>2. y[2] # x[2]
    BY <1>2, <2>1
  <2>3. rep_out[y[2]][y[1]] # <<>>
    BY <1>2 DEF StepPhase
  <2> QED BY <1>5, <2>1, <2>2, <2>3
<1> QED BY <1>1, <1>9, <1>10, <1>11, <1>12

\* A sequence of one answer.
LEMMA OneOf ==
    ASSUME NEW a \in Answers
    PROVE  SubSeq(<<a>>, 1, 1) = <<a>> /\ SubSeq(<<a>>, 2, 1) = <<>>
<1>1. <<a>> \in Seq(Answers) /\ Len(<<a>>) = 1 /\ <<a>>[1] = a
  OBVIOUS
<1>2. SubSeq(<<a>>, 1, 1) \in Seq(Answers) /\ Len(SubSeq(<<a>>, 1, 1)) = 1
      /\ SubSeq(<<a>>, 1, 1)[1] = a
  BY <1>1, SubSeqProperties
<1>3. SubSeq(<<a>>, 2, 1) \in Seq(Answers) /\ Len(SubSeq(<<a>>, 2, 1)) = 0
  BY <1>1, SubSeqProperties
<1>4. \A t \in Seq(Answers) : Len(t) = 0 => t = <<>>
  BY EmptySeq
<1>5. SubSeq(<<a>>, 1, 1) = <<a>>
  <2>1. \A i \in 1 .. 1 : i = 1
    OBVIOUS
  <2> QED BY <1>1, <1>2, <2>1, SeqEqual
<1> QED BY <1>3, <1>4, <1>5

\* b has one answer of every replica on o, and ans says which.
OneEach(b, o, ans) ==
    /\ b \in [Reps -> [Outs -> Seq(Answers)]] /\ o \in Outs
    /\ ans \in [Reps -> Answers]
    /\ \A r \in Reps : b[r] = Just(o, ans[r])

\* One replica's answer is not the one the others agree on.
OddOne(ans, w, good) ==
    /\ w \in Reps /\ ans[w] # good
    /\ \A r \in Reps \ {w} : ans[r] = good

\* Every replica has sent one answer: the voter compares those.
LEMMA VoteFacts ==
    ASSUME config \in Instances, NEW b, NEW o, NEW ans, OneEach(b, o, ans)
    PROVE  /\ BytesReady(b, o) = 1
           /\ \A r, q \in Reps : Agree(b, o, r, q) <=> ans[r] = ans[q]
           /\ Sent(b, o) = [r \in Reps |-> NoOutput]
           /\ \A s \in Reps : SubSeq(b[s][o], 1, BytesReady(b, o)) = <<ans[s]>>
<1>1. /\ b \in [Reps -> [Outs -> Seq(Answers)]] /\ o \in Outs
      /\ ans \in [Reps -> Answers]
      /\ \A r \in Reps : b[r] = Just(o, ans[r])
  BY DEF OneEach
<1>2. ASSUME NEW r \in Reps
      PROVE  b[r][o] = <<ans[r]>> /\ Len(b[r][o]) = 1 /\ ans[r] \in Answers
  <2>1. PICK a \in Answers : a = ans[r]
    BY <1>1
  <2>2. Just(o, a)[o] = <<a>> /\ Len(Just(o, a)[o]) = 1
    BY <1>1, JustFacts
  <2> QED BY <1>1, <2>1, <2>2
<1>3. BytesReady(b, o) = 1
  BY <1>1, <1>2, ReadyFacts
<1>4. ASSUME NEW r \in Reps
      PROVE  /\ SubSeq(b[r][o], 1, 1) = <<ans[r]>>
             /\ SubSeq(b[r][o], 2, 1) = <<>>
  <2>1. PICK a \in Answers : a = ans[r]
    BY <1>2
  <2>2. SubSeq(<<a>>, 1, 1) = <<a>> /\ SubSeq(<<a>>, 2, 1) = <<>>
    BY OneOf
  <2>3. b[r][o] = <<a>>
    BY <1>2, <2>1
  <2> QED BY <2>1, <2>2, <2>3
<1>5. \A r, q \in Reps : Agree(b, o, r, q) <=> ans[r] = ans[q]
  <2> SUFFICES ASSUME NEW r \in Reps, NEW q \in Reps
               PROVE  Agree(b, o, r, q) <=> ans[r] = ans[q]
    OBVIOUS
  <2>1. Agree(b, o, r, q) <=> SubSeq(b[r][o], 1, 1) = SubSeq(b[q][o], 1, 1)
    BY <1>3 DEF Agree
  <2>2. <<ans[r]>> = <<ans[q]>> <=> ans[r] = ans[q]
    OBVIOUS
  <2> QED BY <1>4, <2>1, <2>2
<1>6. ASSUME NEW r \in Reps
      PROVE  [b[r] EXCEPT ![o] = SubSeq(@, BytesReady(b, o) + 1, Len(@))] = NoOutput
  <2>1. SubSeq(b[r][o], BytesReady(b, o) + 1, Len(b[r][o])) = <<>>
    <3>1. BytesReady(b, o) + 1 = 2 /\ Len(b[r][o]) = 1
      BY <1>2, <1>3
    <3> QED BY <1>4, <3>1
  <2>2. b[r] = Just(o, ans[r]) /\ [Just(o, ans[r]) EXCEPT ![o] = <<>>] = NoOutput
    BY <1>1, JustFacts
  <2> QED BY <2>1, <2>2
<1>7. Sent(b, o) = [r \in Reps |-> NoOutput]
  BY <1>6 DEF Sent
<1> QED BY <1>3, <1>4, <1>5, <1>7

\* When all answers are the same, none is outvoted.
LEMMA VoteRight ==
    ASSUME config \in Instances, NEW b, NEW o, NEW ans, OneEach(b, o, ans),
           \A r, q \in Reps : ans[r] = ans[q]
    PROVE  Trusted(b, o) \subseteq Reps /\ Trusted(b, o) # {} /\ Outvoted(b, o) = {}
<1>1. \A r, q \in Reps : Agree(b, o, r, q)
  BY VoteFacts
<1>2. 0 \in Reps /\ 0 .. 0 - 1 = {}
  BY RepsFacts
<1>3. Trusted(b, o) \subseteq Reps /\ 0 \in Trusted(b, o)
  BY <1>1, <1>2, SuccFacts DEF Trusted
<1>4. Outvoted(b, o) = {}
  BY <1>1, <1>3, SuccFacts DEF Outvoted
<1> QED BY <1>3, <1>4

\* With three replicas of which one has another answer, that one is outvoted.
LEMMA VoteWrong ==
    ASSUME config \in Instances, NEW b, NEW o, NEW ans, NEW w, NEW good,
           OneEach(b, o, ans), OddOne(ans, w, good), rep_count = 3
    PROVE  /\ Outvoted(b, o) # {} /\ Trusted(b, o) # {}
           /\ \A s \in Outvoted(b, o) : s \in Reps /\ s # w /\ Succ(s, 2) = w
<1>1. /\ w \in Reps /\ ans[w] # good
      /\ \A r \in Reps \ {w} : ans[r] = good
  BY DEF OddOne
<1>2. \A r, q \in Reps : Agree(b, o, r, q) <=> ans[r] = ans[q]
  BY VoteFacts
<1>3. Reps = {0, 1, 2}
  BY RepsFacts
<1>4. /\ Succ(0, 1) = 1 /\ Succ(1, 1) = 2 /\ Succ(2, 1) = 0
      /\ Succ(0, 2) = 2 /\ Succ(1, 2) = 0 /\ Succ(2, 2) = 1
  BY <1>3, SuccFacts
<1>5. 0 .. 0 - 1 = {} /\ 0 .. 1 - 1 = {0} /\ 0 .. 2 - 1 = {0, 1}
  OBVIOUS
<1>6. \A r \in Reps :
        r \in Trusted(b, o) <=> /\ Agree(b, o, r, Succ(r, 1))
                                /\ \A q \in 0 .. r - 1 : ~Agree(b, o, q, Succ(q, 1))
  BY DEF Trusted
<1>7. Trusted(b, o) \subseteq Reps
  BY DEF Trusted
<1>8. /\ 0 \in Trusted(b, o) <=> Agree(b, o, 0, 1)
      /\ 1 \in Trusted(b, o) <=> Agree(b, o, 1, 2) /\ ~Agree(b, o, 0, 1)
      /\ 2 \in Trusted(b, o) <=> /\ Agree(b, o, 2, 0) /\ ~Agree(b, o, 0, 1)
                                 /\ ~Agree(b, o, 1, 2)
  BY <1>3, <1>4, <1>5, <1>6
<1>9. \A s : s \in Outvoted(b, o) <=> s \in Trusted(b, o) /\ ~Agree(b, o, s, Succ(s, 2))
  BY DEF Outvoted
<1>10. CASE w = 0
  <2>1. ans[0] # good /\ ans[1] = good /\ ans[2] = good
    BY <1>1, <1>3, <1>10
  <2>2. ~Agree(b, o, 0, 1) /\ Agree(b, o, 1, 2)
    BY <1>2, <1>3, <2>1
  <2>3. Trusted(b, o) = {1}
    BY <1>3, <1>7, <1>8, <2>2
  <2>4. ~Agree(b, o, 1, Succ(1, 2))
    BY <1>2, <1>3, <1>4, <2>1
  <2>5. Outvoted(b, o) = {1}
    BY <1>9, <2>3, <2>4
  <2> QED BY <1>3, <1>4, <1>10, <2>3, <2>5
<1>11. CASE w = 1
  <2>1. ans[1] # good /\ ans[0] = good /\ ans[2] = good
    BY <1>1, <1>3, <1>11
  <2>2. ~Agree(b, o, 0, 1) /\ ~Agree(b, o, 1, 2) /\ Agree(b, o, 2, 0)
    BY <1>2, <1>3, <2>1
  <2>3. Trusted(b, o) = {2}
    BY <1>3, <1>7, <1>8, <2>2
  <2>4. ~Agree(b, o, 2, Succ(2, 2))
    BY <1>2, <1>3, <1>4, <2>1
  <2>5. Outvoted(b, o) = {2}
    BY <1>9, <2>3, <2>4
  <2> QED BY <1>3, <1>4, <1>11, <2>3, <2>5
<1>12. CASE w = 2
  <2>1. ans[2] # good /\ ans[0] = good /\ ans[1] = good
    BY <1>1, <1>3, <1>12
  <2>2. Agree(b, o, 0, 1)
    BY <1>2, <1>3, <2>1
  <2>3. Trusted(b, o) = {0}
    BY <1>3, <1>7, <1>8, <2>2
  <2>4. ~Agree(b, o, 0, Succ(0, 2))
    BY <1>2, <1>3, <1>4, <2>1
  <2>5. Outvoted(b, o) = {0}
    BY <1>9, <2>3, <2>4
  <2> QED BY <1>3, <1>4, <1>12, <2>3, <2>5
<1> QED BY <1>1, <1>3, <1>10, <1>11, <1>12

\* What is ready is there from each replica.
LEMMA ReadyPositive ==
    ASSUME config \in Instances, NEW b \in [Reps -> [Outs -> Seq(Answers)]],
           NEW p \in Outs, BytesReady(b, p) > 0
    PROVE  \A r \in Reps : Len(b[r][p]) > 0 /\ b[r] # NoOutput
<1>1. \A r \in Reps : Len(b[r][p]) > 0
  <2>1. PICK n \in Nat : n = BytesReady(b, p)
    BY ReadyFacts
  <2>2. \A r \in Reps : Len(b[r][p]) \in Nat /\ n <= Len(b[r][p]) /\ n > 0
    BY <2>1, ReadyFacts
  <2> QED BY <2>1, <2>2
<1>2. Len(NoOutput[p]) = 0
  BY Pipes
<1> QED BY <1>1, <1>2

\* A sequence of one thing is a sequence of what has that thing.
LEMMA OneIn ==
    ASSUME NEW u, <<u>> \in Seq(Answers) PROVE u \in Answers
  OBVIOUS

\* Once something of each replica is there, all answers are.
LEMMA ReadAll ==
    ASSUME TypeOK, StepPhase, pc = "scan", ext_set = {}, NEW x \in select_set,
           NEW b \in [Reps -> [Outs -> Seq(Answers)]],
           b = [buffers EXCEPT ![x[2]][x[1]] = @ \o rep_out[x[2]][x[1]]],
           rep_out' = [rep_out EXCEPT ![x[2]][x[1]] = <<>>],
           BytesReady(b, DueOut) > 0
    PROVE  /\ \A r \in Reps : /\ rep_in[r] = NoInput /\ selected[r] = {}
                              /\ rep_out'[r] = NoOutput
           /\ \E ans \in [Reps -> Answers] : \A r \in Reps :
                /\ b[r] = Just(DueOut, ans[r])
                /\ \/ ans[r] = DueAns /\ st[r] = ref
                   \/ ans[r] # DueAns /\ r \in faulty /\ "sdc" \in config.kinds
           /\ select_set = {x}
<1>1. /\ timer_started /\ Busy /\ x[1] = DueOut /\ x[2] \in Reps /\ x = <<DueOut, x[2]>>
      /\ buffers[x[2]] = NoOutput /\ ~Waits(x[2])
  BY ReadAnswer
<1>2. PICK a \in Answers : rep_out[x[2]] = Just(DueOut, a)
  BY ReadAnswer
<1>3. /\ buffers \in [Reps -> [Outs -> Seq(Answers)]]
      /\ rep_out \in [Reps -> [Outs -> Seq(Answers)]] /\ DueOut \in Outs
      /\ config \in Instances
  BY DueFacts DEF TypeOK
<1>4. \A u : /\ Just(DueOut, u)[DueOut] = <<u>>
             /\ Just(DueOut, u) # NoOutput
             /\ [NoOutput EXCEPT ![DueOut] = @ \o Just(DueOut, u)[DueOut]] = Just(DueOut, u)
             /\ [Just(DueOut, u) EXCEPT ![DueOut] = <<>>] = NoOutput
  BY <1>3, JustFacts
<1>5. b[x[2]] = Just(DueOut, a) /\ rep_out'[x[2]] = NoOutput
  <2>1. /\ b[x[2]] = [buffers[x[2]] EXCEPT ![DueOut] = @ \o rep_out[x[2]][DueOut]]
        /\ rep_out'[x[2]] = [rep_out[x[2]] EXCEPT ![DueOut] = <<>>]
    BY <1>1, <1>3
  <2> QED BY <1>1, <1>2, <1>4, <2>1
<1>6. \A r \in Reps \ {x[2]} : b[r] = buffers[r] /\ rep_out'[r] = rep_out[r]
  BY <1>1, <1>3
<1>7. \A r \in Reps : b[r] # NoOutput
  BY <1>3, ReadyPositive
<1>8. \A u : \A v : Just(DueOut, u) = Just(DueOut, v) => u = v
  <2> SUFFICES ASSUME NEW u, NEW v, Just(DueOut, u) = Just(DueOut, v) PROVE u = v
    OBVIOUS
  <2>1. <<u>> = <<v>>
    BY <1>4
  <2> QED BY <2>1
<1>9. ASSUME NEW r \in Reps
      PROVE  /\ rep_in[r] = NoInput /\ selected[r] = {} /\ rep_out'[r] = NoOutput
             /\ \E u \in Answers : /\ b[r] = Just(DueOut, u)
                      /\ \/ u = DueAns /\ st[r] = ref
                         \/ u # DueAns /\ r \in faulty /\ "sdc" \in config.kinds
  <2>1. b[r] # NoOutput
    BY <1>7
  <2>2. ~Waits(r)
    BY <1>1, <1>6, <2>1 DEF Waits
  <2>3. PICK u : /\ Answered(r, u)
                 /\ \/ u = DueAns /\ st[r] = ref
                    \/ u # DueAns /\ r \in faulty /\ "sdc" \in config.kinds
    BY <1>1, <2>2 DEF Busy, Right, Wrong
  <2>4. b[r] = Just(DueOut, u) /\ rep_out'[r] = NoOutput
    <3>1. CASE r = x[2]
      <4>1. rep_out[r] = Just(DueOut, u)
        BY <1>2, <1>4, <2>3, <3>1 DEF Answered
      <4> QED BY <1>2, <1>5, <1>8, <3>1, <4>1
    <3>2. CASE r # x[2]
      BY <1>6, <2>1, <2>3, <3>2 DEF Answered
    <3> QED BY <3>1, <3>2
  <2>5. u \in Answers
    <3>1. b[r][DueOut] \in Seq(Answers) /\ b[r][DueOut] = <<u>>
      BY <1>3, <1>4, <2>4
    <3>2. <<u>> \in Seq(Answers)
      BY <3>1
    <3> QED BY <3>2, OneIn
  <2> QED BY <2>3, <2>4, <2>5 DEF Answered
<1>10. \E ans \in [Reps -> Answers] : \A r \in Reps :
                /\ b[r] = Just(DueOut, ans[r])
                /\ \/ ans[r] = DueAns /\ st[r] = ref
                   \/ ans[r] # DueAns /\ r \in faulty /\ "sdc" \in config.kinds
  <2> DEFINE P(r, u) == /\ b[r] = Just(DueOut, u)
                        /\ \/ u = DueAns /\ st[r] = ref
                           \/ u # DueAns /\ r \in faulty /\ "sdc" \in config.kinds
             f == [r \in Reps |-> CHOOSE u \in Answers : P(r, u)]
  <2>1. \A r \in Reps : \E u \in Answers : P(r, u)
    BY <1>9
  <2>2. \A r \in Reps : f[r] \in Answers /\ P(r, f[r])
    BY <2>1
  <2>3. f \in [Reps -> Answers]
    BY <2>2
  <2> QED BY <2>2, <2>3
<1>11. ASSUME NEW y \in select_set PROVE y = x
  <2>1. y[1] = DueOut /\ y[2] \in Reps /\ y = <<DueOut, y[2]>>
    BY ReadAnswer
  <2>2. rep_out[y[2]][y[1]] # <<>>
    BY <1>1 DEF StepPhase
  <2>3. CASE y[2] # x[2]
    <3>1. rep_out[y[2]] = NoOutput
      BY <1>6, <1>9, <2>1, <2>3
    <3> QED BY <1>3, <2>1, <2>2, <3>1, Pipes
  <2> QED BY <1>1, <2>1, <2>3
<1> QED BY ZenonT(30), <1>9, <1>10, <1>11

\* Answers are added up, voted on, and sent or turned down.
LEMMA ProcessFromRepKeeps ==
    ASSUME DMRNotCorrupted, TypeOK, ScanInv, InStep, Faults, StepPhase, Reps' = Reps,
           ProcessFromRep, UNCHANGED config
    PROVE  Faults' /\ StepPhase'
<1>1. PICK x \in select_set, b \in [Reps -> [Outs -> Seq(Answers)]] :
             /\ x[1] \in Outs /\ x[2] \in Reps
             /\ b = [buffers EXCEPT ![x[2]][x[1]] = @ \o rep_out[x[2]][x[1]]]
             /\ Scanned(x, b)
             /\ RestartsOne(x, b) \/ SendsOne(x, b) \/ WaitsForMore(x, b)
  BY ProcessFromRepCases
<1>2. /\ pc = "scan" /\ ext_set = {}
      /\ UNCHANGED <<ext_in, ext_set, rep_in, repVars, histVars>>
  BY DEF ProcessFromRep
<1>3. timer_started /\ Busy /\ x[1] = DueOut
  BY <1>2, ReadAnswer
<1>4. /\ rep_out' = [rep_out EXCEPT ![x[2]][x[1]] = <<>>]
      /\ select_set' = select_set \ {x} /\ current_timer' = current_timer
  BY <1>1, <1>3 DEF Scanned
<1>5. /\ config \in Instances /\ DueOut \in Outs /\ ext_out \in [Outs -> Seq(Answers)]
      /\ expected \in [Outs -> Seq(Answers)]
  BY DueFacts DEF TypeOK
<1>6. Faults'
  BY <1>2 DEF Faults, repVars, histVars
<1>7. NoOutput' = NoOutput /\ NoInput' = NoInput
  BY DEF NoOutput, NoInput
<1>8. /\ \A p \in Ins : ext_in'[p] <= 1
      /\ ext_set' = {} /\ stealing = {} /\ stolen = NoInput
  BY <1>2 DEF StepPhase
<1>9. CASE BytesReady(b, x[1]) > 0
  <2>1. /\ \A r \in Reps : /\ rep_in[r] = NoInput /\ selected[r] = {}
                           /\ rep_out'[r] = NoOutput
        /\ select_set = {x}
    BY <1>1, <1>2, <1>3, <1>4, <1>9, ReadAll
  <2>2. PICK ans \in [Reps -> Answers] : \A r \in Reps :
                /\ b[r] = Just(DueOut, ans[r])
                /\ \/ ans[r] = DueAns /\ st[r] = ref
                   \/ ans[r] # DueAns /\ r \in faulty /\ "sdc" \in config.kinds
    BY <1>1, <1>2, <1>3, <1>4, <1>9, ReadAll
  <2>3. OneEach(b, DueOut, ans) /\ BytesReady(b, x[1]) # 0
    BY <1>5, <1>9, <2>2 DEF OneEach
  <2>4. select_set' = {}
    BY <1>4, <2>1
  <2>5. OneDue
    BY <1>3 DEF Busy
  <2>6. CASE \A r \in Reps : ans[r] = DueAns
    <3>1. Trusted(b, DueOut) \subseteq Reps /\ Trusted(b, DueOut) # {} /\ Outvoted(b, DueOut) = {}
      BY <1>5, <2>3, <2>6, VoteRight
    <3>2. SendsOne(x, b)
      BY <1>1, <1>3, <2>3, <3>1 DEF RestartsOne, WaitsForMore
    <3>3. PICK s \in Reps : SendPipe(b, DueOut, s)
      BY <1>3, <3>1, <3>2 DEF SendsOne
    <3>4. /\ Sent(b, DueOut) = [r \in Reps |-> NoOutput]
          /\ SubSeq(b[s][DueOut], 1, BytesReady(b, DueOut)) = <<DueAns>>
      <4>1. /\ Sent(b, DueOut) = [r \in Reps |-> NoOutput]
            /\ \A q \in Reps : SubSeq(b[q][DueOut], 1, BytesReady(b, DueOut)) = <<ans[q]>>
        BY <1>5, <2>3, VoteFacts
      <4> QED BY <2>6, <4>1
    <3>5. /\ \A r \in Reps : buffers'[r] = NoOutput
          /\ ext_out' = [ext_out EXCEPT ![DueOut] = @ \o <<DueAns>>]
      BY <3>3, <3>4 DEF SendPipe
    <3>6. ext_out' = expected
      BY <1>5, <2>5, <3>5 DEF OneDue
    <3>7. \A r \in Reps : st[r] = ref
      BY <2>2, <2>6
    <3>8. Rest'
      BY <1>2, <1>7, <2>1, <3>5, <3>6, <3>7 DEF Rest, repVars, histVars
    <3>9. /\ pc' = "loop" /\ timer_started' = FALSE
          /\ stealing' = {} /\ stolen' = NoInput
      BY <1>8, <2>4, <3>2 DEF SendsOne, Resume, restVars
    <3>10. StepPhase'
      BY <1>7, <1>8, <2>4, <3>8, <3>9 DEF StepPhase
    <3> QED BY <1>6, <3>10
  <2>7. CASE ~\A r \in Reps : ans[r] = DueAns
    <3>1. PICK w \in Reps : ans[w] # DueAns
      BY <2>7
    <3>2. w \in faulty /\ "sdc" \in config.kinds
      BY <2>2, <3>1
    <3>3. rep_count = 3
      BY <1>5, <3>2, RepsFacts DEF DMRNotCorrupted, rep_count
    <3>4. \A r \in Reps \ {w} : r \notin faulty
      BY <3>2 DEF Faults
    <3>5. \A r \in Reps \ {w} : ans[r] = DueAns /\ st[r] = ref
      BY <2>2, <3>4
    <3>6. /\ Outvoted(b, DueOut) # {} /\ Trusted(b, DueOut) # {}
          /\ \A s \in Outvoted(b, DueOut) : s \in Reps /\ s # w /\ Succ(s, 2) = w
      <4>1. OddOne(ans, w, DueAns)
        BY <3>1, <3>5 DEF OddOne
      <4> QED BY <1>5, <2>3, <3>3, <4>1, VoteWrong
    <3>7. RestartsOne(x, b)
      BY <1>1, <1>3, <2>3, <3>6 DEF SendsOne, WaitsForMore
    <3>8. PICK s \in Reps : s # w /\ RestartPrep(w, s)
      BY <1>3, <3>6, <3>7 DEF RestartsOne
    <3>9. rep_in[s] = NoInput
      BY <2>1
    <3>10. /\ restartee' = w /\ restarter' = s /\ stealing' = {} /\ stolen' = NoInput
           /\ pc' = "steal" /\ timer_started' = FALSE /\ buffers' = b /\ ext_out' = ext_out
      BY <3>7, <3>8, <3>9, Pipes DEF RestartPrep, RestartsOne
    <3>11. UNCHANGED <<Due, DueOut, DueAns>>
      BY <1>2, <1>4 DEF Due, DueOut, DueAns, histVars
    <3>12. OneDue'
      BY <1>2, <2>5, <3>10, <3>11 DEF OneDue, histVars
    <3>13. ASSUME NEW r \in Reps \ {w} PROVE Right(r)' /\ rep_out'[r] = NoOutput
      <4>1. buffers'[r] = Just(DueOut, DueAns) /\ st'[r] = ref' /\ rep_out'[r] = NoOutput
            /\ rep_in'[r] = NoInput /\ selected'[r] = {}
        BY <1>2, <2>1, <2>2, <3>5, <3>10 DEF repVars, histVars
      <4> QED BY <1>7, <3>11, <4>1 DEF Right, Answered
    <3>14. Replacing'
      BY <1>2, <1>7, <3>2, <3>8, <3>10, <3>12, <3>13 DEF Replacing, histVars
    <3>15. StepPhase'
      BY <1>7, <1>8, <2>4, <3>10, <3>14 DEF StepPhase
    <3> QED BY <1>6, <3>15
  <2> QED BY <2>6, <2>7
<1>10. CASE ~(BytesReady(b, x[1]) > 0)
  <2>1. WaitsForMore(x, b)
    BY <1>1, <1>10 DEF RestartsOne, SendsOne
  <2>2. /\ buffers' = b /\ timer_started' = TRUE /\ ext_out' = ext_out
        /\ pc' = Resume(select_set') /\ stealing' = {} /\ stolen' = NoInput
    BY <1>8, <2>1 DEF WaitsForMore, restVars
  <2>3. /\ OneDue'
        /\ \A r \in Reps : Waits(r)' \/ Right(r)' \/ Wrong(r)'
        /\ \A r, q \in Reps : Waits(r)' /\ Waits(q)' => st'[r] = st'[q]
        /\ UNCHANGED <<Due, DueOut, DueAns>>
        /\ \A y \in select_set \ {x} : rep_out'[y[2]][y[1]] # <<>>
    BY <1>1, <1>2, <1>4, <2>2, ReadKeeps DEF repVars, histVars
  <2>4. PICK r \in Reps : Len(b[r][DueOut]) = 0
    <3>1. PICK n \in Nat : n = BytesReady(b, DueOut)
      BY <1>5, ReadyFacts
    <3>2. n = 0
      BY <1>3, <1>10, <3>1
    <3> QED BY <1>5, <3>1, <3>2, ReadyFacts
  <2>5. buffers'[r] = NoOutput
    <3>1. CASE Waits(r)'
      BY <1>7, <3>1 DEF Waits
    <3>2. CASE ~Waits(r)'
      <4>1. PICK a : buffers'[r] = NoOutput \/ buffers'[r] = Just(DueOut, a)
        <5>1. CASE Right(r)'
          BY <1>7, <2>3, <5>1 DEF Right, Answered
        <5>2. CASE Wrong(r)'
          BY <1>7, <2>3, <5>2 DEF Wrong, Answered
        <5> QED BY <2>3, <3>2, <5>1, <5>2
      <4>2. Len(Just(DueOut, a)[DueOut]) = 1
        BY <1>5, JustFacts
      <4>3. Len(buffers'[r][DueOut]) = 0
        BY <2>2, <2>4, Zenon
      <4>4. buffers'[r] # Just(DueOut, a)
        <5>1. Len(buffers'[r][DueOut]) # Len(Just(DueOut, a)[DueOut])
          BY <4>2, <4>3
        <5> QED BY <5>1, Zenon
      <4> QED BY <4>1, <4>4
    <3> QED BY <3>1, <3>2
  <2>6. Busy'
    BY <1>7, <2>3, <2>5 DEF Busy
  <2>7. StepPhase'
    <3>1. CASE select_set' = {}
      BY <1>7, <1>8, <2>2, <2>6, <3>1 DEF StepPhase, Resume
    <3>2. CASE select_set' # {}
      <4>1. pc' = "scan" /\ \A y \in select_set' : rep_out'[y[2]][y[1]] # <<>>
        BY <1>4, <2>2, <2>3, <3>2 DEF Resume
      <4> QED BY <1>7, <1>8, <2>2, <2>6, <4>1 DEF StepPhase
    <3> QED BY <3>1, <3>2
  <2> QED BY <1>6, <2>7
<1> QED BY <1>9, <1>10

\* The timeout blames the replica whose answer is missing.
LEMMA VoterRestartHandlerKeeps ==
    ASSUME TypeOK, InStep, Faults, StepPhase, Reps' = Reps, VoterRestartHandler,
           UNCHANGED config
    PROVE  Faults' /\ StepPhase'
<1>1. /\ pc = "loop" /\ timer_started /\ AllAnswered /\ timer_started' = FALSE
      /\ UNCHANGED <<extVars, ext_set, select_set, current_timer, buffers,
                     rep_in, rep_out, repVars, histVars>>
  BY DEF VoterRestartHandler
<1>2. PICK e : /\ e = BehindRep(buffers, DueOut)
               /\ RestartPrep(e, (e + (rep_count - 1)) % rep_count)
  BY DEF VoterRestartHandler, DueOut
<1>3. Busy /\ ext_set = {} /\ select_set = {}
  BY <1>1 DEF StepPhase
<1>4. /\ config \in Instances /\ DueOut \in Outs /\ Due \in Ins
      /\ buffers \in [Reps -> [Outs -> Seq(Answers)]] /\ priority \in [Reps -> 0 .. 2]
  BY DueFacts DEF TypeOK
<1>5. \A r \in Reps : /\ rep_out[r] = NoOutput
                      /\ status[r] = "up" => rep_in[r] = NoInput
  BY <1>1 DEF AllAnswered
<1>6. PICK w \in Reps : buffers[w] = NoOutput
  BY <1>3 DEF Busy
<1>7. \A a : Just(DueOut, a) # NoOutput /\ Len(Just(DueOut, a)[DueOut]) = 1
  BY <1>4, JustFacts
<1>8. ASSUME NEW r \in Reps, Waits(r) PROVE r \in faulty
  <2>1. rep_in[r] # NoInput
    BY <1>4, <1>8, OnlyFacts DEF Waits
  <2> QED BY <1>5, <2>1 DEF Faults
<1>9. w \in faulty
  <2>1. ~Right(w) /\ ~Wrong(w)
    BY <1>5, <1>6, <1>7 DEF Right, Wrong, Answered
  <2> QED BY <1>3, <1>8, <2>1 DEF Busy
<1>10. ASSUME NEW r \in Reps \ {w}
       PROVE  Right(r) /\ buffers[r] = Just(DueOut, DueAns)
  <2>1. r \notin faulty
    BY <1>9 DEF Faults
  <2>2. Right(r)
    BY <1>3, <1>8, <2>1 DEF Busy, Wrong
  <2> QED BY <1>5, <1>7, <2>2 DEF Right, Answered
<1>11. e = w
  <2>1. /\ e \in Reps
        /\ ~(Len(buffers[w][DueOut]) < Len(buffers[e][DueOut]))
    BY <1>2, <1>4, BehindFacts
  <2>2. Len(buffers[w][DueOut]) = 0
    BY <1>4, <1>6, Pipes
  <2>3. e # w => Len(buffers[e][DueOut]) = 1
    BY <1>7, <1>10, <2>1
  <2> QED BY <2>1, <2>2, <2>3
<1>12. PICK s \in Reps : s # w /\ RestartPrep(w, s)
  BY <1>2, <1>4, <1>11, SuccFacts
<1>13. /\ restartee' = w /\ restarter' = s /\ stealing' = {} /\ stolen' = NoInput
       /\ pc' = "steal"
  <2>1. rep_in[s] = NoInput
    BY <1>10, <1>12 DEF Right, Answered
  <2> QED BY <1>12, <2>1, Pipes DEF RestartPrep
<1>14. UNCHANGED <<Due, DueOut, DueAns>>
  BY <1>1 DEF Due, DueOut, DueAns, histVars
<1>15. NoOutput' = NoOutput /\ NoInput' = NoInput
  BY DEF NoOutput, NoInput
<1>16. \A r \in Reps \ {w} : Right(r)' /\ rep_out'[r] = NoOutput
  <2>1. \A r \in Reps : Right(r) => Right(r)'
    BY <1>1, <1>14 DEF Right, Answered, repVars, histVars
  <2> QED BY <1>1, <1>5, <1>10, <2>1
<1>17. OneDue'
  BY <1>1, <1>3, <1>14 DEF Busy, OneDue, extVars, histVars
<1>18. Replacing'
  BY <1>1, <1>9, <1>12, <1>13, <1>15, <1>16, <1>17 DEF Replacing, histVars
<1>19. Faults'
  BY <1>1 DEF Faults, repVars, histVars
<1>20. StepPhase'
  BY <1>1, <1>3, <1>13, <1>15, <1>18 DEF StepPhase, extVars
<1> QED BY <1>19, <1>20

\* The restartee is killed.
LEMMA KillRestarteeKeeps ==
    ASSUME TypeOK, InStep, Faults, StepPhase, Reps' = Reps, KillRestartee,
           UNCHANGED config
    PROVE  Faults' /\ StepPhase'
<1>1. /\ pc = "steal" /\ pc' = "fork"
      /\ status' = [status EXCEPT ![restartee] = "dead"]
      /\ UNCHANGED <<extVars, ext_set, select_set, timeVars, buffers, restVars,
                     rep_in, rep_out, selected, st, insertSDC, insertCFE, histVars>>
  BY DEF KillRestartee
<1>2. ~timer_started /\ Replacing
  BY <1>1 DEF StepPhase
<1>3. Faults'
  <2>1. ASSUME NEW r \in Reps, status'[r] # "up" PROVE r \in faulty
    <3>1. CASE r = restartee
      BY <1>2, <3>1 DEF Replacing
    <3>2. CASE r # restartee
      <4>1. status \in [Reps -> {"up", "looping", "dead"}]
        BY DEF TypeOK
      <4>2. status'[r] = status[r]
        BY <1>1, <3>2, <4>1
      <4> QED BY <2>1, <4>2 DEF Faults
    <3> QED BY <3>1, <3>2
  <2> QED BY <1>1, <2>1 DEF Faults, histVars
<1>4. Replacing'
  <2>1. UNCHANGED <<Due, DueOut, DueAns>>
    BY <1>1 DEF Due, DueOut, DueAns, timeVars, histVars
  <2>2. \A r \in Reps : Right(r) => Right(r)'
    BY <1>1, <2>1 DEF Right, Answered, histVars
  <2>3. OneDue'
    BY <1>1, <1>2, <2>1 DEF Replacing, OneDue, extVars, histVars
  <2>4. NoOutput' = NoOutput
    BY DEF NoOutput
  <2> QED BY <1>1, <1>2, <2>2, <2>3, <2>4 DEF Replacing, restVars, histVars
<1>5. StepPhase'
  <2>1. NoInput' = NoInput
    BY DEF NoInput
  <2> QED BY <1>1, <1>2, <1>4, <2>1 DEF StepPhase, extVars, timeVars, restVars
<1> QED BY <1>3, <1>5

\* A pipe in which nothing is ready.
LEMMA NothingReady ==
    ASSUME config \in Instances, NEW b \in [Reps -> [Outs -> Seq(Answers)]],
           NEW p \in Outs, \A r \in Reps : b[r][p] = <<>>
    PROVE  /\ \A r \in Reps : Sent(b, p)[r][p] = <<>>
           /\ \A s \in Reps : SubSeq(b[s][p], 1, BytesReady(b, p)) = <<>>
<1>1. BytesReady(b, p) = 0
  <2>1. PICK r \in Reps : BytesReady(b, p) = Len(b[r][p])
    BY ReadyFacts
  <2>2. Len(b[r][p]) = 0
    BY <2>1
  <2> QED BY <2>1, <2>2
<1>2. SubSeq(<<>>, 1, 0) = <<>>
  BY SubSeqEmpty
<1>3. ASSUME NEW r \in Reps PROVE Sent(b, p)[r][p] = <<>>
  <2>1. Sent(b, p)[r][p] = SubSeq(b[r][p], BytesReady(b, p) + 1, Len(b[r][p]))
    BY DEF Sent
  <2>2. BytesReady(b, p) + 1 = 1 /\ Len(b[r][p]) = 0
    BY <1>1
  <2> QED BY <1>2, <2>1, <2>2
<1> QED BY <1>1, <1>2, <1>3

\* The copy takes its place, and the answer that was due is sent.
LEMMA ForkAndSendKeeps ==
    ASSUME TypeOK, InStep, Faults, StepPhase, Reps' = Reps, ForkAndSend,
           UNCHANGED config
    PROVE  Faults' /\ StepPhase'
<1> DEFINE e == restartee
           s == restarter
<1>1. /\ pc = "fork" /\ pc' = "return"
      /\ stealing' = {p \in Ins : stolen[p] > 0}
      /\ UNCHANGED <<ext_in, sent, ext_set, select_set, timeVars, restartee,
                     restarter, stolen, ref, expected>>
  BY DEF ForkAndSend
<1>2. /\ ~timer_started /\ Replacing /\ stealing = {} /\ stolen = NoInput
      /\ ext_set = {} /\ select_set = {} /\ \A p \in Ins : ext_in[p] <= 1
  BY <1>1 DEF StepPhase
<1>3. /\ e \in Reps /\ s \in Reps /\ s # e /\ e \in faulty /\ s \notin faulty
      /\ \A r \in Reps \ {e} : r \notin faulty
  BY <1>2 DEF Replacing, Faults, TypeOK
<1>4. /\ config \in Instances /\ DueOut \in Outs
      /\ buffers \in [Reps -> [Outs -> Seq(Answers)]]
      /\ rep_out \in [Reps -> [Outs -> Seq(Answers)]]
      /\ expected \in [Outs -> Seq(Answers)] /\ ext_out \in [Outs -> Seq(Answers)]
  BY DueFacts DEF TypeOK
<1>5. /\ rep_in \in [Reps -> [Ins -> Nat]]
      /\ selected \in [Reps -> SUBSET Ins] /\ st \in [Reps -> AStarState]
      /\ status \in [Reps -> {"up", "looping", "dead"}]
      /\ insertSDC \in [Reps -> BOOLEAN] /\ insertCFE \in [Reps -> BOOLEAN]
  BY DEF TypeOK
<1>6. ASSUME NEW r \in Reps \ {e}
      PROVE  /\ rep_in[r] = NoInput /\ selected[r] = {} /\ rep_out[r] = NoOutput
             /\ buffers[r] = Just(DueOut, DueAns) /\ st[r] = ref
  <2>1. Right(r) /\ rep_out[r] = NoOutput
    BY <1>2 DEF Replacing
  <2>2. Just(DueOut, DueAns) # NoOutput
    BY <1>4, JustFacts
  <2> QED BY <2>1, <2>2 DEF Right, Answered
<1>7. DueAns \in Answers
  <2>1. buffers[s][DueOut] \in Seq(Answers)
    BY <1>3, <1>4
  <2>2. Just(DueOut, DueAns)[DueOut] = <<DueAns>>
    BY <1>4, JustFacts
  <2>3. <<DueAns>> \in Seq(Answers)
    BY <1>3, <1>6, <2>1, <2>2
  <2> QED BY <2>3, OneIn
<1>8. PICK b \in [Reps -> [Outs -> Seq(Answers)]] :
             /\ b = [buffers EXCEPT ![e] = buffers[s]]
             /\ buffers' = [r \in Reps |-> [p \in Outs |-> Sent(b, p)[r][p]]]
             /\ ext_out' = [p \in Outs |->
                   ext_out[p] \o SubSeq(b[s][p], 1, BytesReady(b, p))]
  BY ForkAndSendCases
<1>9. \A r \in Reps : b[r] = Just(DueOut, DueAns)
  BY <1>3, <1>4, <1>6, <1>8
<1>10. OneEach(b, DueOut, [r \in Reps |-> DueAns])
  BY <1>4, <1>7, <1>9 DEF OneEach
<1>11. /\ Sent(b, DueOut) = [r \in Reps |-> NoOutput]
       /\ SubSeq(b[s][DueOut], 1, BytesReady(b, DueOut)) = <<DueAns>>
  <2>1. /\ Sent(b, DueOut) = [r \in Reps |-> NoOutput]
        /\ \A q \in Reps : SubSeq(b[q][DueOut], 1, BytesReady(b, DueOut))
                             = <<[r \in Reps |-> DueAns][q]>>
    BY <1>4, <1>10, VoteFacts
  <2> QED BY <1>3, <2>1
<1>12. ASSUME NEW p \in Outs \ {DueOut}
       PROVE  /\ \A r \in Reps : Sent(b, p)[r][p] = <<>>
              /\ SubSeq(b[s][p], 1, BytesReady(b, p)) = <<>>
  <2>1. Just(DueOut, DueAns)[p] = <<>>
    BY DEF Just
  <2>2. \A r \in Reps : b[r][p] = <<>>
    BY <1>9, <2>1
  <2> QED BY <1>3, <1>4, <2>2, NothingReady
<1>13. \A r \in Reps : buffers'[r] = NoOutput
  <2>1. ASSUME NEW r \in Reps, NEW p \in Outs PROVE Sent(b, p)[r][p] = <<>>
    <3>1. CASE p = DueOut
      BY <1>11, <3>1, Pipes
    <3>2. CASE p # DueOut
      BY <1>12, <3>2
    <3> QED BY <3>1, <3>2
  <2> QED BY <1>8, <2>1 DEF NoOutput
<1>14. ext_out' = expected
  <2>1. ASSUME NEW p \in Outs
        PROVE  ext_out[p] \o SubSeq(b[s][p], 1, BytesReady(b, p)) = expected[p]
    <3>1. CASE p = DueOut
      BY <1>2, <1>11, <3>1 DEF Replacing, OneDue
    <3>2. CASE p # DueOut
      <4>1. ext_out[p] = expected[p]
        BY <1>2, <3>2 DEF Replacing, OneDue
      <4>2. ext_out[p] \o <<>> = ext_out[p]
        <5>1. ext_out[p] \in Seq(Answers)
          BY <1>4
        <5> QED BY <5>1, ConcatEmptySeq
      <4> QED BY <1>12, <3>2, <4>1, <4>2
    <3> QED BY <3>1, <3>2
  <2> QED BY <1>4, <1>8, <2>1
<1>15. PICK skip \in SUBSET Interrupted(s) :
          selected' = [selected EXCEPT ![e] = selected[s] \ skip,
                                       ![s] = selected[s] \ skip]
  BY DEF ForkAndSend
<1>16. /\ status' = [status EXCEPT ![e] = status[s]]
       /\ st' = [st EXCEPT ![e] = st[s]]
       /\ insertSDC' = [insertSDC EXCEPT ![e] = insertSDC[s]]
       /\ insertCFE' = [insertCFE EXCEPT ![e] = insertCFE[s]]
       /\ rep_in' = [rep_in EXCEPT ![e] = NoInput]
       /\ rep_out' = [rep_out EXCEPT ![e] = NoOutput]
       /\ faulty' = faulty \ {e}
  BY <1>3 DEF ForkAndSend
<1>17. ASSUME NEW r \in Reps
       PROVE  /\ rep_in'[r] = NoInput /\ selected'[r] = {} /\ rep_out'[r] = NoOutput
              /\ st'[r] = ref
  <2>1. selected[s] = {} /\ st[s] = ref
    BY <1>3, <1>6
  <2>2. selected'[r] = {}
    BY <1>3, <1>5, <1>6, <1>15, <2>1
  <2> QED BY <1>3, <1>4, <1>5, <1>6, <1>16, <2>1, <2>2
<1>18. NoOutput' = NoOutput /\ NoInput' = NoInput
  BY DEF NoOutput, NoInput
<1>19. Rest'
  BY <1>1, <1>13, <1>14, <1>17, <1>18 DEF Rest
<1>20. Faults'
  <2>1. \A r \in Reps \ {e} :
          status[r] = "up" /\ insertSDC[r] = FALSE /\ insertCFE[r] = FALSE
    BY <1>3, <1>5 DEF Faults
  <2>2. \A r \in Reps :
          status'[r] = "up" /\ insertSDC'[r] = FALSE /\ insertCFE'[r] = FALSE
    BY <1>3, <1>5, <1>16, <2>1
  <2>3. \A q, r \in faulty' : q = r
    BY <1>16 DEF Faults
  <2> QED BY <2>2, <2>3 DEF Faults
<1>21. stealing' = {} /\ stolen' = NoInput
  BY <1>1, <1>2, Pipes
<1>22. StepPhase'
  BY <1>1, <1>2, <1>18, <1>19, <1>21 DEF StepPhase, timeVars
<1> QED BY <1>20, <1>22

\* Then the voter goes on as before.
LEMMA RestartedKeeps ==
    ASSUME TypeOK, InStep, Faults, StepPhase, Reps' = Reps, Restarted,
           UNCHANGED config
    PROVE  Faults' /\ StepPhase'
<1>1. /\ pc = "return" /\ pc' = Resume(select_set) /\ stolen' = NoInput
      /\ UNCHANGED <<extVars, ext_set, select_set, timeVars, buffers,
                     stealing, rep_in, rep_out, repVars, histVars>>
  BY DEF Restarted
<1>2. Rest /\ ~timer_started /\ select_set = {}
  BY <1>1 DEF StepPhase
<1>3. pc' = "loop"
  BY <1>1, <1>2 DEF Resume
<1>4. NoOutput' = NoOutput /\ NoInput' = NoInput
  BY DEF NoOutput, NoInput
<1>5. Rest'
  BY <1>1, <1>2, <1>4 DEF Rest, extVars, repVars, histVars
<1>6. Faults'
  BY <1>1 DEF Faults, repVars, histVars
<1>7. StepPhase'
  BY <1>1, <1>2, <1>3, <1>4, <1>5 DEF StepPhase, extVars, timeVars
<1> QED BY <1>6, <1>7

\* At the start nothing is under way.
LEMMA InitStep == Init => StepInv
<1> SUFFICES ASSUME Init PROVE Faults /\ StepPhase
  BY DEF StepInv
<1>1. ASSUME NEW r \in Reps
      PROVE  /\ rep_in[r] = NoInput /\ selected[r] = {} /\ rep_out[r] = NoOutput
             /\ buffers[r] = NoOutput /\ st[r] = ref /\ status[r] = "up"
             /\ insertSDC[r] = FALSE /\ insertCFE[r] = FALSE
  BY DEF Init
<1>2. faulty = {} /\ ext_out = expected
  BY DEF Init
<1>3. Faults
  BY <1>1, <1>2 DEF Faults
<1>4. Rest
  BY <1>1, <1>2 DEF Rest
<1>5. \A p \in Ins : ext_in[p] <= 1
  BY Pipes DEF Init
<1>6. StepPhase
  BY <1>4, <1>5 DEF Init, StepPhase
<1> QED BY <1>3, <1>6

\* What holds in step holds after each step.
LEMMA NextStep ==
    ASSUME DMRNotCorrupted, TypeOK, ScanInv, StepInv, [Next]_vars
    PROVE  StepInv'
<1> SUFFICES ASSUME InStep' PROVE Faults' /\ StepPhase'
  BY DEF StepInv
<1>1. UNCHANGED config /\ Reps' = Reps
  BY NextType DEF Reps, rep_count
<1>2. InStep /\ Faults /\ StepPhase
  BY <1>1 DEF InStep, StepInv
<1>3. ASSUME NEW p \in Ins, Send(p) PROVE Faults' /\ StepPhase'
  BY <1>1, <1>2, <1>3, SendKeeps
<1>4. ASSUME NEW r \in Reps, Select(r) \/ RecvMapUpdate(r) \/ SendWaypoints(r)
      PROVE  Faults' /\ StepPhase'
  BY <1>1, <1>2, <1>4, ReplicaKeeps
<1>5. ASSUME NEW r \in Reps, NEW kind \in config.kinds, Fault(r, kind)
      PROVE  Faults' /\ StepPhase'
  BY <1>1, <1>2, <1>5, FaultKeeps
<1>6. CASE Voter
  <2>1. CASE VoterSelect
    BY <1>1, <1>2, <2>1, VoterSelectKeeps
  <2>2. ASSUME NEW p \in Ins, ProcessData(p) PROVE Faults' /\ StepPhase'
    BY <1>1, <1>2, <2>2, ProcessDataKeeps
  <2>3. CASE ProcessFromRep
    BY <1>1, <1>2, <2>3, ProcessFromRepKeeps
  <2>4. CASE VoterRestartHandler
    BY <1>1, <1>2, <2>4, VoterRestartHandlerKeeps
  <2>5. CASE StealPipe \/ ReturnPipe
    BY <1>2, <2>5 DEF StealPipe, ReturnPipe, StepPhase
  <2>6. CASE KillRestartee
    BY <1>1, <1>2, <2>6, KillRestarteeKeeps
  <2>7. CASE ForkAndSend
    BY <1>1, <1>2, <2>7, ForkAndSendKeeps
  <2>8. CASE Restarted
    BY <1>1, <1>2, <2>8, RestartedKeeps
  <2> QED BY <1>6, <2>1, <2>2, <2>3, <2>4, <2>5, <2>6, <2>7, <2>8 DEF Voter
<1>7. CASE UNCHANGED vars
  <2>1. StepPhase'
    BY <1>1, <1>2, <1>7, PhaseSame DEF vars, repVars, histVars
  <2>2. Faults'
    BY <1>1, <1>2, <1>7 DEF Faults, vars, repVars, histVars
  <2> QED BY <2>1, <2>2
<1> QED BY <1>3, <1>4, <1>5, <1>6, <1>7 DEF Next, Environment, Replicas, Injector

-----------------------------------------------------------------------------
(***************************************************************************)
(* The theorems.                                                           *)
(***************************************************************************)

\* For every bound and every set of faults the voter's state has its types,
\* and a restart keeps hold of each input it steals.
LEMMA AlwaysPlans == Spec => [](TypeOK /\ ScanInv /\ PlansInv /\ StealInv)
<1> DEFINE I == TypeOK /\ ScanInv /\ PlansInv /\ StealInv
<1>1. Init => I
  <2>1. Init => ScanInv
    BY DEF Init, ScanInv
  <2> QED BY <2>1, InitType, InitPlans
<1>2. I /\ [Next]_vars => I'
  BY NextType, NextPlans
<1> QED BY <1>1, <1>2, PTL DEF Spec

\* The state of the voter and its replicas has its types (voterd.c,
\* replicas.c).
THEOREM TypeCorrect == Spec => []TypeOK
  BY AlwaysPlans, PTL

\* However many inputs come at once, and whatever the faults, no restart
\* loses or repeats an update: it is in each replica's plan or in its pipe
\* when the voter is back in its loop (stealPipes, returnPipes).  This is the
\* first part of HealthyAgree, and all of it where the voter is not in step.
THEOREM RestartsKeepUpdates ==
    Spec => [](pc \in {"loop", "scan"} =>
                 \A r \in Reps : st[r].plan + rep_in[r][MAP_UPDATE] = ref.plan)
<1> DEFINE Kept == pc \in {"loop", "scan"} =>
                     \A r \in Reps : st[r].plan + rep_in[r][MAP_UPDATE] = ref.plan
<1>1. ASSUME TypeOK, PlansInv PROVE Kept
  <2> SUFFICES ASSUME pc \in {"loop", "scan"}, NEW r \in Reps
               PROVE  st[r].plan + rep_in[r][MAP_UPDATE] = ref.plan
    OBVIOUS
  <2>1. Stolen(r) = 0
    BY DEF Stolen
  <2>2. st[r].plan + rep_in[r][MAP_UPDATE] + Stolen(r) = ref.plan
    BY <1>1 DEF PlansInv
  <2>3. st[r].plan \in Nat /\ rep_in[r][MAP_UPDATE] \in Nat
    BY <1>1, PlanTypes
  <2> QED BY <2>1, <2>2, <2>3
<1>2. TypeOK /\ PlansInv => Kept
  BY <1>1
<1> QED BY <1>2, AlwaysPlans, PTL

\* All of the invariant holds, as long as two replicas are not asked to say
\* which of them is wrong.
LEMMA Always ==
    ASSUME DMRNotCorrupted
    PROVE  Spec => []VoterDInv
<1>1. Init => StepInv
  BY InitStep
<1>2. TypeOK /\ ScanInv /\ StepInv /\ [Next]_vars => StepInv'
  BY NextStep
<1>3. TypeOK /\ ScanInv /\ PlansInv /\ StealInv /\ StepInv => VoterDInv
  BY DEF VoterDInv
<1> QED BY <1>1, <1>2, <1>3, AlwaysPlans, PTL DEF Spec

\* What was sent is a prefix when nothing or one answer is missing.
LEMMA PrefixFacts ==
    ASSUME NEW s \in Seq(Answers), NEW t \in Seq(Answers), NEW a,
           t = s \/ s \o <<a>> = t
    PROVE  IsPrefix(s, t)
<1>1. CASE t = s
  BY <1>1 DEF IsPrefix
<1>2. CASE s \o <<a>> = t
  <2>1. Len(t) = Len(s) + 1 /\ \A i \in 1 .. Len(s) : t[i] = s[i]
    <3> DEFINE A == Answers \cup {a}
    <3>1. s \in Seq(A) /\ <<a>> \in Seq(A) /\ Len(<<a>>) = 1
      OBVIOUS
    <3>2. /\ Len(s \o <<a>>) = Len(s) + 1
          /\ \A i \in 1 .. Len(s) : (s \o <<a>>)[i] = s[i]
      BY <3>1, ConcatProperties
    <3> QED BY <1>2, <3>2
  <2>2. Len(s) \in Nat /\ Len(t) \in Nat /\ Len(s) <= Len(t)
    BY <2>1
  <2>3. /\ \A i \in 1 .. Len(s) : s[i] \in Answers
        /\ \A i \in 1 .. Len(s) : t[i] \in Answers
    BY <2>1
  <2>4. /\ SubSeq(s, 1, Len(s)) \in Seq(Answers) /\ Len(SubSeq(s, 1, Len(s))) = Len(s)
        /\ \A i \in 1 .. Len(s) : SubSeq(s, 1, Len(s))[i] = s[i]
    BY <2>2, <2>3, SubSeqProperties
  <2>5. /\ SubSeq(t, 1, Len(s)) \in Seq(Answers) /\ Len(SubSeq(t, 1, Len(s))) = Len(s)
        /\ \A i \in 1 .. Len(s) : SubSeq(t, 1, Len(s))[i] = t[i]
    BY <2>2, <2>3, SubSeqProperties
  <2>6. SubSeq(s, 1, Len(s)) = SubSeq(t, 1, Len(s))
    BY <2>1, <2>4, <2>5, SeqEqual
  <2> QED BY <2>2, <2>6 DEF IsPrefix
<1> QED BY <1>1, <1>2

\* Where the voter is, and what is under way.
LEMMA Phases ==
    ASSUME VoterDInv, InStep
    PROVE  /\ TypeOK /\ Faults /\ StepPhase
           /\ \/ pc \in {"loop", "scan", "return"} /\ Rest
              \/ pc \in {"loop", "scan"} /\ Busy
              \/ pc \in {"steal", "fork"} /\ Replacing
<1>1. TypeOK /\ Faults /\ StepPhase
  BY DEF VoterDInv, StepInv
<1>2. pc \in {"loop", "scan", "steal", "fork", "return"}
  BY <1>1 DEF TypeOK
<1> QED BY <1>1, <1>2 DEF StepPhase

\* In step, what leaves the voter is what one AStar that never fails would
\* have sent (checkSDC, restart_prep).
THEOREM AnswersStayRight ==
    ASSUME DMRNotCorrupted
    PROVE  Spec => []VotedAnswersRight
<1>1. ASSUME VoterDInv PROVE VotedAnswersRight
  <2> SUFFICES ASSUME InStep, NEW p \in Outs PROVE IsPrefix(ext_out[p], expected[p])
    BY DEF VotedAnswersRight
  <2>1. ext_out[p] \in Seq(Answers) /\ expected[p] \in Seq(Answers)
    BY <1>1, Phases DEF TypeOK
  <2>2. Rest \/ OneDue
    BY <1>1, Phases DEF Busy, Replacing
  <2>3. expected[p] = ext_out[p] \/ ext_out[p] \o <<DueAns>> = expected[p]
    BY <2>2 DEF Rest, OneDue
  <2> QED BY <2>1, <2>3, PrefixFacts
<1>2. VoterDInv => VotedAnswersRight
  BY <1>1
<1> QED BY <1>2, Always, PTL

\* In step, only the faulty replica is killed, by a vote or by the timeout
\* (behindRep, checkSDC).
THEOREM OnlyFaultyIsKilled ==
    ASSUME DMRNotCorrupted
    PROVE  Spec => []OnlyFaultyKilled
<1>1. ASSUME VoterDInv PROVE OnlyFaultyKilled
  BY <1>1, Phases DEF OnlyFaultyKilled, Replacing
<1>2. VoterDInv => OnlyFaultyKilled
  BY <1>1
<1> QED BY <1>2, Always, PTL

\* In step, the voter never waits where nobody writes: the replica that is to
\* fork runs, what is left of a scan has data, and nothing is to be stolen
\* that its replica could take itself (restart_prep, stealPipes,
\* processFromRep).
THEOREM VoterNeverBlocks ==
    ASSUME DMRNotCorrupted
    PROVE  Spec => []NeverBlocks
<1>1. ASSUME VoterDInv PROVE NeverBlocks
  <2> SUFFICES ASSUME InStep
               PROVE  /\ pc \in {"steal", "fork"} => status[restarter] = "up"
                      /\ pc = "scan" => \A x \in select_set : rep_out[x[2]][x[1]] # <<>>
                      /\ pc = "steal" => \A p \in stealing : rep_in[restarter][p] > 0
    BY DEF NeverBlocks
  <2>1. TypeOK /\ Faults /\ StepPhase
    BY <1>1, Phases
  <2>2. ASSUME pc \in {"steal", "fork"} PROVE status[restarter] = "up"
    <3>1. restartee \in faulty /\ restarter # restartee
      BY <2>1, <2>2 DEF StepPhase, Replacing
    <3>2. restarter \in Reps
      BY <2>1 DEF TypeOK
    <3> QED BY <2>1, <3>1, <3>2 DEF Faults
  <2>3. pc = "scan" => \A x \in select_set : rep_out[x[2]][x[1]] # <<>>
    BY <2>1 DEF StepPhase
  <2>4. pc = "steal" => \A p \in stealing : rep_in[restarter][p] > 0
    BY <2>1 DEF StepPhase
  <2> QED BY <2>2, <2>3, <2>4
<1>2. VoterDInv => NeverBlocks
  BY <1>1
<1> QED BY <1>2, Always, PTL

\* Between restarts no update is lost or repeated, and in step the healthy
\* replicas that have taken the same inputs are in the same state.
THEOREM ReplicasStayHealthy ==
    ASSUME DMRNotCorrupted
    PROVE  Spec => []HealthyAgree
<1> DEFINE Kept == pc \in {"loop", "scan"} =>
                     \A r \in Reps : st[r].plan + rep_in[r][MAP_UPDATE] = ref.plan
<1>1. ASSUME VoterDInv, InStep, pc \in {"loop", "scan"},
             NEW r \in Reps \ faulty, NEW q \in Reps \ faulty, rep_in[r] = rep_in[q]
      PROVE  st[r] = st[q]
  <2>1. Rest \/ Busy
    BY <1>1, Phases
  <2>2. CASE Rest
    BY <2>2 DEF Rest
  <2>3. CASE Busy
    <3>1. Waits(r) \/ Right(r)
      BY <2>3 DEF Busy, Wrong
    <3>2. Waits(q) \/ Right(q)
      BY <2>3 DEF Busy, Wrong
    <3>3. Only(Due) # NoInput
      BY <1>1, Phases, DueFacts, OnlyFacts
    <3>4. (Waits(r) /\ Waits(q)) \/ (Right(r) /\ Right(q))
      BY <1>1, <3>1, <3>2, <3>3 DEF Waits, Right, Answered
    <3> QED BY <2>3, <3>4 DEF Busy, Right
  <2> QED BY <2>1, <2>2, <2>3
<1>2. VoterDInv /\ Kept => HealthyAgree
  BY <1>1 DEF HealthyAgree
<1> HIDE DEF Kept
<1>3. Spec => []Kept
  BY RestartsKeepUpdates DEF Kept
<1> QED BY <1>2, <1>3, Always, PTL
=============================================================================
