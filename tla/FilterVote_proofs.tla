------------------------- MODULE FilterVote_proofs -------------------------
(***************************************************************************)
(* Proofs about FilterVote.  In both builds, with two replicas or three    *)
(* and any number of readings and faults, what comes out is right and the  *)
(* replica that is killed is the faulty one, as far as the voter has what  *)
(* it takes to tell one from the other (Decidable).                        *)
(*                                                                         *)
(* RoundInv is the inductive invariant.  It follows an answer from the     *)
(* replica (Answering) through the pipes into the voting buffers           *)
(* (Answered): the timed output is written last and never reported alone   *)
(* (Selecting), so that who is counted as done has answered on every pipe  *)
(* (Gathering), and a vote or a restart starts from whole answers (Voting).*)
(***************************************************************************)
EXTENDS FilterVote, FiniteSetTheorems, SequenceTheorems, TLAPS

(***************************************************************************)
(* What a round keeps.                                                     *)
(***************************************************************************)
\* Where one fault can be told from the rest: while select() looks at one pipe
\* after the other none but kills strike, and no two answers differ.
Decidable(c) ==
    /\ c.scan => c.kinds \subseteq {"kill"}
    /\ c.rep_count = 2 => "sdc" \notin c.kinds

\* The outputs that are gathered in the round they are written in.
Tracked == IF config.scan THEN {L_N} ELSE Outs

\* The answers that replica r may give to the reading of this round.
Good == [seq |-> sensed, bad |-> FALSE]
Wrong == [seq |-> sensed, bad |-> TRUE]
Answers(r) == {Good} \cup {m \in {Wrong} : r \in faulty /\ "sdc" \in config.kinds}

\* On pipe p, m was written and the voter has read it, or can.
Holds(r, p, m) ==
    \/ fd_outs[r][p] = <<m>> /\ buffers[r][p] = <<>>
    \/ fd_outs[r][p] = <<>> /\ buffers[r][p] = <<m>>

\* Pipe p of replica r is empty, and so is its voting buffer.
Nothing(r, p) == fd_outs[r][p] = <<>> /\ buffers[r][p] = <<>>

\* Pipe p of replica r is not empty, or its voting buffer is not.
Kept(r, p) == fd_outs[r][p] # <<>> \/ buffers[r][p] # <<>>

\* Replica r has the reading, or has written its answer to the pipes before
\* the one it is at; the untimed ones may hold earlier answers as well.
Answering(r) ==
    \/ /\ fd_ins[r] = <<sensed>> /\ cmd[r] = Idle
       /\ \A p \in Tracked : Nothing(r, p)
    \/ /\ fd_ins[r] = <<>>
       /\ \E m \in Answers(r) :
            /\ cmd[r] = Idle \/ (cmd[r].msg = m /\ cmd[r].next \in Outs)
            /\ \A p \in Tracked : IF p < cmd[r].next THEN Holds(r, p, m) ELSE Nothing(r, p)
            /\ \A p \in Outs : p < cmd[r].next => Kept(r, p)

\* Replica r has nothing to do, and nothing that it wrote is still to be read.
AtRest(r) ==
    /\ fd_ins[r] = <<>> /\ cmd[r] = Idle
    /\ \A p \in Tracked : fd_outs[r][p] = <<>>

\* The buffers of replica r are empty, or they hold one whole answer.
Clear(r)  == \A p \in Tracked : buffers[r][p] = <<>>
Has(r, m) == \A p \in Tracked : buffers[r][p] = <<m>>

\* The replicas the reading was sent to, those whose timed answer was read, and
\* those sendCollect need not wait for any more.
Given(r)  == IF SINGLE_CORE THEN r < turn \/ (r = turn /\ pc # "send") ELSE pc # "send"
Done      == {r \in Reps : buffers[r][L_N] # <<>>}
Passed(r) == r \in Done \/ (r = fault_index /\ r \in faulty)

\* The voter has read the whole answer of replica r.
Answered(r) ==
    /\ Answering(r) /\ r \in Done
    /\ \A p \in Tracked : fd_outs[r][p] = <<>>

\* The answers to one reading: those it was given to are answering, and those that
\* have answered are counted (collectFromReps, sendCollect).
Gathering ==
    /\ \A r \in Reps : IF Given(r) THEN Answering(r) ELSE AtRest(r) /\ Clear(r)
    /\ \A r \in Done : Answered(r)
    /\ rep_done = Cardinality(Done)
    /\ SINGLE_CORE => \A r \in Reps : r < turn => Passed(r)
    /\ pc # "send" => IF SINGLE_CORE THEN turn \notin Done ELSE Done # Reps

\* Whatever select() reports is there, and the timed answer never alone.
Selecting ==
    /\ \A r \in Reps, p \in Outs : <<r, p>> \in seen =>
         fd_outs[r][p] # <<>> /\ (SINGLE_CORE => r = turn)
    /\ \A r \in Reps : <<r, L_N>> \in seen =>
         \A p \in Tracked : fd_outs[r][p] # <<>> => <<r, p>> \in seen
    /\ ~config.scan /\ pc = "select" => seen = {}

\* Between the readings all replicas are at rest.  A vote has every answer, and a
\* restart the answers of all but the one that is killed.
Voting ==
    /\ pc = "recv" => \A r \in Reps : AtRest(r) /\ Clear(r)
    /\ pc = "vote" => \A r \in Reps : Answered(r)
    /\ pc = "send0" => (\A r \in Reps : AtRest(r)) /\ Has(0, Good)
    /\ pc \in {"kill", "restart"} =>
         /\ ~config.scan => fault_index \in faulty
         /\ \A r \in Reps \ {fault_index} : Answered(r)
    /\ pc = "restart" =>
         /\ fd_ins[fault_index] = <<>> /\ status[fault_index] = "dead"
         /\ \A p \in Tracked : fd_outs[fault_index][p] = <<>>
    /\ pc = "sendRestarter" =>
         (\A r \in Reps : AtRest(r)) /\ Has(Restarter(fault_index), Good)

\* The readings are counted by what came out.
Counted ==
    /\ \A p \in Tracked : Right(p)
    /\ pc = "recv" => /\ ext_in = <<>> \/ (sensed > 0 /\ ext_in = <<sensed>>)
                      /\ \A p \in Tracked : Len(ext_out[p]) + Len(ext_in) = sensed
    /\ pc # "recv" => /\ ext_in = <<>> /\ ext_in_buffer = sensed /\ sensed > 0
                      /\ \A p \in Tracked : Len(ext_out[p]) + 1 = sensed

\* One replica is out of order at a time, by a fault or because it was killed.
Harmed(r) == status[r] # "up" \/ insertSDC[r] \/ insertCFE[r]
Faulty ==
    /\ \A r, q \in faulty : r = q
    /\ faulty # {} => config.kinds # {}
    /\ \A r \in Reps : /\ Harmed(r) => r \in faulty \/ (pc = "restart" /\ r = fault_index)
                       /\ insertSDC[r] => "sdc" \in config.kinds
                       /\ insertCFE[r] \/ status[r] = "looping" => "cfe" \in config.kinds

\* Types, and cmd holds a pipe there is.
Types ==
    /\ TypeOK
    /\ cmd \in [Reps -> {Idle} \cup [msg : Msg, next : Outs]]
    /\ ~config.scan => pos = 0

\* The inductive invariant.
RoundInv ==
    /\ Types
    /\ pc \in {"send", "select", "read"} => Gathering
    /\ pc \in {"select", "read"} => Selecting
    /\ Voting /\ Counted /\ Faulty

-----------------------------------------------------------------------------
(***************************************************************************)
(* Facts about the constants and the replicas.                             *)
(***************************************************************************)
\* Two replicas or three, and the tracked outputs.
LEMMA Instance ==
    ASSUME config \in Instances
    PROVE  /\ rep_count \in {2, 3} /\ rep_count \in Nat
           /\ config.scan \in BOOLEAN /\ SINGLE_CORE \in BOOLEAN
           /\ Reps = IF rep_count = 2 THEN {0, 1} ELSE {0, 1, 2}
           /\ Reps \subseteq {0, 1, 2} /\ 0 \in Reps
           /\ Tracked \subseteq Outs /\ L_N \in Tracked
           /\ ~config.scan => Tracked = Outs
           /\ config.scan => Tracked = {L_N}
           /\ config.kinds \subseteq {"kill", "sdc", "cfe"}
<1>1. config \in [rep_count : 2..3, SINGLE_CORE : BOOLEAN, scan : BOOLEAN,
                  kinds : SUBSET {"kill", "sdc", "cfe"}]
  BY FilterVoteAssumption DEF FilterVoteAssumption
<1>2. rep_count \in {2, 3}
  BY <1>1 DEF rep_count
<1>3. Reps = IF rep_count = 2 THEN {0, 1} ELSE {0, 1, 2}
  <2>1. CASE rep_count = 2
    <3>1. Reps = 0 .. 1
      BY <2>1 DEF Reps
    <3> QED BY <3>1, <2>1
  <2>2. CASE rep_count = 3
    <3>1. Reps = 0 .. 2
      BY <2>2 DEF Reps
    <3> QED BY <3>1, <2>2
  <2> QED BY <2>1, <2>2, <1>2
<1>4. config.scan \in BOOLEAN /\ SINGLE_CORE \in BOOLEAN /\ config.kinds \subseteq {"kill", "sdc", "cfe"}
  BY <1>1 DEF SINGLE_CORE
<1> QED BY <1>2, <1>3, <1>4 DEF Tracked, Outs, L_N, MAP, LOG

\* The timed output is the last one.
LEMMA TimedLast ==
    ASSUME config \in Instances, NEW r, Answering(r),
           fd_outs[r][L_N] # <<>> \/ buffers[r][L_N] # <<>>
    PROVE  /\ fd_ins[r] = <<>> /\ cmd[r] = Idle
           /\ ~(fd_outs[r][L_N] # <<>> /\ buffers[r][L_N] # <<>>)
           /\ \E m \in Answers(r) : \A p \in Tracked : Holds(r, p, m)
<1>1. L_N \in Tracked /\ L_N = 3 /\ Outs = {1, 2, 3} /\ Tracked \subseteq Outs /\ Idle.next = 4
  BY Instance DEF L_N, Outs, MAP, LOG, Idle
<1>2. ~Nothing(r, L_N)
  BY DEF Nothing
<1>3. PICK m \in Answers(r) :
        /\ cmd[r] = Idle \/ (cmd[r].msg = m /\ cmd[r].next \in Outs)
        /\ \A p \in Tracked : IF p < cmd[r].next THEN Holds(r, p, m) ELSE Nothing(r, p)
        /\ fd_ins[r] = <<>>
  BY <1>1, <1>2 DEF Answering
<1>4. L_N < cmd[r].next /\ Holds(r, L_N, m)
  BY <1>1, <1>2, <1>3
<1>5. cmd[r] = Idle
  BY <1>1, <1>3, <1>4
<1>6. ~(fd_outs[r][L_N] # <<>> /\ buffers[r][L_N] # <<>>)
  BY <1>4 DEF Holds
<1>7. \A p \in Tracked : p < 4
  BY <1>1
<1> QED BY <1>1, <1>3, <1>5, <1>6, <1>7

\* Of a replica that is not corrupted, what was read is the right answer.
LEMMA AnsweredIs ==
    ASSUME config \in Instances, NEW r, Answered(r)
    PROVE  /\ AtRest(r)
           /\ \E m \in Answers(r) : Has(r, m)
           /\ r \notin faulty \/ "sdc" \notin config.kinds => Has(r, Good)
<1>1. /\ fd_ins[r] = <<>> /\ cmd[r] = Idle
      /\ \E m \in Answers(r) : \A p \in Tracked : Holds(r, p, m)
  BY TimedLast DEF Answered, Done
<1>2. \E m \in Answers(r) : Has(r, m)
  BY <1>1 DEF Answered, Holds, Has
<1>3. r \notin faulty \/ "sdc" \notin config.kinds => Answers(r) = {Good}
  BY DEF Answers
<1> QED BY <1>1, <1>2, <1>3 DEF Answered, AtRest

\* What a step that does not touch replica r keeps.
LEMMA SameReplica ==
    ASSUME NEW r, config' = config, sensed' = sensed, fd_ins'[r] = fd_ins[r],
           cmd'[r] = cmd[r], fd_outs'[r] = fd_outs[r], buffers'[r] = buffers[r],
           r \in faulty => r \in faulty'
    PROVE  /\ Answering(r) => Answering(r)'
           /\ AtRest(r) => AtRest(r)'
           /\ Clear(r) => Clear(r)'
           /\ Answered(r) => Answered(r)'
           /\ Good' = Good
<1>1. /\ Good' = Good /\ Wrong' = Wrong /\ Tracked' = Tracked /\ Reps' = Reps
      /\ \A m \in Answers(r) : m \in Answers(r)'
  BY DEF Good, Wrong, Tracked, Answers, Reps, rep_count
<1>2. \A p : /\ (Nothing(r, p) => Nothing(r, p)') /\ (Kept(r, p) => Kept(r, p)')
             /\ \A m : Holds(r, p, m) => Holds(r, p, m)'
  BY DEF Nothing, Kept, Holds
<1>3. Answering(r) => Answering(r)'
  BY <1>1, <1>2 DEF Answering
<1>4. Answered(r) => Answered(r)'
  BY <1>1, <1>3 DEF Answered, Done
<1> QED BY <1>1, <1>3, <1>4 DEF AtRest, Clear

\* Initially the voter is between two rounds.
LEMMA InitRound == ASSUME Init PROVE RoundInv
<1>0. config \in Instances
  BY DEF Init
<1>1. /\ rep_count \in {2, 3} /\ 0 \in Reps /\ Tracked \subseteq Outs
      /\ config.kinds \subseteq {"kill", "sdc", "cfe"}
  BY <1>0, Instance
<1>2. NoOutput \in [Outs -> Seq(Msg)] /\ \A p \in Outs : NoOutput[p] = <<>> /\ Len(NoOutput[p]) = 0
  BY DEF NoOutput
<1>3. Types
  <2>2. buffers \in [Reps -> [Outs -> Seq(Msg)]] /\ fd_outs \in [Reps -> [Outs -> Seq(Msg)]]
        /\ ext_out \in [Outs -> Seq(Msg)]
    BY <1>2 DEF Init
  <2>3. turn \in Reps /\ fault_index \in Reps /\ rep_done \in 0 .. rep_count
    BY <1>1 DEF Init
  <2>5. TypeOK
    BY <1>0, <2>2, <2>3 DEF Init, TypeOK
  <2>6. cmd \in [Reps -> {Idle} \cup [msg : Msg, next : Outs]] /\ pos = 0
    BY DEF Init
  <2> QED BY <2>5, <2>6 DEF Types
<1>4. Voting
  <2>1. \A r \in Reps : AtRest(r) /\ Clear(r)
    BY <1>1, <1>2 DEF Init, AtRest, Clear
  <2> QED BY <2>1 DEF Init, Voting
<1>5. Counted
  BY <1>1, <1>2 DEF Init, Counted, Right
<1>6. Faulty
  BY DEF Init, Faulty, Harmed
<1> QED BY <1>3, <1>4, <1>5, <1>6 DEF Init, RoundInv

\* The replica that is asked to fork is another one.
LEMMA RestarterIs ==
    ASSUME config \in Instances, NEW f \in Reps
    PROVE  Restarter(f) \in Reps /\ Restarter(f) # f
<1>1. CASE rep_count = 2
  <2>1. Reps = {0, 1}
    BY <1>1, Instance
  <2>2. (0 + (2 - 1)) % 2 = 1 /\ (1 + (2 - 1)) % 2 = 0
    OBVIOUS
  <2>3. f = 0 \/ f = 1
    BY <2>1
  <2> QED BY <1>1, <2>1, <2>2, <2>3 DEF Restarter
<1>2. CASE rep_count = 3
  <2>1. Reps = {0, 1, 2}
    BY <1>2, Instance
  <2>2. (0 + (3 - 1)) % 3 = 2 /\ (1 + (3 - 1)) % 3 = 0 /\ (2 + (3 - 1)) % 3 = 1
    OBVIOUS
  <2>3. f = 0 \/ f = 1 \/ f = 2
    BY <2>1
  <2> QED BY <1>2, <2>1, <2>2, <2>3 DEF Restarter
<1> QED BY <1>1, <1>2, Instance

\* A replica whose timed answer is written has answered.
LEMMA Written ==
    ASSUME RoundInv, pc \in {"send", "select", "read"}, NEW r \in Reps,
           fd_outs[r][L_N] # <<>> \/ buffers[r][L_N] # <<>>
    PROVE  /\ Given(r) /\ Answering(r)
           /\ fd_ins[r] = <<>> /\ cmd[r] = Idle
           /\ ~(fd_outs[r][L_N] # <<>> /\ buffers[r][L_N] # <<>>)
<1>1. L_N \in Tracked /\ config \in Instances
  BY Instance DEF RoundInv, Types, TypeOK
<1>2. Given(r) /\ Answering(r)
  BY <1>1 DEF RoundInv, Gathering, AtRest, Clear
<1> QED BY <1>1, <1>2, TimedLast

\* A step of one replica, or in it.
LEMMA ReplicaStep ==
    ASSUME RoundInv, NEW r \in Reps,
           UNCHANGED <<config, outVars, pc, ext_in_buffer, scanVars, buffers, fault_index>>,
           \A q \in faulty : q \in faulty',
           \A q \in Reps \ {r} : /\ fd_ins'[q] = fd_ins[q] /\ cmd'[q] = cmd[q]
                                 /\ fd_outs'[q] = fd_outs[q],
           status[r] = "dead" \/ (fd_ins[r] = <<>> /\ cmd[r] = Idle) =>
                /\ fd_ins'[r] = fd_ins[r] /\ cmd'[r] = cmd[r] /\ fd_outs'[r] = fd_outs[r],
           status[r] = "dead" => status'[r] = "dead",
           \A q \in Reps \ {r} : status'[q] = status[q],
           \A p \in Outs : fd_outs[r][p] # <<>> => fd_outs'[r][p] # <<>>,
           pc \in {"send", "select", "read"} /\ Given(r) /\ Answering(r) => Answering(r)',
           Types', Faulty'
    PROVE  RoundInv'
<1> USE DEF outVars, scanVars
<1>0. /\ Reps' = Reps /\ Tracked' = Tracked /\ Done' = Done /\ rep_count' = rep_count
      /\ SINGLE_CORE' = SINGLE_CORE
      /\ L_N \in Tracked /\ Tracked \subseteq Outs
  BY Instance DEF RoundInv, Types, TypeOK, Reps, Tracked, Done, rep_count, SINGLE_CORE
<1>1. \A q \in Reps \ {r} :
         /\ Answering(q) => Answering(q)'
         /\ AtRest(q) => AtRest(q)'
         /\ Clear(q) => Clear(q)'
         /\ Answered(q) => Answered(q)'
  BY SameReplica
<1>2. /\ AtRest(r) => AtRest(r)'
      /\ Clear(r) => Clear(r)'
      /\ Answered(r) => Answered(r)'
  <2>1. AtRest(r) => AtRest(r)'
    <3> SUFFICES ASSUME AtRest(r) PROVE AtRest(r)'
      OBVIOUS
    <3>1. fd_ins'[r] = fd_ins[r] /\ cmd'[r] = cmd[r] /\ fd_outs'[r] = fd_outs[r]
      BY DEF AtRest
    <3> QED BY <3>1, SameReplica
  <2>2. Answered(r) => Answered(r)'
    <3> SUFFICES ASSUME Answered(r) PROVE Answered(r)'
      OBVIOUS
    <3>1. AtRest(r)
      BY AnsweredIs DEF RoundInv, Types, TypeOK
    <3>2. fd_ins'[r] = fd_ins[r] /\ cmd'[r] = cmd[r] /\ fd_outs'[r] = fd_outs[r]
      BY <3>1 DEF AtRest
    <3> QED BY <3>2, SameReplica
  <2> QED BY <1>0, <2>1, <2>2 DEF Clear
<1>3. Good' = Good
  BY DEF Good
<1>4. ASSUME pc \in {"send", "select", "read"}
      PROVE  Gathering'
  <2>1. Gathering
    BY <1>4 DEF RoundInv
  <2>2. \A q \in Reps : Given(q)' <=> Given(q)
    BY <1>0 DEF Given
  <2>3. \A q \in Reps : IF Given(q)' THEN Answering(q)' ELSE AtRest(q)' /\ Clear(q)'
    BY <1>1, <1>2, <1>4, <2>1, <2>2 DEF Gathering
  <2>4. \A q \in Done : Answered(q)'
    BY <1>1, <1>2, <2>1 DEF Gathering, Done
  <2>5. SINGLE_CORE => \A q \in Reps : q < turn => Passed(q)'
    BY <1>0, <2>1 DEF Gathering, Passed
  <2> QED BY <1>0, <2>1, <2>3, <2>4, <2>5 DEF Gathering
<1>5. ASSUME pc \in {"select", "read"}
      PROVE  Selecting'
  <2>1. Selecting /\ Gathering
    BY <1>5 DEF RoundInv
  <2>2. \A q \in Reps, p \in Outs : <<q, p>> \in seen => fd_outs'[q][p] # <<>>
    BY <2>1 DEF Selecting
  <2>3. \A q \in Reps : <<q, L_N>> \in seen => fd_outs'[q] = fd_outs[q]
    <3> SUFFICES ASSUME <<r, L_N>> \in seen PROVE fd_outs'[r] = fd_outs[r]
      OBVIOUS
    <3>1. fd_outs[r][L_N] # <<>>
      BY <1>0, <2>1 DEF Selecting
    <3>2. fd_ins[r] = <<>> /\ cmd[r] = Idle
      BY <1>5, <3>1, Written
    <3> QED BY <3>2
  <2> QED BY <1>0, <2>1, <2>2, <2>3 DEF Selecting
<1>6. Voting'
  <2>1. Voting
    BY DEF RoundInv
  <2>2. pc \in {"kill", "restart"} =>
          /\ ~config.scan => fault_index \in faulty'
          /\ \A q \in Reps \ {fault_index} : Answered(q)'
    BY <1>1, <1>2, <1>3, <2>1 DEF Voting
  <2>3. pc = "restart" =>
         /\ fd_ins'[fault_index] = <<>> /\ status'[fault_index] = "dead"
         /\ \A p \in Tracked : fd_outs'[fault_index][p] = <<>>
    <3> SUFFICES ASSUME pc = "restart"
                 PROVE  /\ fd_ins'[fault_index] = <<>> /\ status'[fault_index] = "dead"
                        /\ \A p \in Tracked : fd_outs'[fault_index][p] = <<>>
      OBVIOUS
    <3>1. fault_index \in Reps
      BY DEF RoundInv, Types, TypeOK
    <3> QED BY <2>1, <3>1 DEF Voting
  <2>4. Restarter(fault_index) \in Reps
    BY RestarterIs DEF RoundInv, Types, TypeOK
  <2>5. Restarter(fault_index)' = Restarter(fault_index)
    BY <1>0 DEF Restarter
  <2>6. pc = "sendRestarter" => (\A q \in Reps : AtRest(q)') /\ Has(Restarter(fault_index), Good)'
    <3> SUFFICES ASSUME pc = "sendRestarter"
                 PROVE  (\A q \in Reps : AtRest(q)') /\ Has(Restarter(fault_index), Good)'
      OBVIOUS
    <3>1. (\A q \in Reps : AtRest(q)) /\ Has(Restarter(fault_index), Good)
      BY <2>1 DEF Voting
    <3>2. Has(Restarter(fault_index), Good)'
      BY <1>3, <1>0, <2>5, <3>1 DEF Has
    <3> QED BY <1>1, <1>2, <3>1, <3>2
  <2>7. pc = "send0" => (\A q \in Reps : AtRest(q)') /\ Has(0, Good)'
    <3> SUFFICES ASSUME pc = "send0" PROVE (\A q \in Reps : AtRest(q)') /\ Has(0, Good)'
      OBVIOUS
    <3>1. (\A q \in Reps : AtRest(q)) /\ Has(0, Good)
      BY <2>1 DEF Voting
    <3>2. Has(0, Good)'
      BY <1>3, <1>0, <3>1 DEF Has
    <3> QED BY <1>1, <1>2, <3>1, <3>2
  <2>8. pc = "vote" => \A q \in Reps : Answered(q)'
    BY <1>1, <1>2, <2>1 DEF Voting
  <2>9. pc = "recv" => \A q \in Reps : AtRest(q)' /\ Clear(q)'
    BY <1>1, <1>2, <2>1 DEF Voting
  <2> QED BY <1>0, <2>2, <2>3, <2>6, <2>7, <2>8, <2>9 DEF Voting
<1>7. Counted'
  BY <1>0 DEF RoundInv, Counted, Right
<1> QED BY <1>4, <1>5, <1>6, <1>7 DEF RoundInv

-----------------------------------------------------------------------------
(***************************************************************************)
(* The steps of the outside, of the replicas, and faults.                  *)
(***************************************************************************)
\* A reading from outside waits at the voter, and comes only when the last one
\* is answered.
LEMMA SendReadingStep ==
    ASSUME RoundInv, SendReading, UNCHANGED config
    PROVE  RoundInv'
<1> USE DEF SendReading, scanVars, repVars, histVars
<1>0. /\ Reps' = Reps /\ Tracked' = Tracked /\ L_N \in Tracked /\ Tracked \subseteq Outs
  BY Instance DEF RoundInv, Types, TypeOK, Reps, Tracked, rep_count
<1>1. Types
  BY DEF RoundInv
<1>2. Types'
  <2>1. ext_in' \in Seq(Nat) /\ sensed' \in Nat
    BY <1>1 DEF Types, TypeOK
  <2>2. TypeOK'
    BY <1>0, <1>1, <2>1 DEF Types, TypeOK, rep_count
  <2> QED BY <1>0, <1>1, <2>2 DEF Types
<1>3. pc = "recv" /\ ext_in = <<>>
  <2>1. Counted /\ sensed \in Nat /\ Len(ext_out[L_N]) \in Nat /\ Len(ext_in) \in Nat
    BY <1>0, <1>1 DEF RoundInv, Types, TypeOK
  <2>2. pc = "recv"
    BY <1>0, <2>1 DEF Counted
  <2>3. ext_in = <<sensed>> => Len(ext_in) = 1
    OBVIOUS
  <2> QED BY <1>0, <2>1, <2>2, <2>3 DEF Counted
<1>4. Voting'
  <2>1. \A r \in Reps : AtRest(r)' /\ Clear(r)'
    BY <1>0, <1>3 DEF RoundInv, Voting, AtRest, Clear
  <2> QED BY <1>0, <1>3, <2>1 DEF Voting
<1>5. Counted'
  <2>1. ext_in' = <<sensed'>> /\ sensed' = sensed + 1 /\ sensed' > 0 /\ Len(ext_in') = 1
    BY <1>1, <1>3 DEF Types, TypeOK
  <2>2. \A p \in Tracked : Len(ext_out[p]) \in Nat /\ Len(ext_out[p]) + Len(ext_in) = sensed
    BY <1>0, <1>1, <1>3 DEF RoundInv, Counted, Types, TypeOK
  <2>3. Len(ext_in) = 0
    BY <1>3
  <2>4. \A p \in Tracked : Len(ext_out'[p]) + Len(ext_in') = sensed'
    BY <2>1, <2>2, <2>3
  <2>5. \A p \in Tracked : Right(p)'
    BY DEF RoundInv, Counted, Right
  <2> QED BY <1>0, <1>3, <2>1, <2>4, <2>5 DEF Counted
<1>6. Faulty'
  BY <1>0 DEF RoundInv, Faulty, Harmed
<1> QED BY <1>2, <1>3, <1>4, <1>5, <1>6 DEF RoundInv

\* A replica reads its reading, or hangs (enterLoop).
LEMMA FilterReadStep ==
    ASSUME RoundInv, NEW r \in Reps, FilterRead(r), UNCHANGED config
    PROVE  RoundInv'
<1> USE DEF outVars, scanVars, histVars
<1>0. /\ Reps' = Reps /\ Tracked' = Tracked /\ L_N \in Tracked /\ Tracked \subseteq Outs
      /\ rep_count' = rep_count
  BY Instance DEF FilterRead, RoundInv, Types, TypeOK, Reps, Tracked, rep_count
<1>1. Types /\ Faulty
  BY DEF RoundInv
<1>2. /\ status \in [Reps -> {"up", "looping", "dead"}] /\ fd_ins \in [Reps -> Seq(Nat)]
      /\ insertSDC \in [Reps -> BOOLEAN] /\ insertCFE \in [Reps -> BOOLEAN]
      /\ cmd \in [Reps -> {Idle} \cup [msg : Msg, next : Outs]]
  BY <1>1 DEF Types, TypeOK
<1>3. status[r] = "up" /\ cmd[r] = Idle /\ fd_ins[r] # <<>>
  BY DEF FilterRead
<1>4. CASE insertCFE[r]
  <2>1. /\ status' = [status EXCEPT ![r] = "looping"]
        /\ UNCHANGED <<insertSDC, cmd, fd_ins, fd_outs, insertCFE, faulty, faults>>
        /\ UNCHANGED <<config, outVars, pc, ext_in_buffer, scanVars, buffers, fault_index>>
    BY <1>4 DEF FilterRead
  <2>2. Types'
    <3>1. status' \in [Reps -> {"up", "looping", "dead"}]
      BY <1>2, <2>1
    <3>2. TypeOK'
      BY <1>0, <1>1, <2>1, <3>1 DEF Types, TypeOK
    <3> QED BY <1>0, <1>1, <2>1, <3>2 DEF Types
  <2>3. Faulty'
    BY <1>0, <1>1, <1>2, <1>4, <2>1 DEF Faulty, Harmed
  <2>4. Answering(r) => Answering(r)'
    BY <2>1, SameReplica
  <2>5. \A q \in Reps \ {r} : status'[q] = status[q]
    BY <1>2, <2>1
  <2> HIDE DEF outVars, scanVars
  <2> QED BY <1>3, <2>1, <2>2, <2>3, <2>4, <2>5, ReplicaStep
<1>5. CASE ~insertCFE[r]
  <2> DEFINE m == [seq |-> Head(fd_ins[r]), bad |-> insertSDC[r]]
  <2>1. /\ fd_ins' = [fd_ins EXCEPT ![r] = Tail(fd_ins[r])]
        /\ cmd' = [cmd EXCEPT ![r] = [msg |-> m, next |-> MAP]]
        /\ insertSDC' = [insertSDC EXCEPT ![r] = FALSE]
        /\ UNCHANGED <<status, fd_outs, insertCFE, faulty, faults>>
        /\ UNCHANGED <<config, outVars, pc, ext_in_buffer, scanVars, buffers, fault_index>>
    BY <1>5 DEF FilterRead
  <2>2. Types'
    <3>1. Head(fd_ins[r]) \in Nat /\ Tail(fd_ins[r]) \in Seq(Nat)
      BY <1>2, <1>3
    <3>2. m \in Msg
      BY <1>2, <3>1 DEF Msg
    <3>3. [msg |-> m, next |-> MAP] \in [msg : Msg, next : Outs]
      BY <3>2 DEF Outs
    <3>4. /\ fd_ins' \in [Reps -> Seq(Nat)] /\ insertSDC' \in [Reps -> BOOLEAN]
          /\ cmd' \in [Reps -> {Idle} \cup [msg : Msg, next : Outs]]
      BY <1>2, <2>1, <3>1, <3>3
    <3>5. TypeOK'
      BY <1>0, <1>1, <2>1, <3>4 DEF Types, TypeOK
    <3> QED BY <1>0, <1>1, <2>1, <3>4, <3>5 DEF Types
  <2>3. Faulty'
    <3>1. \A q \in Reps : insertSDC'[q] => insertSDC[q]
      BY <1>2, <2>1
    <3> QED BY <1>0, <1>1, <2>1, <3>1 DEF Faulty, Harmed
  <2>4. ASSUME pc \in {"send", "select", "read"}, Answering(r)
        PROVE  Answering(r)'
    <3>1. fd_ins[r] = <<sensed>> /\ \A p \in Tracked : Nothing(r, p)
      BY <1>3, <2>4 DEF Answering
    <3>2. Head(fd_ins[r]) = sensed /\ Tail(fd_ins[r]) = <<>>
      BY <3>1
    <3>3. insertSDC[r] => r \in faulty /\ "sdc" \in config.kinds
      BY <1>1, <2>4 DEF Faulty, Harmed
    <3>4. m = IF insertSDC[r] THEN Wrong ELSE Good
      BY <1>2, <3>2 DEF Wrong, Good
    <3>5. m \in Answers(r)
      BY <3>3, <3>4 DEF Answers
    <3>6. m \in Answers(r)'
      BY <2>1, <3>5 DEF Answers, Good, Wrong
    <3>7. fd_ins'[r] = <<>> /\ cmd'[r].msg = m /\ cmd'[r].next = 1
      BY <1>2, <2>1, <3>2 DEF MAP
    <3>8. \A p \in Outs : ~(p < 1)
      BY DEF Outs, MAP, LOG, L_N
    <3>9. \A p \in Tracked : Nothing(r, p)'
      BY <2>1, <3>1 DEF Nothing
    <3>10. \A p \in Tracked : ~(p < 1)
      BY <1>0, <3>8
    <3>11. m \in Answers(r)' /\ cmd'[r].next \in Outs
      BY <3>6, <3>7 DEF Outs, MAP
    <3> HIDE DEF m
    <3> QED BY <1>0, <3>7, <3>8, <3>9, <3>10, <3>11 DEF Answering
  <2>5. \A q \in Reps \ {r} : fd_ins'[q] = fd_ins[q] /\ cmd'[q] = cmd[q]
    BY <1>2, <2>1
  <2> HIDE DEF outVars, scanVars, m
  <2> QED BY <1>3, <2>1, <2>2, <2>3, <2>4, <2>5, ReplicaStep
<1> QED BY <1>4, <1>5

\* command(): the next of the three writes.
LEMMA FilterWriteStep ==
    ASSUME RoundInv, NEW r \in Reps, FilterWrite(r), UNCHANGED config
    PROVE  RoundInv'
<1> USE DEF outVars, scanVars, histVars
<1>0. /\ Reps' = Reps /\ Tracked' = Tracked /\ L_N \in Tracked /\ Tracked \subseteq Outs
      /\ rep_count' = rep_count
  BY Instance DEF FilterWrite, RoundInv, Types, TypeOK, Reps, Tracked, rep_count
<1>1. Types /\ Faulty
  BY DEF RoundInv
<1>2. /\ fd_outs \in [Reps -> [Outs -> Seq(Msg)]]
      /\ cmd \in [Reps -> {Idle} \cup [msg : Msg, next : Outs]]
      /\ Outs = {1, 2, 3} /\ L_N = 3
  BY <1>1 DEF Types, TypeOK, Outs, MAP, LOG, L_N
<1>3. status[r] = "up" /\ cmd[r] # Idle
  BY DEF FilterWrite
<1> DEFINE n == cmd[r].next
           m == cmd[r].msg
<1>4. m \in Msg /\ n \in Outs
  BY <1>2, <1>3
<1>6. /\ cmd' = [cmd EXCEPT ![r] = IF n = L_N THEN Idle ELSE [msg |-> m, next |-> n + 1]]
      /\ fd_outs' = [fd_outs EXCEPT ![r] = [fd_outs[r] EXCEPT ![n] = Append(fd_outs[r][n], m)]]
      /\ UNCHANGED <<status, fd_ins, insertSDC, insertCFE, faulty, faults>>
      /\ UNCHANGED <<config, outVars, pc, ext_in_buffer, scanVars, buffers, fault_index>>
  <2>2. cmd' = [cmd EXCEPT ![r] = IF n = L_N THEN Idle ELSE [msg |-> m, next |-> n + 1]]
    BY DEF FilterWrite
  <2>3. fd_outs' = [fd_outs EXCEPT ![r] = [fd_outs[r] EXCEPT ![n] = Append(fd_outs[r][n], m)]]
    BY DEF FilterWrite, NextOut
  <2> QED BY <2>2, <2>3 DEF FilterWrite
<1> HIDE DEF n, m
<1>7. /\ fd_outs'[r][n] = Append(fd_outs[r][n], m)
      /\ \A p \in Outs \ {n} : fd_outs'[r][p] = fd_outs[r][p]
      /\ \A q \in Reps \ {r} : fd_outs'[q] = fd_outs[q] /\ cmd'[q] = cmd[q]
      /\ cmd'[r] = IF n = L_N THEN Idle ELSE [msg |-> m, next |-> n + 1]
  BY <1>2, <1>4, <1>6
<1>8. Types'
  <2>1. n # L_N => n + 1 \in Outs
    BY <1>2, <1>4
  <2>2. cmd' \in [Reps -> {Idle} \cup [msg : Msg, next : Outs]]
    BY <1>2, <1>4, <1>6, <2>1
  <2>3. fd_outs[r][n] \in Seq(Msg)
    BY <1>2, <1>4
  <2>4. Append(fd_outs[r][n], m) \in Seq(Msg)
    BY <1>4, <2>3
  <2>5. fd_outs' \in [Reps -> [Outs -> Seq(Msg)]]
    BY <1>2, <1>4, <1>6, <2>4
  <2>6. TypeOK'
    BY <1>0, <1>1, <1>6, <2>5 DEF Types, TypeOK
  <2> QED BY <1>0, <1>1, <1>6, <2>2, <2>6 DEF Types
<1>9. Faulty'
  BY <1>0, <1>1, <1>6 DEF Faulty, Harmed
<1>10. \A p \in Outs : fd_outs[r][p] # <<>> => fd_outs'[r][p] # <<>>
  <2>1. Append(fd_outs[r][n], m) # <<>>
    <3>1. fd_outs[r][n] \in Seq(Msg)
      BY <1>2, <1>4
    <3> QED BY <3>1, <1>4, AppendProperties
  <2> QED BY <1>7, <2>1
<1>11. ASSUME Answering(r) PROVE Answering(r)'
  <2>1. PICK a \in Answers(r) :
          /\ fd_ins[r] = <<>> /\ m = a
          /\ \A p \in Tracked : IF p < n THEN Holds(r, p, a) ELSE Nothing(r, p)
          /\ \A p \in Outs : p < n => Kept(r, p)
    BY <1>3, <1>11 DEF Answering, n, m
  <2>2. a \in Answers(r)'
    BY <1>6, <2>1 DEF Answers, Good, Wrong
  <2>3. cmd'[r] = Idle \/ (cmd'[r].msg = a /\ cmd'[r].next \in Outs)
    <3>1. n # L_N => n + 1 \in Outs
      BY <1>2, <1>4
    <3> QED BY <1>7, <2>1, <3>1
  <2>4. cmd'[r].next = n + 1
    <3>1. Idle.next = L_N + 1
      BY DEF Idle
    <3> QED BY <1>7, <3>1
  <2>5. ASSUME NEW p \in Tracked
        PROVE  IF p < n + 1 THEN Holds(r, p, a)' ELSE Nothing(r, p)'
    <3>1. p \in Outs
      BY <1>0
    <3>2. CASE p = n
      <4>1. Nothing(r, n)
        BY <1>2, <1>4, <2>1, <3>2
      <4>2. fd_outs'[r][p] = <<a>> /\ buffers'[r][p] = <<>>
        BY <1>6, <1>7, <2>1, <3>2, <4>1 DEF Nothing
      <4>3. Holds(r, p, a)'
        BY <4>2 DEF Holds
      <4> QED BY <1>2, <1>4, <3>2, <4>3
    <3>3. CASE p # n
      <4>1. fd_outs'[r][p] = fd_outs[r][p] /\ buffers'[r][p] = buffers[r][p]
        BY <1>6, <1>7, <3>1, <3>3
      <4>2. (Nothing(r, p) => Nothing(r, p)') /\ (Holds(r, p, a) => Holds(r, p, a)')
        BY <4>1 DEF Nothing, Holds
      <4>3. p < n + 1 <=> p < n
        BY <1>2, <1>4, <3>1, <3>3
      <4> QED BY <2>1, <4>2, <4>3
    <3> QED BY <3>2, <3>3
  <2>6. fd_ins'[r] = <<>>
    BY <1>6, <2>1
  <2>7. ASSUME NEW p \in Outs, p < n + 1 PROVE Kept(r, p)'
    <3>1. CASE p = n
      <4>1. Append(fd_outs[r][n], m) # <<>>
        <5>1. fd_outs[r][n] \in Seq(Msg)
          BY <1>2, <1>4
        <5> QED BY <5>1, <1>4, AppendProperties
      <4> QED BY <1>7, <3>1, <4>1 DEF Kept
    <3>2. CASE p # n
      <4>1. p < n
        BY <1>2, <1>4, <2>7, <3>2
      <4>2. fd_outs'[r][p] = fd_outs[r][p] /\ buffers'[r][p] = buffers[r][p]
        BY <1>6, <1>7, <3>2
      <4> QED BY <2>1, <4>1, <4>2 DEF Kept
    <3> QED BY <3>1, <3>2
  <2> QED BY <1>0, <2>2, <2>3, <2>4, <2>5, <2>6, <2>7 DEF Answering, Outs, MAP, LOG, L_N
<1> HIDE DEF outVars, scanVars
<1> QED BY <1>3, <1>6, <1>7, <1>8, <1>9, <1>10, <1>11, ReplicaStep

\* A fault strikes one replica when no other is out of order.
LEMMA FaultStep ==
    ASSUME RoundInv, NEW r \in Reps, NEW kind \in config.kinds, Fault(r, kind), UNCHANGED config
    PROVE  RoundInv'
<1> USE DEF outVars, scanVars
<1>0. /\ Reps' = Reps /\ Tracked' = Tracked /\ L_N \in Tracked /\ Tracked \subseteq Outs
      /\ rep_count' = rep_count
  BY Instance DEF Fault, RoundInv, Types, TypeOK, Reps, Tracked, rep_count
<1>1. Types /\ Faulty
  BY DEF RoundInv
<1>2. /\ status \in [Reps -> {"up", "looping", "dead"}] /\ faults \in Nat
      /\ insertSDC \in [Reps -> BOOLEAN] /\ insertCFE \in [Reps -> BOOLEAN]
  BY <1>1 DEF Types, TypeOK
<1>3. /\ faulty = {} /\ faulty' = {r} /\ status[r] = "up" /\ faults' = faults + 1
      /\ status' = IF kind = "kill" THEN [status EXCEPT ![r] = "dead"] ELSE status
      /\ insertSDC' = [insertSDC EXCEPT ![r] = insertSDC[r] \/ kind = "sdc"]
      /\ insertCFE' = [insertCFE EXCEPT ![r] = insertCFE[r] \/ kind = "cfe"]
      /\ UNCHANGED <<fd_ins, fd_outs, cmd>>
      /\ UNCHANGED <<config, outVars, pc, ext_in_buffer, scanVars, buffers, fault_index>>
  BY DEF Fault
<1>4. Types'
  <2>1. (insertSDC[r] \/ kind = "sdc") \in BOOLEAN /\ (insertCFE[r] \/ kind = "cfe") \in BOOLEAN
    OBVIOUS
  <2>2. insertSDC' \in [Reps -> BOOLEAN] /\ insertCFE' \in [Reps -> BOOLEAN]
    BY <1>2, <1>3, <2>1
  <2>3. status' \in [Reps -> {"up", "looping", "dead"}]
    BY <1>2, <1>3
  <2>4. faulty' \subseteq Reps /\ faults' \in Nat
    BY <1>2, <1>3
  <2>5. TypeOK'
    BY <1>0, <1>1, <1>3, <2>2, <2>3, <2>4 DEF Types, TypeOK
  <2> QED BY <1>0, <1>1, <1>3, <2>5 DEF Types
<1>5. \A q \in Reps \ {r} :
         /\ status'[q] = status[q]
         /\ insertSDC'[q] = insertSDC[q] /\ insertCFE'[q] = insertCFE[q]
  BY <1>2, <1>3
<1>6. Faulty'
  <2>1. insertSDC'[r] => insertSDC[r] \/ kind = "sdc"
    BY <1>2, <1>3
  <2>2. \A q \in Reps : insertSDC'[q] => "sdc" \in config.kinds
    BY <1>1, <1>5, <2>1 DEF Faulty
  <2>4. insertCFE'[r] => insertCFE[r] \/ kind = "cfe"
    BY <1>2, <1>3
  <2>5. status'[r] = "looping" => status[r] = "looping"
    BY <1>2, <1>3
  <2>6. \A q \in Reps : insertCFE'[q] \/ status'[q] = "looping" => "cfe" \in config.kinds
    BY <1>1, <1>5, <2>4, <2>5 DEF Faulty
  <2>3. \A q \in Reps \ {r} : Harmed(q)' => pc = "restart" /\ q = fault_index
    BY <1>1, <1>3, <1>5 DEF Faulty, Harmed
  <2> QED BY <1>0, <1>3, <2>2, <2>3, <2>6 DEF Faulty
<1>7. Answering(r) => Answering(r)'
  BY <1>3, SameReplica
<1> HIDE DEF outVars, scanVars
<1> QED BY <1>3, <1>4, <1>5, <1>6, <1>7, ReplicaStep

-----------------------------------------------------------------------------
(***************************************************************************)
(* The voter gathers the answers.                                          *)
(***************************************************************************)
\* recvData begins a round.
LEMMA RecvDataStep ==
    ASSUME RoundInv, RecvData, UNCHANGED config
    PROVE  RoundInv'
<1> USE DEF RecvData, repVars, histVars
<1>0. /\ Reps' = Reps /\ Tracked' = Tracked /\ L_N \in Tracked /\ Tracked \subseteq Outs
      /\ rep_count' = rep_count /\ SINGLE_CORE' = SINGLE_CORE /\ rep_count \in {2, 3}
      /\ Reps \subseteq {0, 1, 2} /\ 0 \in Reps
  BY Instance DEF RoundInv, Types, TypeOK, Reps, Tracked, rep_count, SINGLE_CORE
<1>1. Types /\ Counted /\ Voting
  BY DEF RoundInv
<1>2. ext_in = <<sensed>> /\ sensed \in Nat /\ sensed > 0
  BY <1>1 DEF Counted, Types, TypeOK
<1>3. ext_in_buffer' = sensed /\ ext_in' = <<>> /\ turn' = 0 /\ rep_done' = 0 /\ pc' = "send"
  BY <1>2
<1>4. Types'
  <2>1. ext_in' \in Seq(Nat) /\ ext_in_buffer' \in Nat /\ turn' \in Reps /\ rep_done' \in 0 .. rep_count
    BY <1>0, <1>2, <1>3
  <2>2. TypeOK'
    BY <1>0, <1>1, <1>3, <2>1 DEF Types, TypeOK
  <2> QED BY <1>0, <1>1, <2>2 DEF Types
<1>5. \A r \in Reps : AtRest(r)' /\ Clear(r)'
  BY <1>0, <1>1 DEF Voting, AtRest, Clear
<1>6. Gathering'
  <2>1. \A r \in Reps : ~Given(r)' /\ ~(r < 0)
    BY <1>0, <1>3 DEF Given
  <2>2. Done' = {}
    BY <1>0, <1>5 DEF Done, Clear
  <2>3. Cardinality({}) = 0
    BY FS_EmptySet
  <2> QED BY <1>0, <1>3, <1>5, <2>1, <2>2, <2>3 DEF Gathering
<1>7. Voting'
  BY <1>3 DEF Voting
<1>8. Counted'
  <2>1. Len(ext_in) = 1
    BY <1>2
  <2>2. \A p \in Tracked : Len(ext_out'[p]) + 1 = sensed'
    BY <1>1, <2>1 DEF Counted
  <2>3. \A p \in Tracked : Right(p)'
    BY <1>1 DEF Counted, Right
  <2> QED BY <1>0, <1>2, <1>3, <2>2, <2>3 DEF Counted
<1>9. Faulty'
  BY <1>0 DEF RoundInv, Faulty, Harmed
<1> QED BY <1>3, <1>4, <1>6, <1>7, <1>8, <1>9 DEF RoundInv

\* sendToReps gives the reading to all replicas, sendCollect to one that has
\* read and written all it had.
LEMMA SendToRepsStep ==
    ASSUME RoundInv, SendToReps, UNCHANGED config
    PROVE  RoundInv'
<1> USE DEF SendToReps, outVars, repVars, histVars
<1>0. /\ Reps' = Reps /\ Tracked' = Tracked /\ L_N \in Tracked /\ Tracked \subseteq Outs
      /\ rep_count' = rep_count /\ SINGLE_CORE' = SINGLE_CORE /\ Done' = Done
      /\ Reps \subseteq {0, 1, 2} /\ 0 \in Reps
  BY Instance DEF RoundInv, Types, TypeOK, Reps, Tracked, rep_count, SINGLE_CORE, Done
<1>1. Types /\ Counted /\ Gathering
  BY DEF RoundInv
<1>2. ext_in_buffer = sensed /\ sensed \in Nat /\ turn \in Reps
  BY <1>1 DEF Counted, Types, TypeOK
<1>3. \A r \in Reps : fd_ins'[r] = IF SINGLE_CORE /\ r # turn THEN fd_ins[r]
                                   ELSE Append(fd_ins[r], sensed)
  BY <1>2
<1>4. Types'
  <2>1. fd_ins' \in [Reps -> Seq(Nat)]
    <3>1. \A r \in Reps : fd_ins[r] \in Seq(Nat) /\ Append(fd_ins[r], sensed) \in Seq(Nat)
      BY <1>1, <1>2 DEF Types, TypeOK
    <3> QED BY <1>2, <3>1
  <2>2. TypeOK'
    BY <1>0, <1>1, <2>1 DEF Types, TypeOK
  <2> QED BY <1>0, <1>1, <2>2 DEF Types
<1>5. ASSUME NEW r \in Reps
      PROVE  IF Given(r)' THEN Answering(r)' ELSE AtRest(r)' /\ Clear(r)'
  <2>1. CASE SINGLE_CORE /\ r # turn
    <3>1. fd_ins'[r] = fd_ins[r]
      BY <1>3, <2>1
    <3>2. Given(r)' <=> Given(r)
      BY <1>0, <1>2, <2>1 DEF Given
    <3>3. /\ Answering(r) => Answering(r)'
          /\ AtRest(r) => AtRest(r)'
          /\ Clear(r) => Clear(r)'
      BY <3>1, SameReplica
    <3> QED BY <1>1, <3>2, <3>3 DEF Gathering
  <2>2. CASE ~(SINGLE_CORE /\ r # turn)
    <3>1. ~Given(r) /\ Given(r)'
      BY <1>0, <1>2, <2>2 DEF Given
    <3>2. AtRest(r) /\ Clear(r)
      BY <1>1, <3>1 DEF Gathering
    <3>3. fd_ins'[r] = <<sensed>>
      <4>1. fd_ins'[r] = Append(fd_ins[r], sensed)
        BY <1>3, <2>2
      <4>2. fd_ins[r] = <<>>
        BY <3>2 DEF AtRest
      <4>3. Append(<<>>, sensed) = <<sensed>>
        BY <1>2
      <4> QED BY <4>1, <4>2, <4>3
    <3>4. Answering(r)'
      BY <1>0, <3>2, <3>3 DEF AtRest, Clear, Nothing, Answering
    <3> QED BY <3>1, <3>4
  <2> QED BY <2>1, <2>2
<1>6. IF SINGLE_CORE THEN turn \notin Done ELSE Done # Reps
  <2>1. \A r \in Reps : ~Given(r) => r \notin Done
    BY <1>0, <1>1 DEF Gathering, Clear, Done
  <2>2. ~Given(turn) /\ (~SINGLE_CORE => ~Given(0))
    BY <1>0, <1>2 DEF Given
  <2> QED BY <1>0, <1>2, <2>1, <2>2
<1>7. Gathering'
  <2>1. SINGLE_CORE => \A r \in Reps : r < turn => Passed(r)'
    BY <1>0, <1>1 DEF Gathering, Passed
  <2>2. ASSUME NEW r \in Done PROVE Answered(r)'
    <3>1. r \in Reps /\ Answered(r)
      BY <1>1, <2>2 DEF Gathering, Done
    <3>2. Given(r)
      BY <1>0, <1>1, <2>2 DEF Gathering, Clear, Done
    <3>3. fd_ins'[r] = fd_ins[r]
      BY <1>0, <1>2, <1>3, <3>1, <3>2 DEF Given
    <3> QED BY <3>1, <3>3, SameReplica
  <2> QED BY <1>0, <1>1, <1>5, <1>6, <2>1, <2>2 DEF Gathering
<1>8. Selecting' /\ Voting'
  BY DEF Selecting, Voting
<1>9. Counted'
  BY <1>0, <1>1 DEF Counted, Right
<1>10. Faulty'
  BY <1>0 DEF RoundInv, Faulty, Harmed
<1> QED BY <1>4, <1>7, <1>8, <1>9, <1>10 DEF RoundInv

\* select() reports pipes that have data, at once or one after
\* the other.
LEMMA SelectStep ==
    ASSUME RoundInv, Select, UNCHANGED config
    PROVE  RoundInv'
<1> USE DEF outVars, repVars, histVars
<1>0. /\ Reps' = Reps /\ Tracked' = Tracked /\ L_N \in Tracked /\ Tracked \subseteq Outs
      /\ rep_count' = rep_count /\ SINGLE_CORE' = SINGLE_CORE /\ Done' = Done
      /\ config.scan => Tracked = {L_N}
  BY Instance DEF Select, RoundInv, Types, TypeOK, Reps, Tracked, rep_count, SINGLE_CORE, Done
<1>1. Types /\ Counted /\ Gathering /\ Selecting
  BY DEF RoundInv, Select
<1>2. /\ pc = "select" /\ pc' \in {"select", "read"}
      /\ UNCHANGED <<outVars, ext_in_buffer, turn, rep_done, buffers, fault_index,
                     fd_ins, fd_outs, repVars, histVars>>
  BY DEF Select
<1>3. /\ ~config.scan => seen' = seen \cup Ready /\ pos' = 0 /\ (pc' = "read" <=> seen' # {})
      /\ seen' \subseteq seen \cup Ready /\ seen \subseteq seen'
      /\ pos' = 0 \/ pos' = pos + 1
  BY DEF Select
<1>4. \A r \in Reps, p \in Outs :
         <<r, p>> \in Ready <=> fd_outs[r][p] # <<>> /\ (SINGLE_CORE => r = turn)
  BY DEF Ready
<1>5. Types'
  <2>1. seen' \subseteq Reps \X Outs
    BY <1>1, <1>3 DEF Types, TypeOK, Ready
  <2>2. pos' \in Nat
    BY <1>1, <1>3 DEF Types, TypeOK
  <2>3. TypeOK'
    BY <1>0, <1>1, <1>2, <2>1, <2>2 DEF Types, TypeOK
  <2> QED BY <1>0, <1>1, <1>2, <1>3, <2>3 DEF Types
<1>6. Gathering'
  <2>1. \A r \in Reps : (Given(r)' <=> Given(r)) /\ (Passed(r)' <=> Passed(r))
    BY <1>0, <1>2 DEF Given, Passed
  <2>2. \A r \in Reps : /\ Answering(r) => Answering(r)'
                        /\ AtRest(r) => AtRest(r)'
                        /\ Clear(r) => Clear(r)'
                        /\ Answered(r) => Answered(r)'
    BY <1>2, SameReplica
  <2>3. \A r \in Done : Answered(r)'
    BY <1>1, <2>2 DEF Gathering, Done
  <2> QED BY <1>0, <1>1, <1>2, <2>1, <2>2, <2>3 DEF Gathering
<1>7. Selecting'
  <2>1. \A r \in Reps, p \in Outs : <<r, p>> \in seen' =>
          fd_outs'[r][p] # <<>> /\ (SINGLE_CORE' => r = turn')
    BY <1>0, <1>1, <1>2, <1>3, <1>4 DEF Selecting
  <2>2. ASSUME NEW r \in Reps, <<r, L_N>> \in seen', NEW p \in Tracked, fd_outs'[r][p] # <<>>
        PROVE  <<r, p>> \in seen'
    <3>1. CASE config.scan
      BY <1>0, <2>2, <3>1
    <3>2. CASE ~config.scan
      <4>1. L_N \in Outs /\ p \in Outs
        BY <1>0
      <4>2. SINGLE_CORE => r = turn
        BY <1>2, <2>1, <2>2, <4>1, <1>0
      <4>3. <<r, p>> \in Ready
        BY <1>2, <1>4, <2>2, <4>1, <4>2
      <4> QED BY <1>3, <3>2, <4>3
    <3> QED BY <3>1, <3>2
  <2>3. ~config'.scan /\ pc' = "select" => seen' = {}
    BY <1>3
  <2> QED BY <1>0, <2>1, <2>2, <2>3 DEF Selecting
<1>8. Voting'
  BY <1>2 DEF Voting
<1>9. Counted'
  BY <1>0, <1>1, <1>2 DEF Counted, Right
<1>10. Faulty'
  BY <1>0, <1>2 DEF RoundInv, Faulty, Harmed
<1> QED BY <1>5, <1>6, <1>7, <1>8, <1>9, <1>10 DEF RoundInv

\* What the voter finds when it reads the pipes that were reported.
LEMMA ReadReplica ==
    ASSUME RoundInv, ReadReported, UNCHANGED config, NEW r \in Reps
    PROVE  /\ Answering(r) => Answering(r)'
           /\ ~Given(r) => AtRest(r)' /\ Clear(r)'
           /\ r \in Done => Answered(r)' /\ <<r, L_N>> \notin seen
           /\ <<r, L_N>> \in seen => Answered(r)' /\ r \notin Done
           /\ r \in Done' <=> r \in Done \/ <<r, L_N>> \in seen
<1> USE DEF outVars, repVars, histVars
<1>0. /\ Reps' = Reps /\ Tracked' = Tracked /\ L_N \in Tracked /\ Tracked \subseteq Outs
      /\ config \in Instances /\ SINGLE_CORE \in BOOLEAN
  BY Instance DEF ReadReported, RoundInv, Types, TypeOK, Reps, Tracked, rep_count
<1>1. /\ Gathering /\ Selecting /\ pc = "read"
      /\ UNCHANGED <<sensed, faulty, fd_ins, cmd>>
  BY DEF RoundInv, ReadReported
<1>2. \A p \in Outs :
         /\ buffers'[r][p] = IF <<r, p>> \in seen THEN fd_outs[r][p] ELSE buffers[r][p]
         /\ fd_outs'[r][p] = IF <<r, p>> \in seen THEN <<>> ELSE fd_outs[r][p]
         /\ <<r, p>> \in seen => fd_outs[r][p] # <<>>
  BY <1>1 DEF ReadReported, Selecting
<1>3. \A p \in Tracked :
         /\ Nothing(r, p) => Nothing(r, p)'
         /\ \A m : Holds(r, p, m) => Holds(r, p, m)'
         /\ fd_outs[r][p] = <<>> => fd_outs'[r][p] = <<>>
  BY <1>0, <1>2 DEF Nothing, Holds
<1>4. Answers(r)' = Answers(r) /\ \A p \in Outs : Kept(r, p) => Kept(r, p)'
  BY <1>1, <1>2 DEF Answers, Good, Wrong, Kept
<1>5. Answering(r) => Answering(r)'
  BY <1>0, <1>1, <1>3, <1>4 DEF Answering
<1>6. ASSUME ~Given(r) PROVE AtRest(r)' /\ Clear(r)'
  <2>1. AtRest(r) /\ Clear(r)
    BY <1>1, <1>6 DEF Gathering
  <2>2. \A p \in Tracked : Nothing(r, p)
    BY <2>1 DEF AtRest, Clear, Nothing
  <2>3. \A p \in Tracked : Nothing(r, p)'
    BY <1>3, <2>2
  <2> QED BY <1>0, <1>1, <2>1, <2>3 DEF AtRest, Clear, Nothing
<1>7. <<r, L_N>> \in seen => fd_outs[r][L_N] # <<>> /\ buffers[r][L_N] = <<>> /\ Answering(r)
  BY <1>0, <1>1, <1>2, Written
<1>8. r \in Done' <=> r \in Done \/ <<r, L_N>> \in seen
  BY <1>0, <1>2, <1>7 DEF Done
<1>9. r \in Done => <<r, L_N>> \notin seen
  BY <1>7 DEF Done
<1>10. ASSUME r \in Done PROVE Answered(r)'
  <2>1. Answered(r)
    BY <1>1, <1>10 DEF Gathering
  <2> QED BY <1>0, <1>3, <1>5, <1>8, <1>10, <2>1 DEF Answered
<1>11. ASSUME <<r, L_N>> \in seen PROVE Answered(r)'
  <2>1. \A p \in Tracked : fd_outs[r][p] # <<>> => <<r, p>> \in seen
    BY <1>1, <1>11 DEF Selecting
  <2>2. \A p \in Tracked : fd_outs'[r][p] = <<>>
    BY <1>0, <1>2, <2>1
  <2> QED BY <1>0, <1>5, <1>7, <1>8, <1>11, <2>2 DEF Answered
<1> QED BY <1>5, <1>6, <1>8, <1>9, <1>10, <1>11

\* The replicas that have answered are counted.
LEMMA CountDone ==
    ASSUME RoundInv, ReadReported, UNCHANGED config
    PROVE  /\ rep_done' = Cardinality(Done') /\ rep_done' \in 0 .. rep_count
           /\ rep_done' = rep_count => Done' = Reps
           /\ rep_done' # rep_count => Done' # Reps
           /\ TimedReads = {} => Done' = Done
           /\ TimedReads # {} /\ SINGLE_CORE => turn \in Done'
<1>0. /\ Reps' = Reps /\ L_N \in Tracked /\ Tracked \subseteq Outs
      /\ config \in Instances /\ rep_count \in Nat
      /\ seen \subseteq Reps \X Outs /\ turn \in Reps
  BY Instance DEF ReadReported, RoundInv, Types, TypeOK, Reps, rep_count
<1>1. Gathering /\ Selecting /\ pc = "read" /\ rep_done' = rep_done + Cardinality(TimedReads)
  BY DEF RoundInv, ReadReported
<1> DEFINE T == {r \in Reps : <<r, L_N>> \in seen}
<1>2. Done' = Done \cup T /\ Done \cap T = {}
  BY <1>0, ReadReplica DEF Done
<1>3. TimedReads = {<<r, L_N>> : r \in T}
  <2>1. \A x \in seen : x = <<x[1], x[2]>> /\ x[1] \in Reps
    BY <1>0
  <2>2. \A x \in TimedReads : x[1] \in T /\ x = <<x[1], L_N>>
    BY <2>1 DEF TimedReads
  <2>3. \A r \in T : <<r, L_N>> \in TimedReads
    BY DEF TimedReads
  <2> QED BY <2>2, <2>3
<1>4. IsFiniteSet(Reps) /\ Cardinality(Reps) = rep_count
  <2>1. Reps = 0 .. rep_count - 1
    BY DEF Reps
  <2>2. IsFiniteSet(0 .. rep_count - 1)
        /\ Cardinality(0 .. rep_count - 1) = IF 0 > rep_count - 1 THEN 0 ELSE (rep_count - 1) - 0 + 1
    BY <1>0, FS_Interval
  <2> QED BY <1>0, <2>1, <2>2
<1>5. IsFiniteSet(Done) /\ IsFiniteSet(T) /\ T \subseteq Reps /\ Done \subseteq Reps
  BY <1>4, FS_Subset DEF Done
<1>6. Cardinality(TimedReads) = Cardinality(T)
  <2> DEFINE f == [r \in T |-> <<r, L_N>>]
  <2>1. f \in Bijection(T, TimedReads)
    BY <1>3 DEF Bijection, Injection, Surjection, IsInjective
  <2> QED BY <1>5, <2>1, FS_Bijection DEF ExistsBijection
<1>7. Cardinality(Done \cup T) = Cardinality(Done) + Cardinality(T)
  <2>1. Cardinality(Done \cup T) = Cardinality(Done) + Cardinality(T) - Cardinality(Done \cap T)
    BY <1>5, FS_Union
  <2>2. Cardinality({}) = 0 /\ Cardinality(Done) \in Nat /\ Cardinality(T) \in Nat
    BY <1>5, FS_EmptySet, FS_CardinalityType
  <2>3. Cardinality(Done \cap T) = 0
    BY <1>2, <2>2
  <2> DEFINE x == Cardinality(Done)
             y == Cardinality(T)
             z == Cardinality(Done \cap T)
  <2> HIDE DEF x, y, z
  <2>4. z = 0 /\ x \in Nat /\ y \in Nat => x + y - z = x + y
    OBVIOUS
  <2> QED BY <2>1, <2>2, <2>3, <2>4 DEF x, y, z
<1>8. rep_done' = Cardinality(Done')
  BY <1>1, <1>2, <1>6, <1>7 DEF Gathering
<1>9. Done' \subseteq Reps /\ IsFiniteSet(Done') /\ Cardinality(Done') \in Nat
      /\ Cardinality(Done') <= Cardinality(Reps)
      /\ (Cardinality(Done') = Cardinality(Reps) => Done' = Reps)
  <2>1. Done' \subseteq Reps
    BY <1>2, <1>5
  <2> QED BY <2>1, <1>4, FS_Subset, FS_CardinalityType
<1>10. TimedReads = {} => Done' = Done
  BY <1>2, <1>3
<1>11. TimedReads # {} /\ SINGLE_CORE => turn \in Done'
  <2> SUFFICES ASSUME TimedReads # {}, SINGLE_CORE PROVE turn \in Done'
    OBVIOUS
  <2>1. PICK r \in T : TRUE
    BY <1>3
  <2>2. r = turn
    BY <1>0, <1>1, <2>1 DEF Selecting
  <2> QED BY <1>2, <2>1, <2>2
<1> QED BY <1>0, <1>4, <1>8, <1>9, <1>10, <1>11

\* Where the voter goes from a replica.
LEMMA NextTurnIs ==
    ASSUME config \in Instances, turn \in Reps, NEW done, NextTurn(done)
    PROVE  /\ turn' \in Reps /\ turn \in Nat /\ \A r \in Reps : r \in Nat
           /\ \/ turn < rep_count - 1 /\ turn' = turn + 1 /\ pc' = "send"
              \/ turn = rep_count - 1 /\ pc' = IF done = rep_count THEN "vote" ELSE "kill"
           /\ turn = rep_count - 1 => \A r \in Reps : r = turn \/ r < turn
<1>1. turn' = (turn + 1) % rep_count /\ pc' = IF turn < rep_count - 1 THEN "send"
                                     ELSE IF done = rep_count THEN "vote" ELSE "kill"
  BY DEF NextTurn
<1>2. CASE rep_count = 2
  <2>1. Reps = {0, 1}
    BY <1>2, Instance
  <2>2. (0 + 1) % 2 = 1 /\ (1 + 1) % 2 = 0
    OBVIOUS
  <2>3. turn = 0 \/ turn = 1
    BY <2>1
  <2> QED BY <1>1, <1>2, <2>1, <2>2, <2>3
<1>3. CASE rep_count = 3
  <2>1. Reps = {0, 1, 2}
    BY <1>3, Instance
  <2>2. (0 + 1) % 3 = 1 /\ (1 + 1) % 3 = 2 /\ (2 + 1) % 3 = 0
    OBVIOUS
  <2>3. turn = 0 \/ turn = 1 \/ turn = 2
    BY <2>1
  <2> QED BY <1>1, <1>3, <2>1, <2>2, <2>3
<1> QED BY <1>2, <1>3, Instance

\* The voter reads what was reported, and votes when all timed answers are read.
LEMMA ReadReportedStep ==
    ASSUME RoundInv, ReadReported, UNCHANGED config
    PROVE  RoundInv'
<1> USE DEF outVars, repVars, histVars
<1>0. /\ Reps' = Reps /\ Tracked' = Tracked /\ L_N \in Tracked /\ Tracked \subseteq Outs
      /\ rep_count' = rep_count /\ SINGLE_CORE' = SINGLE_CORE
      /\ config \in Instances /\ SINGLE_CORE \in BOOLEAN /\ turn \in Reps /\ rep_count \in Nat
  BY Instance DEF ReadReported, RoundInv, Types, TypeOK, Reps, Tracked, rep_count, SINGLE_CORE
<1>1. Types /\ Counted /\ Gathering /\ Selecting /\ pc = "read" /\ seen' = {}
  BY DEF RoundInv, ReadReported
<1>2. \A r \in Reps : /\ Answering(r) => Answering(r)'
                      /\ ~Given(r) => AtRest(r)' /\ Clear(r)'
                      /\ r \in Done => Answered(r)' /\ r \in Done'
                      /\ r \in Done' => Answered(r)'
  BY ReadReplica
<1>3. /\ rep_done' = Cardinality(Done') /\ rep_done' \in 0 .. rep_count
      /\ rep_done' = rep_count => Done' = Reps
      /\ rep_done' # rep_count => Done' # Reps
      /\ TimedReads = {} => Done' = Done
      /\ TimedReads # {} /\ SINGLE_CORE => turn \in Done'
  BY CountDone
<1>4. Done' \subseteq Reps /\ Done \subseteq Reps
  BY <1>0 DEF Done
<1>5. \/ ~SINGLE_CORE /\ turn' = turn /\ pc' = IF rep_done' = rep_count THEN "vote" ELSE "select"
      \/ SINGLE_CORE /\ TimedReads = {} /\ pc' = "select" /\ turn' = turn
      \/ /\ SINGLE_CORE /\ TimedReads # {} /\ turn = rep_count - 1 /\ turn' \in Reps
         /\ pc' = IF rep_done' = rep_count THEN "vote" ELSE "kill"
      \/ SINGLE_CORE /\ TimedReads # {} /\ turn' = turn + 1 /\ turn' \in Reps /\ pc' = "send"
  <2>1. CASE SINGLE_CORE /\ TimedReads # {}
    <3>1. NextTurn(rep_done')
      BY <2>1 DEF ReadReported
    <3> QED BY <1>0, <2>1, <3>1, NextTurnIs
  <2>2. CASE SINGLE_CORE /\ TimedReads = {}
    BY <2>2 DEF ReadReported
  <2>3. CASE ~SINGLE_CORE
    <3>1. rep_done' >= rep_count <=> rep_done' = rep_count
      BY <1>0, <1>3
    <3> QED BY <2>3, <3>1 DEF ReadReported
  <2> QED BY <2>1, <2>2, <2>3
<1>6. Types'
  <2>1. buffers' \in [Reps -> [Outs -> Seq(Msg)]] /\ fd_outs' \in [Reps -> [Outs -> Seq(Msg)]]
    BY <1>1, SMTT(30) DEF ReadReported, Types, TypeOK
  <2>2. turn' \in Reps /\ rep_done' \in 0 .. rep_count /\ seen' \subseteq Reps \X Outs
    BY <1>0, <1>1, <1>3, <1>5
  <2>3. pc' \in {"send", "select", "vote", "kill"}
    BY <1>5
  <2>4. /\ UNCHANGED <<ext_in, ext_out, sensed, ext_in_buffer, pos, fault_index, fd_ins,
                       status, insertSDC, insertCFE, cmd, faulty, faults>>
    BY DEF ReadReported
  <2>5. TypeOK'
    BY <1>0, <1>1, <2>1, <2>2, <2>3, <2>4 DEF Types, TypeOK
  <2> QED BY <1>0, <1>1, <2>4, <2>5 DEF Types
<1>7. ASSUME pc' \in {"send", "select", "read"} PROVE Gathering'
  <2>1. \A r \in Reps : Given(r)' <=> Given(r)
    <3>1. \A r \in Reps : r \in Nat
      BY <1>0, Instance
    <3> QED BY <1>0, <1>1, <1>5, <1>7, <3>1 DEF Given
  <2>2. \A r \in Done' : Answered(r)'
    BY <1>2, <1>4
  <2>3. SINGLE_CORE => \A r \in Reps : r < turn' => Passed(r)'
    <3> SUFFICES ASSUME SINGLE_CORE, NEW r \in Reps, r < turn' PROVE Passed(r)'
      OBVIOUS
    <3>1. r \in Nat /\ turn \in Nat
      BY <1>0, Instance
    <3>2. r < turn \/ (r = turn /\ TimedReads # {})
      BY <1>5, <1>7, <3>1
    <3>3. r < turn => Passed(r)
      BY <1>1 DEF Gathering
    <3>4. UNCHANGED <<fault_index, faulty>>
      BY DEF ReadReported
    <3> QED BY <1>2, <1>3, <3>2, <3>3, <3>4 DEF Passed
  <2>4. pc' # "send" => IF SINGLE_CORE THEN turn' \notin Done' ELSE Done' # Reps
    BY <1>1, <1>3, <1>5, <1>7 DEF Gathering
  <2>5. \A r \in Reps : IF Given(r)' THEN Answering(r)' ELSE AtRest(r)' /\ Clear(r)'
    BY <1>1, <1>2, <2>1 DEF Gathering
  <2> QED BY <1>0, <1>3, <2>2, <2>3, <2>4, <2>5 DEF Gathering
<1>8. Selecting'
  BY <1>1 DEF Selecting
<1>9. Voting'
  <2>1. pc' = "vote" => \A r \in Reps : Answered(r)'
    BY <1>2, <1>3, <1>5
  <2>2. ASSUME pc' = "kill"
        PROVE  fault_index' \in faulty' /\ \A r \in Reps \ {fault_index'} : Answered(r)'
    <3>1. SINGLE_CORE /\ TimedReads # {} /\ turn = rep_count - 1 /\ rep_done' # rep_count
      BY <1>5, <2>2
    <3>2. \A r \in Reps : r < turn \/ r = turn
      BY <1>0, <3>1, Instance
    <3>3. \A r \in Reps : r \in Done' \/ (r = fault_index /\ r \in faulty)
      BY <1>1, <1>2, <1>3, <3>1, <3>2 DEF Gathering, Passed
    <3>4. UNCHANGED <<fault_index, faulty>>
      BY DEF ReadReported
    <3>5. \E r \in Reps : r \notin Done'
      BY <1>3, <1>4, <3>1
    <3> QED BY <1>2, <3>3, <3>4, <3>5
  <2> QED BY <1>0, <1>5, <2>1, <2>2 DEF Voting
<1>10. Counted'
  <2>1. UNCHANGED <<ext_in, ext_out, sensed, ext_in_buffer>> /\ pc' # "recv"
    BY <1>5 DEF ReadReported
  <2> QED BY <1>0, <1>1, <2>1 DEF Counted, Right
<1>11. Faulty'
  <2>1. UNCHANGED <<status, insertSDC, insertCFE, faulty>>
    BY DEF ReadReported
  <2> QED BY <1>0, <1>1, <2>1 DEF RoundInv, Faulty, Harmed
<1> QED BY <1>6, <1>7, <1>8, <1>9, <1>10, <1>11 DEF RoundInv

-----------------------------------------------------------------------------
(***************************************************************************)
(* The timeout and the vote.                                               *)
(***************************************************************************)
\* A replica that is out of the voter's patience is out of order.
LEMMA LateIsFaulty ==
    ASSUME RoundInv, pc = "select", NEW r \in Reps, Given(r), InTime(r), r \notin Done
    PROVE  r \in faulty
<1> SUFFICES ASSUME r \notin faulty PROVE FALSE
  OBVIOUS
<1>0. L_N \in Tracked /\ Tracked \subseteq Outs /\ L_N \in Outs
  BY Instance DEF RoundInv, Types, TypeOK
<1>1. status[r] = "up" /\ ~insertCFE[r]
  BY DEF RoundInv, Faulty, Harmed
<1>2. fd_ins[r] = <<>> /\ cmd[r] = Idle /\ fd_outs[r] = NoOutput
  BY <1>1 DEF InTime
<1>3. fd_outs[r][L_N] = <<>>
  BY <1>0, <1>2 DEF NoOutput
<1>4. Answering(r) /\ L_N < Idle.next
  BY DEF RoundInv, Gathering, Idle, L_N
<1>5. PICK m \in Answers(r) : Holds(r, L_N, m)
  BY <1>0, <1>2, <1>4 DEF Answering
<1>6. buffers[r][L_N] = <<m>>
  BY <1>3, <1>5 DEF Holds
<1>7. <<m>> # <<>>
  OBVIOUS
<1> QED BY <1>6, <1>7 DEF Done

\* findFaultReplica picks one that has not answered on every pipe.
LEMMA LowestIs ==
    ASSUME RoundInv, NEW r \in Reps, r \notin Done
    PROVE  /\ LowestScore \in Reps
           /\ \E p \in Outs : buffers[LowestScore][p] = <<>>
<1>1. Outs = {1, 2, 3} /\ L_N = 3
  BY DEF Outs, MAP, LOG, L_N
<1>2. IsFiniteSet(Outs) /\ Cardinality(Outs) = 3
  <2>1. Outs = 1 .. L_N /\ L_N \in Int /\ 1 \in Int /\ ~(1 > L_N) /\ L_N - 1 + 1 = 3
    BY <1>1
  <2>2. IsFiniteSet(1 .. L_N) /\ Cardinality(1 .. L_N) = L_N - 1 + 1
    BY <2>1, FS_Interval
  <2> QED BY <2>1, <2>2
<1> DEFINE Sent(q) == {p \in Outs : buffers[q][p] # <<>>}
<1>3. ASSUME NEW q \in Reps
      PROVE  /\ Score(q) \in 0 .. 3
             /\ Score(q) < 3 <=> \E p \in Outs : buffers[q][p] = <<>>
  <2>1. Score(q) = Cardinality(Sent(q)) /\ Sent(q) \subseteq Outs
    BY DEF Score
  <2>2. /\ Cardinality(Sent(q)) \in Nat /\ Cardinality(Sent(q)) <= 3
        /\ Cardinality(Sent(q)) = 3 => Sent(q) = Outs
    BY <1>2, <2>1, FS_Subset, FS_CardinalityType
  <2>3. Sent(q) = Outs => Cardinality(Sent(q)) = 3
    BY <1>2
  <2>4. Sent(q) = Outs <=> ~\E p \in Outs : buffers[q][p] = <<>>
    OBVIOUS
  <2> HIDE DEF Sent
  <2> QED BY <2>1, <2>2, <2>3, <2>4
<1>4. Score(r) < 3
  BY <1>1, <1>3 DEF Done
<1> DEFINE Low == {q \in Reps : Score(q) < 3 /\ \A x \in Reps : Score(q) <= Score(x)}
<1>5. \E q \in Reps : \A x \in Reps : Score(q) <= Score(x)
  <2> DEFINE f == [q \in Reps |-> Score(q)]
  <2>1. \A q \in Reps : f[q] \in Nat
    BY <1>3
  <2> HIDE DEF f
  <2>2. \E q \in Reps : \A x \in Reps : f[q] <= f[x]
    <3>1. CASE Reps = {0, 1}
      BY <2>1, <3>1
    <3>2. CASE Reps = {0, 1, 2}
      BY <2>1, <3>2
    <3> QED BY <3>1, <3>2, Instance DEF RoundInv, Types, TypeOK
  <2> QED BY <2>2 DEF f
<1>6. Low # {} /\ Low \subseteq {0, 1, 2}
  <2>1. PICK q \in Reps : \A x \in Reps : Score(q) <= Score(x)
    BY <1>5
  <2>2. Score(q) < 3
    BY <1>3, <1>4, <2>1
  <2>3. Reps \subseteq {0, 1, 2}
    BY Instance DEF RoundInv, Types, TypeOK
  <2> QED BY <2>1, <2>2, <2>3
<1>7. LowestScore = Min(Low)
  BY <1>2, <1>6 DEF LowestScore
<1>8. Min(Low) \in Low
  <2> HIDE DEF Low
  <2>1. \E x \in Low : \A y \in Low : x <= y
    <3>1. CASE 0 \in Low
      <4>1. \A y \in Low : 0 <= y
        BY <1>6
      <4> QED BY <3>1, <4>1
    <3>2. CASE 0 \notin Low /\ 1 \in Low
      <4>1. \A y \in Low : 1 <= y
        BY <1>6, <3>2
      <4> QED BY <3>2, <4>1
    <3>3. CASE 0 \notin Low /\ 1 \notin Low
      <4>1. Low = {2}
        BY <1>6, <3>3
      <4> QED BY <4>1
    <3> QED BY <3>1, <3>2, <3>3
  <2> QED BY <2>1 DEF Min
<1> QED BY <1>3, <1>7, <1>8

\* A timeout blames a replica that has not answered (findFaultReplica).
LEMMA TimeoutStep ==
    ASSUME RoundInv, Timeout, UNCHANGED config
    PROVE  RoundInv'
<1> USE DEF outVars, repVars, histVars
<1>0. /\ Reps' = Reps /\ Tracked' = Tracked /\ L_N \in Tracked /\ Tracked \subseteq Outs
      /\ rep_count' = rep_count /\ SINGLE_CORE' = SINGLE_CORE /\ Done' = Done
      /\ config \in Instances /\ SINGLE_CORE \in BOOLEAN /\ turn \in Reps /\ rep_count \in Nat
      /\ ~config.scan => Tracked = Outs
  BY Instance DEF Timeout, RoundInv, Types, TypeOK, Reps, Tracked, rep_count, SINGLE_CORE, Done
<1>1. /\ Types /\ Counted /\ Gathering /\ Faulty /\ pc = "select" /\ seen = {}
      /\ UNCHANGED <<ext_in, ext_out, sensed, ext_in_buffer, pos, seen, rep_done, buffers,
                     fd_ins, fd_outs, status, insertSDC, insertCFE, cmd, faulty, faults>>
  BY DEF RoundInv, Timeout
<1>3. \A r \in Reps : /\ Answering(r) => Answering(r)'
                      /\ AtRest(r) => AtRest(r)'
                      /\ Clear(r) => Clear(r)'
                      /\ Answered(r) => Answered(r)'
  BY <1>1, SameReplica
<1>4. \A r \in Done : Answered(r)'
  BY <1>1, <1>3 DEF Gathering, Done
<1>5. \/ /\ ~SINGLE_CORE /\ turn' = turn /\ pc' = "kill" /\ fault_index' = LowestScore
      \/ /\ SINGLE_CORE /\ fault_index' = turn
         /\ \/ turn' = turn + 1 /\ turn' \in Reps /\ pc' = "send"
            \/ /\ turn = rep_count - 1 /\ turn' \in Reps
               /\ pc' = IF rep_done = rep_count THEN "vote" ELSE "kill"
  <2>1. CASE SINGLE_CORE
    <3>1. NextTurn(rep_done) /\ fault_index' = turn
      BY <2>1 DEF Timeout
    <3> QED BY <1>0, <2>1, <3>1, NextTurnIs
  <2>2. CASE ~SINGLE_CORE
    BY <2>2 DEF Timeout
  <2> QED BY <2>1, <2>2
<1>6. SINGLE_CORE => turn \in faulty /\ turn \notin Done /\ \A r \in Reps : r < turn => r \in Done
  <2> SUFFICES ASSUME SINGLE_CORE
               PROVE  turn \in faulty /\ turn \notin Done /\ \A r \in Reps : r < turn => r \in Done
    OBVIOUS
  <2>1. Given(turn) /\ InTime(turn) /\ turn \notin Done
    BY <1>0, <1>1 DEF Given, Timeout, Gathering
  <2>2. turn \in faulty
    BY <1>0, <1>1, <2>1, LateIsFaulty
  <2>3. \A r \in Reps : r < turn => r # turn
    BY <1>0, Instance
  <2> QED BY <1>1, <2>1, <2>2, <2>3 DEF Gathering, Passed, Faulty
<1>7. ~SINGLE_CORE => LowestScore \in Reps /\ LowestScore \in faulty
                      /\ \A r \in Reps : r # LowestScore => r \in Done
  <2> SUFFICES ASSUME ~SINGLE_CORE
               PROVE  LowestScore \in Reps /\ LowestScore \in faulty
                      /\ \A r \in Reps : r # LowestScore => r \in Done
    OBVIOUS
  <2>1. PICK r \in Reps : r \notin Done
    BY <1>1 DEF Gathering, Done
  <2>2. LowestScore \in Reps /\ \E p \in Outs : buffers[LowestScore][p] = <<>>
    BY <2>1, LowestIs
  <2>3. \A q \in Done : \A p \in Outs : buffers[q][p] # <<>>
    <3> SUFFICES ASSUME NEW q \in Done, NEW p \in Outs PROVE buffers[q][p] # <<>>
      OBVIOUS
    <3>1. q \in Reps /\ q \notin faulty
      <4>1. r \in faulty /\ q # r
        BY <1>1, <2>1, LateIsFaulty DEF Given, Timeout
      <4> QED BY <1>0, <1>1, <4>1 DEF Faulty, Done
    <3>2. status[q] = "up" /\ ~insertCFE[q]
      BY <1>1, <3>1 DEF Faulty, Harmed
    <3>3. fd_ins[q] = <<>> /\ cmd[q] = Idle /\ fd_outs[q][p] = <<>>
      BY <3>1, <3>2 DEF Timeout, InTime, NoOutput
    <3>4. Answering(q) /\ fd_ins[q] # <<sensed>>
      BY <1>1, <3>3 DEF Gathering, Answered
    <3>5. p < cmd[q].next
      BY <3>3 DEF Idle, Outs, MAP, LOG, L_N
    <3> QED BY <3>3, <3>4, <3>5 DEF Answering, Kept
  <2>4. LowestScore \notin Done
    BY <2>2, <2>3
  <2>5. \A q \in Reps : q \notin Done => q \in faulty
    BY <1>1, LateIsFaulty DEF Given, Timeout
  <2> QED BY <1>1, <2>2, <2>4, <2>5 DEF Faulty
<1>8. Types'
  <2>1. turn' \in Reps /\ fault_index' \in Reps
    BY <1>0, <1>5, <1>7
  <2>2. pc' \in {"send", "vote", "kill"}
    BY <1>5
  <2>3. TypeOK'
    BY <1>0, <1>1, <2>1, <2>2 DEF Types, TypeOK
  <2> QED BY <1>0, <1>1, <2>3 DEF Types
<1>9. ASSUME pc' \in {"send", "select", "read"} PROVE Gathering'
  <2>0. SINGLE_CORE /\ turn' = turn + 1 /\ pc' = "send" /\ fault_index' = turn
    BY <1>5, <1>9
  <2>1. \A r \in Reps : r \in Nat
    BY <1>0, Instance
  <2>2. \A r \in Reps : Given(r)' <=> Given(r)
    BY <1>0, <1>1, <2>0, <2>1 DEF Given
  <2>3. \A r \in Reps : r < turn' => Passed(r)'
    BY <1>0, <1>1, <1>6, <2>0, <2>1 DEF Passed
  <2>4. \A r \in Reps : IF Given(r)' THEN Answering(r)' ELSE AtRest(r)' /\ Clear(r)'
    BY <1>1, <1>3, <2>2 DEF Gathering
  <2> QED BY <1>0, <1>1, <1>4, <2>0, <2>3, <2>4 DEF Gathering
<1>10. Voting'
  <2>1. pc' # "vote"
    <3> SUFFICES ASSUME SINGLE_CORE, rep_done = rep_count PROVE FALSE
      BY <1>5
    <3>1. Cardinality(Done) = rep_count /\ Done \subseteq Reps
      BY <1>1 DEF Gathering, Done
    <3>2. IsFiniteSet(Reps) /\ Cardinality(Reps) = rep_count
      <4>1. IsFiniteSet(0 .. rep_count - 1)
            /\ Cardinality(0 .. rep_count - 1) = IF 0 > rep_count - 1 THEN 0 ELSE (rep_count - 1) - 0 + 1
        BY <1>0, FS_Interval
      <4> QED BY <1>0, <4>1 DEF Reps
    <3>3. Done = Reps
      BY <3>1, <3>2, FS_Subset
    <3> QED BY <1>0, <1>6, <3>3
  <2>2. pc' = "kill" =>
          /\ fault_index' \in faulty'
          /\ \A r \in Reps \ {fault_index'} : Answered(r)'
    <3>1. CASE SINGLE_CORE
      <4>1. turn = rep_count - 1 => \A r \in Reps : r = turn \/ r < turn
        BY <1>0, Instance
      <4>2. pc' = "kill" => turn = rep_count - 1
        BY <1>5, <3>1
      <4> QED BY <1>1, <1>4, <1>5, <1>6, <3>1, <4>1, <4>2
    <3>2. CASE ~SINGLE_CORE
      BY <1>1, <1>4, <1>5, <1>7, <3>2
    <3> QED BY <3>1, <3>2
  <2> QED BY <1>0, <1>5, <2>1, <2>2 DEF Voting
<1>11. Selecting'
  BY <1>1 DEF Selecting
<1>12. Counted'
  <2>1. pc' # "recv"
    BY <1>5
  <2> QED BY <1>0, <1>1, <2>1 DEF Counted, Right
<1>13. Faulty'
  BY <1>0, <1>1 DEF Faulty, Harmed
<1> QED BY <1>8, <1>9, <1>10, <1>11, <1>12, <1>13 DEF RoundInv

\* checkSDC on one pipe: which of three messages differs from both others.
LEMMA OddOneOutIs ==
    ASSUME NEW a, NEW b, NEW c
    PROVE  \/ OddOneOut(a, b, c) = NoFault /\ a = b /\ a = c
           \/ OddOneOut(a, b, c) = 0 /\ a # b /\ a # c
           \/ OddOneOut(a, b, c) = 1 /\ a # b /\ a = c
           \/ OddOneOut(a, b, c) = 2 /\ a = b /\ a # c
BY DEF OddOneOut

\* checkSDC over the pipes: the last pipe that blames a replica decides.
LEMMA LastFaultIs ==
    ASSUME NEW F
    PROVE  \/ LastFault(F) = NoFault /\ \A p \in Outs : F[p] = NoFault
           \/ \E p \in Outs : LastFault(F) = F[p] /\ F[p] # NoFault
<1> DEFINE S == {p \in Outs : F[p] # NoFault}
<1>1. CASE S = {}
  BY <1>1 DEF LastFault
<1>2. CASE S # {}
  <2>1. S \subseteq {1, 2, 3}
    BY DEF Outs, MAP, LOG, L_N
  <2>2. Max(S) \in S
    <3> HIDE DEF S
    <3>1. \E x \in S : \A y \in S : x >= y
      <4>1. CASE 3 \in S
        <5>1. \A y \in S : 3 >= y
          BY <2>1
        <5> QED BY <4>1, <5>1
      <4>2. CASE 3 \notin S /\ 2 \in S
        <5>1. \A y \in S : 2 >= y
          BY <2>1, <4>2
        <5> QED BY <4>2, <5>1
      <4>3. CASE 3 \notin S /\ 2 \notin S
        <5>1. S = {1}
          BY <1>2, <2>1, <4>3
        <5> QED BY <5>1
      <4> QED BY <4>1, <4>2, <4>3
    <3> QED BY <3>1 DEF Max
  <2> QED BY <1>2, <2>2 DEF LastFault
<1> QED BY <1>1, <1>2

\* The vote names nobody but a faulty replica.
LEMMA Verdict ==
    ASSUME RoundInv, Decidable(config), pc = "vote"
    PROVE  /\ SDCFault \in Reps \cup {NoFault}
           /\ SDCFault = NoFault => Has(0, Good)
           /\ SDCFault # NoFault /\ ~config.scan => SDCFault \in faulty
<1>0. /\ config \in Instances /\ 0 \in Reps /\ L_N \in Tracked /\ L_N \in Outs
      /\ rep_count \in {2, 3} /\ Reps = IF rep_count = 2 THEN {0, 1} ELSE {0, 1, 2}
      /\ ~config.scan => Tracked = Outs
  BY Instance DEF RoundInv, Types, TypeOK, Outs
<1>1. \A r \in Reps : Answered(r) /\ \E m \in Answers(r) : Has(r, m)
  BY <1>0, AnsweredIs DEF RoundInv, Voting
<1>2. "sdc" \notin config.kinds => \A r \in Reps : Has(r, Good)
  BY <1>0, <1>1, AnsweredIs
<1>3. CASE rep_count = 2
  <2> DEFINE F == [p \in Outs |-> IF Len(buffers[0][p]) > Len(buffers[1][p]) THEN 1
                                  ELSE IF buffers[0][p] # buffers[1][p] THEN 0 ELSE NoFault]
  <2>1. SDCFault = LastFault(F)
    BY <1>3 DEF SDCFault
  <2>2. \A p \in Outs : F[p] \in {1, 0, NoFault}
    OBVIOUS
  <2>3. \A r \in Reps : Has(r, Good)
    BY <1>2, <1>3 DEF Decidable, rep_count
  <2>4. ASSUME ~config.scan PROVE \A p \in Outs : F[p] = NoFault
    <3>1. \A p \in Outs : buffers[0][p] = <<Good>> /\ buffers[1][p] = <<Good>>
      BY <1>0, <1>3, <2>3, <2>4 DEF Has
    <3>2. ~(Len(<<Good>>) > Len(<<Good>>))
      OBVIOUS
    <3> QED BY <3>1, <3>2
  <2> HIDE DEF F
  <2> QED BY <1>0, <1>3, <2>1, <2>2, <2>3, <2>4, LastFaultIs
<1>4. CASE rep_count = 3
  <2> DEFINE b(r) == buffers[r]
             G == [p \in Outs |-> OddOneOut(Len(b(0)[p]), Len(b(1)[p]), Len(b(2)[p]))]
             F == [p \in Outs |-> OddOneOut(b(0)[p], b(1)[p], b(2)[p])]
  <2>0. Reps = {0, 1, 2}
    BY <1>0, <1>4
  <2>1. SDCFault = IF LastFault(G) # NoFault THEN LastFault(G) ELSE LastFault(F)
    BY <1>0, <1>4 DEF SDCFault
  <2>2. \A p \in Outs : F[p] \in {0, 1, 2, NoFault} /\ G[p] \in {0, 1, 2, NoFault}
    BY OddOneOutIs
  <2>3. SDCFault \in Reps \cup {NoFault}
    <3> HIDE DEF F, G
    <3> QED BY <2>0, <2>1, <2>2, LastFaultIs
  <2>4. CASE config.scan
    <3>1. Has(0, Good)
      BY <1>0, <1>2, <2>4 DEF Decidable
    <3> QED BY <2>3, <2>4, <3>1
  <2>5. CASE ~config.scan
    <3>1. PICK m0 \in Answers(0), m1 \in Answers(1), m2 \in Answers(2) :
            Has(0, m0) /\ Has(1, m1) /\ Has(2, m2)
      BY <1>1, <2>0
    <3>2. \A p \in Outs : b(0)[p] = <<m0>> /\ b(1)[p] = <<m1>> /\ b(2)[p] = <<m2>>
      BY <1>0, <2>5, <3>1 DEF Has
    <3>3. \A p \in Outs : G[p] = NoFault
      <4>0. \A x : Len(<<x>>) = 1
        OBVIOUS
      <4>1. \A p \in Outs : G[p] = OddOneOut(1, 1, 1)
        <5>1. ASSUME NEW p \in Outs PROVE G[p] = OddOneOut(1, 1, 1)
          <6>1. Len(b(0)[p]) = 1 /\ Len(b(1)[p]) = 1 /\ Len(b(2)[p]) = 1
            BY <3>2, <4>0
          <6> HIDE DEF b
          <6> QED BY <6>1
        <5> QED BY <5>1
      <4> QED BY <4>1, OddOneOutIs
    <3>4. \A p \in Outs : F[p] = OddOneOut(<<m0>>, <<m1>>, <<m2>>)
      BY <3>2
    <3>5. SDCFault = OddOneOut(<<m0>>, <<m1>>, <<m2>>)
      <4> HIDE DEF F, G
      <4>1. LastFault(G) = NoFault
        BY <3>3, LastFaultIs
      <4>2. LastFault(F) = OddOneOut(<<m0>>, <<m1>>, <<m2>>)
        BY <3>4, <1>0, LastFaultIs
      <4> QED BY <2>1, <4>1, <4>2
    <3>6. \A x, y : <<x>> = <<y>> <=> x = y
      OBVIOUS
    <3>7. /\ m0 \in {Good, Wrong} /\ m1 \in {Good, Wrong} /\ m2 \in {Good, Wrong}
          /\ m0 # Good => 0 \in faulty
          /\ m1 # Good => 1 \in faulty
          /\ m2 # Good => 2 \in faulty
      BY DEF Answers
    <3>8. \A r, q \in faulty : r = q
      BY DEF RoundInv, Faulty
    <3>9. \/ SDCFault = NoFault /\ m0 = m1 /\ m0 = m2
          \/ SDCFault = 0 /\ m0 # m1 /\ m0 # m2
          \/ SDCFault = 1 /\ m0 # m1 /\ m0 = m2
          \/ SDCFault = 2 /\ m0 = m1 /\ m0 # m2
      BY <3>5, <3>6, OddOneOutIs
    <3>10. SDCFault = NoFault => m0 = Good
      BY <3>7, <3>8, <3>9 DEF NoFault
    <3>11. SDCFault # NoFault => SDCFault \in faulty
      BY <3>7, <3>8, <3>9
    <3> QED BY <2>3, <3>1, <3>10, <3>11
  <2> QED BY <2>4, <2>5
<1> QED BY <1>0, <1>3, <1>4

\* The vote ends the round, or kills a faulty replica.
LEMMA CheckSDCStep ==
    ASSUME RoundInv, Decidable(config), CheckSDC, UNCHANGED config
    PROVE  RoundInv'
<1> USE DEF outVars, scanVars, repVars, histVars
<1>0. /\ Reps' = Reps /\ Tracked' = Tracked /\ rep_count' = rep_count
      /\ config \in Instances /\ 0 \in Reps
  BY Instance DEF CheckSDC, RoundInv, Types, TypeOK, Reps, Tracked, rep_count
<1>1. Types /\ Counted /\ Faulty /\ Voting /\ pc = "vote"
  BY DEF RoundInv, CheckSDC
<1>2. UNCHANGED <<outVars, ext_in_buffer, scanVars, buffers, fd_ins, fd_outs, repVars, histVars>>
  BY DEF CheckSDC
<1>3. \/ pc' = "send0" /\ fault_index' = fault_index /\ Has(0, Good)
      \/ /\ pc' = "kill" /\ fault_index' \in Reps
         /\ ~config.scan => fault_index' \in faulty
  BY <1>1, Verdict DEF CheckSDC
<1>4. Types'
  <2>1. fault_index' \in Reps /\ pc' \in {"send0", "kill"}
    BY <1>1, <1>3 DEF Types, TypeOK
  <2>2. TypeOK'
    BY <1>0, <1>1, <1>2, <2>1 DEF Types, TypeOK
  <2> QED BY <1>0, <1>1, <1>2, <2>2 DEF Types
<1>5. \A r \in Reps : AtRest(r)' /\ Answered(r)'
  <2>1. \A r \in Reps : AtRest(r) /\ Answered(r)
    BY <1>0, <1>1, AnsweredIs DEF Voting
  <2> QED BY <1>2, <2>1, SameReplica
<1>6. pc' = "send0" => Has(0, Good)'
  BY <1>0, <1>2, <1>3 DEF Has, Good
<1>7. Voting'
  BY <1>0, <1>2, <1>3, <1>5, <1>6 DEF Voting
<1>8. Counted'
  BY <1>0, <1>1, <1>2, <1>3 DEF Counted, Right
<1>9. Faulty'
  BY <1>0, <1>1, <1>2 DEF Faulty, Harmed
<1> QED BY <1>3, <1>4, <1>7, <1>8, <1>9 DEF RoundInv

\* killAndClean takes the replica and what was in its pipes.
LEMMA KillAndCleanStep ==
    ASSUME RoundInv, KillAndClean, UNCHANGED config
    PROVE  RoundInv'
<1> USE DEF outVars, scanVars, histVars
<1>0. /\ Reps' = Reps /\ Tracked' = Tracked /\ rep_count' = rep_count
      /\ config \in Instances /\ fault_index \in Reps /\ Tracked \subseteq Outs
  BY Instance DEF KillAndClean, RoundInv, Types, TypeOK, Reps, Tracked, rep_count
<1>1. Types /\ Counted /\ Faulty /\ Voting /\ pc = "kill" /\ pc' = "restart"
  BY DEF RoundInv, KillAndClean
<1>2. /\ status' = [status EXCEPT ![fault_index] = "dead"]
      /\ fd_ins' = [fd_ins EXCEPT ![fault_index] = <<>>]
      /\ fd_outs' = [fd_outs EXCEPT ![fault_index] = NoOutput]
      /\ UNCHANGED <<outVars, ext_in_buffer, scanVars, buffers, fault_index,
                     insertSDC, insertCFE, cmd, histVars>>
  BY DEF KillAndClean
<1>3. NoOutput \in [Outs -> Seq(Msg)] /\ \A p \in Outs : NoOutput[p] = <<>>
  BY DEF NoOutput
<1>4. /\ \A r \in Reps \ {fault_index} :
           status'[r] = status[r] /\ fd_ins'[r] = fd_ins[r] /\ fd_outs'[r] = fd_outs[r]
      /\ status'[fault_index] = "dead" /\ fd_ins'[fault_index] = <<>>
      /\ fd_outs'[fault_index] = NoOutput
  BY <1>0, <1>1, <1>2 DEF Types, TypeOK
<1>5. Types'
  <2>1. /\ status' \in [Reps -> {"up", "looping", "dead"}] /\ fd_ins' \in [Reps -> Seq(Nat)]
        /\ fd_outs' \in [Reps -> [Outs -> Seq(Msg)]]
    BY <1>1, <1>2, <1>3 DEF Types, TypeOK
  <2>2. TypeOK'
    BY <1>0, <1>1, <1>2, <2>1 DEF Types, TypeOK
  <2> QED BY <1>0, <1>1, <1>2, <2>2 DEF Types
<1>6. \A r \in Reps \ {fault_index} : Answered(r)'
  <2>1. \A r \in Reps \ {fault_index} : Answered(r)
    BY <1>1 DEF Voting
  <2> QED BY <1>2, <1>4, <2>1, SameReplica
<1>7. Voting'
  BY <1>0, <1>1, <1>2, <1>3, <1>4, <1>6 DEF Voting
<1>8. Counted'
  BY <1>0, <1>1, <1>2 DEF Counted, Right
<1>9. Faulty'
  BY <1>0, <1>1, <1>2, <1>4 DEF Faulty, Harmed
<1> QED BY <1>1, <1>5, <1>7, <1>8, <1>9 DEF RoundInv

\* startReplicas: the new replica is a copy of one that has answered, and its
\* answer is sent.
LEMMA StartReplicaStep ==
    ASSUME RoundInv, Decidable(config), StartReplica, UNCHANGED config
    PROVE  RoundInv'
<1> USE DEF outVars, scanVars
<1> DEFINE f == fault_index
           s == Restarter(fault_index)
<1>0. /\ Reps' = Reps /\ Tracked' = Tracked /\ rep_count' = rep_count
      /\ config \in Instances /\ f \in Reps /\ s \in Reps /\ s # f
  BY RestarterIs DEF StartReplica, RoundInv, Types, TypeOK, Reps, Tracked, rep_count
<1>1. Types /\ Counted /\ Faulty /\ Voting /\ pc = "restart" /\ pc' = "sendRestarter"
  BY DEF RoundInv, StartReplica
<1>2. /\ status' = [status EXCEPT ![f] = status[s]]
      /\ insertSDC' = [insertSDC EXCEPT ![f] = insertSDC[s]]
      /\ insertCFE' = [insertCFE EXCEPT ![f] = insertCFE[s]]
      /\ cmd' = [cmd EXCEPT ![f] = cmd[s]]
      /\ faulty' = faulty \ {f}
      /\ UNCHANGED <<outVars, ext_in_buffer, scanVars, buffers, fault_index, fd_ins,
                     fd_outs, faults>>
  BY DEF StartReplica
<1> HIDE DEF s
<1>3. config.scan => "sdc" \notin config.kinds /\ "cfe" \notin config.kinds
  BY DEF Decidable
<1>4. ASSUME NEW q \in Reps \ {f}
      PROVE  /\ Answered(q) /\ AtRest(q) /\ Has(q, Good)
             /\ Harmed(q) => q \in faulty /\ config.scan /\ status[q] = "dead"
  <2>1. Answered(q) /\ (Harmed(q) => q \in faulty)
    BY <1>1 DEF Voting, Faulty
  <2>2. q \in faulty => config.scan
    BY <1>1 DEF Faulty, Voting
  <2>3. AtRest(q) /\ Has(q, Good)
    BY <1>0, <1>3, <2>1, <2>2, AnsweredIs
  <2>4. config.scan /\ Harmed(q) => status[q] = "dead"
    <3>1. status[q] \in {"up", "looping", "dead"}
      BY <1>1 DEF Types, TypeOK
    <3> QED BY <1>1, <1>3, <3>1 DEF Faulty, Harmed
  <2> QED BY <2>1, <2>2, <2>3, <2>4
<1>5. /\ \A q \in Reps \ {f} : /\ status'[q] = status[q] /\ cmd'[q] = cmd[q]
                               /\ insertSDC'[q] = insertSDC[q] /\ insertCFE'[q] = insertCFE[q]
      /\ status'[f] = status[s] /\ cmd'[f] = cmd[s]
      /\ insertSDC'[f] = insertSDC[s] /\ insertCFE'[f] = insertCFE[s]
  BY <1>0, <1>1, <1>2 DEF Types, TypeOK
<1>6. Types'
  <2>1. /\ status' \in [Reps -> {"up", "looping", "dead"}]
        /\ insertSDC' \in [Reps -> BOOLEAN] /\ insertCFE' \in [Reps -> BOOLEAN]
        /\ cmd' \in [Reps -> {Idle} \cup [msg : Msg, next : Outs]]
    BY <1>0, <1>1, <1>2 DEF Types, TypeOK
  <2>2. faulty' \subseteq Reps
    BY <1>1, <1>2 DEF Types, TypeOK
  <2>3. TypeOK'
    BY <1>0, <1>1, <1>2, <2>1, <2>2 DEF Types, TypeOK
  <2> QED BY <1>0, <1>1, <1>2, <2>1, <2>3 DEF Types
<1>7. \A q \in Reps : AtRest(q)'
  <2>1. \A q \in Reps \ {f} : AtRest(q)'
    BY <1>0, <1>2, <1>4, <1>5 DEF AtRest
  <2>2. ASSUME NEW q \in Reps, q = f PROVE AtRest(q)'
    <3>1. fd_ins[q] = <<>> /\ \A p \in Tracked : fd_outs[q][p] = <<>>
      BY <1>1, <2>2 DEF Voting
    <3>2. cmd[s] = Idle
      BY <1>0, <1>4 DEF AtRest
    <3>3. cmd'[q] = Idle
      BY <1>5, <2>2, <3>2
    <3> QED BY <1>0, <1>2, <3>1, <3>3 DEF AtRest
  <2> QED BY <2>1, <2>2
<1>8. Has(Restarter(fault_index), Good)'
  <2>1. Restarter(fault_index)' = s
    BY <1>0, <1>2 DEF Restarter, s
  <2>2. \A p \in Tracked : buffers'[s][p] = <<Good>>
    BY <1>0, <1>2, <1>4 DEF Has
  <2>3. Good' = Good
    BY <1>2 DEF Good
  <2> QED BY <1>0, <2>1, <2>2, <2>3 DEF Has
<1>9. Voting'
  BY <1>0, <1>1, <1>7, <1>8 DEF Voting
<1>10. Counted'
  BY <1>0, <1>1, <1>2 DEF Counted, Right
<1>11. Faulty'
  <2>1. ~Harmed(s)
    BY <1>0, <1>4 DEF StartReplica, s
  <2>2. ~Harmed(f)'
    BY <1>2, <1>5, <2>1 DEF Harmed
  <2>3. \A q \in Reps \ {f} : (Harmed(q)' <=> Harmed(q)) /\ (q \in faulty => q \in faulty')
    BY <1>2, <1>5 DEF Harmed
  <2>4. \A q \in Reps : Harmed(q)' => q \in faulty'
    BY <1>0, <1>2, <1>4, <2>2, <2>3
  <2>5. \A q \in Reps : /\ insertSDC'[q] => "sdc" \in config.kinds
                        /\ insertCFE'[q] \/ status'[q] = "looping" => "cfe" \in config.kinds
    BY <1>0, <1>1, <1>5 DEF Faulty
  <2>6. (\A q, x \in faulty' : q = x) /\ (faulty' # {} => config.kinds # {})
    BY <1>1, <1>2 DEF Faulty
  <2> QED BY <1>0, <2>4, <2>5, <2>6 DEF Faulty
<1> QED BY <1>1, <1>6, <1>9, <1>10, <1>11 DEF RoundInv

\* sendData writes the answer of a replica and empties all buffers.
LEMMA SendDataStep ==
    ASSUME RoundInv, SendData, UNCHANGED config
    PROVE  RoundInv'
<1> USE DEF scanVars, repVars, histVars
<1> DEFINE s == IF pc = "send0" THEN 0 ELSE Restarter(fault_index)
<1>0. /\ Reps' = Reps /\ Tracked' = Tracked /\ rep_count' = rep_count
      /\ config \in Instances /\ s \in Reps /\ Tracked \subseteq Outs
  BY Instance, RestarterIs DEF SendData, RoundInv, Types, TypeOK, Reps, Tracked, rep_count
<1>1. /\ Types /\ Counted /\ Faulty /\ Voting
      /\ pc \in {"send0", "sendRestarter"} /\ pc' = "recv"
  BY DEF RoundInv, SendData
<1>2. /\ ext_out' = [p \in Outs |-> ext_out[p] \o buffers[s][p]]
      /\ buffers' = [r \in Reps |-> NoOutput]
      /\ ext_in_buffer' = 0
      /\ UNCHANGED <<ext_in, sensed, scanVars, fault_index, fd_ins, fd_outs, repVars, histVars>>
  BY DEF SendData
<1>3. Has(s, Good) /\ \A r \in Reps : AtRest(r)
  BY <1>1 DEF Voting
<1> HIDE DEF s
<1>4. NoOutput \in [Outs -> Seq(Msg)] /\ \A p \in Outs : NoOutput[p] = <<>>
  BY DEF NoOutput
<1>5. /\ ext_out \in [Outs -> Seq(Msg)] /\ buffers \in [Reps -> [Outs -> Seq(Msg)]]
      /\ sensed \in Nat
  BY <1>1 DEF Types, TypeOK
<1>6. Types'
  <2>1. \A p \in Outs : ext_out[p] \in Seq(Msg) /\ buffers[s][p] \in Seq(Msg)
    BY <1>0, <1>5
  <2>2. \A p \in Outs : ext_out[p] \o buffers[s][p] \in Seq(Msg)
    BY <2>1, ConcatProperties
  <2>3. ext_out' \in [Outs -> Seq(Msg)] /\ buffers' \in [Reps -> [Outs -> Seq(Msg)]]
    BY <1>2, <1>4, <2>2
  <2>4. TypeOK'
    BY <1>0, <1>1, <1>2, <2>3 DEF Types, TypeOK
  <2> QED BY <1>0, <1>1, <1>2, <2>4 DEF Types
<1>7. Voting'
  <2>1. \A r \in Reps : AtRest(r)' /\ Clear(r)'
    BY <1>0, <1>2, <1>3, <1>4 DEF AtRest, Clear
  <2> QED BY <1>0, <1>1, <2>1 DEF Voting
<1>8. Counted'
  <2>1. ASSUME NEW p \in Tracked
        PROVE  Right(p)' /\ Len(ext_out'[p]) = sensed
    <3> DEFINE old == ext_out[p]
               new == ext_out'[p]
    <3>1. old \in Seq(Msg) /\ p \in Outs
      BY <1>0, <1>5
    <3>2. new = old \o <<Good>>
      BY <1>0, <1>2, <1>3, <3>1 DEF Has
    <3>3. Len(old) + 1 = sensed /\ \A i \in DOMAIN old : old[i] = [seq |-> i, bad |-> FALSE]
      BY <1>1 DEF Counted, Right
    <3>4. <<Good>> \in Seq(Msg) /\ Len(<<Good>>) = 1 /\ <<Good>>[1] = Good
      <4>1. Good \in Msg
        BY <1>5 DEF Good, Msg
      <4> HIDE DEF Msg
      <4> QED BY <4>1
    <3> HIDE DEF old, new
    <3>5. Len(new) = Len(old) + 1 /\ DOMAIN new = 1 .. Len(old) + 1
          /\ \A i \in 1 .. Len(old) + 1 : new[i] = IF i <= Len(old) THEN old[i] ELSE <<Good>>[i - Len(old)]
      BY <3>1, <3>2, <3>4, ConcatProperties
    <3>6. \A i \in DOMAIN new : new[i] = [seq |-> i, bad |-> FALSE]
      <4> SUFFICES ASSUME NEW i \in 1 .. Len(old) + 1 PROVE new[i] = [seq |-> i, bad |-> FALSE]
        BY <3>5
      <4>1. Len(old) \in Nat /\ DOMAIN old = 1 .. Len(old)
        BY <3>1
      <4>2. CASE i <= Len(old)
        BY <3>3, <3>5, <4>1, <4>2
      <4>3. CASE i = Len(old) + 1
        <5>1. i - Len(old) = 1 /\ ~(i <= Len(old)) /\ i = sensed
          BY <3>3, <4>1, <4>3
        <5> QED BY <3>4, <3>5, <5>1 DEF Good
      <4> QED BY <4>1, <4>2, <4>3
    <3> QED BY <3>3, <3>5, <3>6 DEF Right, new
  <2>2. ext_in' = <<>> /\ Len(ext_in') = 0 /\ sensed' = sensed
    BY <1>1, <1>2 DEF Counted
  <2>3. \A p \in Tracked : Len(ext_out'[p]) + Len(ext_in') = sensed'
    <3>1. sensed + 0 = sensed
      BY <1>5
    <3> QED BY <2>1, <2>2, <3>1
  <2> QED BY <1>0, <1>1, <1>2, <2>1, <2>2, <2>3 DEF Counted
<1>9. Faulty'
  BY <1>0, <1>1, <1>2 DEF Faulty, Harmed
<1> QED BY <1>1, <1>6, <1>7, <1>8, <1>9 DEF RoundInv
-----------------------------------------------------------------------------
(***************************************************************************)
(* The theorems.                                                           *)
(***************************************************************************)
\* Nothing is lost when nothing happens.
LEMMA StutterStep ==
    ASSUME RoundInv, UNCHANGED vars
    PROVE  RoundInv'
<1> USE DEF vars, outVars, scanVars, repVars, histVars
<1>0. /\ Reps' = Reps /\ Tracked' = Tracked /\ rep_count' = rep_count /\ 0 \in Reps
      /\ Types'
  <2>1. Reps' = Reps /\ Tracked' = Tracked /\ rep_count' = rep_count /\ 0 \in Reps
    BY Instance DEF RoundInv, Types, TypeOK, Reps, Tracked, rep_count
  <2>2. TypeOK'
    BY <2>1 DEF RoundInv, Types, TypeOK
  <2> QED BY <2>1, <2>2 DEF RoundInv, Types
<1>1. Faulty'
  BY <1>0 DEF RoundInv, Faulty, Harmed
<1>2. Answering(0) => Answering(0)'
  BY SameReplica
<1> HIDE DEF vars
<1> QED BY <1>0, <1>1, <1>2, ReplicaStep DEF vars

\* Every step keeps the round.
LEMMA RoundStep ==
    ASSUME RoundInv, Decidable(config), [Next]_vars
    PROVE  RoundInv'
<1>1. CASE UNCHANGED vars
  BY <1>1, StutterStep
<1>2. CASE Bench
  BY <1>2, SendReadingStep DEF Bench
<1>3. CASE Voter
  BY <1>3, RecvDataStep, SendToRepsStep, SelectStep, ReadReportedStep, TimeoutStep,
     CheckSDCStep, KillAndCleanStep, StartReplicaStep, SendDataStep DEF Voter
<1>4. CASE Replicas
  BY <1>4, FilterReadStep, FilterWriteStep DEF Replicas
<1>5. CASE Injector
  BY <1>5, FaultStep DEF Injector
<1> QED BY <1>1, <1>2, <1>3, <1>4, <1>5 DEF Next

\* Each round of VoterM in front of Filter is whole: the answers it gathers are
\* all to one reading, what select() reports is there, and a replica is out of
\* order only by a fault (voterm.c collectFromReps, sendCollect).
THEOREM RoundsKept == Spec => [](Decidable(config) => RoundInv)
<1>1. Init => (Decidable(config) => RoundInv)
  BY InitRound
<1>2. (Decidable(config) => RoundInv) /\ [Next]_vars => (Decidable(config) => RoundInv)'
  <2> SUFFICES ASSUME Decidable(config) => RoundInv, [Next]_vars, Decidable(config)'
               PROVE  RoundInv'
    OBVIOUS
  <2>1. config' = config
    BY DEF Next, Bench, Voter, Replicas, Injector, vars
  <2>2. Decidable(config)
    BY <2>1 DEF Decidable
  <2> QED BY <2>2, RoundStep
<1> QED BY <1>1, <1>2, PTL DEF Spec

\* Every reading comes out on all pipes, once, in order and not corrupted,
\* whichever of the faults strike one after the other (voterm.c checkSDC,
\* findFaultReplica, sendData).
THEOREM OutputsAreRight == Spec => [](Decidable(config) => OutputsRight)
<1>1. RoundInv => OutputsRight
  BY DEF RoundInv, Counted, OutputsRight, Tracked
<1> QED BY <1>1, RoundsKept, PTL

\* The replica that the timeout or the vote kills is the one that failed
\* (voterm.c findFaultReplica, checkSDC).
THEOREM BlamedIsFaulty == Spec => [](Decidable(config) => BlameIsRight)
<1>1. RoundInv => BlameIsRight
  BY DEF RoundInv, Voting, BlameIsRight
<1> QED BY <1>1, RoundsKept, PTL
=============================================================================
