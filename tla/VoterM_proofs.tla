---------------------------- MODULE VoterM_proofs ----------------------------
(***************************************************************************)
(* Proofs about VoterM for every set of faults, every bound and whatever   *)
(* the voting buffers start with: its types, and why replication works.    *)
(* At the core are two inductive invariants that say where each process is *)
(* in its round in every phase of main(): RoundInv with two or three       *)
(* replicas, SingleInv with one.  Together they give the properties of     *)
(* VoterM for every configuration, and that VoterM implements Component.   *)
(***************************************************************************)
EXTENDS VoterM, FiniteSetTheorems, SequenceTheorems, TLAPS

\* The replicas are numbered from 0 and there is at least one.
LEMMA RepsFacts ==
    ASSUME rep_count \in 1..3
    PROVE  /\ Reps \subseteq Nat /\ 0 \in Reps
           /\ \A f \in Reps : Restarter(f) \in Reps
           /\ rep_count = 2 => {0, 1} \subseteq Reps
           /\ rep_count = 3 => {0, 1, 2} \subseteq Reps
<1>1. rep_count = 1 \/ rep_count = 2 \/ rep_count = 3
  OBVIOUS
<1> QED BY <1>1 DEF Reps, Restarter

\* What command() writes is a message per pipe at most, and typed.
LEMMA AnswerType ==
    ASSUME NEW c \in Ctl, NEW n \in Nat, NEW sdc \in BOOLEAN
    PROVE  /\ Answer(c, n, sdc) \in [Outs -> Seq(Msg)]
           /\ AfterCommand(c, n) \in Ctl
           /\ RecvWay(c, n) \in Ctl
<1>1. <<>> \in Seq(Msg)
  OBVIOUS
<1>2. ASSUME NEW m \in Msg PROVE <<m>> \in Seq(Msg)
  OBVIOUS
<1>3. /\ [seq |-> n, goal |-> c.goal, bad |-> sdc] \in Msg
      /\ [seq |-> n, goal |-> c.goal, bad |-> FALSE] \in Msg
  BY DEF Msg, Ctl
<1>4. Answer(c, n, sdc) \in [Outs -> Seq(Msg)]
  BY <1>1, <1>2, <1>3 DEF Answer
<1> QED BY <1>4 DEF AfterCommand, RecvWay, Ctl

\* No output is an answer too.
LEMMA NoOutputType == NoOutput \in [Outs -> Seq(Msg)]
  BY DEF NoOutput

\* The vote blames nobody or a replica there is.
LEMMA SDCFaultType ==
    ASSUME rep_count \in 1..3 PROVE SDCFault \in Reps \cup {NoFault}
<1>1. ASSUME NEW F, NEW T, F \in [Outs -> T \cup {NoFault}]
      PROVE  LastFault(F) \in T \cup {NoFault}
  <2> DEFINE S == {p \in Outs : F[p] # NoFault}
  <2>1. CASE S = {}
    BY <2>1 DEF LastFault
  <2>2. CASE S # {}
    <3>1. \E x \in S : \A y \in S : x >= y
      BY <2>2 DEF Outs, WAY_REQ, MOV_CMD
    <3>2. Max(S) \in S
      BY <3>1 DEF Max
    <3> QED BY <1>1, <2>2, <3>2 DEF LastFault
  <2> QED BY <2>1, <2>2
<1>2. \A a, b, c : OddOneOut(a, b, c) \in {0, 1, 2} \cup {NoFault}
  BY DEF OddOneOut
<1>3. CASE rep_count = 1
  BY <1>3 DEF SDCFault
<1>4. CASE rep_count = 2
  <2> DEFINE F == [p \in Outs |->
                     IF BuffCount(0, p) # BuffCount(1, p)
                     THEN IF BuffCount(0, p) < BuffCount(1, p) THEN 0 ELSE 1
                     ELSE IF buffers[0][p] # buffers[1][p] THEN 0 ELSE NoFault]
  <2>1. F \in [Outs -> {0, 1} \cup {NoFault}]
    OBVIOUS
  <2>2. DmrFault = LastFault(F)
    BY DEF DmrFault
  <2> HIDE DEF F
  <2>3. LastFault(F) \in {0, 1} \cup {NoFault}
    BY <1>1, <2>1
  <2> QED BY <1>4, <2>2, <2>3, RepsFacts DEF SDCFault
<1>5. CASE rep_count = 3
  <2>1. CountFault \in {0, 1, 2} \cup {NoFault} /\ ContentFault \in {0, 1, 2} \cup {NoFault}
    BY <1>1, <1>2 DEF CountFault, ContentFault
  <2> QED BY <1>5, <2>1, RepsFacts DEF SDCFault
<1> QED BY <1>3, <1>4, <1>5

\* The timeout blames a replica there is.
LEMMA LowestScoreType ==
    ASSUME rep_count \in 1..3 PROVE LowestScore \in Reps
<1> DEFINE Low == {r \in Reps : /\ Score(r) < Cardinality(Outs)
                                /\ \A q \in Reps : Score(r) <= Score(q)}
<1>1. CASE Low = {}
  BY <1>1, RepsFacts DEF LowestScore
<1>2. CASE Low # {}
  <2>1. \E x \in Low : \A y \in Low : x =< y
    BY <1>2 DEF Reps
  <2>2. Min(Low) \in Low
    BY <2>1 DEF Min
  <2> QED BY <1>2, <2>2 DEF LowestScore
<1> QED BY <1>1, <1>2

\* recvData returns with what it read, which is not nothing, and the voter
\* keeps it until it is done with it: the types alone do not survive
\* sendToReps, which forgets an untimed input, nor sendData.
ReadSomething == pc # "recv" => ext_in_buffer # <<>>

\* The inductive strengthening of TypeOK.
TypeInv == TypeOK /\ ReadSomething

\* Two sequences in a row are a sequence.
LEMMA ConcatType ==
    ASSUME NEW S, NEW a \in Seq(S), NEW b \in Seq(S) PROVE a \o b \in Seq(S)
  OBVIOUS

\* The replicas stay the same as long as their number does.
LEMMA SameReps ==
    ASSUME UNCHANGED configVars
    PROVE  rep_count' = rep_count /\ kinds' = kinds /\ Reps' = Reps
  BY DEF configVars, Reps

\* The environment keeps the types.
LEMMA EnvType == ASSUME TypeInv, Env PROVE TypeInv'
<1>1. CASE SendReading
  <2>1. sensed + 1 \in Nat /\ DATA \in Ins
    BY DEF TypeInv, TypeOK, Ins
  <2>2. Append(ext_in[DATA], sensed + 1) \in Seq(Nat)
    BY <2>1 DEF TypeInv, TypeOK
  <2> QED BY <1>1, <2>1, <2>2 DEF SendReading, TypeInv, TypeOK, ReadSomething,
                                  configVars, Reps, voterVars, pipeVars, repVars, histVars
<1>2. CASE SendWaypoints
  <2>1. ways + 1 \in Nat /\ WAY_RES \in Ins
    BY DEF TypeInv, TypeOK, Ins
  <2>2. Append(ext_in[WAY_RES], ways + 1) \in Seq(Nat)
    BY <2>1 DEF TypeInv, TypeOK
  <2> QED BY <1>2, <2>1, <2>2 DEF SendWaypoints, TypeInv, TypeOK, ReadSomething,
                                  configVars, Reps, voterVars, pipeVars, repVars, histVars
<1> QED BY <1>1, <1>2 DEF Env

\* A replica keeps the types.
LEMMA ReplicaType == ASSUME TypeInv, NEW r \in Reps, Replica(r) PROVE TypeInv'
<1>0. rep_count' = rep_count /\ kinds' = kinds /\ Reps' = Reps
  BY SameReps DEF Replica
<1> USE <1>0 DEF TypeInv, TypeOK, ReadSomething, envVars, voterVars, pipeVars, histVars
<1>1. CASE Select(r)
  <2>1. status' \in [Reps -> {"up", "looping", "dead"}]
    BY ZenonT(30), <1>1 DEF Select
  <2>2. selected' \in [Reps -> SUBSET Ins]
    <3>1. {p \in Ins : fd_ins[r][p] # <<>>} \in SUBSET Ins
      OBVIOUS
    <3>2. CASE insertCFE[r]
      BY <1>1, <3>2 DEF Select
    <3>3. CASE ~insertCFE[r]
      BY <1>1, <3>1, <3>3 DEF Select
    <3> QED BY <3>2, <3>3
  <2> QED BY <1>1, <2>1, <2>2 DEF Select
<1>2. CASE ReadWaypoints(r)
  <2>1. WAY_RES \in Ins /\ Head(fd_ins[r][WAY_RES]) \in Nat
    BY <1>2 DEF ReadWaypoints, Ins
  <2>2. RecvWay(ctl[r], Head(fd_ins[r][WAY_RES])) \in Ctl
    BY <2>1, AnswerType
  <2>3. Tail(fd_ins[r][WAY_RES]) \in Seq(Nat)
    BY <1>2, <2>1 DEF ReadWaypoints
  <2> QED BY <1>2, <2>1, <2>2, <2>3 DEF ReadWaypoints
<1>3. CASE ReadReading(r)
  <2>1. DATA \in Ins /\ Head(fd_ins[r][DATA]) \in Nat
    BY <1>3 DEF ReadReading, Ins
  <2>2. /\ Answer(ctl[r], Head(fd_ins[r][DATA]), insertSDC[r]) \in [Outs -> Seq(Msg)]
        /\ AfterCommand(ctl[r], Head(fd_ins[r][DATA])) \in Ctl
    BY <2>1, AnswerType
  <2>3. Tail(fd_ins[r][DATA]) \in Seq(Nat)
    BY <1>3, <2>1 DEF ReadReading
  <2> QED BY <1>3, <2>1, <2>2, <2>3 DEF ReadReading
<1>4. ASSUME NEW p \in Outs, WriteAnswer(r, p) PROVE TypeInv'
  <2>1. fd_outs[r][p] \o unsent[r][p] \in Seq(Msg)
    OBVIOUS
  <2> QED BY SMTT(30), <1>4, <2>1 DEF WriteAnswer
<1> QED BY <1>1, <1>2, <1>3, <1>4 DEF Replica

\* The injector keeps the types.
LEMMA InjectorType == ASSUME TypeInv, Injector PROVE TypeInv'
<1>0. rep_count' = rep_count /\ kinds' = kinds /\ Reps' = Reps
  BY SameReps DEF Injector
<1> USE <1>0 DEF TypeInv, TypeOK, ReadSomething, envVars, voterVars, pipeVars, Fault
<1>1. ASSUME NEW r \in Reps, KillReplica(r) PROVE TypeInv'
  <2>1. unsent' \in [Reps -> [Outs -> Seq(Msg)]]
    BY <1>1, NoOutputType DEF KillReplica
  <2>2. /\ selected' \in [Reps -> SUBSET Ins] /\ faulty' \in SUBSET Reps
        /\ faults' \in Nat /\ status' \in [Reps -> {"up", "looping", "dead"}]
    BY <1>1 DEF KillReplica
  <2> QED BY <1>1, <2>1, <2>2 DEF KillReplica
<1>2. ASSUME NEW r \in Reps, TestSDCHandler(r) PROVE TypeInv'
  BY <1>2 DEF TestSDCHandler
<1>3. ASSUME NEW r \in Reps, TestCFEHandler(r) PROVE TypeInv'
  BY <1>3 DEF TestCFEHandler
<1> QED BY <1>1, <1>2, <1>3 DEF Injector

\* killAndClean keeps the types of what it resets.
LEMMA KillType ==
    ASSUME TypeOK, NEW f \in Reps, KillAndClean(f), Reps' = Reps
    PROVE  /\ status' \in [Reps -> {"up", "looping", "dead"}]
           /\ ctl' \in [Reps -> Ctl]
           /\ insertSDC' \in [Reps -> BOOLEAN]
           /\ insertCFE' \in [Reps -> BOOLEAN]
           /\ selected' \in [Reps -> SUBSET Ins]
           /\ unsent' \in [Reps -> [Outs -> Seq(Msg)]]
           /\ fd_ins' \in [Reps -> [Ins -> Seq(Nat)]]
           /\ fd_outs' \in [Reps -> [Outs -> Seq(Msg)]]
<1>1. CtlInit \in Ctl
  BY DEF CtlInit, Ctl
<1>2. [p \in Ins |-> <<>>] \in [Ins -> Seq(Nat)]
  OBVIOUS
<1> QED BY <1>1, <1>2, NoOutputType DEF TypeOK, KillAndClean

\* sendData keeps the types.
LEMMA SendDataType ==
    ASSUME TypeInv, NEW s \in Reps, SendData(s), pc # "recv",
           UNCHANGED configVars
    PROVE  TypeInv'
<1>0. rep_count' = rep_count /\ kinds' = kinds /\ Reps' = Reps
  BY SameReps
<1>1. \A p \in Outs : ext_out[p] \o buffers[s][p] \in Seq(Msg)
  BY DEF TypeInv, TypeOK
<1>2. ext_out' \in [Outs -> Seq(Msg)]
  BY <1>1 DEF SendData
<1>3. AfterCommand(ref, Head(ext_in_buffer)) \in Ctl
  <2>1. Head(ext_in_buffer) \in Nat
    BY DEF TypeInv, TypeOK, ReadSomething
  <2> QED BY <2>1 DEF TypeInv, TypeOK, AfterCommand, Ctl
<1>4. buffers' \in [Reps -> [Outs -> Seq(Msg)]] /\ ext_in_buffer' \in Seq(Nat)
  BY <1>0, NoOutputType DEF SendData
<1> QED BY <1>0, <1>2, <1>3, <1>4 DEF SendData, TypeInv, TypeOK, ReadSomething,
                                pipeVars, repVars

\* A turn of collectFromReps keeps the types.
LEMMA CollectType ==
    ASSUME TypeInv, NEW expected, NEW next, CollectReady(expected, next),
           next \in {"vote", "sendRestarter"}, pc # "recv",
           UNCHANGED configVars
    PROVE  TypeInv'
<1>0. rep_count' = rep_count /\ kinds' = kinds /\ Reps' = Reps
  BY SameReps
<1>1. Cardinality(DoneReads) \in Nat
  <2>1. IsFiniteSet(Reps) /\ IsFiniteSet(Outs)
    <3>1. rep_count - 1 \in Int /\ 0 \in Int /\ 1 \in Int
      BY DEF TypeInv, TypeOK
    <3>2. IsFiniteSet(0 .. rep_count - 1) /\ IsFiniteSet(0 .. 1)
      BY <3>1, FS_Interval, Zenon
    <3>3. Outs = 0 .. 1
      BY DEF Outs, WAY_REQ, MOV_CMD
    <3> QED BY <3>2, <3>3 DEF Reps
  <2>2. IsFiniteSet(Reps \X Outs)
    BY <2>1, FS_Product
  <2>3. DoneReads \in SUBSET (Reps \X Outs)
    BY DEF DoneReads, Ready
  <2> QED BY <2>2, <2>3, FS_Subset, FS_CardinalityType
<1>2. buffers' \in [Reps -> [Outs -> Seq(Msg)]]
  BY <1>0 DEF CollectReady, TypeInv, TypeOK
<1>3. fd_outs' \in [Reps -> [Outs -> Seq(Msg)]]
  BY <1>0, NoOutputType DEF CollectReady
<1>4. rep_done' \in Nat
  BY <1>1 DEF CollectReady, TypeInv, TypeOK
<1> QED BY <1>0, <1>2, <1>3, <1>4 DEF CollectReady, TypeInv, TypeOK, ReadSomething,
                                envVars, repVars, histVars

\* write() to every replica keeps the types.
LEMMA WriteType ==
    ASSUME TypeOK PROVE WrittenToReps \in [Reps -> [Ins -> Seq(Nat)]]
<1>1. \A r \in Reps : fd_ins[r][active_pipe_index] \o ext_in_buffer \in Seq(Nat)
  BY DEF TypeOK
<1> QED BY <1>1 DEF TypeOK, WrittenToReps

\* The voter keeps the types.
LEMMA VoterType == ASSUME TypeInv, Voter PROVE TypeInv'
<1>0. UNCHANGED configVars /\ rep_count' = rep_count /\ kinds' = kinds /\ Reps' = Reps
  BY SameReps DEF Voter
<1> USE <1>0 DEF TypeInv, TypeOK, ReadSomething
<1>1. CASE RecvData
  BY <1>1 DEF RecvData, pipeVars, repVars, histVars
<1>2. CASE SendToReps
  <2>1. fd_ins' \in [Reps -> [Ins -> Seq(Nat)]]
    BY <1>2, WriteType DEF SendToReps
  <2>2. ref' \in Ctl
    <3>1. CASE WaitOnInput
      BY <1>2, <3>1 DEF SendToReps
    <3>2. CASE ~WaitOnInput
      <4>1. ext_in_buffer[Len(ext_in_buffer)] \in Nat
        BY <1>2 DEF SendToReps
      <4>2. ref' = RecvWay(ref, ext_in_buffer[Len(ext_in_buffer)])
        BY <1>2, <3>2, Zenon DEF SendToReps
      <4> QED BY <4>1, <4>2, AnswerType
    <3> QED BY <3>1, <3>2
  <2>3. /\ pc' \in {"collect", "recv"}
        /\ rep_done' \in Nat
        /\ ext_in_buffer' \in Seq(Nat)
        /\ pc' # "recv" => ext_in_buffer' # <<>>
    <3>1. CASE WaitOnInput
      BY <1>2, <3>1 DEF SendToReps
    <3>2. CASE ~WaitOnInput
      BY <1>2, <3>2 DEF SendToReps
    <3> QED BY <3>1, <3>2
  <2> QED BY <1>2, <2>1, <2>2, <2>3 DEF SendToReps, envVars, repVars
<1>3. CASE CollectFromReps
  BY <1>3, CollectType DEF CollectFromReps
<1>4. CASE Timeout
  BY <1>4 DEF Timeout, envVars, pipeVars, repVars, histVars
<1>5. CASE CheckSDC
  <2>1. CASE SDCFault = NoFault
    BY <1>5, <2>1 DEF CheckSDC, envVars, pipeVars, repVars, histVars
  <2>2. CASE SDCFault # NoFault
    <3>1. SDCFault \in Reps
      BY <2>2, SDCFaultType
    <3>2. /\ pc = "vote" /\ pc' = "restart"
          /\ KillAndClean(SDCFault) /\ fault_index' = SDCFault
          /\ UNCHANGED <<envVars, active_pipe_index, ext_in_buffer, buffers,
                         rep_done, histVars>>
      BY <1>5, <2>2 DEF CheckSDC
    <3> QED BY <3>1, <3>2, KillType DEF envVars, histVars
  <2> QED BY <2>1, <2>2
<1>6. CASE FindFaultReplica
  <2>1. KillAndClean(LowestScore) /\ LowestScore \in Reps
    BY <1>6, LowestScoreType DEF FindFaultReplica
  <2> QED BY <1>6, <2>1, KillType DEF FindFaultReplica, envVars, histVars
<1>7. CASE RestartReplica
  <2>1. Restarter(fault_index) \in Reps
    BY RepsFacts
  <2> QED BY <1>7, <2>1 DEF RestartReplica, envVars, pipeVars
<1>8. CASE ForkReplica
  BY <1>8 DEF ForkReplica, envVars, pipeVars, CtlInit, Ctl
<1>9. CASE ResendToReps
  BY <1>9, WriteType DEF ResendToReps, envVars, repVars, histVars
<1>10. CASE RecollectFromReps
  BY <1>10, CollectType DEF RecollectFromReps
<1>11. CASE SendVoted
  BY <1>11, SendDataType, RepsFacts DEF SendVoted
<1>12. CASE SendRestarter
  BY <1>12, SendDataType, RepsFacts DEF SendRestarter
<1> QED BY <1>1, <1>2, <1>3, <1>4, <1>5, <1>6, <1>7, <1>8, <1>9, <1>10, <1>11,
           <1>12 DEF Voter

\* The variables start with their types.
LEMMA InitType == Init => TypeInv
<1> SUFFICES ASSUME Init PROVE TypeInv
  OBVIOUS
<1>1. CtlInit \in Ctl
  BY DEF CtlInit, Ctl
<1>2. buffers \in [Reps -> [Outs -> Seq(Msg)]]
  BY InitBuffersAssumption, NoOutputType DEF Init
<1>3. rep_count \in 1..3 /\ kinds \subseteq FaultKinds
  BY InstancesAssumption DEF Init
<1> QED BY <1>1, <1>2, <1>3, NoOutputType, RepsFacts
        DEF Init, TypeInv, TypeOK, ReadSomething, Ins

\* Every step keeps them.
LEMMA NextType == TypeInv /\ [Next]_vars => TypeInv'
<1>1. CASE UNCHANGED vars
  BY <1>1, SameReps DEF vars, envVars, voterVars, pipeVars, repVars, histVars, TypeInv,
              TypeOK, ReadSomething
<1> QED BY <1>1, EnvType, VoterType, ReplicaType, InjectorType DEF Next

\* The voter's and the replicas' variables keep their types whatever happens
\* and in whatever order: no vote or timeout blames a replica that is not
\* there, and recvData never leaves sendToReps without an input.
THEOREM TypeCorrect == Spec => []TypeOK
  BY InitType, NextType, PTL DEF Spec, TypeInv

-----------------------------------------------------------------------------
(***************************************************************************)
(* Where the processes are in a round.                                     *)
(***************************************************************************)
\* The reading of the present round, and the answer to it of a controller
\* that is in the state ref.
Now == Head(ext_in_buffer)
Ans(b) == Answer(ref, Now, b)

(***************************************************************************)
(* What holds all the time.                                                *)
(***************************************************************************)
\* No two replicas are faulty at a time, and one that is not up or about to
\* fail is faulty, unless the voter has just killed it.
Faults ==
    /\ faulty # {} => kinds # {}
    /\ \A q, r \in faulty : q = r
    /\ \A r \in Reps :
         /\ status[r] # "up" \/ insertSDC[r] \/ insertCFE[r] =>
              r \in faulty \/ (pc = "restart" /\ r = fault_index)
         /\ status[r] # "up" => Idle(r)
         /\ insertSDC[r] => status[r] = "up" /\ ~insertCFE[r] /\ "sdc" \in kinds

\* One reading is out at a time: it waits outside, or the voter has it.
HasReading == pc # "recv" /\ active_pipe_index = DATA

\* The readings, the commands and the requests so far, counted.
Counts ==
    /\ pc \notin {"recv", "send"} => active_pipe_index = DATA
    /\ ext_in[DATA] # <<>> => Len(ext_in[DATA]) = 1 /\ ~HasReading
    /\ HasReading => Len(ext_in_buffer) = 1
    /\ HasReading \/ ext_in[DATA] # <<>> => sensed = Len(ext_out[MOV_CMD]) + 1
    /\ ~HasReading /\ ext_in[DATA] = <<>> => sensed = Len(ext_out[MOV_CMD])
    /\ sensed <= MaxRounds
    /\ Len(ext_out[WAY_REQ]) <= Len(ext_out[MOV_CMD])

\* The controller waits for waypoints exactly when one request is out: AStar
\* has it, or its answer waits outside, or the voter has that.
HasWaypoints == pc # "recv" /\ active_pipe_index = WAY_RES
Asked == ways < Len(ext_out[WAY_REQ])

\* Readings and requests cannot be confused: at most one request is out.
Requests ==
    /\ ref.way_pending <=> HasWaypoints \/ ext_in[WAY_RES] # <<>> \/ Asked
    /\ HasWaypoints => Len(ext_in_buffer) = 1 /\ ext_in[WAY_RES] = <<>> /\ ~Asked
    /\ ext_in[WAY_RES] # <<>> => Len(ext_in[WAY_RES]) = 1 /\ ~Asked
    /\ Asked => Len(ext_out[WAY_REQ]) = ways + 1
    /\ ~Asked => Len(ext_out[WAY_REQ]) = ways
    /\ ext_out[MOV_CMD] = <<>> => ~ref.way_pending

(***************************************************************************)
(* Where a replica of DMR or TMR is in its round.                          *)
(***************************************************************************)
\* Nothing of this round has been collected from r's pipe p.
Fresh(r, p) == buffers[r][p] = <<>> \/ (kinds = {} /\ ext_out[MOV_CMD] = <<>>)

\* r has read every reading but the present one.
UpToDate(r) ==
    /\ Caught_up(r) = ref
    /\ fd_ins[r][WAY_RES] # <<>> => Len(fd_ins[r][WAY_RES]) = 1 /\ ~ref.way_pending

\* The present reading is in r's pipe, and nothing of r's answer anywhere.
Waiting(r) ==
    /\ fd_ins[r][DATA] = <<Now>>
    /\ UpToDate(r)
    /\ DATA \in selected[r] /\ WAY_RES \notin selected[r] => fd_ins[r][WAY_RES] = <<>>
    /\ unsent[r] = NoOutput /\ fd_outs[r] = NoOutput
    /\ \A p \in Outs : Fresh(r, p)

\* r has read the present reading too.
Taken(r) ==
    /\ fd_ins[r] = [p \in Ins |-> <<>>]
    /\ selected[r] = {}
    /\ ctl[r] = AfterCommand(ref, Now)

\* A corrupted answer is that of the faulty replica, which is all right again.
Corrupts(r) == /\ r \in faulty /\ "sdc" \in kinds
               /\ status[r] = "up" /\ ~insertSDC[r] /\ ~insertCFE[r]

\* Each part of the answer is still to be written, in the pipe or collected,
\* and no part overtakes another.
Answering(r, b) ==
    /\ Taken(r)
    /\ \A p \in Outs :
         \/ unsent[r][p] = Ans(b)[p] /\ fd_outs[r][p] = <<>> /\ Fresh(r, p)
         \/ unsent[r][p] = <<>> /\ fd_outs[r][p] = Ans(b)[p] /\ Fresh(r, p)
         \/ unsent[r][p] = <<>> /\ fd_outs[r][p] = <<>> /\ buffers[r][p] = Ans(b)[p]
    /\ unsent[r][MOV_CMD] = <<>> => unsent[r][WAY_REQ] = <<>>
    /\ unsent[r][MOV_CMD] = <<>> /\ fd_outs[r][MOV_CMD] = <<>> => fd_outs[r][WAY_REQ] = <<>>
    /\ b => Corrupts(r)

\* A replica that is not running leaves a part of its answer behind.
Stuck(r) ==
    /\ \A p \in Outs :
         \/ fd_outs[r][p] = Ans(FALSE)[p] /\ buffers[r][p] = <<>>
         \/ fd_outs[r][p] = <<>> /\ buffers[r][p] \in {<<>>, Ans(FALSE)[p]}
    /\ fd_outs[r][MOV_CMD] # <<>> =>
         fd_outs[r][WAY_REQ] = Ans(FALSE)[WAY_REQ] \/ buffers[r][WAY_REQ] = Ans(FALSE)[WAY_REQ]
    /\ buffers[r][MOV_CMD] # <<>> =>
         fd_outs[r][WAY_REQ] = <<>> /\ buffers[r][WAY_REQ] = Ans(FALSE)[WAY_REQ]

\* collectFromReps has counted the timed output of r.
Collected(r) ==
    IF status[r] = "up"
    THEN fd_ins[r][DATA] = <<>> /\ unsent[r][MOV_CMD] = <<>> /\ fd_outs[r][MOV_CMD] = <<>>
    ELSE buffers[r][MOV_CMD] # <<>>
CollectedSet == {r \in Reps : Collected(r)}

\* r has nothing left to do in this round.
Quiet(r) == unsent[r] = NoOutput /\ fd_outs[r] = NoOutput
Done(r) == Quiet(r) /\ (status[r] = "up" => Taken(r))
\* and no fault is in it.
Fine(r) == status[r] = "up" /\ ~insertSDC[r] /\ ~insertCFE[r] /\ Done(r)

(***************************************************************************)
(* The phases of main().                                                   *)
(***************************************************************************)
\* Between rounds: r has answered every reading and all was sent.
Rests(r) ==
    /\ Quiet(r)
    /\ \A p \in Outs : Fresh(r, p)
    /\ status[r] = "up" => /\ UpToDate(r) /\ fd_ins[r][DATA] = <<>>
                           /\ DATA \notin selected[r]

\* During a round: r waits, answers, or stopped in the middle.
InRound(r) ==
    IF status[r] = "up" THEN Waiting(r) \/ \E b \in BOOLEAN : Answering(r, b) ELSE Stuck(r)

\* rep_done counts replicas, although the code counts reads.
Collecting ==
    /\ \A r \in Reps : InRound(r)
    /\ rep_done = Cardinality(CollectedSet)
    /\ CollectedSet # Reps

\* All answers are there, and only a faulty replica's can be corrupted.
Voting ==
    \A r \in Reps :
        /\ Done(r)
        /\ \E b \in BOOLEAN : buffers[r] = Ans(b) /\ (b => Corrupts(r))

\* All answers but that of the faulty replica are there.
TimedOut ==
    \E x \in Reps :
        /\ faulty = {x}
        /\ buffers[x][MOV_CMD] = <<>>
        /\ buffers[x][WAY_REQ] \in {<<>>, Ans(FALSE)[WAY_REQ]}
        /\ \A r \in Reps \ {x} : Fine(r) /\ buffers[r] = Ans(FALSE)

\* The vote found no difference.
Agreed == \A r \in Reps : Done(r) /\ buffers[r] = Ans(FALSE)

\* What the restarter holds is what will be sent.
RestarterAnswer ==
    \E b \in BOOLEAN :
        /\ buffers[Restarter(fault_index)] = Ans(b)
        /\ b => Promise = "corrupts"

\* The faulty replica is dead and cleaned, all others have answered.
Restarting ==
    /\ faulty # {}
    /\ Quiet(fault_index) /\ selected[fault_index] = {}
    /\ fd_ins[fault_index] = [p \in Ins |-> <<>>]
    /\ ~insertSDC[fault_index] /\ ~insertCFE[fault_index]
    /\ status[fault_index] = "dead"
    /\ \A r \in Reps \ {fault_index} : Fine(r)
    /\ RestarterAnswer

\* What holds at each place of main().
Phase ==
    /\ pc \notin {"fork", "resend", "recollect"}
    /\ pc \in {"recv", "send"} => \A r \in Reps : Rests(r)
    /\ pc = "collect" => Collecting
    /\ pc = "vote" => Voting
    /\ pc = "timeout" => TimedOut
    /\ pc = "send0" => Agreed
    /\ pc = "restart" => Restarting
    /\ pc = "sendRestarter" => (\A r \in Reps : Done(r)) /\ RestarterAnswer

\* The inductive invariant with two or three replicas.
RoundInv == rep_count > 1 /\ TypeInv /\ Faults /\ Counts /\ Requests /\ Phase

-----------------------------------------------------------------------------
(***************************************************************************)
(* Operators.                                                              *)
(***************************************************************************)

\* An answer has one velocity, corrupted or not, and a request exactly when
\* none is outstanding; only the velocity tells a corrupted one.
LEMMA AnswerFacts ==
    ASSUME NEW c \in Ctl, NEW n \in Nat
    PROVE  \A b \in BOOLEAN :
             /\ Answer(c, n, b) \in [Outs -> Seq(Msg)]
             /\ Len(Answer(c, n, b)[MOV_CMD]) = 1 /\ Answer(c, n, b)[MOV_CMD] # <<>>
             /\ Answer(c, n, b)[MOV_CMD][1].bad = b
             /\ Answer(c, n, b)[WAY_REQ] = Answer(c, n, FALSE)[WAY_REQ]
             /\ c.way_pending => Answer(c, n, b)[WAY_REQ] = <<>>
             /\ ~c.way_pending => /\ Len(Answer(c, n, b)[WAY_REQ]) = 1
                                  /\ Answer(c, n, b)[WAY_REQ] # <<>>
<1> TAKE b \in BOOLEAN
<1>1. Answer(c, n, b) \in [Outs -> Seq(Msg)]
  BY AnswerType
<1>2. Answer(c, n, b)[MOV_CMD] = <<[seq |-> n, goal |-> c.goal, bad |-> b]>>
  BY DEF Answer, Outs
<1>3. /\ Answer(c, n, b)[WAY_REQ] = IF c.way_pending THEN <<>>
                                    ELSE <<[seq |-> n, goal |-> c.goal, bad |-> FALSE]>>
      /\ Answer(c, n, b)[WAY_REQ] = Answer(c, n, FALSE)[WAY_REQ]
  BY DEF Answer, Outs, WAY_REQ, MOV_CMD
<1>4. Answer(c, n, b)[MOV_CMD][1] = [seq |-> n, goal |-> c.goal, bad |-> b]
  BY <1>2
<1>5. Answer(c, n, b)[MOV_CMD][1].bad = b
  <2>1. CASE b = TRUE
    BY <1>4, <2>1
  <2>2. CASE b = FALSE
    BY <1>4, <2>2
  <2> QED BY <2>1, <2>2
<1>6. Len(Answer(c, n, b)[MOV_CMD]) = 1 /\ Answer(c, n, b)[MOV_CMD] # <<>>
  BY <1>2
<1>7. /\ c.way_pending => Answer(c, n, b)[WAY_REQ] = <<>>
      /\ ~c.way_pending => /\ Len(Answer(c, n, b)[WAY_REQ]) = 1
                           /\ Answer(c, n, b)[WAY_REQ] # <<>>
  BY <1>3
<1> QED BY <1>1, <1>3, <1>5, <1>6, <1>7, Zenon

\* What the state becomes is a state, and an answer leaves a request out.
LEMMA CtlFacts ==
    ASSUME NEW c \in Ctl, NEW n \in Nat
    PROVE  /\ AfterCommand(c, n) \in Ctl /\ AfterCommand(c, n).way_pending
           /\ RecvWay(c, n) \in Ctl /\ ~RecvWay(c, n).way_pending
  BY DEF Ctl, AfterCommand, RecvWay

\* A sequence of one.
LEMMA SingleFacts ==
    ASSUME NEW S, NEW s \in Seq(S), Len(s) = 1
    PROVE  /\ s[1] \in S /\ s = <<s[1]>> /\ s # <<>>
           /\ Head(s) = s[1] /\ Tail(s) = <<>>
<1>1. s[1] \in S /\ s # <<>> /\ Head(s) = s[1]
  OBVIOUS
<1>2. s = <<s[1]>>
  BY <1>1, SeqEqual
<1>3. Tail(<<s[1]>>) = <<>>
  BY <1>1
<1> QED BY <1>1, <1>2, <1>3

\* Outputs are equal when they are on both pipes.
LEMMA OutputsEqual ==
    ASSUME NEW f \in [Outs -> Seq(Msg)], NEW g \in [Outs -> Seq(Msg)]
    PROVE  f = g <=> f[WAY_REQ] = g[WAY_REQ] /\ f[MOV_CMD] = g[MOV_CMD]
  BY DEF Outs

\* NoOutput has nothing on either pipe.
LEMMA NoOutputFacts ==
    /\ NoOutput[WAY_REQ] = <<>> /\ NoOutput[MOV_CMD] = <<>>
    /\ \A p \in Outs : NoOutput[p] = <<>>
  BY DEF NoOutput, Outs

\* What has nothing on either pipe is NoOutput.
LEMMA NothingOut ==
    ASSUME NEW f \in [Outs -> Seq(Msg)], f[WAY_REQ] = <<>>, f[MOV_CMD] = <<>>
    PROVE  f = NoOutput
  BY OutputsEqual, NoOutputType, NoOutputFacts

\* The reading of a round and the answer to it.
LEMMA RoundFacts ==
    ASSUME TypeOK, Counts, pc # "recv", active_pipe_index = DATA
    PROVE  /\ Now \in Nat /\ ext_in_buffer = <<Now>>
           /\ \A b \in BOOLEAN :
                /\ Ans(b) \in [Outs -> Seq(Msg)]
                /\ Len(Ans(b)[MOV_CMD]) = 1 /\ Ans(b)[MOV_CMD] # <<>>
                /\ Ans(b)[MOV_CMD][1].bad = b
                /\ Ans(b)[WAY_REQ] = Ans(FALSE)[WAY_REQ]
                /\ ref.way_pending => Ans(b)[WAY_REQ] = <<>>
                /\ ~ref.way_pending => /\ Len(Ans(b)[WAY_REQ]) = 1
                                       /\ Ans(b)[WAY_REQ] # <<>>
<1>1. ext_in_buffer \in Seq(Nat) /\ Len(ext_in_buffer) = 1
  BY DEF TypeOK, Counts, HasReading
<1>2. Now \in Nat /\ ext_in_buffer = <<Now>>
  BY SMTT(30), <1>1 DEF Now
<1>3. ref \in Ctl
  BY DEF TypeOK
<1> QED BY <1>2, <1>3, AnswerFacts DEF Ans

-----------------------------------------------------------------------------
(***************************************************************************)
(* The replicas' own steps.                                                *)
(***************************************************************************)

\* Nothing has happened to replica q.
Untouched(q) ==
    /\ status'[q] = status[q] /\ ctl'[q] = ctl[q]
    /\ insertSDC'[q] = insertSDC[q] /\ insertCFE'[q] = insertCFE[q]
    /\ selected'[q] = selected[q] /\ unsent'[q] = unsent[q]
    /\ fd_ins'[q] = fd_ins[q] /\ fd_outs'[q] = fd_outs[q]

\* Then it is where it was.
LEMMA UntouchedStays ==
    ASSUME NEW q, Untouched(q),
           UNCHANGED <<kinds, ext_out, ext_in_buffer, buffers, ref>>
    PROVE  /\ \A p : (Fresh(q, p)' <=> Fresh(q, p))
           /\ (UpToDate(q)' <=> UpToDate(q))
           /\ (Waiting(q)' <=> Waiting(q))
           /\ (Taken(q)' <=> Taken(q))
           /\ \A b \in BOOLEAN :
                Answering(q, b) /\ (b => q \in faulty') => Answering(q, b)'
           /\ (Stuck(q)' <=> Stuck(q))
           /\ (Collected(q)' <=> Collected(q))
           /\ (Quiet(q)' <=> Quiet(q)) /\ (Done(q)' <=> Done(q)) /\ (Fine(q)' <=> Fine(q))
<1> USE DEF Untouched
<1>1. (\A p : (Fresh(q, p)' <=> Fresh(q, p)))
  BY DEF Fresh
<1>2. (UpToDate(q)' <=> UpToDate(q))
  BY DEF UpToDate, Caught_up
<1>3. (Waiting(q)' <=> Waiting(q))
  BY <1>1, <1>2 DEF Waiting, Now
<1>4. (Taken(q)' <=> Taken(q))
  BY DEF Taken, Now
<1>5. ASSUME NEW b \in BOOLEAN, Answering(q, b), b => q \in faulty' PROVE Answering(q, b)'
  BY <1>1, <1>4, <1>5 DEF Answering, Ans, Now, Corrupts
<1>6. (Stuck(q)' <=> Stuck(q))
  BY DEF Stuck, Ans, Now
<1>7. (Collected(q)' <=> Collected(q))
  BY DEF Collected
<1>8. (Quiet(q)' <=> Quiet(q)) /\ (Done(q)' <=> Done(q)) /\ (Fine(q)' <=> Fine(q))
  BY <1>4 DEF Quiet, Done, Fine
<1> QED BY <1>1, <1>2, <1>3, <1>4, <1>5, <1>6, <1>7, <1>8

\* A step of a replica leaves the others and the voter alone.
LEMMA ReplicaFrame ==
    ASSUME TypeOK, NEW r \in Reps, Replica(r)
    PROVE  /\ UNCHANGED <<configVars, envVars, voterVars, histVars, insertCFE>>
           /\ Reps' = Reps
           /\ \A q \in Reps \ {r} : Untouched(q)
<1>0. UNCHANGED configVars /\ Reps' = Reps
  BY SameReps DEF Replica
<1> USE DEF TypeOK, Untouched, envVars, voterVars, pipeVars, histVars
<1>1. CASE Select(r)
  BY <1>0, <1>1 DEF Select
<1>2. CASE ReadWaypoints(r)
  BY <1>0, <1>2 DEF ReadWaypoints
<1>3. CASE ReadReading(r)
  BY <1>0, <1>3 DEF ReadReading
<1>4. CASE \E p \in Outs : WriteAnswer(r, p)
  BY <1>0, <1>4 DEF WriteAnswer
<1> QED BY <1>1, <1>2, <1>3, <1>4 DEF Replica

\* A replica between rounds takes its waypoints at most.
LEMMA RestsStep ==
    ASSUME RoundInv, NEW r \in Reps, Replica(r), Rests(r) PROVE Rests(r)'
<1> USE DEF RoundInv, TypeInv, TypeOK
<1>0. UNCHANGED <<configVars, envVars, voterVars, histVars, insertCFE>> /\ Reps' = Reps
  BY ReplicaFrame
<1>1. CASE Select(r)
  BY <1>0, <1>1 DEF Select, Rests, Quiet, Fresh, UpToDate, Caught_up, envVars, voterVars,
                    pipeVars, histVars, configVars, Idle
<1>2. CASE ReadWaypoints(r)
  <2>1. /\ fd_ins[r][WAY_RES] \in Seq(Nat) /\ Len(fd_ins[r][WAY_RES]) = 1
        /\ RecvWay(ctl[r], fd_ins[r][WAY_RES][1]) = ref /\ ~ref.way_pending
    BY <1>2 DEF ReadWaypoints, Rests, UpToDate, Caught_up, Ins
  <2>2. Tail(fd_ins[r][WAY_RES]) = <<>> /\ Head(fd_ins[r][WAY_RES]) = fd_ins[r][WAY_RES][1]
    BY <2>1, SingleFacts
  <2>3. /\ fd_ins'[r][WAY_RES] = <<>> /\ ctl'[r] = ref /\ fd_ins'[r][DATA] = fd_ins[r][DATA]
        /\ selected'[r] = selected[r] \ {WAY_RES}
        /\ UNCHANGED <<status, unsent, fd_outs>>
    BY <1>2, <2>1, <2>2 DEF ReadWaypoints, Ins, DATA, WAY_RES
  <2> QED BY <1>0, <2>3 DEF Rests, Quiet, Fresh, UpToDate, Caught_up, envVars, voterVars, histVars,
                            configVars
<1>3. CASE ReadReading(r)
  BY <1>3 DEF ReadReading, Rests
<1>4. CASE \E p \in Outs : WriteAnswer(r, p)
  BY <1>4, NoOutputFacts DEF WriteAnswer, Rests, Quiet
<1> QED BY <1>1, <1>2, <1>3, <1>4 DEF Replica

\* A replica that has nothing left to do in its round does nothing.
LEMMA DoneStep ==
    ASSUME RoundInv, NEW r \in Reps, Done(r) PROVE ~Replica(r)
<1>1. \A p \in Ins : [q \in Ins |-> <<>>][p] = <<>>
  OBVIOUS
<1> QED BY <1>1, NoOutputFacts DEF Replica, Select, ReadWaypoints, ReadReading, WriteAnswer,
                                   Done, Taken, Quiet, Ins

\* A replica in its round goes on with it: what is in its pipes becomes the
\* answer, and the answer goes where it has to, part by part.
LEMMA InRoundStep ==
    ASSUME RoundInv, pc = "collect", NEW r \in Reps, Replica(r), InRound(r)
    PROVE  InRound(r)' /\ (Collected(r)' <=> Collected(r))
<1> USE DEF RoundInv, TypeInv
<1>0. /\ UNCHANGED <<configVars, envVars, voterVars, histVars, insertCFE>> /\ Reps' = Reps
      /\ UNCHANGED <<kinds, ext_out, ext_in_buffer, buffers, ref, pc, faulty>>
  BY ReplicaFrame DEF configVars, envVars, voterVars, histVars
<1>R. /\ active_pipe_index = DATA /\ Now \in Nat /\ Now' = Now
      /\ \A b \in BOOLEAN : Ans(b)' = Ans(b)
  BY <1>0, RoundFacts DEF Counts, Ans, Now
<1>U. status[r] = "up" /\ (Waiting(r) \/ \E b \in BOOLEAN : Answering(r, b))
  BY DEF Replica, Select, ReadWaypoints, ReadReading, WriteAnswer, InRound
<1>F. \A p \in Outs : (Fresh(r, p)' <=> Fresh(r, p))
  BY <1>0 DEF Fresh
<1>E. \A p \in Ins : [q \in Ins |-> <<>>][p] = <<>>
  OBVIOUS
<1>1. CASE Select(r)
  <2>1. Waiting(r)
    BY <1>1, <1>U, <1>E DEF Select, Answering, Taken
  <2>2. CASE insertCFE[r]
    <3>1. /\ status'[r] = "looping" /\ UNCHANGED <<selected, pipeVars, unsent>>
      BY <1>1, <2>2 DEF Select, TypeOK
    <3>2. kinds # {} /\ \A p \in Outs : buffers[r][p] = <<>> /\ fd_outs[r][p] = <<>>
      <4>1. r \in faulty \/ pc = "restart"
        BY <2>2 DEF Faults
      <4>2. kinds # {}
        BY <4>1 DEF Faults
      <4> QED BY <2>1, <4>2, NoOutputFacts DEF Waiting, Fresh
    <3>3. Stuck(r)'
      BY <1>0, <3>1, <3>2 DEF Stuck, pipeVars, Outs
    <3>4. ~Collected(r) /\ ~Collected(r)'
      <4>1. buffers'[r][MOV_CMD] = <<>> /\ fd_ins[r][DATA] # <<>> /\ status'[r] # "up"
        BY <1>0, <2>1, <3>1, <3>2 DEF Outs, Waiting
      <4> QED BY <1>U, <4>1 DEF Collected
    <3> QED BY <3>1, <3>3, <3>4 DEF InRound
  <2>3. CASE ~insertCFE[r]
    <3>1. /\ UNCHANGED <<status, pipeVars, unsent, ctl>>
          /\ selected'[r] = {p \in Ins : fd_ins[r][p] # <<>>}
      BY <1>1, <2>3 DEF Select, TypeOK
    <3>2. UpToDate(r)'
      BY <1>0, <2>1, <3>1 DEF Waiting, UpToDate, Caught_up, pipeVars
    <3>3. Waiting(r)'
      BY <1>0, <1>R, <1>F, <2>1, <3>1, <3>2 DEF Waiting, pipeVars, Ins
    <3> QED BY <1>U, <3>1, <3>3 DEF InRound, Collected, pipeVars
  <2> QED BY <2>2, <2>3
<1>2. CASE ReadWaypoints(r)
  <2>0. Waiting(r)
    BY <1>2, <1>U, <1>E DEF ReadWaypoints, Answering, Taken
  <2>1. /\ fd_ins[r][WAY_RES] \in Seq(Nat) /\ Len(fd_ins[r][WAY_RES]) = 1
        /\ RecvWay(ctl[r], fd_ins[r][WAY_RES][1]) = ref /\ ~ref.way_pending
    BY <1>2, <2>0 DEF ReadWaypoints, Waiting, UpToDate, Caught_up, Ins, TypeOK
  <2>2. Tail(fd_ins[r][WAY_RES]) = <<>> /\ Head(fd_ins[r][WAY_RES]) = fd_ins[r][WAY_RES][1]
    BY <2>1, SingleFacts
  <2>3. /\ fd_ins'[r][WAY_RES] = <<>> /\ ctl'[r] = ref /\ fd_ins'[r][DATA] = fd_ins[r][DATA]
        /\ UNCHANGED <<status, unsent, fd_outs>>
    BY <1>2, <2>1, <2>2 DEF ReadWaypoints, Ins, DATA, WAY_RES, TypeOK
  <2>4. Waiting(r)'
    BY <1>0, <1>R, <1>F, <2>0, <2>3 DEF Waiting, UpToDate, Caught_up
  <2> QED BY <1>U, <2>3, <2>4 DEF InRound, Collected
<1>3. CASE ReadReading(r)
  <2>0. Waiting(r) /\ fd_ins[r][WAY_RES] = <<>> /\ ctl[r] = ref
    BY <1>3, <1>U, <1>E DEF ReadReading, Answering, Taken, Waiting, UpToDate, Caught_up
  <2>1. fd_ins[r][DATA] = <<Now>> /\ Head(fd_ins[r][DATA]) = Now /\ Tail(fd_ins[r][DATA]) = <<>>
    BY <1>R, <2>0 DEF Waiting
  <2>b. PICK b \in BOOLEAN : b = insertSDC[r]
    BY DEF TypeOK
  <2>2. /\ fd_ins'[r][WAY_RES] = <<>> /\ fd_ins'[r][DATA] = <<>>
        /\ fd_ins'[r] \in [Ins -> Seq(Nat)]
        /\ ctl'[r] = AfterCommand(ref, Now) /\ selected'[r] = {}
        /\ unsent'[r] = Ans(b) /\ ~insertSDC'[r]
        /\ UNCHANGED <<status, fd_outs>>
    <3>1. selected[r] \ {DATA} = {}
      BY <1>3 DEF ReadReading, TypeOK, Ins
    <3> QED BY <1>3, <2>0, <2>1, <2>b, <3>1 DEF ReadReading, Ins, DATA, WAY_RES, TypeOK, Ans
  <2>3. Taken(r)'
    BY <1>0, <1>R, <2>2 DEF Taken, Ins
  <2>4. b => Corrupts(r)'
    BY <1>0, <1>U, <2>b, <2>2 DEF Corrupts, Faults, TypeOK
  <2>5. \A p \in Outs : /\ unsent'[r][p] = Ans(b)'[p] /\ fd_outs'[r][p] = <<>>
                        /\ Fresh(r, p)'
    BY <1>R, <1>F, <2>0, <2>2, NoOutputFacts DEF Waiting
  <2>6. unsent'[r][MOV_CMD] # <<>>
    BY <1>R, <2>2, RoundFacts DEF Counts
  <2>7. Answering(r, b)'
    BY <2>3, <2>4, <2>5, <2>6 DEF Answering, Outs
  <2>8. ~Collected(r) /\ ~Collected(r)'
    BY <1>U, <2>1, <2>2, <2>6 DEF Collected
  <2> QED BY <1>U, <2>2, <2>7, <2>8 DEF InRound
<1>4. ASSUME NEW p \in Outs, WriteAnswer(r, p) PROVE InRound(r)' /\ (Collected(r)' <=> Collected(r))
  <2>1. PICK b \in BOOLEAN : Answering(r, b)
    BY <1>4, <1>U, NoOutputFacts DEF WriteAnswer, Waiting
  <2>2. /\ unsent[r][p] = Ans(b)[p] /\ fd_outs[r][p] = <<>> /\ Fresh(r, p)
    BY <1>4, <2>1 DEF WriteAnswer, Answering
  <2>3. /\ unsent'[r][p] = <<>> /\ fd_outs'[r][p] = Ans(b)[p]
        /\ \A q \in Outs \ {p} : unsent'[r][q] = unsent[r][q] /\ fd_outs'[r][q] = fd_outs[r][q]
        /\ UNCHANGED <<status, fd_ins, selected, ctl, insertSDC>>
    <3>1. fd_outs[r][p] \o unsent[r][p] = unsent[r][p]
      BY <2>2 DEF TypeOK
    <3> QED BY <1>4, <2>2, <3>1 DEF WriteAnswer, TypeOK
  <2>4. Taken(r)' /\ (b => Corrupts(r)')
    BY <1>0, <1>R, <2>1, <2>3 DEF Answering, Taken, Corrupts
  <2>5. \A q \in Outs :
         \/ unsent'[r][q] = Ans(b)'[q] /\ fd_outs'[r][q] = <<>> /\ Fresh(r, q)'
         \/ unsent'[r][q] = <<>> /\ fd_outs'[r][q] = Ans(b)'[q] /\ Fresh(r, q)'
         \/ unsent'[r][q] = <<>> /\ fd_outs'[r][q] = <<>> /\ buffers'[r][q] = Ans(b)'[q]
    BY <1>0, <1>R, <1>F, <2>1, <2>2, <2>3 DEF Answering
  <2>6. /\ unsent'[r][MOV_CMD] = <<>> => unsent'[r][WAY_REQ] = <<>>
        /\ ~(unsent'[r][MOV_CMD] = <<>> /\ fd_outs'[r][MOV_CMD] = <<>>)
    <3>1. Ans(b)[MOV_CMD] # <<>>
      BY <1>R, RoundFacts DEF Counts
    <3>2. CASE p = MOV_CMD
      BY <1>4, <2>3, <3>1, <3>2 DEF WriteAnswer, Outs, MOV_CMD, WAY_REQ
    <3>3. CASE p = WAY_REQ
      BY <1>4, <2>1, <2>3, <3>1, <3>3 DEF WriteAnswer, Answering, Outs, MOV_CMD, WAY_REQ
    <3> QED BY <3>2, <3>3 DEF Outs
  <2>7. Answering(r, b)'
    BY <2>4, <2>5, <2>6 DEF Answering
  <2>8. ~(unsent[r][MOV_CMD] = <<>> /\ fd_outs[r][MOV_CMD] = <<>>)
    BY <1>4, <2>1, <2>2, <2>3, <2>6 DEF WriteAnswer, Answering, Outs, MOV_CMD, WAY_REQ
  <2> QED BY <1>U, <2>3, <2>6, <2>7, <2>8 DEF InRound, Collected
<1> QED BY <1>1, <1>2, <1>3, <1>4 DEF Replica

\* A replica's step keeps the round.
LEMMA ReplicaKeeps == ASSUME RoundInv, NEW r \in Reps, Replica(r) PROVE RoundInv'
<1> USE DEF RoundInv
<1>0. /\ UNCHANGED <<configVars, envVars, voterVars, histVars, insertCFE>> /\ Reps' = Reps
      /\ UNCHANGED <<rep_count, kinds, ext_in, ext_out, sensed, ways, pc, active_pipe_index,
                     ext_in_buffer, buffers, rep_done, fault_index, ref, faulty>>
      /\ \A q \in Reps \ {r} : Untouched(q)
  BY ReplicaFrame DEF TypeInv, configVars, envVars, voterVars, histVars
<1>1. TypeInv' /\ TypeOK
  BY ReplicaType DEF TypeInv
<1>2. Faults'
  <2>1. ASSUME NEW q \in Reps
        PROVE /\ status'[q] # "up" \/ insertSDC'[q] \/ insertCFE'[q] =>
                   q \in faulty \/ (pc = "restart" /\ q = fault_index)
              /\ status'[q] # "up" => Idle(q)'
              /\ insertSDC'[q] => status'[q] = "up" /\ ~insertCFE'[q] /\ "sdc" \in kinds
    <3>1. CASE q # r
      BY <1>0, <3>1 DEF Faults, Untouched, Idle
    <3>2. CASE q = r /\ Select(r)
      BY <1>0, <1>1, <3>2 DEF Faults, Select, Idle, TypeOK
    <3>3. CASE q = r /\ (ReadWaypoints(r) \/ ReadReading(r))
      BY <1>0, <1>1, <3>3 DEF Faults, ReadWaypoints, ReadReading, TypeOK
    <3>4. CASE q = r /\ \E p \in Outs : WriteAnswer(r, p)
      BY <1>0, <1>1, <3>4 DEF Faults, WriteAnswer, TypeOK
    <3> QED BY <3>1, <3>2, <3>3, <3>4 DEF Replica
  <2> QED BY <1>0, <2>1 DEF Faults
<1>3. Counts' /\ Requests'
  BY <1>0 DEF Counts, Requests, HasReading, HasWaypoints, Asked
<1>4. Phase'
  <2>0. \A q \in Reps \ {r} :
          /\ Rests(q) => Rests(q)'
          /\ InRound(q) => InRound(q)'
          /\ Collected(q)' <=> Collected(q)
          /\ Done(q) => Done(q)'
          /\ Fine(q) => Fine(q)'
    <3> SUFFICES ASSUME NEW q \in Reps \ {r}
                 PROVE  /\ Rests(q) => Rests(q)'
                        /\ InRound(q) => InRound(q)'
                        /\ Collected(q)' <=> Collected(q)
                        /\ Done(q) => Done(q)'
                        /\ Fine(q) => Fine(q)'
      OBVIOUS
    <3>1. Untouched(q)
      BY <1>0
    <3>2. /\ \A p \in Outs : Fresh(q, p)' <=> Fresh(q, p)
          /\ UpToDate(q)' <=> UpToDate(q)
          /\ Waiting(q)' <=> Waiting(q)
          /\ \A b \in BOOLEAN : Answering(q, b) => Answering(q, b)'
          /\ Stuck(q)' <=> Stuck(q)
          /\ Collected(q)' <=> Collected(q)
          /\ (Quiet(q)' <=> Quiet(q)) /\ (Done(q)' <=> Done(q)) /\ (Fine(q)' <=> Fine(q))
      BY <1>0, <3>1, UntouchedStays DEF Answering, Corrupts
    <3> QED BY <3>1, <3>2 DEF Rests, InRound, Untouched
  <2>1. \A b \in BOOLEAN : Ans(b)' = Ans(b)
    BY <1>0 DEF Ans, Now
  <2>2. CASE pc \in {"recv", "send"}
    BY <1>0, <2>0, <2>2, RestsStep DEF Phase
  <2>3. CASE pc = "collect"
    <3>1. \A q \in Reps : InRound(q)' /\ (Collected(q)' <=> Collected(q))
      BY <1>0, <2>0, <2>3, InRoundStep DEF Phase, Collecting
    <3>2. CollectedSet' = CollectedSet
      BY <1>0, <3>1 DEF CollectedSet
    <3> QED BY <1>0, <2>3, <3>1, <3>2 DEF Phase, Collecting
  <2>4. CASE pc \in {"vote", "send0", "sendRestarter"}
    BY <2>4, DoneStep DEF Phase, Voting, Agreed
  <2>5. CASE pc = "timeout"
    <3>1. PICK x \in Reps : /\ faulty = {x}
                            /\ buffers[x][MOV_CMD] = <<>>
                            /\ buffers[x][WAY_REQ] \in {<<>>, Ans(FALSE)[WAY_REQ]}
                            /\ \A q \in Reps \ {x} : Fine(q) /\ buffers[q] = Ans(FALSE)
      BY <2>5 DEF Phase, TimedOut
    <3>2. r = x
      BY <3>1, DoneStep DEF Fine
    <3>3. TimedOut'
      BY <1>0, <2>0, <2>1, <3>1, <3>2 DEF TimedOut
    <3> QED BY <1>0, <2>5, <3>3 DEF Phase
  <2>6. CASE pc = "restart"
    <3>1. r = fault_index
      BY <2>6, DoneStep DEF Phase, Restarting, Fine
    <3> QED BY <2>6, <3>1 DEF Phase, Restarting, Replica, Select, ReadWaypoints, ReadReading,
                              WriteAnswer
  <2> QED BY <2>2, <2>3, <2>4, <2>5, <2>6 DEF TypeInv, TypeOK, Phase
<1> QED BY <1>0, <1>1, <1>2, <1>3, <1>4

-----------------------------------------------------------------------------
(***************************************************************************)
(* The injector and the environment.                                       *)
(***************************************************************************)

\* What a fault can do to a replica that was all right: it dies, or it is
\* told to fail later.
LEMMA FaultFrame ==
    ASSUME RoundInv, NEW r \in Reps, KillReplica(r) \/ TestSDCHandler(r) \/ TestCFEHandler(r),
           UNCHANGED configVars
    PROVE  /\ faulty = {} /\ faulty' = {r} /\ kinds # {} /\ Reps' = Reps
           /\ UNCHANGED <<rep_count, kinds, ext_in, ext_out, sensed, ways, pc, active_pipe_index,
                          ext_in_buffer, buffers, rep_done, fault_index, fd_ins, fd_outs, ctl, ref>>
           /\ \A q \in Reps \ {r} : Untouched(q)
           /\ \A q \in Reps : status[q] = "up" /\ ~insertSDC[q] /\ ~insertCFE[q]
           /\ \/ /\ status'[r] = "dead" /\ selected'[r] = {} /\ unsent'[r] = NoOutput
                 /\ ~insertSDC'[r] /\ ~insertCFE'[r]
              \/ /\ UNCHANGED <<status, selected, unsent>>
                 /\ insertSDC'[r] => "sdc" \in kinds /\ ~insertCFE'[r]
<1>1. faulty = {} /\ pc # "restart"
  BY DEF KillReplica, TestSDCHandler, TestCFEHandler, Fault, RoundInv, Phase, Restarting
<1>2. \A q \in Reps : status[q] = "up" /\ ~insertSDC[q] /\ ~insertCFE[q]
  BY <1>1 DEF RoundInv, Faults
<1>3. rep_count' = rep_count /\ kinds' = kinds /\ Reps' = Reps
  BY SameReps
<1> USE DEF RoundInv, TypeInv, TypeOK, Untouched, envVars, voterVars, pipeVars, Fault
<1>4. CASE KillReplica(r)
  BY <1>1, <1>2, <1>3, <1>4 DEF KillReplica
<1>5. CASE TestSDCHandler(r)
  BY <1>1, <1>2, <1>3, <1>5 DEF TestSDCHandler
<1>6. CASE TestCFEHandler(r)
  BY <1>1, <1>2, <1>3, <1>6 DEF TestCFEHandler
<1> QED BY <1>4, <1>5, <1>6

\* A fault keeps the round: whatever the replica has already written stays
\* good, and what it has not written is missing.
LEMMA InjectorKeeps == ASSUME RoundInv, Injector PROVE RoundInv'
<1>P. PICK r \in Reps : KillReplica(r) \/ TestSDCHandler(r) \/ TestCFEHandler(r)
  BY DEF Injector
<1>0. /\ faulty = {} /\ faulty' = {r} /\ kinds # {} /\ Reps' = Reps
      /\ UNCHANGED <<rep_count, kinds, ext_in, ext_out, sensed, ways, pc, active_pipe_index,
                     ext_in_buffer, buffers, rep_done, fault_index, fd_ins, fd_outs, ctl, ref>>
      /\ \A q \in Reps \ {r} : Untouched(q)
      /\ \A q \in Reps : status[q] = "up" /\ ~insertSDC[q] /\ ~insertCFE[q]
      /\ \/ /\ status'[r] = "dead" /\ selected'[r] = {} /\ unsent'[r] = NoOutput
            /\ ~insertSDC'[r] /\ ~insertCFE'[r]
         \/ /\ UNCHANGED <<status, selected, unsent>>
            /\ insertSDC'[r] => "sdc" \in kinds /\ ~insertCFE'[r]
  BY <1>P, FaultFrame DEF Injector
<1> USE DEF RoundInv
<1>1. TypeInv' /\ TypeOK
  BY InjectorType DEF TypeInv
<1>2. Faults'
  BY <1>0 DEF Faults, Untouched, Idle
<1>3. Counts' /\ Requests'
  BY <1>0 DEF Counts, Requests, HasReading, HasWaypoints, Asked
<1>A. \A b \in BOOLEAN : Ans(b)' = Ans(b)
  BY <1>0 DEF Ans, Now
<1>4. \A q \in Reps : (Done(q) => Done(q)') /\ (Rests(q) => Rests(q)')
  BY <1>0, NoOutputFacts DEF Done, Rests, Quiet, Taken, Fresh, UpToDate, Caught_up, Now, Untouched
<1>N. \A q \in Reps : ~Corrupts(q)
  BY <1>0 DEF Corrupts
<1>5. CASE pc \in {"recv", "send"}
  BY <1>0, <1>1, <1>2, <1>3, <1>4, <1>5 DEF Phase
<1>6. CASE pc = "vote"
  <2>1. \A q \in Reps : buffers[q] = Ans(FALSE)
    BY <1>6, <1>N DEF Phase, Voting
  <2> QED BY <1>0, <1>1, <1>2, <1>3, <1>4, <1>6, <1>A, <2>1 DEF Phase, Voting
<1>7. CASE pc = "send0"
  BY <1>0, <1>1, <1>2, <1>3, <1>4, <1>7, <1>A DEF Phase, Agreed
<1>8. CASE pc = "sendRestarter"
  <2>1. RestarterAnswer'
    BY <1>0, <1>8, <1>A DEF Phase, RestarterAnswer, Restarter, Promise
  <2> QED BY <1>0, <1>1, <1>2, <1>3, <1>4, <1>8, <2>1 DEF Phase
<1>9. CASE pc = "collect"
  <2>1. ASSUME NEW q \in Reps PROVE InRound(q)' /\ (Collected(q)' <=> Collected(q))
    <3>0. Waiting(q) \/ Answering(q, FALSE)
      BY ZenonT(30), <1>0, <1>9, <1>N DEF Phase, Collecting, InRound, Answering
    <3>1. CASE Untouched(q)
      BY <1>0, <3>0, <3>1, UntouchedStays DEF InRound, Untouched
    <3>2. CASE /\ q = r /\ UNCHANGED <<status, selected, unsent>>
      <4>1. Waiting(q) => Waiting(q)'
        BY <1>0, <3>2 DEF Waiting, UpToDate, Caught_up, Fresh, Now
      <4>2. Answering(q, FALSE) => Answering(q, FALSE)'
        BY <1>0, <1>A, <3>2 DEF Answering, Taken, Fresh, Now
      <4> QED BY <1>0, <3>0, <3>2, <4>1, <4>2 DEF InRound, Collected
    <3>3. CASE q = r /\ status'[r] = "dead"
      <4>1. CASE Waiting(q)
        <5>1. \A p \in Outs : fd_outs'[q][p] = <<>> /\ buffers'[q][p] = <<>>
          BY <1>0, <4>1, NoOutputFacts DEF Waiting, Fresh
        <5>2. fd_ins[q][DATA] # <<>> /\ status'[q] # "up" /\ status[q] = "up"
          BY <1>0, <3>3, <4>1 DEF Waiting
        <5>3. Stuck(q)'
          BY <5>1 DEF Stuck, Outs
        <5>4. ~Collected(q)' /\ ~Collected(q)
          BY <5>1, <5>2 DEF Collected, Outs
        <5> QED BY <5>2, <5>3, <5>4 DEF InRound
      <4>2. CASE Answering(q, FALSE)
        <5>1. Ans(FALSE)[MOV_CMD] # <<>>
          BY <1>1, <1>9, RoundFacts DEF Counts
        <5>2. \A p \in Outs : Fresh(q, p) => buffers[q][p] = <<>>
          BY <1>0 DEF Fresh
        <5>3. Stuck(q)'
          BY <1>0, <1>A, <4>2, <5>2 DEF Stuck, Answering, Outs
        <5>4. Collected(q)' <=> Collected(q)
          BY <1>0, <3>3, <4>2, <5>1, <5>2 DEF Collected, Answering, Taken, Outs, Ins
        <5> QED BY <3>3, <5>3, <5>4 DEF InRound
      <4> QED BY <3>0, <4>1, <4>2
    <3> QED BY <1>0, <3>1, <3>2, <3>3
  <2>2. CollectedSet' = CollectedSet
    BY <1>0, <2>1 DEF CollectedSet
  <2> QED BY <1>0, <1>1, <1>2, <1>3, <1>9, <2>1, <2>2 DEF Phase, Collecting
<1>10. CASE pc \in {"timeout", "restart"}
  BY <1>0, <1>10 DEF Phase, TimedOut, Restarting
<1> QED BY <1>0, <1>1, <1>2, <1>3, <1>5, <1>6, <1>7, <1>8, <1>9, <1>10
        DEF TypeInv, TypeOK, Phase

\* What holds in a phase holds as long as neither the phase nor anything of
\* the round changes.
LEMMA SamePhase ==
    ASSUME RoundInv, UNCHANGED <<configVars, ext_out, voterVars, pipeVars, repVars, histVars>>
    PROVE  Faults' /\ Phase'
<1> USE DEF RoundInv
<1>0. /\ Reps' = Reps /\ Promise' = Promise
      /\ UNCHANGED <<rep_count, kinds, ext_out, pc, ext_in_buffer, buffers, rep_done,
                     fault_index, fd_ins, fd_outs, status, ctl, insertSDC, insertCFE,
                     selected, unsent, ref, faulty>>
  BY DEF configVars, voterVars, pipeVars, repVars, histVars, Reps, Promise
<1>1. Faults'
  BY <1>0 DEF Faults, Idle
<1>2. \A b \in BOOLEAN : Ans(b)' = Ans(b)
  BY <1>0 DEF Ans, Now
<1>3. ASSUME NEW q
      PROVE  /\ Rests(q)' <=> Rests(q)
             /\ InRound(q) => InRound(q)'
             /\ Collected(q)' <=> Collected(q)
             /\ Done(q)' <=> Done(q)
             /\ Fine(q)' <=> Fine(q)
             /\ Quiet(q)' <=> Quiet(q)
             /\ Corrupts(q)' <=> Corrupts(q)
  <2>1. Untouched(q)
    BY <1>0 DEF Untouched
  <2>2. Corrupts(q)' <=> Corrupts(q)
    BY <1>0 DEF Corrupts
  <2>3. /\ \A p \in Outs : Fresh(q, p)' <=> Fresh(q, p)
        /\ UpToDate(q)' <=> UpToDate(q)
        /\ Waiting(q)' <=> Waiting(q)
        /\ \A b \in BOOLEAN : Answering(q, b) => Answering(q, b)'
        /\ Stuck(q)' <=> Stuck(q)
        /\ Collected(q)' <=> Collected(q)
        /\ (Quiet(q)' <=> Quiet(q)) /\ (Done(q)' <=> Done(q)) /\ (Fine(q)' <=> Fine(q))
    BY <1>0, <2>1, UntouchedStays DEF Answering, Corrupts
  <2> QED BY <1>0, <2>2, <2>3 DEF Rests, InRound
<1>4. CollectedSet' = CollectedSet
  BY <1>0, <1>3 DEF CollectedSet
<1>5. (Collecting => Collecting') /\ (Voting => Voting') /\ (Agreed => Agreed')
  BY <1>0, <1>2, <1>3, <1>4 DEF Collecting, Voting, Agreed
<1>6. TimedOut => TimedOut'
  BY <1>0, <1>2, <1>3 DEF TimedOut
<1>7. RestarterAnswer => RestarterAnswer'
  BY <1>0, <1>2 DEF RestarterAnswer, Restarter
<1>8. Restarting => Restarting'
  BY <1>0, <1>3, <1>7 DEF Restarting
<1>9. Phase'
  BY <1>0, <1>3, <1>5, <1>6, <1>7, <1>8 DEF Phase
<1> QED BY <1>1, <1>9

\* The lengths the counts are about.
LEMMA LengthTypes ==
    ASSUME TypeOK
    PROVE  /\ ext_in[DATA] \in Seq(Nat) /\ ext_in[WAY_RES] \in Seq(Nat) /\ MaxRounds \in Nat
           /\ Len(ext_in[DATA]) \in Nat /\ Len(ext_in[WAY_RES]) \in Nat
           /\ Len(ext_out[MOV_CMD]) \in Nat /\ Len(ext_out[WAY_REQ]) \in Nat
           /\ Len(ext_in_buffer) \in Nat /\ ways \in Nat /\ sensed \in Nat
<1>1. /\ ext_in[DATA] \in Seq(Nat) /\ ext_in[WAY_RES] \in Seq(Nat) /\ ext_in_buffer \in Seq(Nat)
      /\ ext_out[MOV_CMD] \in Seq(Msg) /\ ext_out[WAY_REQ] \in Seq(Msg)
  BY DEF TypeOK, Ins, Outs
<1> QED BY <1>1, BoundsAssumption, LenProperties DEF TypeOK

\* The environment keeps one reading out at a time.
LEMMA EnvCounts == ASSUME TypeOK, Counts, Env PROVE Counts'
<1>1. /\ ext_in[DATA] \in Seq(Nat) /\ MaxRounds \in Nat /\ Len(ext_out[MOV_CMD]) \in Nat
      /\ Len(ext_in[DATA]) \in Nat /\ sensed \in Nat
  BY LengthTypes
<1>2. CASE SendReading
  <2>1. /\ ext_in'[DATA] = Append(ext_in[DATA], sensed + 1)
        /\ sensed' = sensed + 1 /\ sensed < MaxRounds /\ Len(ext_out[MOV_CMD]) >= sensed
        /\ UNCHANGED <<ext_out, pc, active_pipe_index, ext_in_buffer>>
    BY <1>2 DEF SendReading, TypeOK, Ins, DATA, WAY_RES, voterVars
  <2>2. ext_in[DATA] = <<>> /\ ~HasReading
    BY <1>1, <2>1 DEF Counts
  <2>3. Len(ext_in'[DATA]) = 1 /\ ext_in'[DATA] # <<>>
    BY <1>1, <2>1, <2>2
  <2> QED BY <1>1, <2>1, <2>2, <2>3 DEF Counts, HasReading
<1>3. CASE SendWaypoints
  <2>1. /\ ext_in'[DATA] = ext_in[DATA]
        /\ UNCHANGED <<sensed, ext_out, pc, active_pipe_index, ext_in_buffer>>
    BY <1>3 DEF SendWaypoints, TypeOK, Ins, DATA, WAY_RES, voterVars
  <2> QED BY <2>1 DEF Counts, HasReading
<1> QED BY <1>2, <1>3 DEF Env

\* The environment sends a reading when the last one has been answered and
\* waypoints when it has been asked.
LEMMA EnvKeeps == ASSUME RoundInv, Env PROVE RoundInv'
<1> USE DEF RoundInv
<1>0. UNCHANGED <<configVars, ext_out, voterVars, pipeVars, repVars, histVars>>
  BY DEF Env, SendReading, SendWaypoints
<1>1. TypeInv' /\ TypeOK /\ rep_count' = rep_count
  BY <1>0, EnvType DEF TypeInv, configVars
<1>2. Faults' /\ Phase' /\ Counts'
  BY <1>0, <1>1, SamePhase, EnvCounts
<1>3. CASE SendReading
  <2>1. /\ ext_in'[WAY_RES] = ext_in[WAY_RES]
        /\ UNCHANGED <<ways, ext_out, pc, active_pipe_index, ext_in_buffer, ref>>
    BY <1>1, <1>3 DEF SendReading, TypeOK, Ins, DATA, WAY_RES, voterVars, histVars
  <2>2. Requests'
    BY <2>1 DEF Requests, HasWaypoints, Asked
  <2> QED BY <1>1, <1>2, <2>2
<1>4. CASE SendWaypoints
  <2>0. /\ ext_in[WAY_RES] \in Seq(Nat) /\ ways \in Nat /\ Len(ext_out[WAY_REQ]) \in Nat
    BY <1>1, LengthTypes
  <2>1. /\ ext_in'[WAY_RES] = Append(ext_in[WAY_RES], ways + 1)
        /\ ways' = ways + 1 /\ ways < Len(ext_out[WAY_REQ])
        /\ UNCHANGED <<ext_out, pc, active_pipe_index, ext_in_buffer, ref>>
    BY <1>1, <1>4 DEF SendWaypoints, TypeOK, Ins, DATA, WAY_RES, voterVars, histVars
  <2>2. ext_in[WAY_RES] = <<>> /\ Asked /\ ~HasWaypoints /\ Len(ext_out[WAY_REQ]) = ways + 1
    BY <2>1 DEF Requests, Asked
  <2>3. Len(ext_in'[WAY_RES]) = 1 /\ ext_in'[WAY_RES] # <<>>
    BY <2>0, <2>1, <2>2
  <2>4. ~Asked' /\ Len(ext_out'[WAY_REQ]) = ways'
    BY <2>0, <2>1, <2>2 DEF Asked
  <2>5. Requests'
    BY <2>1, <2>2, <2>3, <2>4 DEF Requests, HasWaypoints
  <2> QED BY <1>1, <1>2, <2>5
<1> QED BY <1>3, <1>4 DEF Env

-----------------------------------------------------------------------------
(***************************************************************************)
(* The voter between rounds.                                               *)
(***************************************************************************)

\* write() to every replica.
LEMMA WrittenFacts ==
    ASSUME TypeOK, NEW r \in Reps
    PROVE  /\ WrittenToReps[r][active_pipe_index] = fd_ins[r][active_pipe_index] \o ext_in_buffer
           /\ \A q \in Ins \ {active_pipe_index} : WrittenToReps[r][q] = fd_ins[r][q]
           /\ fd_ins[r][active_pipe_index] = <<>> =>
                 WrittenToReps[r][active_pipe_index] = ext_in_buffer
<1>1. WrittenToReps[r] =
        [fd_ins[r] EXCEPT ![active_pipe_index] = fd_ins[r][active_pipe_index] \o ext_in_buffer]
  BY DEF WrittenToReps
<1>2. fd_ins[r] \in [Ins -> Seq(Nat)] /\ active_pipe_index \in Ins /\ ext_in_buffer \in Seq(Nat)
  BY DEF TypeOK
<1>3. <<>> \o ext_in_buffer = ext_in_buffer
  BY <1>2, ConcatEmptySeq
<1> QED BY <1>1, <1>2, <1>3

\* recvData hands the voter one reading or one answer of AStar.
LEMMA RecvDataKeeps ==
    ASSUME RoundInv, RecvData, UNCHANGED configVars PROVE RoundInv'
<1> USE DEF RoundInv
<1>1. TypeInv' /\ TypeOK /\ rep_count' = rep_count /\ kinds' = kinds /\ Reps' = Reps
  BY VoterType, SameReps DEF TypeInv, Voter
<1>2. PICK p \in Ins : /\ ext_in[p] # <<>> /\ active_pipe_index' = p
                       /\ ext_in_buffer' = ext_in[p]
                       /\ ext_in' = [ext_in EXCEPT ![p] = <<>>]
  BY DEF RecvData
<1>3. /\ pc = "recv" /\ pc' = "send"
      /\ UNCHANGED <<ext_out, sensed, ways, buffers, fault_index, fd_ins, fd_outs, status, ctl,
                     insertSDC, insertCFE, selected, unsent, ref, faulty>>
  BY DEF RecvData, pipeVars, repVars, histVars
<1>4. Faults'
  BY <1>1, <1>3 DEF Faults, Idle
<1>5. /\ ext_in'[p] = <<>> /\ \A q \in Ins \ {p} : ext_in'[q] = ext_in[q]
  BY <1>1, <1>2 DEF TypeOK
<1>8. \A r \in Reps : Rests(r)'
  BY <1>1, <1>3 DEF Phase, Rests, Quiet, Fresh, UpToDate, Caught_up
<1>6. CASE p = DATA
  <2>1. ext_in'[WAY_RES] = ext_in[WAY_RES] /\ HasReading' /\ ~HasWaypoints' /\ ~HasWaypoints
    BY <1>2, <1>3, <1>5, <1>6 DEF Ins, DATA, WAY_RES, HasReading, HasWaypoints
  <2>2. Counts' /\ Requests'
    BY <1>2, <1>3, <1>5, <1>6, <2>1 DEF Counts, Requests, HasReading, Asked
  <2> QED BY <1>1, <1>3, <1>4, <1>8, <2>2 DEF Phase
<1>7. CASE p = WAY_RES
  <2>1. ext_in'[DATA] = ext_in[DATA] /\ HasWaypoints' /\ ~HasReading' /\ ~HasReading
    BY <1>2, <1>3, <1>5, <1>7 DEF Ins, DATA, WAY_RES, HasReading, HasWaypoints
  <2>2. Counts' /\ Requests'
    BY <1>2, <1>3, <1>5, <1>7, <2>1 DEF Counts, Requests, HasWaypoints, Asked
  <2> QED BY <1>1, <1>3, <1>4, <1>8, <2>2 DEF Phase
<1> QED BY <1>6, <1>7 DEF Ins

\* Waypoints go to every replica, which has read the ones before, as one
\* request is out at a time: all of them will be in the state ref is in.
LEMMA SendWaypointsKeeps ==
    ASSUME RoundInv, SendToReps, ~WaitOnInput, UNCHANGED configVars PROVE RoundInv'
<1> USE DEF RoundInv
<1>1. TypeInv' /\ TypeOK /\ rep_count' = rep_count /\ kinds' = kinds /\ Reps' = Reps
  BY VoterType, SameReps DEF TypeInv, Voter
<1>2. /\ pc = "send" /\ pc' = "recv" /\ fd_ins' = WrittenToReps
      /\ ref' = RecvWay(ref, ext_in_buffer[Len(ext_in_buffer)])
      /\ UNCHANGED <<ext_in, ext_out, sensed, ways, buffers, fault_index, fd_outs, status, ctl,
                     insertSDC, insertCFE, selected, unsent, faulty>>
  BY Zenon DEF SendToReps, envVars, repVars
<1>3. active_pipe_index = WAY_RES /\ HasWaypoints /\ ~HasReading /\ ~HasReading' /\ ~HasWaypoints'
  BY <1>1, <1>2 DEF WaitOnInput, timer_start_index, TypeOK, Ins, HasWaypoints, HasReading,
                    DATA, WAY_RES
<1>4. PICK w \in Nat : ext_in_buffer = <<w>> /\ ext_in_buffer[Len(ext_in_buffer)] = w
  <2>1. Len(ext_in_buffer) = 1 /\ ext_in_buffer \in Seq(Nat)
    BY <1>1, <1>3 DEF Requests, TypeOK
  <2> QED BY <2>1, SingleFacts
<1>5. ref' = RecvWay(ref, w) /\ ~ref'.way_pending /\ ref.way_pending
  BY <1>1, <1>2, <1>3, <1>4, CtlFacts DEF Requests, TypeOK
<1>6. Faults'
  BY <1>1, <1>2 DEF Faults, Idle
<1>7. Counts'
  BY <1>2, <1>3 DEF Counts
<1>8. Requests'
  BY <1>2, <1>3, <1>5 DEF Requests, Asked
<1>9. ASSUME NEW r \in Reps PROVE Rests(r)'
  <2>1. Rests(r)
    BY <1>2 DEF Phase
  <2>2. Quiet(r)' /\ \A p \in Outs : Fresh(r, p)'
    BY <1>1, <1>2, <2>1 DEF Rests, Quiet, Fresh
  <2>3. ASSUME status[r] = "up"
        PROVE  UpToDate(r)' /\ fd_ins'[r][DATA] = <<>> /\ DATA \notin selected'[r]
    <3>1. fd_ins[r][WAY_RES] = <<>> /\ ctl[r] = ref /\ fd_ins[r][DATA] = <<>> /\ DATA \notin selected[r]
      BY <1>5, <2>1, <2>3 DEF Rests, UpToDate, Caught_up
    <3>2. fd_ins'[r][WAY_RES] = <<w>> /\ fd_ins'[r][DATA] = <<>>
      BY <1>1, <1>2, <1>3, <1>4, <3>1, WrittenFacts DEF Ins, DATA, WAY_RES
    <3>3. <<w>> # <<>> /\ Len(<<w>>) = 1 /\ <<w>>[Len(<<w>>)] = w
      OBVIOUS
    <3>4. Caught_up(r)' = RecvWay(ref, w)
      BY <1>2, <3>1, <3>2, <3>3 DEF Caught_up
    <3> QED BY <1>2, <1>5, <3>1, <3>2, <3>3, <3>4 DEF UpToDate
  <2> QED BY <1>2, <2>2, <2>3 DEF Rests
<1> QED BY <1>1, <1>2, <1>6, <1>7, <1>8, <1>9 DEF Phase

\* A reading goes to every replica, and the round begins.
LEMMA SendReadingKeeps ==
    ASSUME RoundInv, SendToReps, WaitOnInput, UNCHANGED configVars PROVE RoundInv'
<1> USE DEF RoundInv
<1>1. TypeInv' /\ TypeOK /\ rep_count' = rep_count /\ kinds' = kinds /\ Reps' = Reps
  BY VoterType, SameReps DEF TypeInv, Voter
<1>2. /\ pc = "send" /\ pc' = "collect" /\ fd_ins' = WrittenToReps /\ rep_done' = 0
      /\ UNCHANGED <<ext_in, ext_out, sensed, ways, active_pipe_index, ext_in_buffer, ref, buffers,
                     fault_index, fd_outs, status, ctl, insertSDC, insertCFE, selected, unsent,
                     faulty>>
  BY Zenon DEF SendToReps, envVars, repVars
<1>3. active_pipe_index = DATA
  BY DEF WaitOnInput, timer_start_index
<1>4. Faults' /\ Counts' /\ Requests'
  <2>1. Faults'
    BY <1>1, <1>2 DEF Faults, Idle
  <2> QED BY <1>2, <1>3, <2>1 DEF Counts, Requests, HasReading, HasWaypoints, Asked
<1>5. Now \in Nat /\ ext_in_buffer = <<Now>> /\ Now' = Now
  BY <1>1, <1>2, <1>3, RoundFacts DEF Now
<1>6. ASSUME NEW r \in Reps PROVE InRound(r)' /\ ~Collected(r)'
  <2>0. Rests(r)
    BY <1>2 DEF Phase
  <2>1. CASE status[r] = "up"
    <3>1. fd_ins[r][DATA] = <<>> /\ UpToDate(r) /\ DATA \notin selected[r]
      BY <2>0, <2>1 DEF Rests
    <3>2. fd_ins'[r][DATA] = <<Now>> /\ fd_ins'[r][WAY_RES] = fd_ins[r][WAY_RES]
      BY <1>1, <1>2, <1>3, <1>5, <3>1, WrittenFacts DEF Ins, DATA, WAY_RES
    <3>3. UpToDate(r)'
      BY <1>2, <3>1, <3>2 DEF UpToDate, Caught_up
    <3>4. Waiting(r)'
      BY <1>1, <1>2, <1>5, <2>0, <3>1, <3>2, <3>3 DEF Waiting, Rests, Quiet, Fresh
    <3> QED BY <1>2, <2>1, <3>2, <3>4 DEF InRound, Collected
  <2>2. CASE status[r] # "up"
    <3>1. kinds # {}
      BY <1>2, <2>2 DEF Faults
    <3>2. \A p \in Outs : fd_outs'[r][p] = <<>> /\ buffers'[r][p] = <<>>
      BY <1>2, <2>0, <3>1, NoOutputFacts DEF Rests, Quiet, Fresh
    <3>3. Stuck(r)' /\ buffers'[r][MOV_CMD] = <<>>
      BY <3>2 DEF Stuck, Outs
    <3> QED BY <1>2, <2>2, <3>3 DEF InRound, Collected
  <2> QED BY <2>1, <2>2
<1>7. Collecting'
  <2>1. CollectedSet' = {}
    BY <1>1, <1>6 DEF CollectedSet
  <2>2. Reps # {}
    BY <1>1, RepsFacts DEF TypeOK
  <2> QED BY <1>1, <1>2, <1>6, <2>1, <2>2, FS_EmptySet DEF Collecting
<1> QED BY <1>1, <1>2, <1>4, <1>7 DEF Phase

-----------------------------------------------------------------------------
(***************************************************************************)
(* collectFromReps.  It counts reads, but each replica is read once in a   *)
(* round: what it counts is the set of the replicas collected from.        *)
(***************************************************************************)

\* There are rep_count replicas.
LEMMA RepsFinite ==
    ASSUME rep_count \in 1..3
    PROVE  IsFiniteSet(Reps) /\ Cardinality(Reps) = rep_count
<1>1. rep_count - 1 \in Int /\ 0 \in Int
  OBVIOUS
<1>2. /\ IsFiniteSet(0 .. rep_count - 1)
      /\ Cardinality(0 .. rep_count - 1) =
           IF 0 > rep_count - 1 THEN 0 ELSE (rep_count - 1) - 0 + 1
  BY <1>1, FS_Interval, Zenon
<1> QED BY <1>2 DEF Reps

\* The reads that count, and the replicas they are from.
Readable == {r \in Reps : fd_outs[r][MOV_CMD] # <<>>}

\* As many reads count as replicas have a command in their pipe: each has
\* one pipe for it.
LEMMA DoneReadsCount ==
    ASSUME TypeOK, active_pipe_index = DATA
    PROVE  /\ IsFiniteSet(Readable) /\ Cardinality(Readable) \in Nat
           /\ Cardinality(DoneReads) = Cardinality(Readable)
<1>1. IsFiniteSet(Reps)
  BY RepsFinite DEF TypeOK
<1>2. IsFiniteSet(Readable)
  <2>1. Readable \in SUBSET Reps
    BY DEF Readable
  <2> QED BY <1>1, <2>1, FS_Subset
<1>3. DoneReads = {<<r, MOV_CMD>> : r \in Readable}
  <2>1. timer_stop_index[active_pipe_index] = MOV_CMD
    BY DEF timer_stop_index, Ins
  <2>2. DoneReads = {x \in Reps \X Outs : fd_outs[x[1]][x[2]] # <<>> /\ x[2] = MOV_CMD}
    BY <2>1 DEF DoneReads, Ready
  <2>3. ASSUME NEW x \in Reps \X Outs, fd_outs[x[1]][x[2]] # <<>>, x[2] = MOV_CMD
        PROVE  x[1] \in Readable /\ x = <<x[1], MOV_CMD>>
    BY <2>3 DEF Readable
  <2>4. ASSUME NEW r \in Readable
        PROVE  /\ <<r, MOV_CMD>> \in Reps \X Outs
               /\ <<r, MOV_CMD>>[1] = r /\ <<r, MOV_CMD>>[2] = MOV_CMD
               /\ fd_outs[r][MOV_CMD] # <<>>
    BY <2>4 DEF Readable, Outs
  <2> QED BY <2>2, <2>3, <2>4
<1>4. ExistsBijection(Readable, DoneReads)
  <2> DEFINE f == [r \in Readable |-> <<r, MOV_CMD>>]
  <2>1. f \in [Readable -> DoneReads]
    BY <1>3
  <2>2. \A a, b \in Readable : f[a] = f[b] => a = b
    OBVIOUS
  <2>3. \A t \in DoneReads : \E a \in Readable : f[a] = t
    BY <1>3
  <2>4. f \in Bijection(Readable, DoneReads)
    BY <2>1, <2>2, <2>3 DEF Bijection, Injection, Surjection, IsInjective
  <2> QED BY <2>4 DEF ExistsBijection
<1> QED BY <1>2, <1>4, FS_Bijection, FS_CardinalityType

\* One turn of the collection: each replica's part of the round.
LEMMA CollectInRound ==
    ASSUME RoundInv, CollectFromReps, UNCHANGED configVars, NEW r \in Reps
    PROVE  /\ InRound(r)'
           /\ Collected(r)' <=> Collected(r) \/ r \in Readable
           /\ ~(Collected(r) /\ r \in Readable)
           /\ Collected(r)' => /\ Done(r)'
                               /\ \E b \in BOOLEAN : buffers'[r] = Ans(b)' /\ (b => Corrupts(r)')
<1> USE DEF RoundInv
<1>1. TypeInv' /\ TypeOK /\ rep_count' = rep_count /\ kinds' = kinds /\ Reps' = Reps
  BY VoterType, SameReps DEF TypeInv, Voter
<1>2. /\ pc = "collect" /\ pc' \in {"collect", "vote"}
      /\ UNCHANGED <<ext_in, ext_out, sensed, ways, active_pipe_index, ext_in_buffer, ref,
                     fault_index, fd_ins, status, ctl, insertSDC, insertCFE, selected, unsent,
                     faulty>>
      /\ fd_outs'[r] = NoOutput
      /\ \A p \in Outs : buffers'[r][p] = IF fd_outs[r][p] # <<>> THEN fd_outs[r][p] ELSE buffers[r][p]
  BY <1>1 DEF CollectFromReps, CollectReady, envVars, repVars, histVars, Ready
<1>3. Now \in Nat /\ Now' = Now /\ \A b \in BOOLEAN : Ans(b)' = Ans(b)
  BY <1>1, <1>2, RoundFacts DEF Counts, Ans, Now
<1>4. \A p \in Outs : fd_outs'[r][p] = <<>>
  BY <1>2, NoOutputFacts
<1>5. \A p \in Outs : fd_outs[r][p] = <<>> => (Fresh(r, p)' <=> Fresh(r, p))
  BY <1>1, <1>2 DEF Fresh
<1>6. \A b \in BOOLEAN : /\ Ans(b)[MOV_CMD] # <<>> /\ Ans(b) \in [Outs -> Seq(Msg)]
                         /\ ref.way_pending => Ans(b)[WAY_REQ] = <<>>
                         /\ ~ref.way_pending => Ans(b)[WAY_REQ] # <<>>
  BY <1>1, <1>2, RoundFacts DEF Counts
<1>7. \A p \in Outs : Fresh(r, p) /\ ref.way_pending => buffers[r][p] = <<>>
  BY DEF Fresh, Requests
<1>8. InRound(r)
  BY <1>2 DEF Phase, Collecting
<1>9. buffers'[r] \in [Outs -> Seq(Msg)] /\ unsent'[r] \in [Outs -> Seq(Msg)]
  BY <1>1 DEF TypeInv, TypeOK
<1>10. CASE status[r] = "up" /\ Waiting(r)
  <2>1. \A p \in Outs : fd_outs[r][p] = <<>>
    BY <1>10, NoOutputFacts DEF Waiting
  <2>2. UpToDate(r)'
    BY <1>2, <1>10 DEF Waiting, UpToDate, Caught_up
  <2>3. Waiting(r)'
    BY <1>2, <1>3, <1>5, <1>10, <2>1, <2>2 DEF Waiting
  <2>4. ~Collected(r) /\ ~Collected(r)'
    BY <1>2, <1>10 DEF Collected, Waiting
  <2>5. r \notin Readable
    BY <2>1 DEF Readable, Outs
  <2> QED BY <1>2, <1>10, <2>3, <2>4, <2>5 DEF InRound
<1>11. ASSUME NEW b \in BOOLEAN, status[r] = "up", Answering(r, b)
       PROVE  /\ Answering(r, b)'
              /\ Collected(r)' <=> Collected(r) \/ r \in Readable
              /\ ~(Collected(r) /\ r \in Readable)
              /\ Collected(r)' => Done(r)' /\ buffers'[r] = Ans(b)' /\ (b => Corrupts(r)')
  <2>1. Taken(r)' /\ (b => Corrupts(r)')
    BY <1>1, <1>2, <1>3, <1>11 DEF Answering, Taken, Corrupts
  <2>2. ASSUME NEW p \in Outs
        PROVE  \/ unsent'[r][p] = Ans(b)'[p] /\ fd_outs'[r][p] = <<>> /\ Fresh(r, p)'
               \/ unsent'[r][p] = <<>> /\ fd_outs'[r][p] = Ans(b)'[p] /\ Fresh(r, p)'
               \/ unsent'[r][p] = <<>> /\ fd_outs'[r][p] = <<>> /\ buffers'[r][p] = Ans(b)'[p]
    <3>1. CASE fd_outs[r][p] = <<>>
      BY <1>2, <1>3, <1>4, <1>5, <1>11, <3>1 DEF Answering
    <3>2. CASE fd_outs[r][p] # <<>>
      BY <1>2, <1>3, <1>4, <1>11, <3>2 DEF Answering
    <3> QED BY <3>1, <3>2
  <2>3. Answering(r, b)'
    BY <1>2, <1>4, <1>11, <2>1, <2>2 DEF Answering, Outs
  <2>4. fd_ins[r][DATA] = <<>>
    BY <1>11 DEF Answering, Taken, Ins
  <2>5. /\ Collected(r) <=> unsent[r][MOV_CMD] = <<>> /\ fd_outs[r][MOV_CMD] = <<>>
        /\ Collected(r)' <=> unsent[r][MOV_CMD] = <<>>
        /\ r \in Readable <=> fd_outs[r][MOV_CMD] # <<>>
        /\ fd_outs[r][MOV_CMD] # <<>> => unsent[r][MOV_CMD] = <<>>
    <3>1. fd_outs[r][MOV_CMD] # <<>> => unsent[r][MOV_CMD] = <<>>
      BY <1>11 DEF Answering, Outs
    <3> QED BY <1>2, <1>4, <1>11, <2>4, <3>1 DEF Collected, Readable, Outs
  <2>6. ASSUME Collected(r)' PROVE Done(r)' /\ buffers'[r] = Ans(b)'
    <3>1. unsent[r][MOV_CMD] = <<>> /\ unsent[r][WAY_REQ] = <<>>
      BY <1>11, <2>5, <2>6 DEF Answering
    <3>2. Quiet(r)'
      <4>1. unsent'[r][WAY_REQ] = <<>> /\ unsent'[r][MOV_CMD] = <<>>
        BY <1>2, <3>1
      <4>2. unsent'[r] = NoOutput
        BY <1>9, <4>1, NothingOut
      <4> QED BY <1>2, <4>2 DEF Quiet
    <3>3. buffers'[r][MOV_CMD] = Ans(b)[MOV_CMD]
      BY <1>2, <1>6, <1>11, <3>1 DEF Answering, Outs
    <3>4. buffers'[r][WAY_REQ] = Ans(b)[WAY_REQ]
      <4>1. CASE fd_outs[r][WAY_REQ] # <<>>
        BY <1>2, <1>11, <4>1 DEF Answering, Outs
      <4>2. CASE fd_outs[r][WAY_REQ] = <<>> /\ buffers[r][WAY_REQ] = Ans(b)[WAY_REQ]
        BY <1>2, <4>2 DEF Outs
      <4>3. CASE fd_outs[r][WAY_REQ] = <<>> /\ Ans(b)[WAY_REQ] = <<>> /\ Fresh(r, WAY_REQ)
        <5>1. ref.way_pending
          BY <1>6, <4>3
        <5>2. buffers[r][WAY_REQ] = <<>>
          BY <1>7, <4>3, <5>1 DEF Outs
        <5> QED BY <1>2, <4>3, <5>2 DEF Outs
      <4>4. \/ fd_outs[r][WAY_REQ] # <<>>
            \/ fd_outs[r][WAY_REQ] = <<>> /\ buffers[r][WAY_REQ] = Ans(b)[WAY_REQ]
            \/ fd_outs[r][WAY_REQ] = <<>> /\ Ans(b)[WAY_REQ] = <<>> /\ Fresh(r, WAY_REQ)
        BY <1>11, <3>1 DEF Answering, Outs
      <4> QED BY <4>1, <4>2, <4>3, <4>4
    <3>5. buffers'[r] = Ans(b)
      BY <1>6, <1>9, <3>3, <3>4, OutputsEqual
    <3> QED BY <1>3, <2>1, <3>2, <3>5 DEF Done
  <2> QED BY <2>1, <2>3, <2>5, <2>6
<1>12. CASE status[r] # "up"
  <2>1. Stuck(r) /\ unsent[r] = NoOutput
    BY <1>8, <1>12 DEF InRound, Faults, Idle
  <2>2. Stuck(r)'
    BY <1>2, <1>3, <1>4, <2>1 DEF Stuck, Outs
  <2>3. /\ Collected(r) <=> buffers[r][MOV_CMD] # <<>>
        /\ Collected(r)' <=> buffers'[r][MOV_CMD] # <<>>
        /\ r \in Readable <=> fd_outs[r][MOV_CMD] # <<>>
    BY <1>2, <1>12 DEF Collected, Readable
  <2>4. /\ Collected(r)' <=> Collected(r) \/ r \in Readable
        /\ ~(Collected(r) /\ r \in Readable)
    <3>1. fd_outs[r][MOV_CMD] # <<>> => buffers[r][MOV_CMD] = <<>>
      BY <1>6, <2>1 DEF Stuck, Outs
    <3> QED BY <1>2, <2>3, <3>1 DEF Outs
  <2>5. ASSUME Collected(r)' PROVE Done(r)' /\ buffers'[r] = Ans(FALSE)'
    <3>1. buffers'[r][MOV_CMD] # <<>>
      BY <2>3, <2>5
    <3>2. buffers'[r][MOV_CMD] = Ans(FALSE)[MOV_CMD] /\ buffers'[r][WAY_REQ] = Ans(FALSE)[WAY_REQ]
      BY <1>3, <1>4, <1>6, <2>2, <3>1 DEF Stuck, Outs
    <3>3. buffers'[r] = Ans(FALSE)
      BY <1>6, <1>9, <3>2, OutputsEqual
    <3> QED BY <1>2, <1>3, <1>12, <2>1, <3>3 DEF Done, Quiet
  <2> QED BY <1>2, <1>12, <2>2, <2>4, <2>5 DEF InRound
<1> QED BY <1>2, <1>8, <1>10, <1>11, <1>12 DEF InRound

\* The collection ends when every replica has been collected from, and not
\* before.
LEMMA CollectKeeps ==
    ASSUME RoundInv, CollectFromReps, UNCHANGED configVars PROVE RoundInv'
<1> USE DEF RoundInv
<1>1. TypeInv' /\ TypeOK /\ rep_count' = rep_count /\ kinds' = kinds /\ Reps' = Reps
  BY VoterType, SameReps DEF TypeInv, Voter
<1>2. /\ pc = "collect" /\ active_pipe_index = DATA
      /\ pc' = IF rep_done' >= rep_count THEN "vote" ELSE "collect"
      /\ rep_done' = rep_done + Cardinality(DoneReads)
      /\ UNCHANGED <<ext_in, ext_out, sensed, ways, active_pipe_index, ext_in_buffer, ref,
                     fault_index, fd_ins, status, ctl, insertSDC, insertCFE, selected, unsent,
                     faulty>>
  BY DEF CollectFromReps, CollectReady, envVars, repVars, histVars, Counts
<1>3. Faults' /\ Counts' /\ Requests'
  <2>1. Faults'
    BY <1>1, <1>2 DEF Faults, Idle
  <2> QED BY <1>2, <2>1 DEF Counts, Requests, HasReading, HasWaypoints, Asked
<1>4. \A r \in Reps :
        /\ InRound(r)'
        /\ Collected(r)' <=> Collected(r) \/ r \in Readable
        /\ ~(Collected(r) /\ r \in Readable)
        /\ Collected(r)' => /\ Done(r)'
                            /\ \E b \in BOOLEAN : buffers'[r] = Ans(b)' /\ (b => Corrupts(r)')
  BY CollectInRound
<1>5. /\ CollectedSet' = CollectedSet \cup Readable /\ CollectedSet \cap Readable = {}
      /\ CollectedSet \in SUBSET Reps /\ CollectedSet' \in SUBSET Reps
  BY <1>1, <1>4 DEF CollectedSet, Readable
<1>6. /\ IsFiniteSet(Reps) /\ Cardinality(Reps) = rep_count /\ IsFiniteSet(CollectedSet)
      /\ Cardinality(CollectedSet') <= rep_count
      /\ Cardinality(CollectedSet') = rep_count => CollectedSet' = Reps
  <2>1. IsFiniteSet(Reps) /\ Cardinality(Reps) = rep_count
    BY <1>1, RepsFinite DEF TypeOK
  <2>2. ASSUME NEW S \in SUBSET Reps
        PROVE  /\ IsFiniteSet(S) /\ Cardinality(S) <= rep_count
               /\ Cardinality(S) = rep_count => S = Reps
    BY <2>1, FS_Subset
  <2>3. IsFiniteSet(CollectedSet)
    BY <1>5, <2>2
  <2>4. /\ Cardinality(CollectedSet') <= rep_count
        /\ Cardinality(CollectedSet') = rep_count => CollectedSet' = Reps
    BY <1>5, <2>2
  <2> QED BY <2>1, <2>3, <2>4
<1>7. rep_done' = Cardinality(CollectedSet')
  <2>1. rep_done = Cardinality(CollectedSet)
    BY <1>2 DEF Phase, Collecting
  <2>2. /\ IsFiniteSet(Readable) /\ Cardinality(Readable) \in Nat
        /\ Cardinality(DoneReads) = Cardinality(Readable)
    BY <1>1, <1>2, DoneReadsCount
  <2>3. Cardinality(CollectedSet \cup Readable) =
           Cardinality(CollectedSet) + Cardinality(Readable) - Cardinality({})
    BY <1>5, <1>6, <2>2, FS_Union
  <2>4. Cardinality({}) = 0 /\ Cardinality(CollectedSet) \in Nat
    BY <1>6, FS_EmptySet, FS_CardinalityType
  <2> QED BY <1>2, <1>5, <2>1, <2>2, <2>3, <2>4
<1>8. CASE rep_done' >= rep_count
  <2>1. rep_done' \in Nat /\ rep_count \in Nat
    BY <1>1 DEF TypeInv, TypeOK
  <2>2. CollectedSet' = Reps
    BY <1>6, <1>7, <1>8, <2>1
  <2>3. \A r \in Reps : Collected(r)'
    BY <1>1, <2>2 DEF CollectedSet
  <2>4. Voting'
    BY <1>1, <1>4, <2>3 DEF Voting
  <2> QED BY <1>1, <1>2, <1>3, <1>8, <2>4 DEF Phase
<1>9. CASE ~(rep_done' >= rep_count)
  <2>1. rep_done' \in Nat /\ rep_count \in Nat
    BY <1>1 DEF TypeInv, TypeOK
  <2>2. CollectedSet' # Reps
    BY <1>6, <1>7, <1>9, <2>1
  <2>3. Collecting'
    BY <1>1, <1>4, <1>7, <2>2 DEF Collecting
  <2> QED BY <1>1, <1>2, <1>3, <1>9, <2>3 DEF Phase
<1> QED BY <1>8, <1>9

-----------------------------------------------------------------------------
(***************************************************************************)
(* The timeout.                                                            *)
(***************************************************************************)

\* When the timer expires somebody is missing, and it is the faulty replica:
\* all the others have answered and have been collected from.
LEMMA TimeoutKeeps ==
    ASSUME RoundInv, Timeout, UNCHANGED configVars PROVE RoundInv'
<1> USE DEF RoundInv
<1>1. TypeInv' /\ TypeOK /\ rep_count' = rep_count /\ kinds' = kinds /\ Reps' = Reps
  BY VoterType, SameReps DEF TypeInv, Voter
<1>2. /\ pc = "collect" /\ pc' = "timeout" /\ active_pipe_index = DATA
      /\ \A r \in Reps : InTime(r)
      /\ UNCHANGED <<ext_in, ext_out, sensed, ways, active_pipe_index, ext_in_buffer, ref, buffers,
                     fault_index, fd_ins, fd_outs, status, ctl, insertSDC, insertCFE, selected,
                     unsent, faulty>>
  BY DEF Timeout, envVars, pipeVars, repVars, histVars, Counts
<1>3. Faults' /\ Counts' /\ Requests'
  <2>1. Faults'
    BY <1>1, <1>2 DEF Faults, Idle
  <2> QED BY <1>2, <2>1 DEF Counts, Requests, HasReading, HasWaypoints, Asked
<1>4. ASSUME NEW r \in Reps, status[r] = "up", ~insertCFE[r]
      PROVE  /\ Collected(r) /\ Done(r)
             /\ \E b \in BOOLEAN : buffers[r] = Ans(b) /\ (b => Corrupts(r))
  <2>1. fd_ins[r][DATA] = <<>> /\ unsent[r] = NoOutput /\ fd_outs[r] = NoOutput
    BY <1>2, <1>4 DEF InTime, Idle
  <2>2. PICK b \in BOOLEAN : Answering(r, b)
    <3>1. ~Waiting(r)
      BY <2>1 DEF Waiting
    <3> QED BY <1>2, <1>4, <3>1 DEF Phase, Collecting, InRound
  <2>3. Collected(r) /\ Done(r)
    BY <1>4, <2>1, <2>2, NoOutputFacts DEF Collected, Done, Quiet, Answering
  <2>4. /\ Ans(b)[MOV_CMD] # <<>> /\ Ans(b) \in [Outs -> Seq(Msg)]
        /\ ~ref.way_pending => Ans(b)[WAY_REQ] # <<>>
        /\ ref.way_pending => ext_out[MOV_CMD] # <<>>
    BY <1>1, <1>2, RoundFacts DEF Requests
  <2>5. buffers[r][MOV_CMD] = Ans(b)[MOV_CMD]
    BY <2>1, <2>2, <2>4, NoOutputFacts DEF Answering, Outs
  <2>6. buffers[r][WAY_REQ] = Ans(b)[WAY_REQ]
    <3>1. CASE ref.way_pending
      BY <2>1, <2>2, <2>4, <3>1, NoOutputFacts DEF Answering, Fresh, Outs
    <3>2. CASE ~ref.way_pending
      BY <2>1, <2>2, <2>4, <3>2, NoOutputFacts DEF Answering, Outs
    <3> QED BY <3>1, <3>2
  <2>7. buffers[r] = Ans(b)
    <3>1. buffers[r] \in [Outs -> Seq(Msg)]
      BY <1>1 DEF TypeOK
    <3> QED BY <2>4, <2>5, <2>6, <3>1, OutputsEqual
  <2> QED BY <2>2, <2>3, <2>7 DEF Answering
<1>5. PICK x \in Reps : ~Collected(x)
  BY <1>2 DEF Phase, Collecting, CollectedSet
<1>6. (status[x] # "up" \/ insertCFE[x]) /\ faulty = {x} /\ kinds # {}
  <2>1. status[x] # "up" \/ insertCFE[x]
    BY <1>4, <1>5
  <2>2. x \in faulty
    BY <1>2, <2>1 DEF Faults
  <2> QED BY <2>1, <2>2 DEF Faults
<1>7. \A r \in Reps \ {x} : /\ status[r] = "up" /\ ~insertSDC[r] /\ ~insertCFE[r]
                            /\ ~Corrupts(r)
  BY <1>2, <1>6 DEF Faults, Corrupts
<1>8. \A r \in Reps \ {x} : Fine(r) /\ buffers[r] = Ans(FALSE)
  BY <1>4, <1>7 DEF Fine
<1>9. buffers[x][MOV_CMD] = <<>> /\ buffers[x][WAY_REQ] \in {<<>>, Ans(FALSE)[WAY_REQ]}
  <2>0. InRound(x) /\ \A p \in Outs : Fresh(x, p) => buffers[x][p] = <<>>
    BY <1>2, <1>6 DEF Phase, Collecting, Fresh
  <2>1. CASE status[x] # "up"
    BY <1>5, <2>0, <2>1 DEF InRound, Stuck, Collected, Outs
  <2>2. CASE status[x] = "up" /\ Waiting(x)
    BY <2>0, <2>2 DEF Waiting, Outs
  <2>3. ASSUME NEW b \in BOOLEAN, status[x] = "up", Answering(x, b)
        PROVE  buffers[x][MOV_CMD] = <<>> /\ buffers[x][WAY_REQ] \in {<<>>, Ans(FALSE)[WAY_REQ]}
    <3>1. fd_ins[x][DATA] = <<>>
      BY <2>3 DEF Answering, Taken, Ins
    <3>2. ~(unsent[x][MOV_CMD] = <<>> /\ fd_outs[x][MOV_CMD] = <<>>)
      BY <1>5, <2>3, <3>1 DEF Collected
    <3>3. Ans(b)[WAY_REQ] = Ans(FALSE)[WAY_REQ]
      BY <1>1, <1>2, RoundFacts
    <3> QED BY <2>0, <2>3, <3>2, <3>3 DEF Answering, Outs
  <2> QED BY <2>0, <2>1, <2>2, <2>3 DEF InRound
<1>10. TimedOut'
  <2>1. Ans(FALSE)' = Ans(FALSE)
    BY <1>2 DEF Ans, Now
  <2>2. \A r \in Reps \ {x} : Fine(r)'
    BY <1>2, <1>8 DEF Fine, Done, Quiet, Taken, Now
  <2> QED BY <1>1, <1>2, <1>6, <1>8, <1>9, <2>1, <2>2 DEF TimedOut
<1> QED BY <1>1, <1>2, <1>3, <1>10 DEF Phase

-----------------------------------------------------------------------------
(***************************************************************************)
(* checkSDC.                                                               *)
(***************************************************************************)

\* Of the faults found on the two pipes the one on the later pipe counts.
LEMMA LastFaultValue ==
    ASSUME NEW F
    PROVE  LastFault(F) = IF F[MOV_CMD] # NoFault THEN F[MOV_CMD] ELSE F[WAY_REQ]
<1> DEFINE S == {p \in Outs : F[p] # NoFault}
<1>1. LastFault(F) = IF S = {} THEN NoFault ELSE F[Max(S)]
  BY DEF LastFault
<1>2. CASE F[MOV_CMD] # NoFault
  <2>1. \A x \in S : (\A y \in S : x >= y) <=> x = MOV_CMD
    BY <1>2 DEF Outs, MOV_CMD, WAY_REQ
  <2>2. MOV_CMD \in S
    BY <1>2 DEF Outs
  <2>3. Max(S) = MOV_CMD
    BY <2>1, <2>2 DEF Max
  <2> QED BY <1>1, <1>2, <2>2, <2>3
<1>3. CASE F[MOV_CMD] = NoFault /\ F[WAY_REQ] # NoFault
  <2>1. S = {WAY_REQ}
    BY <1>3 DEF Outs
  <2>2. Max(S) = WAY_REQ
    BY <2>1 DEF Max, WAY_REQ
  <2> QED BY <1>1, <1>3, <2>1, <2>2
<1>4. CASE F[MOV_CMD] = NoFault /\ F[WAY_REQ] = NoFault
  <2>1. S = {}
    BY <1>4 DEF Outs
  <2> QED BY <1>1, <1>4, <2>1
<1> QED BY <1>2, <1>3, <1>4

\* The replica that is copied is another one.
LEMMA RestarterOther ==
    ASSUME rep_count \in 1..3, rep_count > 1, NEW f \in Reps
    PROVE  Restarter(f) \in Reps \ {f}
<1>1. rep_count = 2 \/ rep_count = 3
  OBVIOUS
<1> QED BY <1>1 DEF Reps, Restarter

\* When every replica has answered, the vote finds a corrupted answer if
\* there is one; with three replicas it blames the replica it is from, and
\* the answer that is then sent is another replica's.
LEMMA VoteFacts ==
    ASSUME RoundInv, pc = "vote"
    PROVE  /\ SDCFault = NoFault => \A r \in Reps : buffers[r] = Ans(FALSE)
           /\ SDCFault # NoFault =>
                /\ SDCFault \in Reps /\ faulty # {}
                /\ Promise = "masks" => SDCFault \in faulty
                /\ \A r \in Reps : status[r] = "up" /\ ~insertSDC[r] /\ ~insertCFE[r]
                /\ \E b \in BOOLEAN : /\ buffers[Restarter(SDCFault)] = Ans(b)
                                      /\ b => Promise = "corrupts"
<1> USE DEF RoundInv
<1>1. TypeOK /\ rep_count \in 1..3 /\ active_pipe_index = DATA
  BY DEF TypeInv, TypeOK, Counts
<1>2. /\ Ans(TRUE)[MOV_CMD] # Ans(FALSE)[MOV_CMD]
      /\ Len(Ans(TRUE)[MOV_CMD]) = Len(Ans(FALSE)[MOV_CMD])
      /\ Ans(TRUE)[WAY_REQ] = Ans(FALSE)[WAY_REQ]
  BY <1>1, RoundFacts
<1>3. \A r \in Reps : buffers[r] = Ans(FALSE) \/ (buffers[r] = Ans(TRUE) /\ Corrupts(r))
  BY DEF Phase, Voting
<1>4. /\ \A r \in Reps : Len(buffers[r][MOV_CMD]) = Len(Ans(FALSE)[MOV_CMD])
      /\ \A r \in Reps : buffers[r][WAY_REQ] = Ans(FALSE)[WAY_REQ]
  BY <1>2, <1>3
<1>5. rep_count = 3 =>
        SDCFault = OddOneOut(buffers[0][MOV_CMD], buffers[1][MOV_CMD], buffers[2][MOV_CMD])
  <2> SUFFICES ASSUME rep_count = 3
               PROVE  SDCFault = OddOneOut(buffers[0][MOV_CMD], buffers[1][MOV_CMD],
                                           buffers[2][MOV_CMD])
    OBVIOUS
  <2>1. 0 \in Reps /\ 1 \in Reps /\ 2 \in Reps
    BY RepsFacts, <1>1
  <2>2. \A a : OddOneOut(a, a, a) = NoFault
    BY DEF OddOneOut
  <2>3. CountFault = NoFault
    <3> DEFINE F == [p \in Outs |-> OddOneOut(BuffCount(0, p), BuffCount(1, p), BuffCount(2, p))]
    <3>1. F[MOV_CMD] = NoFault /\ F[WAY_REQ] = NoFault
      BY <1>4, <2>1, <2>2 DEF BuffCount, Outs
    <3>2. CountFault = LastFault(F)
      BY DEF CountFault
    <3> HIDE DEF F
    <3> QED BY <3>1, <3>2, LastFaultValue
  <2>4. ContentFault = OddOneOut(buffers[0][MOV_CMD], buffers[1][MOV_CMD], buffers[2][MOV_CMD])
    <3> DEFINE F == [p \in Outs |-> OddOneOut(buffers[0][p], buffers[1][p], buffers[2][p])]
    <3>1. /\ F[MOV_CMD] = OddOneOut(buffers[0][MOV_CMD], buffers[1][MOV_CMD], buffers[2][MOV_CMD])
          /\ F[WAY_REQ] = NoFault
      BY <1>4, <2>1, <2>2 DEF Outs
    <3>2. ContentFault = LastFault(F)
      BY DEF ContentFault
    <3> HIDE DEF F
    <3> QED BY <3>1, <3>2, LastFaultValue
  <2> QED BY <2>3, <2>4 DEF SDCFault
<1>6. rep_count = 2 =>
        SDCFault = IF buffers[0][MOV_CMD] # buffers[1][MOV_CMD] THEN 0 ELSE NoFault
  <2> SUFFICES ASSUME rep_count = 2
               PROVE  SDCFault = IF buffers[0][MOV_CMD] # buffers[1][MOV_CMD] THEN 0 ELSE NoFault
    OBVIOUS
  <2>1. 0 \in Reps /\ 1 \in Reps
    BY RepsFacts, <1>1
  <2> DEFINE F == [p \in Outs |->
                     IF BuffCount(0, p) # BuffCount(1, p)
                     THEN IF BuffCount(0, p) < BuffCount(1, p) THEN 0 ELSE 1
                     ELSE IF buffers[0][p] # buffers[1][p] THEN 0 ELSE NoFault]
  <2>2. /\ F[MOV_CMD] = IF buffers[0][MOV_CMD] # buffers[1][MOV_CMD] THEN 0 ELSE NoFault
        /\ F[WAY_REQ] = NoFault
    <3>1. /\ BuffCount(0, MOV_CMD) = BuffCount(1, MOV_CMD)
          /\ BuffCount(0, WAY_REQ) = BuffCount(1, WAY_REQ)
          /\ buffers[0][WAY_REQ] = buffers[1][WAY_REQ]
      BY <1>4, <2>1 DEF BuffCount
    <3> QED BY <3>1 DEF Outs
  <2>3. DmrFault = LastFault(F)
    BY DEF DmrFault
  <2> HIDE DEF F
  <2> QED BY <2>2, <2>3, LastFaultValue DEF SDCFault
<1>7. (rep_count = 2 /\ Reps = {0, 1}) \/ (rep_count = 3 /\ Reps = {0, 1, 2})
  BY <1>1 DEF Reps
<1>8. CASE \A r \in Reps : buffers[r] = Ans(FALSE)
  <2>1. SDCFault = NoFault
    BY <1>5, <1>6, <1>7, <1>8 DEF OddOneOut
  <2> QED BY <1>8, <2>1
<1>9. ASSUME NEW x \in Reps, buffers[x] # Ans(FALSE)
      PROVE  /\ SDCFault # NoFault
             /\ SDCFault \in Reps /\ faulty # {}
             /\ Promise = "masks" => SDCFault \in faulty
             /\ \A r \in Reps : status[r] = "up" /\ ~insertSDC[r] /\ ~insertCFE[r]
             /\ \E b \in BOOLEAN : /\ buffers[Restarter(SDCFault)] = Ans(b)
                                   /\ b => Promise = "corrupts"
  <2>1. buffers[x] = Ans(TRUE) /\ Corrupts(x) /\ faulty = {x} /\ "sdc" \in kinds
    BY <1>3, <1>9 DEF Corrupts, Faults
  <2>2. \A r \in Reps \ {x} : buffers[r] = Ans(FALSE)
    BY <1>3, <2>1 DEF Corrupts
  <2>3. \A r \in Reps : status[r] = "up" /\ ~insertSDC[r] /\ ~insertCFE[r]
    BY <2>1 DEF Faults, Corrupts
  <2>M. PICK m : buffers[x][MOV_CMD] # m /\ \A r \in Reps \ {x} : buffers[r][MOV_CMD] = m
    <3>1. /\ buffers[x][MOV_CMD] # Ans(FALSE)[MOV_CMD]
          /\ \A r \in Reps \ {x} : buffers[r][MOV_CMD] = Ans(FALSE)[MOV_CMD]
      BY <1>2, <2>1, <2>2, Zenon
    <3> QED BY <3>1, Zenon
  <2>4. CASE rep_count = 3
    <3>1. SDCFault = x /\ x # NoFault
      <4>1. 0 \in Reps /\ 1 \in Reps /\ 2 \in Reps /\ (x = 0 \/ x = 1 \/ x = 2)
        BY <1>7, <2>4
      <4>2. SDCFault = x
        BY <1>5, <2>4, <2>M, <4>1 DEF OddOneOut
      <4> QED BY <4>1, <4>2 DEF NoFault
    <3>2. buffers[Restarter(SDCFault)] = Ans(FALSE)
      BY <1>1, <2>2, <2>4, <3>1, RestarterOther
    <3> QED BY <2>1, <2>3, <3>1, <3>2
  <2>5. CASE rep_count = 2
    <3>1. SDCFault = 0 /\ 0 # NoFault /\ 0 \in Reps
      <4>1. buffers[0][MOV_CMD] # buffers[1][MOV_CMD]
        <5>1. 0 \in Reps /\ 1 \in Reps /\ (x = 0 \/ x = 1)
          BY <1>7, <2>5
        <5> QED BY <2>M, <5>1
      <4> QED BY <1>6, <1>7, <2>5, <4>1 DEF NoFault
    <3>2. Promise = "corrupts"
      BY <2>1, <2>5 DEF Promise
    <3>3. \E b \in BOOLEAN : buffers[Restarter(SDCFault)] = Ans(b)
      BY <1>1, <1>3, <2>5, <3>1, RestarterOther
    <3> QED BY <2>1, <2>3, <3>1, <3>2, <3>3
  <2> QED BY <1>7, <2>4, <2>5
<1> QED BY <1>8, <1>9

\* killAndClean leaves nothing of f and does nothing to the others.
LEMMA KillFrame ==
    ASSUME TypeOK, NEW f \in Reps, KillAndClean(f)
    PROVE  /\ status'[f] = "dead" /\ ~insertSDC'[f] /\ ~insertCFE'[f]
           /\ selected'[f] = {} /\ unsent'[f] = NoOutput
           /\ fd_ins'[f] = [p \in Ins |-> <<>>] /\ fd_outs'[f] = NoOutput
           /\ \A q \in Reps \ {f} : Untouched(q)
  BY DEF KillAndClean, TypeOK, Untouched

\* Once a replica has been killed the others have finished their round, and
\* the answer to send is there.
LEMMA KillKeeps ==
    ASSUME RoundInv, TypeInv', NEW f \in Reps, KillAndClean(f),
           pc \in {"vote", "timeout"}, pc' = "restart", fault_index' = f,
           UNCHANGED <<configVars, envVars, active_pipe_index, ext_in_buffer, buffers, histVars>>,
           faulty # {}, \A r \in Reps \ {f} : Fine(r),
           \E b \in BOOLEAN : buffers[Restarter(f)] = Ans(b) /\ (b => Promise = "corrupts")
    PROVE  RoundInv'
<1> USE DEF RoundInv
<1>1. TypeOK /\ rep_count' = rep_count /\ kinds' = kinds /\ Reps' = Reps
  BY SameReps DEF TypeInv
<1>2. UNCHANGED <<kinds, ext_in, ext_out, sensed, ways, active_pipe_index, ext_in_buffer, buffers,
                  ref, faulty>>
  BY <1>1 DEF envVars, histVars
<1>3. /\ status'[f] = "dead" /\ ~insertSDC'[f] /\ ~insertCFE'[f]
      /\ selected'[f] = {} /\ unsent'[f] = NoOutput
      /\ fd_ins'[f] = [p \in Ins |-> <<>>] /\ fd_outs'[f] = NoOutput
      /\ \A q \in Reps \ {f} : Untouched(q)
  BY <1>1, KillFrame
<1>4. \A q \in Reps \ {f} : Fine(q)'
  <2> SUFFICES ASSUME NEW q \in Reps \ {f} PROVE Fine(q)'
    OBVIOUS
  <2>1. Untouched(q) /\ Fine(q)
    BY <1>3
  <2> QED BY <1>2, <2>1, UntouchedStays
<1>5. Faults'
  BY <1>1, <1>2, <1>3, <1>4 DEF Faults, Fine, Idle
<1>6. Counts' /\ Requests'
  BY <1>2 DEF Counts, Requests, HasReading, HasWaypoints, Asked
<1>7. RestarterAnswer'
  <2>1. /\ Restarter(fault_index)' = Restarter(f) /\ Promise' = Promise
        /\ \A b \in BOOLEAN : Ans(b)' = Ans(b)
    BY <1>1, <1>2 DEF Restarter, Promise, Ans, Now
  <2> QED BY <1>2, <2>1 DEF RestarterAnswer
<1>8. Restarting'
  BY <1>1, <1>2, <1>3, <1>4, <1>7 DEF Restarting, Quiet
<1> QED BY <1>1, <1>5, <1>6, <1>8 DEF Phase

\* The vote ends with an answer all agree on or with a replica killed.
LEMMA CheckSDCKeeps ==
    ASSUME RoundInv, CheckSDC, UNCHANGED configVars PROVE RoundInv'
<1>0. RoundInv /\ TypeInv /\ TypeOK /\ pc = "vote" /\ Voting /\ TypeInv'
  BY VoterType DEF RoundInv, TypeInv, Voter, CheckSDC, Phase
<1>1. CASE SDCFault = NoFault
  <2>1. /\ pc' = "send0"
        /\ UNCHANGED <<ext_in, ext_out, sensed, ways, active_pipe_index, ext_in_buffer, buffers,
                       fault_index, fd_ins, fd_outs, status, ctl, insertSDC, insertCFE, selected,
                       unsent, ref, faulty>>
    BY <1>0, <1>1 DEF CheckSDC, envVars, pipeVars, repVars, histVars
  <2>2. rep_count' = rep_count /\ kinds' = kinds /\ Reps' = Reps
    BY SameReps
  <2>3. Faults' /\ Counts' /\ Requests'
    <3>1. Faults'
      BY <1>0, <2>1, <2>2 DEF RoundInv, Faults, Idle
    <3> QED BY <1>0, <2>1, <3>1 DEF RoundInv, Counts, Requests, HasReading, HasWaypoints, Asked
  <2>4. Agreed'
    <3>1. \A r \in Reps : Done(r)'
      BY <1>0, <2>1 DEF Voting, Done, Quiet, Taken, Now
    <3>2. \A r \in Reps : buffers'[r] = Ans(FALSE)'
      BY <1>0, <1>1, <2>1, VoteFacts DEF Ans, Now
    <3> QED BY <2>2, <3>1, <3>2 DEF Agreed
  <2> QED BY <1>0, <2>1, <2>2, <2>3, <2>4 DEF RoundInv, Phase
<1>2. CASE SDCFault # NoFault
  <2>1. /\ pc' = "restart" /\ fault_index' = SDCFault /\ KillAndClean(SDCFault)
        /\ UNCHANGED <<configVars, envVars, active_pipe_index, ext_in_buffer, buffers, histVars>>
    BY <1>2 DEF CheckSDC
  <2>2. /\ SDCFault \in Reps /\ faulty # {}
        /\ \A r \in Reps : status[r] = "up" /\ ~insertSDC[r] /\ ~insertCFE[r]
        /\ \E b \in BOOLEAN : /\ buffers[Restarter(SDCFault)] = Ans(b)
                              /\ b => Promise = "corrupts"
    BY <1>0, <1>2, VoteFacts
  <2>3. \A r \in Reps : Fine(r)
    BY <1>0, <2>2 DEF Voting, Fine
  <2> QED BY <1>0, <2>1, <2>2, <2>3, KillKeeps
<1> QED BY <1>1, <1>2

-----------------------------------------------------------------------------
(***************************************************************************)
(* findFaultReplica.                                                       *)
(***************************************************************************)

\* The replica without a velocity has output on fewer pipes than any other.
LEMMA ScoreFacts ==
    ASSUME RoundInv, pc = "timeout"
    PROVE  \E x \in Reps :
             /\ faulty = {x} /\ LowestScore = x
             /\ \A r \in Reps \ {x} : Fine(r) /\ buffers[r] = Ans(FALSE)
<1> USE DEF RoundInv
<1>1. TypeOK /\ rep_count \in 1..3 /\ active_pipe_index = DATA
  BY DEF TypeInv, TypeOK, Counts
<1>2. PICK x \in Reps : /\ faulty = {x}
                        /\ buffers[x][MOV_CMD] = <<>>
                        /\ buffers[x][WAY_REQ] \in {<<>>, Ans(FALSE)[WAY_REQ]}
                        /\ \A r \in Reps \ {x} : Fine(r) /\ buffers[r] = Ans(FALSE)
  BY DEF Phase, TimedOut
<1>3. Ans(FALSE)[MOV_CMD] # <<>>
  BY <1>1, RoundFacts
<1> HIDE DEF RoundInv
<1> DEFINE Has(r) == {p \in Outs : buffers[r][p] # <<>>}
<1>4. IsFiniteSet(Outs)
  <2>0. 0 \in Int /\ 1 \in Int
    OBVIOUS
  <2>1. IsFiniteSet(0 .. 1)
    BY <2>0, FS_Interval, Zenon
  <2> QED BY <2>1 DEF Outs, WAY_REQ, MOV_CMD
<1>5. ASSUME NEW S \in SUBSET Outs, NEW T \in SUBSET S, T # S
      PROVE  /\ Cardinality(S) \in Nat /\ Cardinality(T) \in Nat
             /\ Cardinality(T) < Cardinality(S)
  <2>1. IsFiniteSet(S)
    BY <1>4, FS_Subset
  <2>2. IsFiniteSet(T) /\ Cardinality(T) <= Cardinality(S) /\ Cardinality(S) # Cardinality(T)
    BY <1>5, <2>1, FS_Subset
  <2>3. Cardinality(S) \in Nat /\ Cardinality(T) \in Nat
    BY <2>1, <2>2, FS_CardinalityType
  <2> QED BY <2>2, <2>3
<1>6. \A r \in Reps : Score(r) = Cardinality(Has(r))
  BY DEF Score
<1>7. ASSUME NEW r \in Reps \ {x} PROVE Score(x) < Score(r) /\ Score(r) \in Nat /\ Score(x) \in Nat
  <2>1. Has(r) \in SUBSET Outs /\ Has(x) \in SUBSET Has(r) /\ Has(x) # Has(r)
    <3>1. buffers[r][MOV_CMD] # <<>> /\ buffers[r][WAY_REQ] = Ans(FALSE)[WAY_REQ]
      BY <1>2, <1>3
    <3> QED BY <1>2, <3>1 DEF Outs
  <2> QED BY <1>5, <1>6, <2>1
<1>8. Score(x) < Cardinality(Outs) /\ Score(x) \in Nat
  <2>1. Has(x) \in SUBSET Outs /\ Has(x) # Outs /\ Outs \in SUBSET Outs
    BY <1>2 DEF Outs
  <2>2. Score(x) = Cardinality(Has(x))
    BY <1>6
  <2> HIDE DEF Has
  <2>3. Cardinality(Has(x)) \in Nat /\ Cardinality(Has(x)) < Cardinality(Outs)
    BY <1>5, <2>1, Zenon
  <2> QED BY <2>2, <2>3
<1> DEFINE Low == {r \in Reps : /\ Score(r) < Cardinality(Outs)
                                /\ \A q \in Reps : Score(r) <= Score(q)}
<1>9. Low = {x}
  <2>1. x \in Low
    BY <1>7, <1>8
  <2>2. \A r \in Reps \ {x} : r \notin Low
    BY <1>7
  <2> QED BY <2>1, <2>2
<1>10. LowestScore = x
  <2>1. x \in Nat
    BY <1>1, RepsFacts
  <2>2. Min({x}) = x
    BY <2>1 DEF Min
  <2> QED BY <1>9, <2>2 DEF LowestScore
<1> QED BY <1>2, <1>10

\* The timeout kills the replica that is missing.
LEMMA FindFaultReplicaKeeps ==
    ASSUME RoundInv, FindFaultReplica, UNCHANGED configVars PROVE RoundInv'
<1>0. /\ RoundInv /\ TypeInv' /\ pc = "timeout" /\ pc' = "restart" /\ fault_index' = LowestScore
      /\ KillAndClean(LowestScore) /\ rep_count \in 1..3 /\ rep_count > 1
      /\ UNCHANGED <<configVars, envVars, active_pipe_index, ext_in_buffer, buffers, histVars>>
  <2>1. TypeInv /\ rep_count \in 1..3 /\ rep_count > 1
    BY DEF RoundInv, TypeInv, TypeOK
  <2>2. TypeInv'
    BY <2>1, VoterType DEF Voter
  <2> QED BY <2>1, <2>2 DEF FindFaultReplica
<1>1. PICK x \in Reps : /\ faulty = {x} /\ LowestScore = x
                        /\ \A r \in Reps \ {x} : Fine(r) /\ buffers[r] = Ans(FALSE)
  BY <1>0, ScoreFacts
<1>2. Restarter(x) \in Reps \ {x}
  BY <1>0, RestarterOther
<1>3. \E b \in BOOLEAN : buffers[Restarter(x)] = Ans(b) /\ (b => Promise = "corrupts")
  BY <1>1, <1>2
<1> QED BY <1>0, <1>1, <1>3, KillKeeps

-----------------------------------------------------------------------------
(***************************************************************************)
(* The end of the round.                                                   *)
(***************************************************************************)

\* The restarted replica is where its parent is: done with this round.
LEMMA RestartReplicaKeeps ==
    ASSUME RoundInv, RestartReplica, UNCHANGED configVars PROVE RoundInv'
<1>0. /\ TypeInv /\ TypeOK /\ Faults /\ Counts /\ Requests /\ rep_count > 1
      /\ pc = "restart" /\ Restarting /\ rep_count \in 1..3 /\ fault_index \in Reps
  BY DEF RoundInv, TypeInv, TypeOK, RestartReplica, Phase
<1>1. TypeInv' /\ rep_count' = rep_count /\ kinds' = kinds /\ Reps' = Reps
  BY <1>0, VoterType, SameReps DEF Voter
<1> DEFINE s == Restarter(fault_index)
<1>2. s \in Reps \ {fault_index} /\ Fine(s)
  BY <1>0, RestarterOther DEF Restarting
<1>3. /\ pc' = "sendRestarter" /\ faulty' = faulty \ {fault_index}
      /\ UNCHANGED <<ext_in, ext_out, sensed, ways, active_pipe_index, ext_in_buffer, buffers,
                     fault_index, fd_ins, fd_outs, ref>>
      /\ status'[fault_index] = status[s] /\ ctl'[fault_index] = ctl[s]
      /\ insertSDC'[fault_index] = insertSDC[s] /\ insertCFE'[fault_index] = insertCFE[s]
      /\ selected'[fault_index] = selected[s] /\ unsent'[fault_index] = unsent[s]
      /\ \A q \in Reps \ {fault_index} : Untouched(q)
  BY <1>0 DEF RestartReplica, TypeOK, envVars, pipeVars, Untouched
<1>4. \A q \in Reps \ {fault_index} : Fine(q)'
  <2> SUFFICES ASSUME NEW q \in Reps \ {fault_index} PROVE Fine(q)'
    OBVIOUS
  <2>1. Untouched(q) /\ Fine(q)
    BY <1>0, <1>3 DEF Restarting
  <2> QED BY <1>1, <1>3, <2>1, UntouchedStays
<1>5. Fine(fault_index)'
  <2>1. Taken(fault_index)'
    BY <1>0, <1>2, <1>3 DEF Taken, Fine, Done, Restarting, Now
  <2> QED BY <1>0, <1>2, <1>3, <2>1 DEF Fine, Done, Quiet, Restarting
<1>6. \A q \in Reps : Fine(q)'
  BY <1>3, <1>4, <1>5
<1>7. Faults'
  BY <1>0, <1>1, <1>3, <1>6 DEF Faults, Fine
<1>8. Counts' /\ Requests'
  BY <1>0, <1>3 DEF Counts, Requests, HasReading, HasWaypoints, Asked
<1>9. RestarterAnswer'
  <2>1. /\ Restarter(fault_index)' = Restarter(fault_index) /\ Promise' = Promise
        /\ \A b \in BOOLEAN : Ans(b)' = Ans(b)
    BY <1>1, <1>3 DEF Restarter, Promise, Ans, Now
  <2> QED BY <1>0, <1>3, <2>1 DEF Restarting, RestarterAnswer
<1> QED BY <1>0, <1>1, <1>3, <1>6, <1>7, <1>8, <1>9 DEF RoundInv, Phase, Fine

\* Writing nothing or one message to a pipe.
LEMMA ConcatFacts ==
    ASSUME NEW S, NEW a \in Seq(S), NEW c \in Seq(S)
    PROVE  /\ Len(a) \in Nat
           /\ c = <<>> => a \o c = a
           /\ Len(c) = 1 => Len(a \o c) = Len(a) + 1 /\ a \o c # <<>>
<1>1. a \o <<>> = a
  BY ConcatEmptySeq
<1>2. a \o c \in Seq(S) /\ Len(a \o c) = Len(a) + Len(c) /\ Len(a) \in Nat
  BY ConcatProperties, LenProperties
<1>3. ASSUME Len(c) = 1 PROVE Len(a \o c) = Len(a) + 1 /\ a \o c # <<>>
  <2>1. Len(a \o c) = Len(a) + 1
    BY <1>2, <1>3
  <2>2. Len(a) + 1 # 0
    BY <1>2
  <2>3. Len(<<>>) = 0
    OBVIOUS
  <2> QED BY <2>1, <2>2, <2>3, Zenon
<1>4. c = <<>> => a \o c = a
  BY <1>1, Zenon
<1> QED BY <1>2, <1>3, <1>4, Zenon

\* sendData ends the round: the answer is out, the request in it is what the
\* controller now waits for, and every replica is where a controller is that
\* has taken this reading.
LEMMA SendDataKeeps ==
    ASSUME RoundInv, TypeInv', pc \in {"send0", "sendRestarter"}, \A r \in Reps : Done(r),
           NEW s \in Reps, NEW b \in BOOLEAN, buffers[s] = Ans(b), SendData(s),
           UNCHANGED configVars
    PROVE  RoundInv'
<1>0. /\ TypeInv /\ TypeOK /\ Faults /\ Counts /\ Requests /\ rep_count > 1
      /\ active_pipe_index = DATA /\ HasReading /\ ~HasWaypoints
  BY DEF RoundInv, TypeInv, Counts, HasReading, HasWaypoints, DATA, WAY_RES
<1>1. rep_count' = rep_count /\ kinds' = kinds /\ Reps' = Reps
  BY SameReps
<1>2. /\ pc' = "recv" /\ ref' = AfterCommand(ref, Now) /\ buffers' = [r \in Reps |-> NoOutput]
      /\ ext_out'[MOV_CMD] = ext_out[MOV_CMD] \o Ans(b)[MOV_CMD]
      /\ ext_out'[WAY_REQ] = ext_out[WAY_REQ] \o Ans(b)[WAY_REQ]
      /\ UNCHANGED <<ext_in, sensed, ways, active_pipe_index, fault_index, fd_ins, fd_outs, status,
                     ctl, insertSDC, insertCFE, selected, unsent, faulty>>
  BY DEF SendData, Now, Outs, pipeVars, repVars
<1>3. /\ Now \in Nat /\ Len(Ans(b)[MOV_CMD]) = 1 /\ Ans(b) \in [Outs -> Seq(Msg)]
      /\ ref.way_pending => Ans(b)[WAY_REQ] = <<>>
      /\ ~ref.way_pending => Len(Ans(b)[WAY_REQ]) = 1
  BY <1>0, RoundFacts DEF HasReading
<1>4. ref'.way_pending
  BY <1>0, <1>2, <1>3, CtlFacts DEF TypeOK
<1>5. /\ ext_out[MOV_CMD] \in Seq(Msg) /\ ext_out[WAY_REQ] \in Seq(Msg)
      /\ Ans(b)[MOV_CMD] \in Seq(Msg) /\ Ans(b)[WAY_REQ] \in Seq(Msg)
  BY <1>0, <1>3 DEF TypeOK, Outs
<1>6. /\ Len(ext_out[MOV_CMD]) \in Nat /\ Len(ext_out[WAY_REQ]) \in Nat
      /\ Len(ext_out'[MOV_CMD]) = Len(ext_out[MOV_CMD]) + 1 /\ ext_out'[MOV_CMD] # <<>>
      /\ ref.way_pending => ext_out'[WAY_REQ] = ext_out[WAY_REQ]
      /\ ~ref.way_pending => Len(ext_out'[WAY_REQ]) = Len(ext_out[WAY_REQ]) + 1
  <2>1. \A a, c \in Seq(Msg) :
          /\ Len(a) \in Nat
          /\ c = <<>> => a \o c = a
          /\ Len(c) = 1 => Len(a \o c) = Len(a) + 1 /\ a \o c # <<>>
    BY ConcatFacts
  <2>2. /\ Len(ext_out[MOV_CMD]) \in Nat
        /\ Len(ext_out[MOV_CMD] \o Ans(b)[MOV_CMD]) = Len(ext_out[MOV_CMD]) + 1
        /\ ext_out[MOV_CMD] \o Ans(b)[MOV_CMD] # <<>>
    BY <1>3, <1>5, <2>1, Zenon
  <2>3. /\ Len(ext_out[WAY_REQ]) \in Nat
        /\ Ans(b)[WAY_REQ] = <<>> => ext_out[WAY_REQ] \o Ans(b)[WAY_REQ] = ext_out[WAY_REQ]
        /\ Len(Ans(b)[WAY_REQ]) = 1 =>
             Len(ext_out[WAY_REQ] \o Ans(b)[WAY_REQ]) = Len(ext_out[WAY_REQ]) + 1
    BY <1>5, <2>1, Zenon
  <2>4. /\ ext_out'[MOV_CMD] = ext_out[MOV_CMD] \o Ans(b)[MOV_CMD]
        /\ ext_out'[WAY_REQ] = ext_out[WAY_REQ] \o Ans(b)[WAY_REQ]
    BY <1>2
  <2> QED BY <1>3, <2>2, <2>3, <2>4, Zenon
<1>7. Faults'
  BY <1>0, <1>1, <1>2 DEF Faults, Idle
<1>8. Counts'
  <2>1. ~HasReading' /\ ext_in'[DATA] = <<>> /\ sensed = Len(ext_out[MOV_CMD]) + 1
    BY <1>0, <1>2 DEF Counts, HasReading
  <2>2. Len(ext_out'[WAY_REQ]) <= Len(ext_out'[MOV_CMD])
    <3>1. Len(ext_out[WAY_REQ]) <= Len(ext_out[MOV_CMD])
      BY <1>0 DEF Counts
    <3>2. CASE ref.way_pending
      BY <1>6, <3>1, <3>2
    <3>3. CASE ~ref.way_pending
      BY <1>6, <3>1, <3>3
    <3> QED BY <3>2, <3>3
  <2> QED BY <1>0, <1>2, <1>6, <2>1, <2>2 DEF Counts
<1>9. Requests'
  <2>1. ~HasWaypoints' /\ ext_out'[MOV_CMD] # <<>>
    BY <1>2, <1>6 DEF HasWaypoints
  <2>2. CASE ref.way_pending
    BY <1>0, <1>2, <1>4, <1>6, <2>1, <2>2 DEF Requests, Asked
  <2>3. CASE ~ref.way_pending
    <3>1. ext_in[WAY_RES] = <<>> /\ Len(ext_out[WAY_REQ]) = ways /\ ways \in Nat
      BY <1>0, <2>3 DEF Requests, TypeOK
    <3>2. Asked' /\ Len(ext_out'[WAY_REQ]) = ways' + 1
      <4>1. Len(ext_out'[WAY_REQ]) = ways + 1 /\ ways' = ways
        BY <1>2, <1>6, <2>3, <3>1, Zenon
      <4>2. ways < ways + 1
        BY <3>1
      <4> QED BY <4>1, <4>2, Zenon DEF Asked
    <3> QED BY <1>2, <1>4, <2>1, <3>1, <3>2 DEF Requests
  <2> QED BY <2>2, <2>3
<1>10. ASSUME NEW r \in Reps PROVE Rests(r)'
  <2>1. Quiet(r)' /\ \A p \in Outs : Fresh(r, p)'
    BY <1>2, NoOutputFacts DEF Done, Quiet, Fresh
  <2>2. ASSUME status[r] = "up"
        PROVE  UpToDate(r)' /\ fd_ins'[r][DATA] = <<>> /\ DATA \notin selected'[r]
    BY <1>2, <2>2 DEF Done, Taken, UpToDate, Caught_up, Ins
  <2> QED BY <1>2, <2>1, <2>2 DEF Rests
<1> QED BY <1>0, <1>1, <1>2, <1>7, <1>8, <1>9, <1>10 DEF RoundInv, Phase

-----------------------------------------------------------------------------
(***************************************************************************)
(* The invariant.                                                          *)
(***************************************************************************)

\* Every step of the voter keeps the round.
LEMMA VoterKeeps == ASSUME RoundInv, Voter PROVE RoundInv'
<1>0. /\ UNCHANGED configVars /\ TypeInv' /\ TypeInv /\ TypeOK /\ rep_count \in 1..3
      /\ Phase /\ fault_index \in Reps
  BY VoterType DEF Voter, RoundInv, TypeInv, TypeOK
<1>1. CASE SendToReps
  BY <1>0, <1>1, SendWaypointsKeeps, SendReadingKeeps
<1>2. CASE SendVoted
  <2>1. Agreed /\ SendData(0) /\ pc = "send0" /\ 0 \in Reps
    BY <1>0, <1>2, RepsFacts DEF SendVoted, Phase
  <2> QED BY <1>0, <2>1, SendDataKeeps DEF Agreed
<1>3. CASE SendRestarter
  <2>1. /\ RestarterAnswer /\ (\A r \in Reps : Done(r)) /\ pc = "sendRestarter"
        /\ Restarter(fault_index) \in Reps /\ SendData(Restarter(fault_index))
    BY <1>0, <1>3, RepsFacts DEF SendRestarter, Phase
  <2> QED BY <1>0, <2>1, SendDataKeeps DEF RestarterAnswer
<1>4. ~ForkReplica /\ ~ResendToReps /\ ~RecollectFromReps
  BY <1>0 DEF ForkReplica, ResendToReps, RecollectFromReps, Phase
<1> QED BY <1>0, <1>1, <1>2, <1>3, <1>4, RecvDataKeeps, CollectKeeps, TimeoutKeeps, CheckSDCKeeps,
           FindFaultReplicaKeeps, RestartReplicaKeeps DEF Voter

\* Every step keeps the round.
LEMMA NextKeeps == ASSUME RoundInv, [Next]_vars PROVE RoundInv'
<1>1. CASE UNCHANGED vars
  <2>1. UNCHANGED <<configVars, envVars, voterVars, pipeVars, repVars, histVars>>
    BY <1>1 DEF vars
  <2>2. Faults' /\ Phase'
    BY <2>1, SamePhase DEF envVars
  <2>3. TypeInv'
    BY <2>1, SameReps DEF RoundInv, TypeInv, TypeOK, ReadSomething, envVars, voterVars, pipeVars,
                          repVars, histVars
  <2>4. Counts' /\ Requests' /\ rep_count' > 1
    BY <2>1 DEF RoundInv, Counts, Requests, HasReading, HasWaypoints, Asked, envVars, voterVars,
                histVars, configVars
  <2> QED BY <2>2, <2>3, <2>4 DEF RoundInv
<1> QED BY <1>1, EnvKeeps, VoterKeeps, ReplicaKeeps, InjectorKeeps DEF Next

\* The voter starts between two rounds.
LEMMA InitRound == ASSUME Init, TypeInv, rep_count > 1 PROVE RoundInv
<1>1. /\ pc = "recv" /\ faulty = {} /\ ref = CtlInit /\ sensed = 0 /\ ways = 0
      /\ \A p \in Outs : ext_out[p] = <<>>
      /\ \A p \in Ins : ext_in[p] = <<>>
  BY DEF Init
<1>2. \A r \in Reps : /\ status[r] = "up" /\ ~insertSDC[r] /\ ~insertCFE[r] /\ selected[r] = {}
                      /\ unsent[r] = NoOutput /\ fd_outs[r] = NoOutput /\ ctl[r] = CtlInit
                      /\ \A p \in Ins : fd_ins[r][p] = <<>>
  BY DEF Init
<1>3. \A r \in Reps, p \in Outs : Fresh(r, p)
  <2>1. CASE kinds = {}
    BY <1>1, <2>1 DEF Fresh, Outs
  <2>2. CASE kinds # {}
    BY <2>2, NoOutputFacts DEF Init, Fresh
  <2> QED BY <2>1, <2>2
<1>4. Faults
  BY <1>1, <1>2 DEF Faults
<1>5. ext_in[DATA] = <<>> /\ ext_in[WAY_RES] = <<>> /\ ext_out[MOV_CMD] = <<>> /\ ext_out[WAY_REQ] = <<>>
  BY <1>1 DEF Ins, Outs
<1>6. Len(ext_out[MOV_CMD]) = 0 /\ Len(ext_out[WAY_REQ]) = 0 /\ MaxRounds \in Nat
  BY <1>5, BoundsAssumption
<1>7. Counts
  BY <1>1, <1>5, <1>6 DEF Counts, HasReading
<1>8. Requests
  BY <1>1, <1>5, <1>6 DEF Requests, HasWaypoints, Asked, CtlInit
<1>9. \A r \in Reps : Rests(r)
  BY <1>1, <1>2, <1>3 DEF Rests, Quiet, UpToDate, Caught_up, Ins
<1> QED BY <1>1, <1>4, <1>7, <1>8, <1>9 DEF RoundInv, Phase

\* With one replica nobody is voted on: the vote blames nobody, and a
\* timeout forks a new process instead of copying another replica.
SingleNeverCopies == rep_count = 1 => pc # "restart"

\* Whatever the number of replicas.
RoundsInv == TypeInv /\ (rep_count > 1 => RoundInv) /\ SingleNeverCopies

\* It holds at the start,
LEMMA RoundsInit == Init => RoundsInv
  BY InitType, InitRound DEF RoundsInv, SingleNeverCopies, Init

\* and every step keeps it.
LEMMA RoundsNext == RoundsInv /\ [Next]_vars => RoundsInv'
<1> SUFFICES ASSUME RoundsInv, [Next]_vars PROVE RoundsInv'
  OBVIOUS
<1>1. TypeInv' /\ UNCHANGED configVars
  BY NextType DEF RoundsInv, Next, Env, SendReading, SendWaypoints, Voter, Replica, Injector, vars
<1>2. rep_count' > 1 => RoundInv'
  BY <1>1, NextKeeps DEF RoundsInv, configVars
<1>3. ASSUME rep_count = 1 PROVE pc' # "restart"
  <2>1. SDCFault = NoFault
    BY <1>3 DEF SDCFault
  <2>2. CASE UNCHANGED pc
    BY <1>3, <2>2 DEF RoundsInv, SingleNeverCopies
  <2>3. CASE Voter
    BY <1>3, <2>1, <2>2, <2>3 DEF Voter, RecvData, SendToReps, CollectFromReps, CollectReady,
         Timeout, CheckSDC, FindFaultReplica, RestartReplica, ForkReplica, ResendToReps,
         RecollectFromReps, SendVoted, SendRestarter, SendData, RoundsInv, SingleNeverCopies
  <2>4. CASE Env \/ Injector \/ UNCHANGED vars
    BY <2>2, <2>4 DEF Env, SendReading, SendWaypoints, Injector, KillReplica, TestSDCHandler,
         TestCFEHandler, Fault, vars, voterVars
  <2>5. CASE \E r \in Reps : Replica(r)
    BY <2>2, <2>5 DEF Replica, Select, ReadWaypoints, ReadReading, WriteAnswer, voterVars
  <2> QED BY <2>3, <2>4, <2>5 DEF Next
<1> QED BY <1>1, <1>2, <1>3 DEF RoundsInv, SingleNeverCopies, configVars

-----------------------------------------------------------------------------
(***************************************************************************)
(* What follows.                                                           *)
(***************************************************************************)

\* For every number of replicas, whatever faults strike and when: the
\* replica that startReplicas asks to fork is alive, has no fault in it and
\* has nothing half done, so accept() returns and the child repeats nothing.
THEOREM RestarterIsReady == Spec => []RestarterReady
<1>1. RoundsInv => RestarterReady
  <2> SUFFICES ASSUME RoundsInv, pc = "restart"
               PROVE  /\ status[Restarter(fault_index)] = "up"
                      /\ ~insertCFE[Restarter(fault_index)]
                      /\ ~insertSDC[Restarter(fault_index)]
                      /\ Idle(Restarter(fault_index))
    BY DEF RestarterReady
  <2>1. rep_count \in 1..3 /\ rep_count > 1 /\ RoundInv /\ fault_index \in Reps
    BY DEF RoundsInv, SingleNeverCopies, TypeInv, TypeOK
  <2>2. Fine(Restarter(fault_index))
    BY <2>1, RestarterOther DEF RoundInv, Phase, Restarting
  <2> QED BY <2>2 DEF Fine, Done, Quiet, Taken, Idle
<1> QED BY <1>1, RoundsInit, RoundsNext, PTL DEF Spec

\* Between rounds the running replicas of DMR and TMR are all in the state
\* that the inputs so far lead a controller to that no fault ever hit: the
\* copy made by a restart loses none of the waypoints and none is taken twice.
THEOREM ReplicasStayEqual == Spec => []ReplicasAgree
<1>1. RoundsInv => ReplicasAgree
  BY DEF RoundsInv, RoundInv, Phase, Rests, UpToDate, ReplicasAgree
<1> QED BY <1>1, RoundsInit, RoundsNext, PTL DEF Spec

\* Where the voter masks faults, neither the vote nor the timeout ever kills
\* a healthy replica.
THEOREM BlameTheFaulty == Spec => BlameIsRight
<1>1. RoundsInv /\ [Next]_vars =>
        [Promise = "masks" /\ pc' = "restart" /\ pc # pc' => fault_index' \in faulty]_vars
  <2> SUFFICES ASSUME RoundsInv, [Next]_vars, Promise = "masks", pc' = "restart", pc # pc'
               PROVE  fault_index' \in faulty
    OBVIOUS
  <2>1. rep_count > 1 /\ RoundInv
    BY DEF Promise, RoundsInv, TypeInv, TypeOK
  <2>2. CheckSDC \/ FindFaultReplica
    <3>1. CASE Voter
      BY <3>1 DEF Voter, RecvData, SendToReps, CollectFromReps, CollectReady, Timeout,
           RestartReplica, ForkReplica, ResendToReps, RecollectFromReps, SendVoted, SendRestarter,
           SendData
    <3>2. ~(Env \/ Injector \/ UNCHANGED vars)
      BY DEF Env, SendReading, SendWaypoints, Injector, KillReplica, TestSDCHandler,
           TestCFEHandler, Fault, vars, voterVars
    <3>3. \A r \in Reps : ~Replica(r)
      BY DEF Replica, Select, ReadWaypoints, ReadReading, WriteAnswer, voterVars
    <3> QED BY <3>1, <3>2, <3>3 DEF Next
  <2>3. CASE CheckSDC
    <3>1. pc = "vote" /\ SDCFault # NoFault /\ fault_index' = SDCFault
      BY <2>3 DEF CheckSDC
    <3> QED BY <2>1, <3>1, VoteFacts
  <2>4. CASE FindFaultReplica
    <3>1. pc = "timeout" /\ fault_index' = LowestScore
      BY <2>4 DEF FindFaultReplica
    <3> QED BY <2>1, <3>1, ScoreFacts
  <2> QED BY <2>2, <2>3, <2>4
<1> QED BY <1>1, RoundsInit, RoundsNext, PTL DEF Spec, BlameIsRight

-----------------------------------------------------------------------------
(***************************************************************************)
(* One replica (SMR): a lost process is replaced by a new one that is      *)
(* asked the same reading again, and every reading is still answered once  *)
(* and in order.                                                           *)
(***************************************************************************)

(***************************************************************************)
(* What holds all the time.                                                *)
(***************************************************************************)
\* The readings and the waypoints are numbered up to the number of readings.
Numbers == 0 .. MaxRounds

\* A restarted process asks again whatever the last one asked, so that more
\* than one request may be out; but only as many as there are commands.
Numbered ==
    /\ ways <= Len(ext_out[WAY_REQ])
    /\ ext_in[WAY_RES] \in Seq(Numbers)
    /\ HasWaypoints => ext_in_buffer \in Seq(Numbers)
    /\ fd_ins[0][WAY_RES] \in Seq(Numbers)
    /\ ctl[0].goal \in Numbers

(***************************************************************************)
(* Where the process is in its round.                                      *)
(***************************************************************************)
\* The answers a process may give to the present reading: it depends on when
\* it was started which waypoints it knows of.
Answers ==
    {Answer(c, Now, b) : c \in [goal : Numbers, way_pending : BOOLEAN,
                                seq_count : {ref.seq_count}],
                         b \in {x \in BOOLEAN : x => "sdc" \in kinds}}

\* What the voter's buffer holds once the pipe p has been read.
Held(p) == IF fd_outs[0][p] # <<>> THEN fd_outs[0][p] ELSE buffers[0][p]

\* A process that asks no request finds none of an earlier process in the
\* buffer: it would be sent as its own.
NoOldRequest == ctl[0].way_pending => buffers[0][WAY_REQ] = <<>>

\* The reading is in the pipe.
Given == fd_ins[0][DATA] = <<Now>> /\ Quiet(0) /\ NoOldRequest

\* The velocity is yet to be written, and maybe the request.
Writing ==
    /\ fd_ins[0][DATA] = <<>> /\ fd_outs[0][MOV_CMD] = <<>>
    /\ \E a \in Answers :
         /\ unsent[0][MOV_CMD] = a[MOV_CMD]
         /\ \/ unsent[0][WAY_REQ] = a[WAY_REQ] /\ a[WAY_REQ] # <<>> /\ fd_outs[0][WAY_REQ] = <<>>
            \/ unsent[0][WAY_REQ] = <<>> /\ Held(WAY_REQ) = a[WAY_REQ]

\* The answer is in the pipes and the buffer.
Written ==
    /\ fd_ins[0][DATA] = <<>> /\ unsent[0] = NoOutput
    /\ \E a \in Answers : fd_outs[0][MOV_CMD] = a[MOV_CMD] /\ Held(WAY_REQ) = a[WAY_REQ]

\* The process failed before it wrote its velocity.
Lost == status[0] # "up" /\ unsent[0] = NoOutput /\ fd_outs[0][MOV_CMD] = <<>>

\* The answer is the voter's.
Answered == fd_ins[0][DATA] = <<>> /\ Quiet(0) /\ buffers[0] \in Answers

\* Between rounds nothing of the last one is left but what the buffers
\* started with.
Between ==
    /\ fd_ins[0][DATA] = <<>> /\ Quiet(0) /\ NoOldRequest
    /\ ext_out[MOV_CMD] # <<>> => buffers[0] = NoOutput

\* There is nothing of the process that was killed but its buffers.
Cleaned ==
    /\ Quiet(0) /\ ctl[0] = CtlInit
    /\ fd_ins[0] = [p \in Ins |-> <<>>]

\* What holds at each place of main() with one replica.
SinglePhase ==
    /\ pc # "restart"
    /\ pc \in {"recv", "send"} => Between
    /\ pc \in {"collect", "recollect"} => rep_done = 0 /\ (Given \/ Writing \/ Written \/ Lost)
    /\ pc \in {"vote", "send0", "sendRestarter"} => Answered
    /\ pc \in {"fork", "resend"} => Cleaned

\* The inductive invariant with one replica.
SingleInv ==
    /\ rep_count = 1 /\ TypeInv /\ Counts /\ Numbered
    /\ insertSDC[0] => "sdc" \in kinds
    /\ SinglePhase

-----------------------------------------------------------------------------
(***************************************************************************)
(* Operators.                                                              *)
(***************************************************************************)

\* There is one replica, and it is the one that is blamed and sent from.
LEMMA SingleReps ==
    ASSUME TypeOK, rep_count = 1
    PROVE  Reps = {0} /\ fault_index = 0 /\ Restarter(fault_index) = 0
  BY DEF TypeOK, Reps, Restarter

\* An answer has one velocity and at most one request.
LEMMA AnswersFacts ==
    ASSUME TypeOK, Now \in Nat, NEW a \in Answers
    PROVE  /\ a \in [Outs -> Seq(Msg)] /\ a[MOV_CMD] \in Seq(Msg) /\ a[WAY_REQ] \in Seq(Msg)
           /\ Len(a[MOV_CMD]) = 1 /\ a[MOV_CMD] # <<>>
           /\ a[WAY_REQ] = <<>> \/ Len(a[WAY_REQ]) = 1
           /\ "sdc" \notin kinds => ~a[MOV_CMD][1].bad
<1>1. PICK c \in [goal : Numbers, way_pending : BOOLEAN, seq_count : {ref.seq_count}],
           b \in {x \in BOOLEAN : x => "sdc" \in kinds} : a = Answer(c, Now, b)
  BY DEF Answers
<1>2. c \in Ctl /\ b \in BOOLEAN
  BY BoundsAssumption DEF TypeOK, Ctl, Numbers
<1>3. /\ a \in [Outs -> Seq(Msg)]
      /\ Len(a[MOV_CMD]) = 1 /\ a[MOV_CMD] # <<>>
      /\ a[MOV_CMD][1].bad = b
      /\ c.way_pending => a[WAY_REQ] = <<>>
      /\ ~c.way_pending => Len(a[WAY_REQ]) = 1
  BY <1>1, <1>2, AnswerFacts
<1>4. a[MOV_CMD] \in Seq(Msg) /\ a[WAY_REQ] \in Seq(Msg)
  BY <1>3 DEF Outs
<1>5. a[WAY_REQ] = <<>> \/ Len(a[WAY_REQ]) = 1
  BY <1>3
<1>6. "sdc" \notin kinds => ~a[MOV_CMD][1].bad
  BY <1>1, <1>3
<1> QED BY <1>3, <1>4, <1>5, <1>6

\* A process that knows waypoints there are gives one of these answers.
LEMMA OwnAnswer ==
    ASSUME NEW c \in Ctl, c.goal \in Numbers, NEW b \in BOOLEAN, b => "sdc" \in kinds
    PROVE  Answer(c, Now, b) \in Answers
<1> DEFINE d == [goal |-> c.goal, way_pending |-> c.way_pending, seq_count |-> ref.seq_count]
<1>1. d \in [goal : Numbers, way_pending : BOOLEAN, seq_count : {ref.seq_count}]
  BY DEF Ctl
<1>2. d.goal = c.goal /\ (d.way_pending <=> c.way_pending)
  BY DEF Ctl
<1> HIDE DEF d
<1>3. Answer(d, Now, b) = Answer(c, Now, b)
  BY <1>2 DEF Answer
<1>4. b \in {x \in BOOLEAN : x => "sdc" \in kinds}
  OBVIOUS
<1> QED BY <1>1, <1>3, <1>4 DEF Answers

\* The answer is where it was as long as only waypoints are read or wait.
LEMMA PassiveStep ==
    ASSUME UNCHANGED <<kinds, ext_out, ext_in_buffer, ref, pc, rep_done>>,
           buffers'[0] = buffers[0], fd_outs'[0] = fd_outs[0], unsent'[0] = unsent[0],
           fd_ins'[0][DATA] = fd_ins[0][DATA],
           ctl'[0].way_pending => ctl[0].way_pending,
           status[0] # "up" => status'[0] # "up"
    PROVE  /\ Between => Between'
           /\ (Given => Given') /\ (Writing => Writing') /\ (Written => Written')
           /\ (Lost => Lost') /\ (Answered => Answered')
<1>1. Now' = Now /\ Answers' = Answers /\ (Quiet(0)' <=> Quiet(0)) /\ (NoOldRequest => NoOldRequest')
  BY DEF Now, Answers, Quiet, NoOldRequest
<1>2. Held(WAY_REQ)' = Held(WAY_REQ)
  BY DEF Held
<1>3. Between => Between'
  BY <1>1 DEF Between
<1>4. Given => Given'
  BY <1>1 DEF Given
<1>5. Writing => Writing'
  BY <1>1, <1>2 DEF Writing
<1>6. (Written => Written') /\ (Lost => Lost') /\ (Answered => Answered')
  BY <1>1, <1>2 DEF Written, Lost, Answered
<1> QED BY <1>3, <1>4, <1>5, <1>6

-----------------------------------------------------------------------------
(***************************************************************************)
(* The process, the injector and the environment.                          *)
(***************************************************************************)

\* A step of the process keeps the round.
LEMMA ReplicaKeepsSingle == ASSUME SingleInv, NEW r \in Reps, Replica(r) PROVE SingleInv'
<1>0. /\ TypeOK /\ TypeInv' /\ Reps = {0} /\ r = 0 /\ rep_count = 1 /\ Counts /\ Numbered
      /\ SinglePhase /\ (insertSDC[0] => "sdc" \in kinds)
  BY ReplicaType, SingleReps DEF SingleInv, TypeInv
<1>1. UNCHANGED <<rep_count, kinds, ext_in, ext_out, sensed, ways, pc, active_pipe_index,
                  ext_in_buffer, buffers, rep_done, ref>>
  BY <1>0, ReplicaFrame DEF configVars, envVars, voterVars, histVars
<1>2. Counts'
  BY <1>0, <1>1 DEF Counts, HasReading
<1>3. pc \notin {"fork", "resend"}
  <2>1. \A p \in Ins : [q \in Ins |-> <<>>][p] = <<>>
    OBVIOUS
  <2>2. ~Cleaned
    BY <1>0, <2>1, NoOutputFacts DEF Cleaned, Quiet, Replica, Select, ReadWaypoints, ReadReading,
                                     WriteAnswer, Ins
  <2> QED BY <1>0, <2>2 DEF SinglePhase
<1>N. ASSUME fd_ins'[0][WAY_RES] \in Seq(Numbers), ctl'[0].goal \in Numbers PROVE Numbered'
  BY <1>0, <1>1, <1>N DEF Numbered, HasWaypoints
<1>P. ASSUME fd_outs'[0] = fd_outs[0], unsent'[0] = unsent[0],
             fd_ins'[0][DATA] = fd_ins[0][DATA],
             ctl'[0].way_pending => ctl[0].way_pending,
             status[0] # "up" => status'[0] # "up"
      PROVE  SinglePhase'
  <2>1. /\ (Between => Between') /\ (Given => Given') /\ (Writing => Writing')
        /\ (Written => Written') /\ (Lost => Lost') /\ (Answered => Answered')
    BY <1>1, <1>P, PassiveStep
  <2> QED BY <1>0, <1>1, <1>3, <2>1 DEF SinglePhase
<1>4. CASE Select(0)
  <2>1. /\ UNCHANGED <<fd_ins, fd_outs, unsent, ctl, insertSDC>> /\ status[0] = "up"
    BY <1>4 DEF Select, pipeVars
  <2>2. Numbered' /\ SinglePhase'
    BY <1>0, <1>N, <1>P, <2>1 DEF Numbered
  <2> QED BY <1>0, <1>1, <1>2, <2>1, <2>2 DEF SingleInv
<1>5. CASE ReadWaypoints(0)
  <2>1. /\ fd_ins[0] \in [Ins -> Seq(Nat)] /\ fd_ins[0][WAY_RES] \in Seq(Numbers)
        /\ fd_ins[0][WAY_RES] # <<>> /\ ctl[0] \in Ctl
    BY <1>0, <1>5 DEF ReadWaypoints, Numbered, TypeOK
  <2>2. /\ fd_ins'[0][DATA] = fd_ins[0][DATA] /\ fd_ins'[0][WAY_RES] = Tail(fd_ins[0][WAY_RES])
        /\ ctl'[0] = RecvWay(ctl[0], Head(fd_ins[0][WAY_RES]))
        /\ UNCHANGED <<fd_outs, unsent, status, insertSDC>>
    BY <1>0, <1>5, <2>1 DEF ReadWaypoints, TypeOK, Ins, DATA, WAY_RES
  <2>3. Tail(fd_ins[0][WAY_RES]) \in Seq(Numbers) /\ Head(fd_ins[0][WAY_RES]) \in Numbers
    BY <2>1
  <2>4. ctl'[0].goal \in Numbers /\ ~ctl'[0].way_pending
    BY <2>1, <2>2, <2>3 DEF RecvWay, Ctl
  <2>5. Numbered' /\ SinglePhase'
    BY <1>N, <1>P, <2>2, <2>3, <2>4
  <2> QED BY <1>0, <1>1, <1>2, <2>2, <2>5 DEF SingleInv
<1>6. CASE ReadReading(0)
  <2>1. status[0] = "up" /\ fd_ins[0][DATA] # <<>>
    BY <1>6 DEF ReadReading
  <2>2. pc \in {"collect", "recollect", "timeout"}
    BY <1>0, <1>3, <2>1 DEF SinglePhase, Between, Answered, TypeOK
  <2>b. PICK b \in BOOLEAN : b = insertSDC[0] /\ (b => "sdc" \in kinds)
    BY <1>0 DEF TypeOK
  <2>3. /\ fd_ins[0] \in [Ins -> Seq(Nat)] /\ ctl[0] \in Ctl /\ Head(fd_ins[0][DATA]) \in Nat
        /\ ctl[0].goal \in Numbers /\ fd_ins[0][WAY_RES] \in Seq(Numbers)
    BY <1>0, <2>1 DEF TypeOK, Ins, Numbered
  <2>4. /\ fd_ins'[0][DATA] = Tail(fd_ins[0][DATA]) /\ fd_ins'[0][WAY_RES] = fd_ins[0][WAY_RES]
        /\ ctl'[0] = AfterCommand(ctl[0], Head(fd_ins[0][DATA]))
        /\ unsent'[0] = Answer(ctl[0], Head(fd_ins[0][DATA]), b)
        /\ ~insertSDC'[0] /\ UNCHANGED <<fd_outs, status>>
    BY <1>0, <1>6, <2>b, <2>3 DEF ReadReading, TypeOK, Ins, DATA, WAY_RES
  <2>5. Numbered'
    <3>1. ctl'[0].goal = ctl[0].goal
      BY <2>3, <2>4 DEF AfterCommand, Ctl
    <3> QED BY <1>N, <2>3, <2>4, <3>1
  <2>6. SinglePhase'
    <3>1. CASE pc = "timeout"
      BY <1>1, <3>1 DEF SinglePhase
    <3>2. CASE pc \in {"collect", "recollect"}
      <4>0. rep_done = 0 /\ Given
        BY <1>0, <2>1, <3>2 DEF SinglePhase, Writing, Written, Lost
      <4>1. fd_ins[0][DATA] = <<Now>> /\ Quiet(0) /\ NoOldRequest
        BY <4>0 DEF Given
      <4>2. /\ Head(fd_ins[0][DATA]) = Now /\ Tail(fd_ins[0][DATA]) = <<>> /\ Now \in Nat
            /\ Answers' = Answers
        <5>1. Answers' = Answers
          BY <1>1 DEF Answers, Now
        <5> QED BY <2>3, <4>1, <5>1
      <4>3. Answer(ctl[0], Now, b) \in Answers
        BY <2>3, <2>b, OwnAnswer
      <4>4. /\ fd_outs'[0][MOV_CMD] = <<>> /\ fd_outs'[0][WAY_REQ] = <<>>
            /\ buffers'[0][WAY_REQ] = buffers[0][WAY_REQ]
        BY <1>1, <2>4, <4>1, NoOutputFacts DEF Quiet
      <4>5. /\ ctl[0].way_pending => Answer(ctl[0], Now, b)[WAY_REQ] = <<>>
            /\ ~ctl[0].way_pending => Answer(ctl[0], Now, b)[WAY_REQ] # <<>>
        BY ZenonT(30), <2>3, <4>2, AnswerFacts
      <4>6. Writing'
        <5>1. CASE ctl[0].way_pending
          BY <2>4, <4>1, <4>2, <4>3, <4>4, <4>5, <5>1 DEF Writing, Held, NoOldRequest
        <5>2. CASE ~ctl[0].way_pending
          BY <2>4, <4>1, <4>2, <4>3, <4>4, <4>5, <5>2 DEF Writing
        <5> QED BY <5>1, <5>2
      <4> QED BY <1>1, <3>2, <4>0, <4>6 DEF SinglePhase
    <3> QED BY <2>2, <3>1, <3>2
  <2> QED BY <1>0, <1>1, <1>2, <2>4, <2>5, <2>6 DEF SingleInv
<1>7. ASSUME NEW p \in Outs, WriteAnswer(0, p) PROVE SingleInv'
  <2>1. unsent[0][p] # <<>> /\ \A q \in Outs : q < p => unsent[0][q] = <<>>
    BY <1>7 DEF WriteAnswer
  <2>2. /\ unsent'[0][p] = <<>> /\ fd_outs'[0][p] = fd_outs[0][p] \o unsent[0][p]
        /\ \A q \in Outs \ {p} : unsent'[0][q] = unsent[0][q] /\ fd_outs'[0][q] = fd_outs[0][q]
        /\ unsent'[0] \in [Outs -> Seq(Msg)]
        /\ UNCHANGED <<status, fd_ins, ctl, insertSDC>>
    <3>1. PICK w : w = fd_outs[0][p] \o unsent[0][p]
      OBVIOUS
    <3>2. /\ fd_outs' = [fd_outs EXCEPT ![0][p] = w] /\ unsent' = [unsent EXCEPT ![0][p] = <<>>]
          /\ UNCHANGED <<status, fd_ins, ctl, insertSDC>>
      BY <1>7, <3>1 DEF WriteAnswer
    <3>3. /\ fd_outs \in [{0} -> [Outs -> Seq(Msg)]] /\ unsent \in [{0} -> [Outs -> Seq(Msg)]]
          /\ unsent'[0] \in [Outs -> Seq(Msg)]
      <4>1. Reps' = Reps
        BY <1>1 DEF Reps
      <4> QED BY <1>0, <4>1 DEF TypeOK, TypeInv
    <3> QED BY <3>1, <3>2, <3>3
  <2>3. pc \in {"collect", "recollect", "timeout"}
    BY <1>0, <1>3, <2>1, NoOutputFacts DEF SinglePhase, Between, Answered, Quiet, TypeOK
  <2>4. Numbered'
    BY <1>0, <1>N, <2>2 DEF Numbered
  <2>5. SinglePhase'
    <3>1. CASE pc = "timeout"
      BY <1>1, <3>1 DEF SinglePhase
    <3>2. CASE pc \in {"collect", "recollect"}
      <4>0. rep_done = 0 /\ Writing
        BY <1>0, <2>1, <3>2, NoOutputFacts DEF SinglePhase, Given, Quiet, Written, Lost
      <4>1. PICK a \in Answers :
              /\ unsent[0][MOV_CMD] = a[MOV_CMD]
              /\ \/ unsent[0][WAY_REQ] = a[WAY_REQ] /\ a[WAY_REQ] # <<>> /\ fd_outs[0][WAY_REQ] = <<>>
                 \/ unsent[0][WAY_REQ] = <<>> /\ Held(WAY_REQ) = a[WAY_REQ]
        BY <4>0 DEF Writing
      <4>2. Answers' = Answers /\ fd_outs[0][MOV_CMD] = <<>> /\ fd_ins'[0][DATA] = <<>>
        BY <1>1, <2>2, <4>0 DEF Answers, Now, Writing
      <4>3. unsent[0][p] \in Seq(Msg) /\ <<>> \o unsent[0][p] = unsent[0][p]
        BY <1>0, ConcatEmptySeq DEF TypeOK
      <4>4. CASE p = WAY_REQ
        <5>1. /\ fd_outs'[0][WAY_REQ] = a[WAY_REQ] /\ a[WAY_REQ] # <<>> /\ unsent'[0][WAY_REQ] = <<>>
              /\ unsent'[0][MOV_CMD] = a[MOV_CMD] /\ fd_outs'[0][MOV_CMD] = <<>>
          <6>1. unsent[0][WAY_REQ] = a[WAY_REQ] /\ a[WAY_REQ] # <<>> /\ fd_outs[0][WAY_REQ] = <<>>
            BY <2>1, <4>1, <4>4
          <6>2. fd_outs'[0][WAY_REQ] = a[WAY_REQ] /\ unsent'[0][WAY_REQ] = <<>>
            BY <2>2, <4>3, <4>4, <6>1, Zenon
          <6>3. MOV_CMD \in Outs \ {p}
            BY <4>4 DEF Outs, MOV_CMD, WAY_REQ
          <6> QED BY <2>2, <4>1, <4>2, <6>1, <6>2, <6>3, Zenon
        <5>2. Writing'
          BY <4>2, <5>1 DEF Writing, Held
        <5> QED BY <1>1, <3>2, <4>0, <5>2 DEF SinglePhase
      <4>5. CASE p = MOV_CMD
        <5>1. /\ fd_outs'[0][MOV_CMD] = a[MOV_CMD] /\ unsent'[0][MOV_CMD] = <<>>
              /\ unsent'[0][WAY_REQ] = <<>> /\ unsent[0][WAY_REQ] = <<>>
              /\ fd_outs'[0][WAY_REQ] = fd_outs[0][WAY_REQ]
          <6>1. WAY_REQ \in Outs \ {p} /\ WAY_REQ < p
            BY <4>5 DEF Outs, MOV_CMD, WAY_REQ
          <6>2. unsent[0][WAY_REQ] = <<>> /\ unsent[0][MOV_CMD] = a[MOV_CMD]
            BY <2>1, <4>1, <6>1
          <6>3. fd_outs'[0][MOV_CMD] = a[MOV_CMD] /\ unsent'[0][MOV_CMD] = <<>>
            BY <2>2, <4>2, <4>3, <4>5, <6>2, Zenon
          <6> QED BY <2>2, <6>1, <6>2, <6>3, Zenon
        <5>2. unsent'[0] = NoOutput
          BY <2>2, <5>1, NothingOut
        <5>3. Held(WAY_REQ) = a[WAY_REQ] /\ Held(WAY_REQ)' = Held(WAY_REQ)
          BY <1>1, <4>1, <5>1 DEF Held
        <5>4. Written'
          BY <4>2, <5>1, <5>2, <5>3 DEF Written
        <5> QED BY <1>1, <3>2, <4>0, <5>4 DEF SinglePhase
      <4> QED BY <4>4, <4>5 DEF Outs
    <3> QED BY <2>3, <3>1, <3>2
  <2> QED BY <1>0, <1>1, <1>2, <2>2, <2>4, <2>5 DEF SingleInv
<1> QED BY <1>0, <1>4, <1>5, <1>6, <1>7 DEF Replica

\* A fault keeps the round: the answer is in the pipes or it is lost.
LEMMA InjectorKeepsSingle == ASSUME SingleInv, Injector PROVE SingleInv'
<1>0. /\ TypeOK /\ TypeInv' /\ Reps = {0} /\ rep_count = 1 /\ Counts /\ Numbered
      /\ SinglePhase /\ (insertSDC[0] => "sdc" \in kinds)
  BY InjectorType, SingleReps DEF SingleInv, TypeInv
<1>1. /\ UNCHANGED <<rep_count, kinds, ext_in, ext_out, sensed, ways, pc, active_pipe_index,
                     ext_in_buffer, buffers, rep_done, fd_ins, fd_outs, ctl, ref>>
      /\ insertSDC'[0] => "sdc" \in kinds
      /\ \/ unsent' = unsent /\ status' = status
         \/ unsent'[0] = NoOutput /\ status'[0] = "dead"
  <2>1. KillReplica(0) \/ TestSDCHandler(0) \/ TestCFEHandler(0)
    BY <1>0 DEF Injector
  <2> USE DEF Injector, Fault, configVars, envVars, voterVars, pipeVars
  <2>2. CASE KillReplica(0)
    BY <1>0, <2>2 DEF KillReplica, TypeOK
  <2>3. CASE TestSDCHandler(0)
    BY <1>0, <2>3 DEF TestSDCHandler
  <2>4. CASE TestCFEHandler(0)
    BY <1>0, <2>4 DEF TestCFEHandler
  <2> QED BY <2>1, <2>2, <2>3, <2>4
<1>2. Counts' /\ Numbered'
  BY <1>0, <1>1 DEF Counts, HasReading, Numbered, HasWaypoints
<1>3. ASSUME unsent'[0] = unsent[0] PROVE SinglePhase'
  <2>1. /\ (Between => Between') /\ (Given => Given') /\ (Writing => Writing')
        /\ (Written => Written') /\ (Lost => Lost') /\ (Answered => Answered')
    BY <1>1, <1>3, PassiveStep
  <2>2. Cleaned => Cleaned'
    BY <1>1, <1>3 DEF Cleaned, Quiet
  <2> QED BY <1>0, <1>1, <2>1, <2>2 DEF SinglePhase
<1>4. ASSUME unsent[0] # NoOutput, unsent'[0] = NoOutput, status'[0] = "dead" PROVE SinglePhase'
  <2>1. pc \in {"collect", "recollect"} => Writing /\ rep_done = 0
    BY <1>0, <1>4 DEF SinglePhase, Given, Quiet, Written, Lost
  <2>2. Writing => Lost'
    BY <1>1, <1>4 DEF Writing, Lost
  <2>3. pc \in {"collect", "recollect", "timeout"}
    BY <1>0, <1>4 DEF SinglePhase, Between, Answered, Cleaned, Quiet, TypeOK
  <2> QED BY <1>1, <2>1, <2>2, <2>3 DEF SinglePhase
<1> QED BY <1>0, <1>1, <1>2, <1>3, <1>4 DEF SingleInv

\* There are no more requests than readings.
LEMMA RequestsBounded ==
    ASSUME TypeOK, Counts PROVE Len(ext_out[WAY_REQ]) \in Nat /\ Len(ext_out[WAY_REQ]) <= MaxRounds
<1>1. /\ MaxRounds \in Nat /\ Len(ext_out[MOV_CMD]) \in Nat /\ Len(ext_out[WAY_REQ]) \in Nat
      /\ sensed \in Nat
  BY LengthTypes
<1>2. /\ Len(ext_out[WAY_REQ]) <= Len(ext_out[MOV_CMD]) /\ sensed <= MaxRounds
      /\ sensed = Len(ext_out[MOV_CMD]) + 1 \/ sensed = Len(ext_out[MOV_CMD])
  BY DEF Counts
<1> QED BY <1>1, <1>2

\* What does not touch the process and the voter keeps the phase.
LEMMA SameSinglePhase ==
    ASSUME SingleInv, UNCHANGED <<configVars, ext_out, voterVars, pipeVars, repVars, histVars>>
    PROVE  /\ SinglePhase' /\ rep_count' = 1 /\ (insertSDC'[0] => "sdc" \in kinds')
<1>0. UNCHANGED <<rep_count, kinds, ext_out, pc, ext_in_buffer, buffers, rep_done, fd_ins, fd_outs,
                  status, ctl, insertSDC, unsent, ref>>
  BY DEF configVars, voterVars, pipeVars, repVars, histVars
<1>1. /\ (Between => Between') /\ (Given => Given') /\ (Writing => Writing')
      /\ (Written => Written') /\ (Lost => Lost') /\ (Answered => Answered')
  BY <1>0, PassiveStep
<1>2. Cleaned => Cleaned'
  BY <1>0 DEF Cleaned, Quiet
<1> QED BY <1>0, <1>1, <1>2 DEF SingleInv, SinglePhase

\* The environment numbers what it sends.
LEMMA EnvKeepsSingle == ASSUME SingleInv, Env PROVE SingleInv'
<1>0. /\ TypeOK /\ TypeInv' /\ Counts /\ Counts' /\ Numbered
  BY EnvType, EnvCounts DEF SingleInv, TypeInv
<1>1. /\ UNCHANGED <<configVars, ext_out, voterVars, pipeVars, repVars, histVars>>
      /\ UNCHANGED <<ext_out, pc, active_pipe_index, ext_in_buffer, fd_ins, ctl>>
  BY DEF Env, SendReading, SendWaypoints, voterVars, pipeVars, repVars
<1>2. SinglePhase' /\ rep_count' = 1 /\ (insertSDC'[0] => "sdc" \in kinds')
  BY <1>1, SameSinglePhase
<1>3. Numbered'
  <2>1. CASE SendReading
    <3>1. ext_in'[WAY_RES] = ext_in[WAY_RES] /\ ways' = ways
      BY <1>0, <2>1 DEF SendReading, TypeOK, Ins, DATA, WAY_RES
    <3> QED BY <1>0, <1>1, <3>1 DEF Numbered, HasWaypoints
  <2>2. CASE SendWaypoints
    <3>1. /\ ext_in'[WAY_RES] = Append(ext_in[WAY_RES], ways + 1) /\ ways' = ways + 1
          /\ ways < Len(ext_out[WAY_REQ])
      BY <1>0, <2>2 DEF SendWaypoints, TypeOK, Ins, DATA, WAY_RES
    <3>2. ways + 1 \in Numbers /\ ways + 1 <= Len(ext_out[WAY_REQ])
      <4>1. ways \in Nat /\ MaxRounds \in Nat
        BY <1>0, LengthTypes
      <4>2. Len(ext_out[WAY_REQ]) \in Nat /\ Len(ext_out[WAY_REQ]) <= MaxRounds
        BY <1>0, RequestsBounded
      <4> QED BY <3>1, <4>1, <4>2 DEF Numbers
    <3>3. ext_in'[WAY_RES] \in Seq(Numbers)
      BY <1>0, <3>1, <3>2 DEF Numbered
    <3> QED BY <1>0, <1>1, <3>1, <3>2, <3>3 DEF Numbered, HasWaypoints
  <2> QED BY <2>1, <2>2 DEF Env
<1> QED BY <1>0, <1>2, <1>3 DEF SingleInv

-----------------------------------------------------------------------------
(***************************************************************************)
(* The voter.                                                              *)
(***************************************************************************)

\* recvData and the writes to the process.
LEMMA TakeKeepsSingle ==
    ASSUME SingleInv, RecvData \/ SendToReps \/ ResendToReps, UNCHANGED configVars
    PROVE  SingleInv'
<1>0. /\ TypeOK /\ TypeInv' /\ Reps = {0} /\ rep_count = 1 /\ Counts /\ Numbered
      /\ SinglePhase /\ (insertSDC[0] => "sdc" \in kinds)
      /\ rep_count' = rep_count /\ kinds' = kinds
  BY VoterType, SingleReps, SameReps DEF SingleInv, TypeInv, Voter
<1>1. CASE RecvData
  <2>1. PICK p \in Ins : /\ ext_in[p] # <<>> /\ active_pipe_index' = p
                         /\ ext_in_buffer' = ext_in[p]
                         /\ ext_in' = [ext_in EXCEPT ![p] = <<>>]
    BY <1>1 DEF RecvData
  <2>2. /\ pc = "recv" /\ pc' = "send"
        /\ UNCHANGED <<ext_out, sensed, ways, buffers, fd_ins, fd_outs, status, ctl, insertSDC,
                       unsent, ref>>
    BY <1>1 DEF RecvData, pipeVars, repVars, histVars
  <2>3. Between'
    BY <1>0, <2>2 DEF SinglePhase, Between, Quiet, NoOldRequest
  <2>4. /\ ext_in'[p] = <<>> /\ \A q \in Ins \ {p} : ext_in'[q] = ext_in[q]
    BY <1>0, <2>1 DEF TypeOK
  <2>5. CASE p = DATA
    <3>1. ext_in'[WAY_RES] = ext_in[WAY_RES] /\ HasReading' /\ ~HasWaypoints'
      BY <2>1, <2>2, <2>4, <2>5 DEF Ins, DATA, WAY_RES, HasReading, HasWaypoints
    <3>2. Counts' /\ Numbered'
      BY <1>0, <2>1, <2>2, <2>4, <2>5, <3>1 DEF Counts, Numbered, HasReading
    <3> QED BY <1>0, <2>2, <2>3, <3>2 DEF SingleInv, SinglePhase
  <2>6. CASE p = WAY_RES
    <3>1. ext_in'[DATA] = ext_in[DATA] /\ ~HasReading' /\ ~HasReading
      BY <2>1, <2>2, <2>4, <2>6 DEF Ins, DATA, WAY_RES, HasReading
    <3>2. Counts' /\ Numbered'
      BY <1>0, <2>1, <2>2, <2>4, <2>6, <3>1 DEF Counts, Numbered
    <3> QED BY <1>0, <2>2, <2>3, <3>2 DEF SingleInv, SinglePhase
  <2> QED BY <2>5, <2>6 DEF Ins
<1>2. CASE SendToReps /\ ~WaitOnInput
  <2>1. /\ pc = "send" /\ pc' = "recv" /\ fd_ins' = WrittenToReps
        /\ UNCHANGED <<ext_in, ext_out, sensed, ways, active_pipe_index, buffers, fd_outs, status,
                       ctl, insertSDC, unsent>>
    BY <1>2, Zenon DEF SendToReps, envVars, repVars
  <2>2. active_pipe_index = WAY_RES /\ HasWaypoints /\ ~HasReading /\ ~HasReading' /\ ~HasWaypoints'
    BY <1>0, <1>2, <2>1 DEF WaitOnInput, timer_start_index, TypeOK, Ins, HasWaypoints, HasReading,
                            DATA, WAY_RES
  <2>3. /\ fd_ins'[0][WAY_RES] = fd_ins[0][WAY_RES] \o ext_in_buffer
        /\ fd_ins'[0][DATA] = fd_ins[0][DATA]
    BY <1>0, <2>1, <2>2, WrittenFacts DEF Ins, DATA, WAY_RES
  <2>4. Counts'
    BY <1>0, <2>1, <2>2 DEF Counts
  <2>5. Numbered'
    <3>1. fd_ins'[0][WAY_RES] \in Seq(Numbers)
      BY <1>0, <2>2, <2>3, ConcatType DEF Numbered
    <3> QED BY <1>0, <2>1, <2>2, <3>1 DEF Numbered
  <2>6. Between'
    BY <1>0, <2>1, <2>3 DEF SinglePhase, Between, Quiet, NoOldRequest
  <2> QED BY <1>0, <2>1, <2>4, <2>5, <2>6 DEF SingleInv, SinglePhase
<1>3. CASE (SendToReps /\ WaitOnInput) \/ ResendToReps
  <2>1. /\ pc \in {"send", "resend"} /\ pc' \in {"collect", "recollect"} /\ rep_done' = 0
        /\ fd_ins' = WrittenToReps
        /\ UNCHANGED <<ext_in, ext_out, sensed, ways, active_pipe_index, ext_in_buffer, buffers,
                       fd_outs, status, ctl, insertSDC, unsent, ref>>
    <3>1. CASE SendToReps /\ WaitOnInput
      BY <3>1, Zenon DEF SendToReps, envVars, repVars
    <3>2. CASE ResendToReps
      BY <3>2 DEF ResendToReps, envVars, repVars, histVars
    <3> QED BY <1>3, <3>1, <3>2
  <2>2. active_pipe_index = DATA
    BY <1>0, <1>3 DEF WaitOnInput, timer_start_index, ResendToReps, Counts
  <2>3. Now \in Nat /\ ext_in_buffer = <<Now>> /\ Now' = Now
    BY <1>0, <2>1, <2>2, RoundFacts DEF Now
  <2>4. fd_ins[0][DATA] = <<>> /\ Quiet(0) /\ NoOldRequest
    <3>1. \A p \in Ins : [q \in Ins |-> <<>>][p] = <<>>
      OBVIOUS
    <3>2. Cleaned => fd_ins[0][DATA] = <<>> /\ Quiet(0) /\ NoOldRequest
      BY <3>1 DEF Cleaned, NoOldRequest, CtlInit, Ins
    <3> QED BY <1>0, <2>1, <3>2 DEF SinglePhase, Between
  <2>5. fd_ins'[0][DATA] = <<Now>> /\ fd_ins'[0][WAY_RES] = fd_ins[0][WAY_RES]
    BY <1>0, <2>1, <2>2, <2>3, <2>4, WrittenFacts DEF Ins, DATA, WAY_RES
  <2>6. Given'
    BY <2>1, <2>3, <2>4, <2>5 DEF Given, Quiet, NoOldRequest
  <2>7. Counts' /\ Numbered'
    BY <1>0, <2>1, <2>2, <2>5 DEF Counts, HasReading, Numbered, HasWaypoints
  <2> QED BY <1>0, <2>1, <2>6, <2>7 DEF SingleInv, SinglePhase
<1> QED BY <1>1, <1>2, <1>3

\* A turn of collectFromReps, the first time or after a restart: it ends
\* with the velocity, and what is then in the buffers is one answer.
LEMMA CollectKeepsSingle ==
    ASSUME SingleInv, CollectFromReps \/ RecollectFromReps, UNCHANGED configVars
    PROVE  SingleInv'
<1>0. /\ TypeOK /\ TypeInv' /\ Reps = {0} /\ rep_count = 1 /\ Counts /\ Numbered
      /\ SinglePhase /\ (insertSDC[0] => "sdc" \in kinds)
      /\ rep_count' = rep_count /\ kinds' = kinds /\ Reps' = Reps
  BY VoterType, SingleReps, SameReps DEF SingleInv, TypeInv, Voter
<1>1. PICK next \in {"vote", "sendRestarter"} :
        /\ pc \in {"collect", "recollect"} /\ CollectReady(1, next)
  BY <1>0 DEF CollectFromReps, RecollectFromReps
<1>2. /\ UNCHANGED <<ext_in, ext_out, sensed, ways, active_pipe_index, ext_in_buffer, fd_ins,
                     status, ctl, insertSDC, unsent, ref>>
      /\ fd_outs'[0] = NoOutput
      /\ \A p \in Outs : buffers'[0][p] = Held(p)
      /\ rep_done' = rep_done + Cardinality(DoneReads)
      /\ pc' = IF rep_done' >= 1 THEN next ELSE pc
  BY <1>0, <1>1 DEF CollectReady, envVars, repVars, histVars, Ready, Held
<1>3. Ready # {}
  BY <1>1 DEF CollectReady
<1>4. /\ active_pipe_index = DATA /\ rep_done = 0
      /\ Given \/ Writing \/ Written \/ Lost
  BY <1>0, <1>1 DEF SinglePhase, Counts
<1>5. /\ fd_outs'[0][MOV_CMD] = <<>> /\ fd_outs'[0][WAY_REQ] = <<>> /\ Answers' = Answers
  BY <1>0, <1>2, NoOutputFacts DEF Answers, Now
<1>6. Counts' /\ Numbered'
  BY <1>0, <1>1, <1>2 DEF Counts, HasReading, Numbered, HasWaypoints
<1>7. Now \in Nat
  BY <1>0, <1>1, <1>4, RoundFacts
<1>8. Readable = IF fd_outs[0][MOV_CMD] # <<>> THEN {0} ELSE {}
  BY <1>0 DEF Readable
<1>9. Cardinality(DoneReads) = Cardinality(Readable)
  BY <1>0, <1>4, DoneReadsCount
<1>10. CASE fd_outs[0][MOV_CMD] = <<>>
  <2>1. rep_done' = 0 /\ pc' = pc
    <3>1. Cardinality(DoneReads) = 0
      BY <1>8, <1>9, <1>10, FS_EmptySet
    <3> QED BY <1>2, <1>4, <3>1
  <2>2. \E p \in Outs : fd_outs[0][p] # <<>>
    BY <1>0, <1>3 DEF Ready
  <2>3. Writing \/ Lost
    <3>1. ~Given
      BY <2>2, NoOutputFacts DEF Given, Quiet
    <3>2. ~Written
      BY <1>0, <1>7, <1>10, AnswersFacts DEF Written
    <3> QED BY <1>4, <3>1, <3>2
  <2>4. Lost => Lost'
    BY <1>2, <1>5 DEF Lost
  <2>5. Held(WAY_REQ)' = Held(WAY_REQ)
    BY <1>2, <1>5 DEF Held, Outs
  <2>6. ASSUME Writing PROVE Writing'
    <3>1. PICK a \in Answers :
            /\ unsent[0][MOV_CMD] = a[MOV_CMD]
            /\ \/ unsent[0][WAY_REQ] = a[WAY_REQ] /\ a[WAY_REQ] # <<>> /\ fd_outs[0][WAY_REQ] = <<>>
               \/ unsent[0][WAY_REQ] = <<>> /\ Held(WAY_REQ) = a[WAY_REQ]
      BY <2>6 DEF Writing
    <3>2. fd_ins[0][DATA] = <<>>
      BY <2>6 DEF Writing
    <3> QED BY <1>2, <1>5, <2>5, <3>1, <3>2 DEF Writing
  <2> QED BY <1>0, <1>1, <1>2, <1>6, <2>1, <2>3, <2>4, <2>6 DEF SingleInv, SinglePhase
<1>11. CASE fd_outs[0][MOV_CMD] # <<>>
  <2>1. pc' = next
    <3>1. Cardinality(DoneReads) = 1
      BY <1>8, <1>9, <1>11, FS_Singleton
    <3> QED BY <1>2, <1>4, <3>1
  <2>2. Written
    BY <1>4, <1>11, NoOutputFacts DEF Given, Quiet, Writing, Lost
  <2>3. PICK a \in Answers : fd_outs[0][MOV_CMD] = a[MOV_CMD] /\ Held(WAY_REQ) = a[WAY_REQ]
    BY <2>2 DEF Written
  <2>4. buffers'[0][MOV_CMD] = a[MOV_CMD] /\ buffers'[0][WAY_REQ] = a[WAY_REQ]
    BY <1>2, <1>11, <2>3 DEF Held, Outs
  <2>5. buffers'[0] = a
    <3>1. buffers'[0] \in [Outs -> Seq(Msg)] /\ a \in [Outs -> Seq(Msg)]
      BY <1>0, <1>7, AnswersFacts DEF TypeInv, TypeOK
    <3> QED BY <2>4, <3>1, OutputsEqual
  <2>6. Answered'
    BY <1>2, <1>5, <2>2, <2>5 DEF Answered, Written, Quiet
  <2> QED BY <1>0, <1>2, <1>6, <2>1, <2>6 DEF SingleInv, SinglePhase
<1> QED BY <1>10, <1>11

\* A vote of one, a timeout and what it leads to: the process is killed,
\* whatever it was doing, and a new one is started.
LEMMA FailKeepsSingle ==
    ASSUME SingleInv, Timeout \/ CheckSDC \/ FindFaultReplica \/ ForkReplica, UNCHANGED configVars
    PROVE  SingleInv'
<1>0. /\ TypeOK /\ TypeInv' /\ Reps = {0} /\ rep_count = 1 /\ Counts /\ Numbered
      /\ SinglePhase /\ (insertSDC[0] => "sdc" \in kinds)
      /\ rep_count' = rep_count /\ kinds' = kinds /\ fault_index = 0
  BY VoterType, SingleReps, SameReps DEF SingleInv, TypeInv, Voter
<1>1. CASE Timeout \/ CheckSDC
  <2>0. SDCFault = NoFault
    BY <1>0 DEF SDCFault
  <2>1. /\ pc \in {"collect", "vote"} /\ (pc = "collect" => pc' = "timeout")
        /\ (pc = "vote" => pc' = "send0")
        /\ UNCHANGED <<ext_in, ext_out, sensed, ways, active_pipe_index, ext_in_buffer, buffers,
                       fd_ins, fd_outs, status, ctl, insertSDC, unsent, ref>>
    BY <1>1, <2>0 DEF Timeout, CheckSDC, envVars, pipeVars, repVars, histVars
  <2>2. Counts' /\ Numbered'
    BY <1>0, <2>1 DEF Counts, HasReading, Numbered, HasWaypoints
  <2>3. pc = "vote" => Answered'
    BY <1>0, <2>1 DEF SinglePhase, Answered, Quiet, Answers, Now
  <2> QED BY <1>0, <2>1, <2>2, <2>3 DEF SingleInv, SinglePhase
<1>2. CASE FindFaultReplica
  <2>1. LowestScore = 0
    BY <1>0, LowestScoreType DEF TypeOK
  <2>2. /\ pc = "timeout" /\ pc' = "fork" /\ KillAndClean(0)
        /\ UNCHANGED <<ext_in, ext_out, sensed, ways, active_pipe_index, ext_in_buffer, buffers, ref>>
    BY <1>0, <1>2, <2>1 DEF FindFaultReplica, envVars, histVars
  <2>3. /\ ctl'[0] = CtlInit /\ fd_ins'[0] = [p \in Ins |-> <<>>] /\ unsent'[0] = NoOutput
        /\ fd_outs'[0] = NoOutput /\ ~insertSDC'[0]
    BY <1>0, <2>2 DEF KillAndClean, TypeOK
  <2>4. Counts'
    BY <1>0, <2>2 DEF Counts, HasReading
  <2>5. Numbered'
    <3>1. fd_ins'[0][WAY_RES] = <<>> /\ ctl'[0].goal = 0 /\ 0 \in Numbers
      BY <2>3, BoundsAssumption DEF Ins, CtlInit, Numbers
    <3> QED BY <1>0, <2>2, <3>1 DEF Numbered, HasWaypoints
  <2> QED BY <1>0, <2>2, <2>3, <2>4, <2>5 DEF SingleInv, SinglePhase, Cleaned, Quiet
<1>3. CASE ForkReplica
  <2>1. /\ pc = "fork" /\ pc' = "resend"
        /\ UNCHANGED <<ext_in, ext_out, sensed, ways, active_pipe_index, ext_in_buffer, buffers,
                       fd_ins, fd_outs, ctl, insertSDC, unsent>>
    BY <1>3 DEF ForkReplica, envVars, pipeVars
  <2>2. Counts' /\ Numbered'
    BY <1>0, <2>1 DEF Counts, HasReading, Numbered, HasWaypoints
  <2>3. Cleaned'
    BY <1>0, <2>1 DEF SinglePhase, Cleaned, Quiet
  <2> QED BY <1>0, <2>1, <2>2, <2>3 DEF SingleInv, SinglePhase
<1> QED BY <1>1, <1>2, <1>3

\* sendData ends the round: the answer has one velocity.
LEMMA SendKeepsSingle ==
    ASSUME SingleInv, SendVoted \/ SendRestarter, UNCHANGED configVars
    PROVE  SingleInv'
<1>0. /\ TypeOK /\ TypeInv' /\ Reps = {0} /\ rep_count = 1 /\ Counts /\ Numbered
      /\ SinglePhase /\ (insertSDC[0] => "sdc" \in kinds)
      /\ rep_count' = rep_count /\ kinds' = kinds /\ Restarter(fault_index) = 0
  BY VoterType, SingleReps, SameReps DEF SingleInv, TypeInv, Voter
<1>1. /\ pc \in {"send0", "sendRestarter"} /\ SendData(0)
  BY <1>0 DEF SendVoted, SendRestarter
<1>2. active_pipe_index = DATA /\ HasReading /\ ~HasWaypoints /\ Now \in Nat /\ Answered
  <2>1. active_pipe_index = DATA /\ HasReading /\ ~HasWaypoints /\ Answered
    BY <1>0, <1>1 DEF Counts, HasReading, HasWaypoints, DATA, WAY_RES, SinglePhase
  <2> QED BY <1>0, <1>1, <2>1, RoundFacts
<1>3. /\ pc' = "recv" /\ buffers'[0] = NoOutput
      /\ ext_out'[MOV_CMD] = ext_out[MOV_CMD] \o buffers[0][MOV_CMD]
      /\ ext_out'[WAY_REQ] = ext_out[WAY_REQ] \o buffers[0][WAY_REQ]
      /\ UNCHANGED <<ext_in, sensed, ways, active_pipe_index, fd_ins, fd_outs, status, ctl,
                     insertSDC, unsent>>
  BY <1>0, <1>1 DEF SendData, Outs, pipeVars, repVars
<1>4. /\ buffers[0][MOV_CMD] \in Seq(Msg) /\ buffers[0][WAY_REQ] \in Seq(Msg)
      /\ Len(buffers[0][MOV_CMD]) = 1
      /\ buffers[0][WAY_REQ] = <<>> \/ Len(buffers[0][WAY_REQ]) = 1
  BY <1>0, <1>2, AnswersFacts DEF Answered
<1>5. /\ Len(ext_out[MOV_CMD]) \in Nat /\ Len(ext_out[WAY_REQ]) \in Nat
      /\ Len(ext_out'[MOV_CMD]) = Len(ext_out[MOV_CMD]) + 1 /\ ext_out'[MOV_CMD] # <<>>
      /\ \/ Len(ext_out'[WAY_REQ]) = Len(ext_out[WAY_REQ])
         \/ Len(ext_out'[WAY_REQ]) = Len(ext_out[WAY_REQ]) + 1
  <2>1. \A a, c \in Seq(Msg) :
          /\ Len(a) \in Nat
          /\ c = <<>> => a \o c = a
          /\ Len(c) = 1 => Len(a \o c) = Len(a) + 1 /\ a \o c # <<>>
    BY ConcatFacts
  <2>2. ext_out[MOV_CMD] \in Seq(Msg) /\ ext_out[WAY_REQ] \in Seq(Msg)
    BY <1>0 DEF TypeOK, Outs
  <2>3. /\ Len(ext_out[MOV_CMD]) \in Nat
        /\ Len(ext_out[MOV_CMD] \o buffers[0][MOV_CMD]) = Len(ext_out[MOV_CMD]) + 1
        /\ ext_out[MOV_CMD] \o buffers[0][MOV_CMD] # <<>>
    BY <1>4, <2>1, <2>2, Zenon
  <2>4. /\ Len(ext_out[WAY_REQ]) \in Nat
        /\ \/ ext_out[WAY_REQ] \o buffers[0][WAY_REQ] = ext_out[WAY_REQ]
           \/ Len(ext_out[WAY_REQ] \o buffers[0][WAY_REQ]) = Len(ext_out[WAY_REQ]) + 1
    BY <1>4, <2>1, <2>2, Zenon
  <2>5. /\ ext_out'[MOV_CMD] = ext_out[MOV_CMD] \o buffers[0][MOV_CMD]
        /\ ext_out'[WAY_REQ] = ext_out[WAY_REQ] \o buffers[0][WAY_REQ]
    BY <1>3
  <2> QED BY <2>3, <2>4, <2>5, Zenon
<1>6. Counts' /\ ways' <= Len(ext_out'[WAY_REQ])
  <2>1. ~HasReading' /\ ext_in'[DATA] = <<>> /\ sensed = Len(ext_out[MOV_CMD]) + 1
    BY <1>0, <1>2, <1>3 DEF Counts, HasReading
  <2>2. /\ Len(ext_out'[WAY_REQ]) <= Len(ext_out'[MOV_CMD]) /\ ways <= Len(ext_out'[WAY_REQ])
    <3>1. /\ Len(ext_out[WAY_REQ]) <= Len(ext_out[MOV_CMD]) /\ ways <= Len(ext_out[WAY_REQ])
          /\ ways \in Nat
      BY <1>0 DEF Counts, Numbered, TypeOK
    <3> QED BY <1>5, <3>1
  <2> QED BY <1>0, <1>3, <1>5, <2>1, <2>2 DEF Counts
<1>7. Numbered'
  BY <1>0, <1>3, <1>6 DEF Numbered, HasWaypoints
<1>8. Between'
  BY <1>2, <1>3, NoOutputFacts DEF Between, Answered, Quiet, NoOldRequest
<1> QED BY <1>0, <1>3, <1>6, <1>7, <1>8 DEF SingleInv, SinglePhase

\* Every step keeps the round.
LEMMA NextKeepsSingle == ASSUME SingleInv, [Next]_vars PROVE SingleInv'
<1>1. CASE UNCHANGED vars
  <2>1. UNCHANGED <<configVars, envVars, voterVars, pipeVars, repVars, histVars>>
    BY <1>1 DEF vars
  <2>2. SinglePhase' /\ rep_count' = 1 /\ (insertSDC'[0] => "sdc" \in kinds')
    BY <2>1, SameSinglePhase DEF envVars
  <2>3. TypeInv'
    BY <1>1, NextType DEF SingleInv
  <2>4. Counts' /\ Numbered'
    BY <2>1 DEF SingleInv, Counts, Numbered, HasReading, HasWaypoints, envVars, voterVars,
                pipeVars, repVars
  <2> QED BY <2>2, <2>3, <2>4 DEF SingleInv
<1>2. CASE Voter
  <2>1. ~RestartReplica
    BY DEF RestartReplica, SingleInv, SinglePhase
  <2> QED BY <1>2, <2>1, TakeKeepsSingle, CollectKeepsSingle, FailKeepsSingle, SendKeepsSingle
          DEF Voter
<1> QED BY <1>1, <1>2, EnvKeepsSingle, ReplicaKeepsSingle, InjectorKeepsSingle DEF Next

\* The voter starts between two rounds.
LEMMA InitSingle == ASSUME Init, TypeInv, rep_count = 1 PROVE SingleInv
<1>0. Reps = {0}
  BY SingleReps DEF TypeInv
<1>1. /\ pc = "recv" /\ sensed = 0 /\ ways = 0
      /\ ext_in[DATA] = <<>> /\ ext_in[WAY_RES] = <<>>
      /\ ext_out[MOV_CMD] = <<>> /\ ext_out[WAY_REQ] = <<>>
  BY DEF Init, Ins, Outs
<1>2. /\ ~insertSDC[0] /\ unsent[0] = NoOutput /\ fd_outs[0] = NoOutput /\ ctl[0] = CtlInit
      /\ fd_ins[0][DATA] = <<>> /\ fd_ins[0][WAY_RES] = <<>>
  BY <1>0 DEF Init, Ins
<1>3. Len(ext_out[MOV_CMD]) = 0 /\ Len(ext_out[WAY_REQ]) = 0 /\ MaxRounds \in Nat
  BY <1>1, BoundsAssumption
<1>4. Counts
  BY <1>1, <1>3 DEF Counts, HasReading
<1>5. Numbered
  <2>1. ctl[0].goal = 0 /\ 0 \in Numbers /\ <<>> \in Seq(Numbers)
    BY <1>2, <1>3 DEF CtlInit, Numbers
  <2> QED BY <1>1, <1>2, <1>3, <2>1 DEF Numbered, HasWaypoints
<1>6. Between
  BY <1>1, <1>2 DEF Between, Quiet, NoOldRequest, CtlInit
<1> QED BY <1>1, <1>2, <1>4, <1>5, <1>6 DEF SingleInv, SinglePhase

-----------------------------------------------------------------------------
(***************************************************************************)
(* What follows for every configuration.                                   *)
(***************************************************************************)

\* One of the two invariants holds, as the number of replicas stays.
VoterInv == (rep_count > 1 /\ RoundInv) \/ (rep_count = 1 /\ SingleInv)

\* It holds at first.
LEMMA VoterInit == Init => VoterInv
  BY InitType, InitRound, InitSingle DEF VoterInv, TypeInv, TypeOK

\* Every step keeps it.
LEMMA VoterNext == VoterInv /\ [Next]_vars => VoterInv'
<1> SUFFICES ASSUME VoterInv, [Next]_vars PROVE VoterInv'
  OBVIOUS
<1>1. RoundInv => RoundInv' /\ rep_count' > 1
  BY NextKeeps DEF RoundInv
<1>2. SingleInv => SingleInv' /\ rep_count' = 1
  BY NextKeepsSingle DEF SingleInv
<1> QED BY <1>1, <1>2 DEF VoterInv

\* No step changes the configuration.
LEMMA ConfigStays == [Next]_vars => rep_count' = rep_count /\ kinds' = kinds
<1>1. Next => UNCHANGED configVars
  BY DEF Next, Env, SendReading, SendWaypoints, Voter, Replica, Injector
<1> QED BY <1>1 DEF vars, configVars

\* In every configuration and whatever strikes, no answer is left over in a
\* pipe, a buffer or a replica when the voter turns to the next input.
THEOREM NothingLeftOver == Spec => []NoLeftovers
<1>1. RoundInv => NoLeftovers
  <2> SUFFICES ASSUME RoundInv, pc = "recv", ext_out[MOV_CMD] # <<>>, NEW r \in Reps
               PROVE  buffers[r] = NoOutput /\ Quiet(r)
    BY DEF NoLeftovers, Quiet
  <2>1. Rests(r) /\ buffers[r] \in [Outs -> Seq(Msg)]
    BY DEF RoundInv, Phase, TypeInv, TypeOK
  <2>2. buffers[r][WAY_REQ] = <<>> /\ buffers[r][MOV_CMD] = <<>>
    BY <2>1 DEF Rests, Fresh, Outs
  <2>3. buffers[r] = NoOutput
    BY <2>1, <2>2, NothingOut
  <2> QED BY <2>1, <2>3 DEF Rests
<1>2. SingleInv => NoLeftovers
  <2>1. SingleInv => Reps = {0}
    BY SingleReps DEF SingleInv, TypeInv
  <2> QED BY <2>1 DEF SingleInv, SinglePhase, Between, Quiet, NoLeftovers
<1> QED BY <1>1, <1>2, VoterInit, VoterNext, PTL DEF Spec, VoterInv

\* One replica has nothing to compare its answers with, so that the promises
\* about corruption are made of SMR only where none is injected.
SMRNotCorrupted == \A i \in Instances : i.rep_count = 1 => "sdc" \notin i.kinds

\* The configuration stays, and with it what strikes.
NoSDCUnseen == rep_count = 1 => "sdc" \notin kinds

\* The instances say so of every start,
LEMMA UnseenInit == ASSUME SMRNotCorrupted PROVE Init => NoSDCUnseen
<1>1. Init => \E i \in Instances : rep_count = i.rep_count /\ kinds = i.kinds
  BY DEF Init
<1> QED BY <1>1, Zenon DEF NoSDCUnseen, SMRNotCorrupted

\* and no step changes it.
LEMMA UnseenNext == NoSDCUnseen /\ [Next]_vars => NoSDCUnseen'
  BY ConfigStays DEF NoSDCUnseen

\* Where the vote ends without a fault, in every configuration that has more
\* than one replica or no corruption, no answer is corrupted.
THEOREM CorruptionIsNoticed == ASSUME SMRNotCorrupted PROVE Spec => []SDCDetected
<1>1. VoterInv /\ NoSDCUnseen => SDCDetected
  <2> SUFFICES ASSUME VoterInv, NoSDCUnseen, pc = "send0", NEW r \in Reps
               PROVE  Len(buffers[r][MOV_CMD]) = 1 /\ ~buffers[r][MOV_CMD][1].bad
    BY DEF SDCDetected
  <2>1. TypeOK /\ Counts /\ active_pipe_index = DATA
    BY DEF VoterInv, RoundInv, SingleInv, TypeInv, Counts
  <2>2. CASE RoundInv
    <3>1. buffers[r] = Ans(FALSE)
      BY <2>2 DEF RoundInv, Phase, Agreed
    <3>2. Len(Ans(FALSE)[MOV_CMD]) = 1 /\ Ans(FALSE)[MOV_CMD][1].bad = FALSE
      BY <2>1, RoundFacts
    <3> QED BY <3>1, <3>2, Zenon
  <2>3. CASE SingleInv
    <3>1. r = 0 /\ buffers[0] \in Answers /\ "sdc" \notin kinds
      BY <2>1, <2>3, SingleReps DEF SingleInv, SinglePhase, Answered, NoSDCUnseen
    <3> QED BY <2>1, <3>1, RoundFacts, AnswersFacts
  <2> QED BY <2>2, <2>3 DEF VoterInv
<1> QED BY <1>1, VoterInit, VoterNext, UnseenInit, UnseenNext, PTL DEF Spec

-----------------------------------------------------------------------------
(***************************************************************************)
(* The voter and its replicas are one ArtPot: every step is a step of the  *)
(* component or leaves its inputs, its output and its state alone.         *)
(***************************************************************************)

\* The component's operators are those of the replicas.
LEMMA SameController ==
    /\ Fault_Free!DATA = DATA /\ Fault_Free!WAY_RES = WAY_RES
    /\ Fault_Free!Ins = Ins /\ Fault_Free!Outs = Outs /\ Fault_Free!CtlInit = CtlInit
    /\ \A c, n : /\ Fault_Free!RecvWay(c, n) = RecvWay(c, n)
                 /\ Fault_Free!AfterCommand(c, n) = AfterCommand(c, n)
    /\ \A c, n, b : Fault_Free!Answer(c, n, b) = Answer(c, n, b)
  BY DEF Fault_Free!DATA, Fault_Free!WAY_RES, Fault_Free!Ins, Fault_Free!Outs, Fault_Free!CtlInit,
         Fault_Free!RecvWay, Fault_Free!AfterCommand, Fault_Free!Answer, Fault_Free!WAY_REQ,
         Fault_Free!MOV_CMD, DATA, WAY_RES, WAY_REQ, MOV_CMD, Ins, Outs, CtlInit, RecvWay,
         AfterCommand, Answer

\* What is outstanding is what the voter has, if it has any, and what waits.
LEMMA OutstandingFacts ==
    ASSUME TypeOK
    PROVE  /\ Outstanding \in [Ins -> Seq(Nat)]
           /\ Outstanding[DATA] = IF HasReading THEN ext_in_buffer \o ext_in[DATA]
                                                ELSE ext_in[DATA]
           /\ Outstanding[WAY_RES] = IF HasWaypoints THEN ext_in_buffer \o ext_in[WAY_RES]
                                                     ELSE ext_in[WAY_RES]
<1>1. \A p \in Ins : ext_in[p] \in Seq(Nat) /\ ext_in_buffer \o ext_in[p] \in Seq(Nat)
  BY ConcatType DEF TypeOK
<1> QED BY <1>1 DEF Outstanding, HasReading, HasWaypoints, Ins

\* Inputs are equal when they are on both pipes.
LEMMA InputsEqual ==
    ASSUME NEW f \in [Ins -> Seq(Nat)], NEW g \in [Ins -> Seq(Nat)],
           f[DATA] = g[DATA], f[WAY_RES] = g[WAY_RES]
    PROVE  f = g
  BY DEF Ins

\* At first nothing is outstanding.
LEMMA StartsFaultFree == Init => Fault_Free!CInit
<1> SUFFICES ASSUME Init PROVE Fault_Free!CInit
  OBVIOUS
<1>1. ext_in = [p \in Ins |-> <<>>] /\ ext_out = [p \in Outs |-> <<>>] /\ ref = CtlInit /\ pc = "recv"
  BY DEF Init
<1>2. Outstanding = [p \in Ins |-> <<>>]
  BY <1>1 DEF Outstanding
<1>3. Promise \in {"masks", "corrupts", "restarts"}
  BY DEF Promise
<1> QED BY <1>1, <1>2, <1>3, SameController DEF Fault_Free!CInit

\* The promise stays.
LEMMA PromiseStays == [Next]_vars => Promise' = Promise
  BY ConfigStays DEF Promise

\* An input that arrives behind what the voter has.
LEMMA ArriveBehind ==
    ASSUME NEW a \in Seq(Nat), NEW s \in Seq(Nat), NEW v \in Nat
    PROVE  a \o Append(s, v) = Append(a \o s, v)
<1>1. Append(s, v) = s \o <<v>> /\ <<v>> \in Seq(Nat) /\ a \o s \in Seq(Nat)
  BY AppendIsConcat, ConcatType
<1>2. Append(a \o s, v) = (a \o s) \o <<v>>
  BY <1>1, AppendIsConcat
<1> QED BY <1>1, <1>2, ConcatAssociative

\* A reading or waypoints arrive.
LEMMA EnvArrives ==
    ASSUME VoterInv, VoterInv', Env PROVE Fault_Free!Arrive
<1>0. /\ TypeOK /\ TypeOK' /\ Counts
      /\ UNCHANGED <<ext_out, ref, pc, active_pipe_index, ext_in_buffer>>
  BY DEF VoterInv, RoundInv, SingleInv, TypeInv, Env, SendReading, SendWaypoints, voterVars, histVars
<1>1. PICK p \in Ins, v \in Nat :
        v \in 0 .. MaxRounds /\ ext_in' = [ext_in EXCEPT ![p] = Append(@, v)]
  <2>1. /\ MaxRounds \in Nat /\ sensed \in Nat /\ ways \in Nat
        /\ Len(ext_out[WAY_REQ]) \in Nat /\ Len(ext_out[WAY_REQ]) <= MaxRounds
    BY <1>0, RequestsBounded, LengthTypes
  <2>2. CASE SendReading
    <3>1. /\ DATA \in Ins /\ sensed + 1 \in Nat /\ sensed + 1 \in 0 .. MaxRounds
          /\ ext_in' = [ext_in EXCEPT ![DATA] = Append(@, sensed + 1)]
      BY <2>1, <2>2 DEF SendReading, Ins
    <3> QED BY <3>1, Zenon
  <2>3. CASE SendWaypoints
    <3>1. /\ WAY_RES \in Ins /\ ways + 1 \in Nat /\ ways + 1 \in 0 .. MaxRounds
          /\ ext_in' = [ext_in EXCEPT ![WAY_RES] = Append(@, ways + 1)]
      BY <2>1, <2>3 DEF SendWaypoints, Ins
    <3> QED BY <3>1, Zenon
  <2> QED BY <2>2, <2>3 DEF Env
<1>2. ext_in'[p] = Append(ext_in[p], v) /\ \A q \in Ins \ {p} : ext_in'[q] = ext_in[q]
  BY <1>0, <1>1 DEF TypeOK
<1>3. ext_in_buffer \o ext_in'[p] = Append(ext_in_buffer \o ext_in[p], v)
  <2>1. ext_in_buffer \in Seq(Nat) /\ ext_in[p] \in Seq(Nat)
    BY <1>0 DEF TypeOK
  <2>2. ext_in_buffer \o Append(ext_in[p], v) = Append(ext_in_buffer \o ext_in[p], v)
    BY <2>1, ArriveBehind
  <2> QED BY <1>2, <2>2, Zenon
<1>4. Outstanding' = [Outstanding EXCEPT ![p] = Append(@, v)]
  <2>1. Outstanding'[p] = Append(Outstanding[p], v)
    BY <1>0, <1>2, <1>3 DEF Outstanding
  <2>2. \A q \in Ins \ {p} : Outstanding'[q] = Outstanding[q]
    BY <1>0, <1>2 DEF Outstanding
  <2>3. /\ Outstanding = [q \in Ins |-> Outstanding[q]]
        /\ Outstanding' = [q \in Ins |-> Outstanding'[q]]
    BY DEF Outstanding
  <2> QED BY <2>1, <2>2, <2>3
<1> QED BY <1>0, <1>1, <1>4, SameController DEF Fault_Free!Arrive

\* recvData only moves what is outstanding into the voter's buffer.
LEMMA RecvDataTakesNothing ==
    ASSUME TypeOK, TypeOK', RecvData PROVE UNCHANGED <<Outstanding, ext_out, ref>>
<1>1. pc = "recv" /\ pc' = "send" /\ UNCHANGED <<ext_out, ref>>
  BY DEF RecvData, histVars
<1>2. PICK p \in Ins : active_pipe_index' = p /\ ext_in_buffer' = ext_in[p]
                       /\ ext_in' = [ext_in EXCEPT ![p] = <<>>]
  BY DEF RecvData
<1>3. /\ ext_in'[p] = <<>> /\ ext_in[p] \in Seq(Nat)
      /\ \A q \in Ins \ {p} : ext_in'[q] = ext_in[q]
  BY <1>2 DEF TypeOK
<1>4. ext_in[p] \o <<>> = ext_in[p]
  BY <1>3, ConcatEmptySeq
<1>5. Outstanding' = Outstanding
  BY <1>1, <1>2, <1>3, <1>4 DEF Outstanding
<1> QED BY <1>1, <1>5

\* Neither does any step that leaves the voter with its input.
LEMMA InputIsKept ==
    ASSUME pc # "recv", pc' # "recv", UNCHANGED <<ext_in, active_pipe_index, ext_in_buffer>>
    PROVE  Outstanding' = Outstanding
  BY DEF Outstanding

\* The vote, the timeout and the restart of a copy are the voter's own.
LEMMA InternalSteps ==
    ASSUME CollectFromReps \/ Timeout \/ CheckSDC \/ FindFaultReplica \/ RestartReplica
             \/ ResendToReps \/ RecollectFromReps \/ (SendToReps /\ WaitOnInput)
    PROVE  UNCHANGED <<Outstanding, ext_out, ref>>
<1>1. /\ pc # "recv" /\ pc' # "recv"
      /\ UNCHANGED <<ext_in, active_pipe_index, ext_in_buffer, ext_out, ref>>
  <2>1. CASE CollectFromReps \/ RecollectFromReps
    BY <2>1 DEF CollectFromReps, RecollectFromReps, CollectReady, envVars, histVars
  <2>2. CASE Timeout \/ CheckSDC \/ FindFaultReplica
    BY <2>2 DEF Timeout, CheckSDC, FindFaultReplica, envVars, histVars
  <2>3. CASE RestartReplica \/ ResendToReps \/ (SendToReps /\ WaitOnInput)
    BY <2>3 DEF RestartReplica, ResendToReps, SendToReps, envVars, histVars
  <2> QED BY <2>1, <2>2, <2>3
<1> QED BY <1>1, InputIsKept

\* So are the steps of the replicas and the faults.
LEMMA OthersAreUnseen ==
    ASSUME (\E r \in Reps : Replica(r)) \/ Injector PROVE UNCHANGED <<Outstanding, ext_out, ref>>
<1>1. UNCHANGED <<envVars, voterVars, ref>>
  <2>1. ASSUME NEW r \in Reps, Replica(r) PROVE UNCHANGED <<envVars, voterVars, ref>>
    BY <2>1 DEF Replica, Select, ReadWaypoints, ReadReading, WriteAnswer, histVars
  <2>2. ASSUME Injector PROVE UNCHANGED <<envVars, voterVars, ref>>
    BY <2>2 DEF Injector, KillReplica, TestSDCHandler, TestCFEHandler, Fault
  <2> QED BY <2>1, <2>2
<1> QED BY <1>1 DEF envVars, voterVars, Outstanding

\* What is left of two sequences in a row without the first.
LEMMA DropFirst ==
    ASSUME NEW a \in Seq(Nat), NEW s \in Seq(Nat), a # <<>>
    PROVE  /\ a \o s # <<>> /\ Len(a) \in 1 .. Len(a \o s)
           /\ (a \o s)[Len(a)] = a[Len(a)]
           /\ SubSeq(a \o s, Len(a) + 1, Len(a \o s)) = s
<1>1. /\ Len(a) \in Nat /\ Len(a) > 0 /\ Len(s) \in Nat /\ Len(a \o s) = Len(a) + Len(s)
      /\ a \o s \in Seq(Nat)
  BY ConcatProperties, LenProperties, EmptySeq
<1>2. /\ Len(a) \in 1 .. Len(a \o s) /\ Len(a \o s) # 0
  BY <1>1
<1>3. a \o s # <<>>
  BY <1>2
<1>4. (a \o s)[Len(a)] = a[Len(a)]
  BY <1>1, ConcatProperties
<1>5. CASE s = <<>>
  <2>1. Len(s) = 0 /\ Len(a \o s) = Len(a)
    BY <1>1, <1>5
  <2>2. SubSeq(a \o s, Len(a) + 1, Len(a \o s)) = <<>>
    BY <1>1, <2>1, SubSeqEmpty
  <2> QED BY <1>2, <1>3, <1>4, <1>5, <2>2
<1>6. CASE s # <<>>
  <2>1. Len(s) > 0
    BY <1>1, <1>6, EmptySeq
  <2>2. /\ Len(a) + 1 \in Len(a) + 1 .. Len(a) + Len(s)
        /\ Len(a \o s) \in Len(a) + 1 .. Len(a) + Len(s)
        /\ (Len(a) + 1) - Len(a) = 1 /\ Len(a \o s) - Len(a) = Len(s)
    BY <1>1, <2>1
  <2>3. SubSeq(a \o s, Len(a) + 1, Len(a \o s)) = SubSeq(s, (Len(a) + 1) - Len(a), Len(a \o s) - Len(a))
    BY <2>2, SubSeqOfConcat2
  <2>4. SubSeq(s, 1, Len(s)) = s
    BY SubSeqFull
  <2> QED BY <1>2, <1>3, <1>4, <2>2, <2>3, <2>4, Zenon
<1> QED BY <1>5, <1>6

\* An untimed input that has been written to the replicas is taken.
LEMMA WaypointsAreTaken ==
    ASSUME TypeInv, SendToReps, ~WaitOnInput PROVE Fault_Free!TakeWaypoints
<1>0. TypeOK /\ ReadSomething
  BY DEF TypeInv
<1>1. /\ pc = "send" /\ pc' = "recv" /\ active_pipe_index = WAY_RES
      /\ ref' = RecvWay(ref, ext_in_buffer[Len(ext_in_buffer)])
      /\ UNCHANGED <<ext_in, ext_out>>
  BY <1>0 DEF SendToReps, WaitOnInput, timer_start_index, Ins, TypeOK, envVars
<1>2. /\ ext_in_buffer # <<>> /\ ext_in_buffer \in Seq(Nat) /\ ext_in[WAY_RES] \in Seq(Nat)
  BY <1>0, <1>1 DEF ReadSomething, TypeOK, Ins
<1>3. Outstanding[WAY_RES] = ext_in_buffer \o ext_in[WAY_RES]
  BY <1>1 DEF Outstanding, Ins
<1>4. Outstanding' = [Outstanding EXCEPT ![WAY_RES] = ext_in[WAY_RES]]
  BY <1>1 DEF Outstanding, Ins
<1> DEFINE k == Len(ext_in_buffer)
<1>5. /\ Outstanding[WAY_RES] # <<>> /\ k \in 1 .. Len(Outstanding[WAY_RES])
      /\ Outstanding[WAY_RES][k] = ext_in_buffer[k]
      /\ SubSeq(Outstanding[WAY_RES], k + 1, Len(Outstanding[WAY_RES])) = ext_in[WAY_RES]
  BY <1>2, <1>3, DropFirst
<1>6. /\ ref' = RecvWay(ref, Outstanding[WAY_RES][k])
      /\ Outstanding' = [Outstanding EXCEPT ![WAY_RES] = SubSeq(@, k + 1, Len(@))]
  BY <1>1, <1>4, <1>5
<1> HIDE DEF k
<1> QED BY <1>1, <1>5, <1>6, SameController DEF Fault_Free!TakeWaypoints

\* One lost process is replaced by a new one.
LEMMA ForkStartsAgain ==
    ASSUME VoterInv, ForkReplica PROVE Fault_Free!StartAgain
<1>1. /\ pc = "fork" /\ pc' = "resend" /\ ref' = CtlInit
      /\ UNCHANGED <<ext_in, ext_out, active_pipe_index, ext_in_buffer>>
  BY DEF ForkReplica, envVars
<1>2. rep_count = 1
  BY <1>1 DEF VoterInv, RoundInv, Phase
<1>3. Outstanding' = Outstanding
  BY <1>1, InputIsKept
<1> QED BY <1>1, <1>2, <1>3, SameController DEF Fault_Free!StartAgain, Promise

\* sendData answers the reading, from a state and with a corruption that the
\* promise allows.
LEMMA SendAnswers ==
    ASSUME TypeOK, Counts, pc \notin {"recv", "send"}, NEW s \in Reps, SendData(s),
           NEW c \in Fault_Free!Current, NEW b \in BOOLEAN, b => Promise = "corrupts",
           buffers[s] = Answer(c, Now, b)
    PROVE  Fault_Free!AnswerReading
<1>1. active_pipe_index = DATA /\ HasReading /\ ext_in[DATA] = <<>>
  BY DEF Counts, HasReading
<1>2. Now \in Nat /\ ext_in_buffer = <<Now>>
  BY <1>1, RoundFacts
<1>3. /\ pc' = "recv" /\ UNCHANGED ext_in /\ ref' = AfterCommand(ref, Now)
      /\ ext_out' = [p \in Outs |-> ext_out[p] \o buffers[s][p]]
  BY DEF SendData, Now
<1>4. Outstanding[DATA] = <<Now>>
  <2>1. Outstanding[DATA] = <<Now>> \o <<>>
    BY <1>1, <1>2 DEF Outstanding, HasReading, Ins
  <2>2. <<Now>> \o <<>> = <<Now>>
    BY <1>2, ConcatEmptySeq
  <2> QED BY <2>1, <2>2, Zenon
<1>5. Outstanding[DATA] # <<>> /\ Head(Outstanding[DATA]) = Now /\ Tail(Outstanding[DATA]) = <<>>
  BY <1>2, <1>4
<1>6. Outstanding' = [Outstanding EXCEPT ![DATA] = <<>>]
  BY <1>1, <1>3 DEF Outstanding, Ins
<1>7. Outstanding' = [Outstanding EXCEPT ![DATA] = Tail(@)]
  BY <1>5, <1>6
<1>8. ext_out' = [p \in Outs |-> ext_out[p] \o Answer(c, Now, b)[p]]
  BY <1>3
<1> QED BY <1>3, <1>5, <1>7, <1>8, SameController, Zenon DEF Fault_Free!AnswerReading

\* Both ways a round ends answer the reading: two or three replicas from the
\* state a fault-free controller has, one from a state that it may have.
LEMMA RoundAnswers ==
    ASSUME VoterInv, NoSDCUnseen, SendVoted \/ SendRestarter PROVE Fault_Free!AnswerReading
<1>0. TypeOK /\ Counts
  BY DEF VoterInv, RoundInv, SingleInv, TypeInv
<1>1. PICK s \in Reps : /\ pc \in {"send0", "sendRestarter"} /\ SendData(s)
                        /\ (pc = "send0" => s = 0)
                        /\ (pc = "sendRestarter" => s = Restarter(fault_index))
  BY <1>0, RepsFacts DEF SendVoted, SendRestarter, TypeOK
<1>2. CASE rep_count > 1 /\ RoundInv
  <2>1. PICK b \in BOOLEAN : buffers[s] = Ans(b) /\ (b => Promise = "corrupts")
    <3>1. CASE pc = "send0"
      <4>1. buffers[s] = Ans(FALSE) /\ FALSE \in BOOLEAN
        BY <1>1, <1>2, <3>1 DEF RoundInv, Phase, Agreed
      <4> QED BY <4>1, Zenon
    <3>2. CASE pc = "sendRestarter"
      BY <1>1, <1>2, <3>2 DEF RoundInv, Phase, RestarterAnswer
    <3> QED BY <1>1, <3>1, <3>2
  <2>2. ref \in Fault_Free!Current
    BY <1>0, <1>2 DEF Fault_Free!Current, Promise, TypeOK
  <2>3. buffers[s] = Answer(ref, Now, b)
    BY <2>1 DEF Ans
  <2> QED BY <1>0, <1>1, <2>1, <2>2, <2>3, SendAnswers
<1>3. CASE rep_count = 1 /\ SingleInv
  <2>1. buffers[0] \in Answers /\ s = 0 /\ "sdc" \notin kinds
    BY <1>0, <1>1, <1>3, SingleReps DEF SingleInv, SinglePhase, Answered, NoSDCUnseen
  <2>2. PICK c \in [goal : Numbers, way_pending : BOOLEAN, seq_count : {ref.seq_count}],
             b \in BOOLEAN : buffers[s] = Answer(c, Now, b) /\ ~b
    BY <2>1 DEF Answers
  <2>3. c \in Fault_Free!Current
    BY <1>3, <2>2 DEF Fault_Free!Current, Promise, Numbers
  <2> QED BY <1>0, <1>1, <2>2, <2>3, SendAnswers
<1> QED BY <1>2, <1>3 DEF VoterInv

\* Whatever strikes, and when, and for any number of readings and faults, the
\* voter and its replicas are to the rest of the system one ArtPot that keeps
\* the promise of its configuration.
THEOREM ReplicationMasks == ASSUME SMRNotCorrupted PROVE Spec => Masking
<1>1. VoterInv /\ VoterInv' /\ NoSDCUnseen /\ [Next]_vars =>
        [Fault_Free!CNext]_(Fault_Free!cvars)
  <2> SUFFICES ASSUME VoterInv, VoterInv', NoSDCUnseen, [Next]_vars
               PROVE  Fault_Free!CNext \/ UNCHANGED <<Outstanding, ext_out, ref, Promise>>
    BY DEF Fault_Free!cvars
  <2>0. TypeInv /\ TypeOK /\ TypeOK' /\ Promise' = Promise
    BY PromiseStays DEF VoterInv, RoundInv, SingleInv, TypeInv
  <2>1. CASE UNCHANGED vars
    <3>1. UNCHANGED <<ext_in, ext_out, pc, active_pipe_index, ext_in_buffer, ref>>
      BY <2>1 DEF vars, envVars, voterVars, histVars
    <3> QED BY <2>0, <3>1 DEF Outstanding
  <2>2. CASE Env
    BY <2>0, <2>2, EnvArrives DEF Fault_Free!CNext
  <2>3. CASE (\E r \in Reps : Replica(r)) \/ Injector
    BY <2>0, <2>3, OthersAreUnseen
  <2>4. CASE RecvData
    BY <2>0, <2>4, RecvDataTakesNothing
  <2>5. CASE SendToReps
    BY <2>0, <2>5, InternalSteps, WaypointsAreTaken DEF Fault_Free!CNext
  <2>6. CASE ForkReplica
    BY <2>0, <2>6, ForkStartsAgain DEF Fault_Free!CNext
  <2>7. CASE SendVoted \/ SendRestarter
    BY <2>0, <2>7, RoundAnswers DEF Fault_Free!CNext
  <2>8. CASE CollectFromReps \/ Timeout \/ CheckSDC \/ FindFaultReplica \/ RestartReplica
               \/ ResendToReps \/ RecollectFromReps
    BY <2>0, <2>8, InternalSteps
  <2> QED BY <2>1, <2>2, <2>3, <2>4, <2>5, <2>6, <2>7, <2>8 DEF Next, Voter
<1> QED BY <1>1, StartsFaultFree, VoterInit, VoterNext, UnseenInit, UnseenNext, PTL
        DEF Spec, Masking, Fault_Free!CSpec
=============================================================================
