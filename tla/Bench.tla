------------------------------- MODULE Bench --------------------------------
(***************************************************************************)
(* The loop around the controllers: the translator, a Player driver that   *)
(* turns the robot's readings into messages and velocities into commands   *)
(* (player_translator_driver/translator_driver.cc), the benchmarker that   *)
(* lets one reading at a time through (controllers/benchmarker.c), and the *)
(* simplest system to put between them, Empty (controllers/empty.c).  The  *)
(* messages they print when numbers do not match are left out.             *)
(***************************************************************************)
EXTENDS Integers, Sequences, FiniteSets, SequencesExt

CONSTANTS
    MaxSeq,      \* bound: the simulator stops at this sequence number
    Poses,       \* where the robot may be
    QueueMax,    \* bound on Player's queue of messages to the translator
    PipeMax,     \* messages a pipe takes before write() blocks
    PreReads,    \* readings main() throws away: 50
    FaultKinds   \* subset of {"sdc", "cfe"}, Empty's simulated faults

ASSUME BenchAssumption ==
    /\ MaxSeq \in Nat /\ QueueMax \in Nat \ {0}
    /\ PipeMax \in Nat \ {0} /\ PreReads \in Nat
    /\ FaultKinds \subseteq {"sdc", "cfe"}

VARIABLES
    InQueue,     \* Player's messages to the translator
    place,       \* where the robot was when Player last said so
    robot,       \* velocity the robot was last told
    trans,       \* translator: [pc, batch, seq_count, pose]
    toBench,     \* vot_pipes[0] of the translator
    toTrans,     \* trans_pipes[1] of the benchmarker
    bench,       \* benchmarker: [pc, left, ready, seq_count, waiting_response]
    toEmpty, fromEmpty,
    empty        \* Empty: [seq_count, insertSDC, insertCFE]

tvars == <<InQueue, place, robot, trans>>
bvars == <<bench, toEmpty>>
vars == <<InQueue, place, robot, trans, toBench, toTrans, bench, toEmpty, fromEmpty,
          empty>>

Velocities == {"none", "stop", "ahead", "turn"}
Reading(n, p, at) == [seq_count |-> n, pose |-> p, at |-> at]
MovCmd(n, v)      == [seq_count |-> n, vel_cmd |-> v]

Init ==
    /\ InQueue = <<>>
    /\ \E p \in Poses :
         /\ place = p
         /\ trans = [pc |-> "update", batch |-> 0, seq_count |-> 0, pose |-> p]
    /\ robot = "none"
    /\ toBench = <<>> /\ toTrans = <<>> /\ toEmpty = <<>> /\ fromEmpty = <<>>
    /\ bench = [pc |-> IF PreReads = 0 THEN "select" ELSE "preread", left |-> PreReads,
                ready |-> {}, seq_count |-> -1, waiting_response |-> FALSE]
    /\ empty = [seq_count |-> 0, insertSDC |-> FALSE, insertCFE |-> FALSE]

-----------------------------------------------------------------------------
(***************************************************************************)
(* Player and the simulator.  A ranger message has the place of the robot  *)
(* with it, for the properties only.                                       *)
(***************************************************************************)
Player ==
    /\ Len(InQueue) < QueueMax
    /\ trans.seq_count < MaxSeq
    /\ \/ \E p \in Poses \ {place} :
            /\ place' = p
            /\ InQueue' = Append(InQueue, [type |-> "odom", at |-> p])
       \/ /\ InQueue' = Append(InQueue, [type |-> "range", at |-> place])
          /\ UNCHANGED place
       \/ /\ InQueue' = Append(InQueue, [type |-> "other", at |-> place])
          /\ UNCHANGED place
    /\ UNCHANGED <<robot, trans, toBench, toTrans, bench, toEmpty, fromEmpty, empty>>

-----------------------------------------------------------------------------
(***************************************************************************)
(* The translator's thread: DoOneUpdate over and over.                     *)
(***************************************************************************)
\* The check of the queue, and the length ProcessMessages sees.
DoOneUpdate ==
    /\ trans.pc = "update"
    /\ trans' = [trans EXCEPT !.pc = IF InQueue = <<>> THEN "select" ELSE "process",
                              !.batch = Len(InQueue)]
    /\ UNCHANGED <<InQueue, place, robot, toBench, toTrans, bvars, fromEmpty, empty>>

\* The number a reading is sent with.
Numbered == trans.seq_count

\* Mutant of ProcessRanger: the pose is the one of the next odometry message.
ProcessRangerLate(at) ==
    LET later == SelectSeq(Tail(InQueue), LAMBDA x : x.type = "odom")
        p     == IF later = <<>> THEN trans.pose ELSE later[1].at
    IN  /\ Len(toBench) < PipeMax
        /\ toBench' = Append(toBench, Reading(Numbered, p, at))

\* write() blocks while the pipe is full.
ProcessRanger(at) ==
    /\ Len(toBench) < PipeMax
    /\ toBench' = Append(toBench, Reading(Numbered, trans.pose, at))

ProcessOdom(p) == [trans EXCEPT !.pose = p]

\* The messages other than odometry and ranges are intensities, which are
\* ignored, and goals: ProcessCommand stores them where nothing reads them.
ProcessMessage ==
    /\ trans.pc = "process"
    /\ LET x    == Head(InQueue)
           done == [pc |-> IF trans.batch = 1 THEN "select" ELSE "process",
                    batch |-> trans.batch - 1]
           next(t) == [t EXCEPT !.pc = done.pc, !.batch = done.batch]
       IN \/ /\ x.type = "odom"
             /\ trans' = next(ProcessOdom(x.at))
             /\ UNCHANGED toBench
          \/ /\ x.type = "range"
             /\ ProcessRanger(x.at)
             /\ trans' = next(trans)
          \/ /\ x.type = "other"
             /\ trans' = next(trans)
             /\ UNCHANGED toBench
    /\ InQueue' = Tail(InQueue)
    /\ UNCHANGED <<place, robot, toTrans, bvars, fromEmpty, empty>>

NextSeq(n) == n + 1

\* select() returns at once when a command is there, and else times out.
RecvMovCmd ==
    /\ trans.pc = "select"
    /\ IF toTrans = <<>>
       THEN /\ trans' = [trans EXCEPT !.pc = "update"]
            /\ UNCHANGED <<robot, toTrans>>
       ELSE LET c == Head(toTrans) IN
            /\ trans' = [trans EXCEPT !.pc = "update", !.seq_count = NextSeq(c.seq_count)]
            /\ robot' = c.vel_cmd      \* PutCommand
            /\ toTrans' = Tail(toTrans)
    /\ UNCHANGED <<InQueue, place, toBench, bvars, fromEmpty, empty>>

\* Player stops the driver's thread between two updates.
MainShutdown ==
    /\ trans.pc = "update"
    /\ trans' = [trans EXCEPT !.pc = "down"]
    /\ robot' = "stop"
    /\ UNCHANGED <<InQueue, place, toBench, toTrans, bvars, fromEmpty, empty>>

Translator == DoOneUpdate \/ ProcessMessage \/ RecvMovCmd

-----------------------------------------------------------------------------
(***************************************************************************)
(* The benchmarker.                                                        *)
(***************************************************************************)
PreRead ==
    /\ bench.pc = "preread"
    /\ toBench # <<>>
    /\ toBench' = Tail(toBench)
    /\ bench' = [bench EXCEPT !.left = @ - 1,
                              !.pc = IF bench.left = 1 THEN "select" ELSE "preread"]
    /\ UNCHANGED <<tvars, toTrans, toEmpty, fromEmpty, empty>>

BenchSelect ==
    /\ bench.pc = "select"
    /\ LET ready == {f \in {"data", "cmd"} :
                       IF f = "data" THEN toBench # <<>> ELSE fromEmpty # <<>>}
       IN /\ ready # {}
          /\ bench' = [bench EXCEPT !.ready = ready,
                                    !.pc = IF "data" \in ready THEN "data" ELSE "cmd"]
    /\ UNCHANGED <<tvars, toBench, toTrans, toEmpty, fromEmpty, empty>>

\* Mutant of PassOn: what is dropped is passed on.
PassOnAlways(x) == toEmpty' = Append(toEmpty, x)

\* A reading is dropped while an answer is due.
PassOn(x) ==
    IF bench.waiting_response THEN UNCHANGED toEmpty
    ELSE Len(toEmpty) < PipeMax /\ toEmpty' = Append(toEmpty, x)

BenchData ==
    /\ bench.pc = "data"
    /\ LET x == Head(toBench) IN
         /\ PassOn(x)
         /\ bench' = [bench EXCEPT !.seq_count = x.seq_count, !.waiting_response = TRUE,
                                   !.pc = IF "cmd" \in bench.ready THEN "cmd" ELSE "select",
                                   !.ready = {}]
    /\ toBench' = Tail(toBench)
    /\ UNCHANGED <<tvars, toTrans, fromEmpty, empty>>

\* Mutant of AfterAnswer: the flag stays set.
AfterAnswerStuck == [bench EXCEPT !.pc = "select", !.ready = {}]

AfterAnswer == [bench EXCEPT !.pc = "select", !.ready = {}, !.waiting_response = FALSE]

BenchCmd ==
    /\ bench.pc = "cmd"
    /\ Len(toTrans) < PipeMax
    /\ toTrans' = Append(toTrans, Head(fromEmpty))
    /\ fromEmpty' = Tail(fromEmpty)
    /\ bench' = AfterAnswer
    /\ UNCHANGED <<tvars, toBench, toEmpty, empty>>

Benchmarker == PreRead \/ BenchSelect \/ BenchData \/ BenchCmd

-----------------------------------------------------------------------------
(***************************************************************************)
(* Empty, and its simulated faults.                                        *)
(***************************************************************************)
EmptyLoop ==
    /\ ~empty.insertCFE
    /\ toEmpty # <<>>
    /\ LET x == Head(toEmpty) IN
         /\ fromEmpty' = Append(fromEmpty,
                            MovCmd(x.seq_count, IF empty.insertSDC THEN "turn" ELSE "ahead"))
         /\ empty' = [empty EXCEPT !.seq_count = x.seq_count, !.insertSDC = FALSE]
    /\ toEmpty' = Tail(toEmpty)
    /\ UNCHANGED <<tvars, toBench, toTrans, bench>>

Fault ==
    /\ \/ "sdc" \in FaultKinds /\ empty' = [empty EXCEPT !.insertSDC = TRUE]
       \/ "cfe" \in FaultKinds /\ empty' = [empty EXCEPT !.insertCFE = TRUE]
    /\ UNCHANGED <<tvars, toBench, toTrans, bench, toEmpty, fromEmpty>>

Next ==
    \/ Player \/ Translator \/ MainShutdown
    \/ Benchmarker
    \/ EmptyLoop \/ Fault

Spec == Init /\ [][Next]_vars

\* Every process runs whenever it can; the simulator goes on publishing
\* ranges.
Fairness ==
    /\ WF_vars(Translator) /\ WF_vars(Benchmarker) /\ WF_vars(EmptyLoop)
    /\ WF_vars(Player)
    /\ SF_vars(Player /\ InQueue' = Append(InQueue, [type |-> "range", at |-> place]))

FairSpec == Spec /\ Fairness

-----------------------------------------------------------------------------
TypeOK ==
    /\ \A i \in DOMAIN InQueue : InQueue[i].type \in {"odom", "range", "other"}
    /\ Len(InQueue) <= QueueMax
    /\ place \in Poses /\ robot \in Velocities
    /\ trans.pc \in {"update", "process", "select", "down"}
    /\ trans.batch \in 0 .. QueueMax /\ trans.pose \in Poses
    /\ trans.seq_count \in 0 .. MaxSeq + 1
    /\ \A s \in {toBench, toEmpty} : \A x \in ToSet(s) :
         x.seq_count \in 0 .. MaxSeq + 1 /\ x.pose \in Poses
    /\ \A s \in {fromEmpty, toTrans} : \A c \in ToSet(s) :
         c.seq_count \in 0 .. MaxSeq + 1 /\ c.vel_cmd \in Velocities
    /\ bench.seq_count \in -1 .. MaxSeq + 1

\* The numbers on their way around the loop, from the next one the translator
\* will get back to the last one it sent.
Numbers(s) == [i \in DOMAIN s |-> s[i].seq_count]
AroundTheLoop == Numbers(toTrans) \o Numbers(fromEmpty) \o Numbers(toEmpty) \o Numbers(toBench)

\* The benchmarker has at most one reading out, and knows whether it has
\* (benchmarker.c:147-181).  Numbers never overtake each other, and none is
\* more than one behind the translator's own count: a number stands for at
\* most one step of the robot that the translator has not seen answered
\* (translator_driver.cc:288-292, 383).
SeqWindow ==
    /\ Len(toEmpty) + Len(fromEmpty) = IF bench.waiting_response THEN 1 ELSE 0
    /\ \A i \in DOMAIN AroundTheLoop :
         /\ AroundTheLoop[i] \in {trans.seq_count - 1, trans.seq_count}
         /\ \A j \in 1 .. i : AroundTheLoop[j] <= AroundTheLoop[i]

\* A reading has the pose the robot had when it was taken, however many
\* messages were queued between (ProcessOdom, ProcessRanger).
PoseOfTheScan == \A x \in ToSet(toBench) \cup ToSet(toEmpty) : x.pose = x.at

\* The robot keeps getting commands, and the benchmarker never waits for ever
\* for an answer: neither dropped readings nor full pipes stop the loop, as
\* long as Empty is not caught in a control-flow error.
Stopped == trans.pc = "down" \/ empty.insertCFE
RobotFollows ==
    /\ <>(Stopped \/ trans.seq_count >= MaxSeq)
    /\ []<>(Stopped \/ ~bench.waiting_response)
=============================================================================
