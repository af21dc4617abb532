---------------------------- MODULE Bench_proofs ----------------------------
(***************************************************************************)
(* Proofs about Bench, for every bound, set of poses and number of         *)
(* readings thrown away: every reading has the pose it was taken at, and   *)
(* the numbers on their way around the loop stay in order and at most one  *)
(* behind.                                                                 *)
(***************************************************************************)
EXTENDS Bench, SequenceTheorems, TLAPS

\* What Player queues, what the pipes to and from the controller carry.
PlayerMsgs == [type : {"odom", "range", "other"}, at : Poses]
Readings   == [seq_count : Nat, pose : Poses, at : Poses]
Commands   == [seq_count : Nat, vel_cmd : Velocities]

\* The records of the translator and of the benchmarker.
TransPcs  == {"update", "process", "select", "down"}
TransRecs == [pc : TransPcs, batch : Int, seq_count : Nat, pose : Poses]
BenchRecs == [pc : {"preread", "select", "data", "cmd"}, left : Int,
              ready : SUBSET {"data", "cmd"}, seq_count : Int,
              waiting_response : BOOLEAN]

\* The types of the state, as far as the proofs need them.
Types ==
    /\ InQueue \in Seq(PlayerMsgs)
    /\ place \in Poses
    /\ trans \in TransRecs
    /\ toBench \in Seq(Readings) /\ toEmpty \in Seq(Readings)
    /\ toTrans \in Seq(Commands) /\ fromEmpty \in Seq(Commands)
    /\ bench \in BenchRecs
    /\ empty \in [seq_count : Nat, insertSDC : BOOLEAN, insertCFE : BOOLEAN]

-----------------------------------------------------------------------------
(***************************************************************************)
(* The poses.                                                              *)
(***************************************************************************)

\* Where Player's messages put the robot before the i-th one of queue q,
\* when the translator's own pose is p.
PoseBefore(q, p, i) == IF i = 1 THEN p ELSE q[i - 1].at

\* Only odometry moves the robot.
QueueInOrder(q, p) ==
    \A i \in 1 .. Len(q) : q[i].type = "odom" \/ q[i].at = PoseBefore(q, p, i)

\* Where the robot is after the last message of q.
PoseAfter(q, p) == IF q = <<>> THEN p ELSE q[Len(q)].at

\* Every reading in a pipe has the pose it was taken at.
WellPosed(s) == \A i \in 1 .. Len(s) : s[i].pose = s[i].at

\* The translator's pose is where the robot was before the first message that
\* waits, and it never processes a message that is not there.
ScanInv ==
    /\ Types
    /\ QueueInOrder(InQueue, trans.pose)
    /\ place = PoseAfter(InQueue, trans.pose)
    /\ trans.pc = "process" => trans.batch \in 1 .. Len(InQueue)
    /\ WellPosed(toBench) /\ WellPosed(toEmpty)
    /\ bench.pc = "data" => toBench # <<>>
    /\ bench.pc = "cmd" \/ "cmd" \in bench.ready => fromEmpty # <<>>

-----------------------------------------------------------------------------
(***************************************************************************)
(* The numbers.                                                            *)
(***************************************************************************)

\* The numbers of pipe s are c and the one before.
InWindow(s, c) == \A i \in 1 .. Len(s) : s[i].seq_count \in {c - 1, c}

\* No number of pipe s is above n, or below it.
Below(s, n) == \A i \in 1 .. Len(s) : s[i].seq_count <= n
Above(s, n) == \A i \in 1 .. Len(s) : n <= s[i].seq_count

\* The numbers of a pipe do not decrease.
Ordered(s) == \A i \in 1 .. Len(s) : \A j \in 1 .. i : s[j].seq_count <= s[i].seq_count

\* No number of pipe s is above one of pipe t.
Before(s, t) == \A i \in 1 .. Len(s), j \in 1 .. Len(t) : s[i].seq_count <= t[j].seq_count

\* Pipe by pipe around the loop, from the one the translator reads: the
\* numbers are in the window of count c and in order.
InOrder(tt, fe, te, tb, c) ==
    /\ InWindow(tt, c) /\ InWindow(fe, c) /\ InWindow(te, c) /\ InWindow(tb, c)
    /\ Ordered(tt) /\ Ordered(fe) /\ Ordered(te) /\ Ordered(tb)
    /\ Before(tt, fe) /\ Before(tt, te) /\ Before(tt, tb)
    /\ Before(fe, te) /\ Before(fe, tb)
    /\ Before(te, tb)

\* The benchmarker knows whether a reading is out.
OneOut == Len(toEmpty) + Len(fromEmpty) = IF bench.waiting_response THEN 1 ELSE 0

\* The window of the translator's count, and what the benchmarker knows.
LoopInv ==
    /\ ScanInv
    /\ OneOut
    /\ InOrder(toTrans, fromEmpty, toEmpty, toBench, trans.seq_count)

-----------------------------------------------------------------------------
(***************************************************************************)
(* Facts about sequences of messages.                                      *)
(***************************************************************************)

\* The items of a sequence with one more at its end.
LEMMA Appended ==
    ASSUME NEW S, NEW s \in Seq(S), NEW x \in S, NEW t, t = Append(s, x)
    PROVE  /\ t \in Seq(S) /\ t # <<>> /\ Len(s) \in Nat /\ Len(t) = Len(s) + 1
           /\ \A i \in 1 .. Len(t) : t[i] = IF i <= Len(s) THEN s[i] ELSE x
BY AppendProperties

\* The items of a sequence without its first.
LEMMA Tailed ==
    ASSUME NEW S, NEW s \in Seq(S), s # <<>>, NEW t, t = Tail(s)
    PROVE  /\ t \in Seq(S) /\ Head(s) \in S /\ Head(s) = s[1]
           /\ Len(s) \in Nat \ {0} /\ Len(t) = Len(s) - 1
           /\ \A i \in 1 .. Len(t) : t[i] = s[i + 1]
BY HeadTailProperties, EmptySeq

\* Only the empty sequence has no items.
LEMMA NotEmpty ==
    ASSUME NEW S, NEW s \in Seq(S)
    PROVE  /\ Len(s) \in Nat
           /\ s = <<>> <=> Len(s) = 0
BY EmptySeq, LenProperties

\* A reading is added with the pose it was taken at, or one is taken away.
LEMMA WellPosedSteps ==
    ASSUME NEW s \in Seq(Readings), WellPosed(s)
    PROVE  /\ \A x \in Readings : x.pose = x.at => WellPosed(Append(s, x))
           /\ s # <<>> => WellPosed(Tail(s)) /\ Head(s).pose = Head(s).at
<1>1. ASSUME NEW x \in Readings, x.pose = x.at PROVE WellPosed(Append(s, x))
  <2>1. PICK t : t = Append(s, x)
    OBVIOUS
  <2> QED BY <1>1, <2>1, Appended DEF WellPosed
<1>2. ASSUME s # <<>> PROVE WellPosed(Tail(s)) /\ Head(s).pose = Head(s).at
  <2>1. PICK t : t = Tail(s)
    OBVIOUS
  <2> QED BY <1>2, <2>1, Tailed DEF WellPosed
<1> QED BY <1>1, <1>2

\* Player adds odometry, or a message from where the robot is.
LEMMA QueueGrows ==
    ASSUME NEW q \in Seq(PlayerMsgs), NEW p, QueueInOrder(q, p), NEW x \in PlayerMsgs,
           x.type = "odom" \/ x.at = PoseAfter(q, p)
    PROVE  QueueInOrder(Append(q, x), p) /\ PoseAfter(Append(q, x), p) = x.at
<1>1. PICK t : t = Append(q, x)
  OBVIOUS
<1>2. /\ t # <<>> /\ Len(q) \in Nat /\ Len(t) = Len(q) + 1
      /\ \A i \in 1 .. Len(t) : t[i] = IF i <= Len(q) THEN q[i] ELSE x
  BY <1>1, Appended
<1>3. q = <<>> <=> Len(q) = 0
  BY NotEmpty
<1>4. QueueInOrder(t, p)
  <2> SUFFICES ASSUME NEW i \in 1 .. Len(t), t[i].type # "odom"
               PROVE  t[i].at = PoseBefore(t, p, i)
    BY DEF QueueInOrder
  <2>1. CASE i <= Len(q)
    <3>1. t[i] = q[i] /\ i \in 1 .. Len(q) /\ PoseBefore(t, p, i) = PoseBefore(q, p, i)
      BY <1>2, <2>1 DEF PoseBefore
    <3> QED BY <3>1 DEF QueueInOrder
  <2>2. CASE ~(i <= Len(q))
    <3>1. i = Len(q) + 1 /\ t[i] = x
      BY <1>2, <2>2
    <3>2. PoseBefore(t, p, i) = PoseAfter(q, p)
      BY <1>2, <1>3, <3>1 DEF PoseBefore, PoseAfter
    <3> QED BY <3>1, <3>2
  <2> QED BY <2>1, <2>2
<1> QED BY <1>1, <1>2, <1>4 DEF PoseAfter

\* After the first message the robot is where that message says.
LEMMA QueueShrinks ==
    ASSUME NEW q \in Seq(PlayerMsgs), NEW p, QueueInOrder(q, p), q # <<>>
    PROVE  /\ QueueInOrder(Tail(q), Head(q).at)
           /\ PoseAfter(Tail(q), Head(q).at) = PoseAfter(q, p)
           /\ Head(q).type # "odom" => Head(q).at = p
<1>1. PICK t : t = Tail(q)
  OBVIOUS
<1>2. /\ t \in Seq(PlayerMsgs) /\ Head(q) = q[1]
      /\ Len(q) \in Nat \ {0} /\ Len(t) = Len(q) - 1
      /\ \A i \in 1 .. Len(t) : t[i] = q[i + 1]
  BY <1>1, Tailed
<1>3. t = <<>> <=> Len(t) = 0
  BY <1>2, NotEmpty
<1>4. QueueInOrder(t, Head(q).at)
  <2> SUFFICES ASSUME NEW i \in 1 .. Len(t), t[i].type # "odom"
               PROVE  t[i].at = PoseBefore(t, Head(q).at, i)
    BY DEF QueueInOrder
  <2>1. i + 1 \in 1 .. Len(q) /\ i + 1 # 1 /\ t[i] = q[i + 1] /\ (i + 1) - 1 = i
    BY <1>2
  <2>2. q[i + 1].at = q[i].at
    BY <2>1 DEF QueueInOrder, PoseBefore
  <2>3. PoseBefore(t, Head(q).at, i) = q[i].at
    <3>1. CASE i = 1
      BY <1>2, <3>1 DEF PoseBefore
    <3>2. CASE i # 1
      <4>1. i - 1 \in 1 .. Len(t) /\ (i - 1) + 1 = i
        BY <1>2, <3>2
      <4> QED BY <1>2, <3>2, <4>1 DEF PoseBefore
    <3> QED BY <3>1, <3>2
  <2> QED BY <2>1, <2>2, <2>3
<1>5. PoseAfter(t, Head(q).at) = PoseAfter(q, p)
  BY <1>2, <1>3 DEF PoseAfter
<1>6. Head(q).type # "odom" => Head(q).at = p
  BY <1>2 DEF QueueInOrder, PoseBefore
<1> QED BY <1>1, <1>4, <1>5, <1>6

-----------------------------------------------------------------------------
(***************************************************************************)
(* Every reading has its pose.                                             *)
(***************************************************************************)

\* At the start nothing is on its way.
LEMMA ScanInit == Init => ScanInv
<1> SUFFICES ASSUME Init PROVE ScanInv
  OBVIOUS
<1>1. \A S : <<>> \in Seq(S) /\ Len(<<>>) = 0
  BY EmptySeq
<1>2. Types
  BY <1>1, BenchAssumption DEF Init, Types, TransRecs, TransPcs, BenchRecs
<1>3. QueueInOrder(InQueue, trans.pose) /\ WellPosed(toBench) /\ WellPosed(toEmpty)
  BY <1>1 DEF Init, QueueInOrder, WellPosed
<1>4. place = PoseAfter(InQueue, trans.pose)
  BY DEF Init, PoseAfter
<1> QED BY <1>2, <1>3, <1>4 DEF Init, ScanInv

\* Player's messages come from where the robot is.
LEMMA ScanPlayer == ScanInv /\ Player => ScanInv'
<1> SUFFICES ASSUME ScanInv, Player PROVE ScanInv'
  OBVIOUS
<1>1. PICK x \in PlayerMsgs :
        /\ InQueue' = Append(InQueue, x) /\ place' = x.at
        /\ x.type = "odom" \/ x.at = PoseAfter(InQueue, trans.pose)
  <2>1. \A t \in {"odom", "range", "other"}, p \in Poses :
          [type |-> t, at |-> p] \in PlayerMsgs
    BY DEF PlayerMsgs
  <2>2. place \in Poses /\ place = PoseAfter(InQueue, trans.pose)
    BY DEF ScanInv, Types
  <2>3. CASE \E p \in Poses : place' = p /\ InQueue' = Append(InQueue, [type |-> "odom", at |-> p])
    BY <2>1, <2>3
  <2>4. CASE place' = place /\ InQueue' = Append(InQueue, [type |-> "range", at |-> place])
    BY <2>1, <2>2, <2>4
  <2>5. CASE place' = place /\ InQueue' = Append(InQueue, [type |-> "other", at |-> place])
    BY <2>1, <2>2, <2>5
  <2> QED BY <2>3, <2>4, <2>5 DEF Player
<1>2. InQueue \in Seq(PlayerMsgs) /\ QueueInOrder(InQueue, trans.pose)
  BY DEF ScanInv, Types
<1>3. /\ QueueInOrder(InQueue', trans.pose) /\ PoseAfter(InQueue', trans.pose) = x.at
  BY <1>1, <1>2, QueueGrows
<1>4. InQueue' \in Seq(PlayerMsgs) /\ Len(InQueue) \in Nat /\ Len(InQueue') = Len(InQueue) + 1
  BY <1>1, <1>2, Appended
<1>5. UNCHANGED <<trans, toBench, toTrans, bench, toEmpty, fromEmpty, empty>>
  BY DEF Player
<1>6. Types'
  BY <1>1, <1>4, <1>5 DEF Types, ScanInv, PlayerMsgs
<1>7. (trans.pc = "process" => trans.batch \in 1 .. Len(InQueue))'
  BY <1>4, <1>5 DEF ScanInv, Types
<1> QED BY <1>1, <1>3, <1>5, <1>6, <1>7 DEF ScanInv

\* A ranger message is sent with the pose of the odometry before it.
LEMMA ScanProcess == ScanInv /\ ProcessMessage => ScanInv'
<1> SUFFICES ASSUME ScanInv, ProcessMessage PROVE ScanInv'
  OBVIOUS
<1>1. PICK x : x = Head(InQueue)
  OBVIOUS
<1>2. InQueue \in Seq(PlayerMsgs) /\ QueueInOrder(InQueue, trans.pose) /\ Types
  BY DEF ScanInv, Types
<1>3. Len(InQueue) \in Nat /\ Len(InQueue) > 0 /\ InQueue # <<>>
  <2>1. trans.batch \in 1 .. Len(InQueue)
    BY DEF ScanInv, ProcessMessage
  <2> QED BY <2>1, <1>2, NotEmpty
<1>4. /\ InQueue' \in Seq(PlayerMsgs) /\ x \in PlayerMsgs /\ Len(InQueue') = Len(InQueue) - 1
  BY <1>1, <1>2, <1>3, Tailed DEF ProcessMessage
<1>5. /\ QueueInOrder(InQueue', x.at)
      /\ PoseAfter(InQueue', x.at) = PoseAfter(InQueue, trans.pose)
      /\ x.type # "odom" => x.at = trans.pose
  BY <1>1, <1>2, <1>3, QueueShrinks DEF ProcessMessage
<1>6. /\ trans' \in TransRecs
      /\ trans'.pose = x.at
      /\ trans'.pc = "process" => trans.batch # 1 /\ trans'.batch = trans.batch - 1
  <2>1. trans \in TransRecs
    BY <1>2 DEF Types
  <2>2. PICK p \in TransPcs : p = IF trans.batch = 1 THEN "select" ELSE "process"
    BY DEF TransPcs
  <2>3. PICK b \in Int : b = trans.batch - 1
    BY <2>1 DEF TransRecs
  <2>4. CASE x.type = "odom"
    <3>1. PICK t : t = ProcessOdom(x.at)
      OBVIOUS
    <3>2. t \in TransRecs /\ t.pose = x.at
      BY <2>1, <1>4, <3>1 DEF ProcessOdom, TransRecs, PlayerMsgs
    <3>3. trans' = [t EXCEPT !.pc = p, !.batch = b]
      BY <1>1, <2>4, <2>2, <2>3, <3>1 DEF ProcessMessage
    <3>4. trans' \in TransRecs /\ trans'.pc = p /\ trans'.batch = b /\ trans'.pose = t.pose
      BY <3>2, <3>3 DEF TransRecs
    <3> QED BY <2>2, <2>3, <3>2, <3>4
  <2>5. CASE x.type # "odom"
    <3>1. trans' = [trans EXCEPT !.pc = p, !.batch = b]
      BY <1>1, <2>5, <2>2, <2>3 DEF ProcessMessage
    <3>2. trans' \in TransRecs /\ trans'.pc = p /\ trans'.batch = b /\ trans'.pose = trans.pose
      BY <2>1, <3>1 DEF TransRecs
    <3> QED BY <2>5, <2>2, <2>3, <3>2, <1>5
  <2> QED BY <2>4, <2>5
<1>7. toBench' \in Seq(Readings) /\ WellPosed(toBench')
      /\ (toBench # <<>> => toBench' # <<>>)
  <2>1. CASE UNCHANGED toBench
    BY <2>1 DEF ScanInv, Types
  <2>2. CASE x.type = "range" /\ ProcessRanger(x.at)
    <3>1. PICK r : r = Reading(trans.seq_count, trans.pose, x.at)
      OBVIOUS
    <3>2. toBench' = Append(toBench, r)
      BY <2>2, <3>1 DEF ProcessRanger, Numbered
    <3>3. r \in Readings /\ r.pose = r.at
      BY <1>2, <1>4, <1>5, <2>2, <3>1 DEF Reading, Readings, Types, PlayerMsgs, TransRecs
    <3>4. toBench \in Seq(Readings) /\ WellPosed(toBench)
      BY DEF ScanInv, Types
    <3> QED BY <3>2, <3>3, <3>4, WellPosedSteps, Appended
  <2> QED BY <1>1, <2>1, <2>2 DEF ProcessMessage
<1>8. UNCHANGED <<place, toTrans, bench, toEmpty, fromEmpty, empty>>
  BY DEF ProcessMessage, bvars
<1>9. Types'
  BY <1>2, <1>4, <1>6, <1>7, <1>8 DEF Types
<1>10. (trans.pc = "process" => trans.batch \in 1 .. Len(InQueue))'
  <2>1. trans.batch \in 1 .. Len(InQueue)
    BY DEF ScanInv, ProcessMessage
  <2> QED BY <2>1, <1>3, <1>4, <1>6
<1> QED BY <1>5, <1>6, <1>7, <1>8, <1>9, <1>10 DEF ScanInv

\* The other steps of the translator leave the queue and the pose alone.
LEMMA ScanTranslator == ScanInv /\ (DoOneUpdate \/ RecvMovCmd \/ MainShutdown) => ScanInv'
<1> SUFFICES ASSUME ScanInv, DoOneUpdate \/ RecvMovCmd \/ MainShutdown PROVE ScanInv'
  OBVIOUS
<1>1. UNCHANGED <<InQueue, place, toBench, bench, toEmpty, fromEmpty, empty>>
  BY DEF DoOneUpdate, RecvMovCmd, MainShutdown, bvars
<1>2. Types /\ InQueue \in Seq(PlayerMsgs)
  BY DEF ScanInv, Types
<1>3. Len(InQueue) \in Nat /\ (InQueue = <<>> <=> Len(InQueue) = 0)
  BY <1>2, NotEmpty
<1>4. toTrans' \in Seq(Commands)
  <2>1. CASE toTrans = <<>> \/ UNCHANGED toTrans
    BY <2>1, <1>2 DEF Types, DoOneUpdate, RecvMovCmd, MainShutdown
  <2>2. CASE RecvMovCmd /\ toTrans # <<>>
    BY <2>2, <1>2, Tailed DEF Types, RecvMovCmd
  <2> QED BY <2>1, <2>2 DEF DoOneUpdate, RecvMovCmd, MainShutdown
<1>5. /\ trans' \in TransRecs
      /\ trans'.pose = trans.pose
      /\ trans'.pc = "process" => trans'.batch \in 1 .. Len(InQueue)
  <2>1. CASE DoOneUpdate
    <3>1. trans \in TransRecs
      BY <1>2 DEF Types
    <3>2. PICK p \in TransPcs : p = IF InQueue = <<>> THEN "select" ELSE "process"
      BY DEF TransPcs
    <3>3. PICK b \in Int : b = Len(InQueue)
      BY <1>3
    <3>4. trans' = [trans EXCEPT !.pc = p, !.batch = b]
      BY <2>1, <3>2, <3>3 DEF DoOneUpdate
    <3>5. trans' \in TransRecs /\ trans'.pc = p /\ trans'.batch = b /\ trans'.pose = trans.pose
      BY <3>1, <3>4 DEF TransRecs
    <3> QED BY <1>3, <3>2, <3>3, <3>5
  <2>2. CASE MainShutdown
    BY <2>2, <1>2 DEF MainShutdown, Types, TransRecs, TransPcs
  <2>3. CASE RecvMovCmd /\ toTrans = <<>>
    BY <2>3, <1>2 DEF RecvMovCmd, Types, TransRecs, TransPcs
  <2>4. CASE RecvMovCmd /\ toTrans # <<>>
    <3>1. PICK c \in Commands : c = Head(toTrans)
      BY <2>4, <1>2, Tailed DEF Types
    <3>2. PICK n \in Nat : n = NextSeq(c.seq_count)
      BY <3>1 DEF NextSeq, Commands
    <3>3. trans' = [trans EXCEPT !.pc = "update", !.seq_count = n]
      BY <2>4, <3>1, <3>2 DEF RecvMovCmd
    <3>4. trans \in TransRecs
      BY <1>2 DEF Types
    <3> QED BY <3>2, <3>3, <3>4 DEF TransRecs, TransPcs
  <2> QED BY <2>1, <2>2, <2>3, <2>4
<1>6. Types'
  BY <1>1, <1>2, <1>4, <1>5 DEF Types
<1> QED BY <1>1, <1>5, <1>6 DEF ScanInv

\* The benchmarker throws a reading away or passes it on as it is.
LEMMA ScanBenchmarker == ScanInv /\ Benchmarker => ScanInv'
<1> SUFFICES ASSUME ScanInv, Benchmarker PROVE ScanInv'
  OBVIOUS
<1>1. UNCHANGED <<InQueue, place, trans, empty>>
  BY DEF Benchmarker, PreRead, BenchSelect, BenchData, BenchCmd, tvars
<1>2. /\ Types /\ bench \in BenchRecs
      /\ toBench \in Seq(Readings) /\ toEmpty \in Seq(Readings)
      /\ toTrans \in Seq(Commands) /\ fromEmpty \in Seq(Commands)
      /\ WellPosed(toBench) /\ WellPosed(toEmpty)
  BY DEF ScanInv, Types
<1>3. bench' \in BenchRecs
  <2>1. CASE PreRead
    <3>1. PICK p \in {"select", "preread"} : p = IF bench.left = 1 THEN "select" ELSE "preread"
      OBVIOUS
    <3>2. PICK n \in Int : n = bench.left - 1
      BY <1>2 DEF BenchRecs
    <3>3. bench' = [bench EXCEPT !.left = n, !.pc = p]
      BY <2>1, <3>1, <3>2 DEF PreRead
    <3> QED BY <1>2, <3>3 DEF BenchRecs
  <2>2. CASE BenchSelect
    <3>1. PICK R \in SUBSET {"data", "cmd"}, p \in {"data", "cmd"} :
            bench' = [bench EXCEPT !.ready = R, !.pc = p]
      BY <2>2 DEF BenchSelect
    <3> QED BY <1>2, <3>1 DEF BenchRecs
  <2>3. CASE BenchData
    <3>1. toBench # <<>>
      BY <2>3 DEF ScanInv, BenchData
    <3>2. PICK x \in Readings : x = Head(toBench)
      BY <1>2, <3>1, Tailed
    <3>3. PICK p \in {"cmd", "select"} : p = IF "cmd" \in bench.ready THEN "cmd" ELSE "select"
      OBVIOUS
    <3>4. bench' = [bench EXCEPT !.seq_count = x.seq_count, !.waiting_response = TRUE,
                                 !.pc = p, !.ready = {}]
      BY <2>3, <3>2, <3>3 DEF BenchData
    <3>5. x.seq_count \in Int
      BY <3>2 DEF Readings
    <3> QED BY <1>2, <3>3, <3>4, <3>5 DEF BenchRecs
  <2>4. CASE BenchCmd
    BY <1>2, <2>4 DEF BenchCmd, AfterAnswer, BenchRecs
  <2> QED BY <2>1, <2>2, <2>3, <2>4 DEF Benchmarker
<1>4. /\ toBench' \in Seq(Readings) /\ WellPosed(toBench')
      /\ toEmpty' \in Seq(Readings) /\ WellPosed(toEmpty')
      /\ toTrans' \in Seq(Commands) /\ fromEmpty' \in Seq(Commands)
  <2>1. CASE PreRead
    BY <1>2, <2>1, Tailed, WellPosedSteps DEF PreRead
  <2>2. CASE BenchSelect
    BY <1>2, <2>2 DEF BenchSelect
  <2>3. CASE BenchData
    <3>1. toBench # <<>>
      BY <2>3 DEF ScanInv, BenchData
    <3>2. PICK x : x = Head(toBench)
      OBVIOUS
    <3>3. x \in Readings /\ x.pose = x.at
      BY <1>2, <3>1, <3>2, Tailed, WellPosedSteps
    <3>4. toBench' = Tail(toBench) /\ UNCHANGED <<toTrans, fromEmpty>>
      BY <2>3 DEF BenchData
    <3>5. toBench' \in Seq(Readings) /\ WellPosed(toBench')
      BY <1>2, <3>1, <3>4, Tailed, WellPosedSteps
    <3>6. toEmpty' = toEmpty \/ toEmpty' = Append(toEmpty, x)
      BY <2>3, <3>2 DEF BenchData, PassOn
    <3>7. toEmpty' \in Seq(Readings) /\ WellPosed(toEmpty')
      BY <1>2, <3>3, <3>6, Appended, WellPosedSteps
    <3> QED BY <1>2, <3>4, <3>5, <3>7
  <2>4. CASE BenchCmd
    <3>1. fromEmpty # <<>>
      BY <2>4 DEF ScanInv, BenchCmd
    <3>2. PICK c \in Commands : c = Head(fromEmpty)
      BY <1>2, <3>1, Tailed
    <3>3. toTrans' = Append(toTrans, c) /\ fromEmpty' = Tail(fromEmpty)
          /\ UNCHANGED <<toBench, toEmpty>>
      BY <2>4, <3>2 DEF BenchCmd
    <3> QED BY <1>2, <3>1, <3>3, Appended, Tailed
  <2> QED BY <2>1, <2>2, <2>3, <2>4 DEF Benchmarker
<1>5. /\ bench'.pc = "data" => toBench' # <<>>
      /\ (bench'.pc = "cmd" \/ "cmd" \in bench'.ready) => fromEmpty' # <<>>
  <2>1. CASE PreRead
    <3>1. bench'.pc \in {"select", "preread"} /\ bench'.ready = bench.ready /\ fromEmpty' = fromEmpty
      BY <1>2, <2>1 DEF PreRead, BenchRecs
    <3> QED BY <3>1 DEF ScanInv
  <2>2. CASE BenchSelect
    <3>1. PICK R : /\ R = {f \in {"data", "cmd"} :
                             IF f = "data" THEN toBench # <<>> ELSE fromEmpty # <<>>}
                   /\ R # {}
                   /\ bench' = [bench EXCEPT !.ready = R,
                                             !.pc = IF "data" \in R THEN "data" ELSE "cmd"]
      BY <2>2 DEF BenchSelect
    <3>2. /\ "data" \in R => toBench # <<>>
          /\ "cmd" \in R => fromEmpty # <<>>
          /\ "data" \in R \/ "cmd" \in R
      BY <3>1
    <3>3. bench'.ready = R /\ bench'.pc = IF "data" \in R THEN "data" ELSE "cmd"
      BY <3>1, <1>2 DEF BenchRecs
    <3>4. UNCHANGED <<toBench, fromEmpty>>
      BY <2>2 DEF BenchSelect
    <3> QED BY <3>2, <3>3, <3>4
  <2>3. CASE BenchData
    <3>1. bench'.pc = (IF "cmd" \in bench.ready THEN "cmd" ELSE "select")
          /\ bench'.ready = {} /\ fromEmpty' = fromEmpty
      BY <2>3, <1>2 DEF BenchData, BenchRecs
    <3> QED BY <3>1 DEF ScanInv
  <2>4. CASE BenchCmd
    BY <1>2, <2>4 DEF BenchCmd, AfterAnswer, BenchRecs
  <2> QED BY <2>1, <2>2, <2>3, <2>4 DEF Benchmarker
<1>6. Types'
  BY <1>1, <1>2, <1>3, <1>4 DEF Types
<1> QED BY <1>1, <1>4, <1>5, <1>6 DEF ScanInv

\* Empty takes a reading and answers it.
LEMMA ScanEmpty == ScanInv /\ (EmptyLoop \/ Fault) => ScanInv'
<1> SUFFICES ASSUME ScanInv, EmptyLoop \/ Fault PROVE ScanInv'
  OBVIOUS
<1>1. UNCHANGED <<InQueue, place, trans, toBench, toTrans, bench>>
  BY DEF EmptyLoop, Fault, tvars
<1>2. /\ Types /\ toEmpty \in Seq(Readings) /\ fromEmpty \in Seq(Commands)
      /\ WellPosed(toEmpty)
  BY DEF ScanInv, Types
<1>3. CASE Fault
  <2>1. Types' /\ UNCHANGED <<toEmpty, fromEmpty>>
    BY <1>1, <1>2, <1>3 DEF Types, Fault
  <2> QED BY <1>1, <2>1 DEF ScanInv
<1>4. CASE EmptyLoop
  <2>1. PICK x \in Readings : x = Head(toEmpty)
    BY <1>2, <1>4, Tailed DEF EmptyLoop
  <2>2. PICK c \in Commands : fromEmpty' = Append(fromEmpty, c)
    <3>1. \A v \in Velocities : MovCmd(x.seq_count, v) \in Commands
      BY <2>1 DEF MovCmd, Commands, Readings
    <3>2. PICK v \in Velocities : v = IF empty.insertSDC THEN "turn" ELSE "ahead"
      BY DEF Velocities
    <3>3. fromEmpty' = Append(fromEmpty, MovCmd(x.seq_count, v))
      BY <1>4, <2>1, <3>2 DEF EmptyLoop
    <3> QED BY <3>1, <3>3
  <2>3. toEmpty' = Tail(toEmpty) /\ toEmpty # <<>>
    BY <1>4 DEF EmptyLoop
  <2>4. toEmpty' \in Seq(Readings) /\ WellPosed(toEmpty')
    BY <1>2, <2>3, Tailed, WellPosedSteps
  <2>5. fromEmpty' \in Seq(Commands) /\ fromEmpty' # <<>>
    BY <1>2, <2>2, Appended
  <2>6. empty' \in [seq_count : Nat, insertSDC : BOOLEAN, insertCFE : BOOLEAN]
    <3>1. empty' = [empty EXCEPT !.seq_count = x.seq_count, !.insertSDC = FALSE]
      BY <1>4, <2>1 DEF EmptyLoop
    <3> QED BY <1>2, <2>1, <3>1 DEF Types, Readings
  <2>7. Types'
    BY <1>1, <1>2, <2>4, <2>5, <2>6 DEF Types
  <2> QED BY <1>1, <2>4, <2>5, <2>7 DEF ScanInv
<1> QED BY <1>3, <1>4

\* Every step keeps the poses right.
LEMMA ScanNext == ScanInv /\ [Next]_vars => ScanInv'
<1>1. ScanInv /\ UNCHANGED vars => ScanInv'
  BY DEF ScanInv, Types, vars
<1> QED BY <1>1, ScanPlayer, ScanProcess, ScanTranslator, ScanBenchmarker, ScanEmpty
        DEF Next, Translator

\* A reading has the pose the robot had when it was taken (ProcessOdom and
\* ProcessRanger of translator_driver.cc), for every queue length.
THEOREM ScansHaveTheirPose == Spec => []PoseOfTheScan
<1>1. ScanInv => PoseOfTheScan
  <2> SUFFICES ASSUME ScanInv, NEW x \in ToSet(toBench) \cup ToSet(toEmpty)
               PROVE  x.pose = x.at
    BY DEF PoseOfTheScan
  <2>1. DOMAIN toBench = 1 .. Len(toBench) /\ DOMAIN toEmpty = 1 .. Len(toEmpty)
    BY LenProperties DEF ScanInv, Types
  <2> QED BY <2>1 DEF ToSet, ScanInv, WellPosed
<1> QED BY <1>1, ScanInit, ScanNext, PTL DEF Spec

-----------------------------------------------------------------------------
(***************************************************************************)
(* The numbers stay in order.                                              *)
(***************************************************************************)

\* What a message x at the end does to the numbers of a pipe s that becomes t.
Lengthened(s, x, t) ==
    /\ \A c : InWindow(s, c) /\ x.seq_count \in {c - 1, c} => InWindow(t, c)
    /\ Ordered(s) /\ Below(s, x.seq_count) => Ordered(t)
    /\ \A u : Before(s, u) /\ Above(u, x.seq_count) => Before(t, u)
    /\ \A u : Before(u, s) /\ Below(u, x.seq_count) => Before(u, t)

\* Append does that.
LEMMA OfAppended ==
    ASSUME NEW S, NEW s \in Seq(S), NEW x \in S, NEW t, t = Append(s, x),
           \A y \in S : y.seq_count \in Nat
    PROVE  Lengthened(s, x, t)
<1>1. /\ Len(s) \in Nat /\ Len(t) = Len(s) + 1
      /\ \A i \in 1 .. Len(t) : t[i] = IF i <= Len(s) THEN s[i] ELSE x
  BY Appended
<1>2. \A i \in 1 .. Len(t) : i \in 1 .. Len(s) \/ i = Len(t)
  BY <1>1
<1>3. \A c : InWindow(s, c) /\ x.seq_count \in {c - 1, c} => InWindow(t, c)
  BY <1>1, <1>2 DEF InWindow
<1>4. Ordered(s) /\ Below(s, x.seq_count) => Ordered(t)
  BY <1>1, <1>2 DEF Ordered, Below
<1>5. \A u : Before(s, u) /\ Above(u, x.seq_count) => Before(t, u)
  BY <1>1, <1>2 DEF Before, Above
<1>6. \A u : Before(u, s) /\ Below(u, x.seq_count) => Before(u, t)
  BY <1>1, <1>2 DEF Before, Below
<1> QED BY <1>3, <1>4, <1>5, <1>6 DEF Lengthened

\* What taking the first message x of pipe s does to them.
Shortened(s, x, t) ==
    /\ \A c : InWindow(s, c) => InWindow(t, c) /\ x.seq_count \in {c - 1, c}
    /\ Ordered(s) => Ordered(t) /\ Above(t, x.seq_count)
    /\ \A u : Before(s, u) => Before(t, u) /\ Above(u, x.seq_count)
    /\ \A u : Before(u, s) => Before(u, t) /\ Below(u, x.seq_count)

\* Head and Tail do that.
LEMMA OfTailed ==
    ASSUME NEW S, NEW s \in Seq(S), s # <<>>, NEW t, t = Tail(s),
           \A y \in S : y.seq_count \in Nat
    PROVE  Shortened(s, Head(s), t)
<1>1. /\ Head(s) = s[1] /\ Len(s) \in Nat \ {0} /\ Len(t) = Len(s) - 1
      /\ \A i \in 1 .. Len(t) : t[i] = s[i + 1]
  BY Tailed
<1>2. 1 \in 1 .. Len(s) /\ \A i \in 1 .. Len(t) : i + 1 \in 1 .. Len(s) /\ 1 \in 1 .. i + 1
  BY <1>1
<1>3. \A c : InWindow(s, c) => InWindow(t, c) /\ Head(s).seq_count \in {c - 1, c}
  BY <1>1, <1>2 DEF InWindow
<1>4. Ordered(s) => Ordered(t) /\ Above(t, Head(s).seq_count)
  <2> SUFFICES ASSUME Ordered(s) PROVE Ordered(t) /\ Above(t, Head(s).seq_count)
    OBVIOUS
  <2>1. \A i \in 1 .. Len(s) : \A j \in 1 .. i : s[j].seq_count <= s[i].seq_count
    BY DEF Ordered
  <2>2. \A i \in 1 .. Len(t) : \A j \in 1 .. i : t[j].seq_count <= t[i].seq_count
    <3> SUFFICES ASSUME NEW i \in 1 .. Len(t), NEW j \in 1 .. i
                 PROVE  t[j].seq_count <= t[i].seq_count
      OBVIOUS
    <3>1. j + 1 \in 1 .. i + 1 /\ t[i] = s[i + 1] /\ t[j] = s[j + 1]
      BY <1>1
    <3> QED BY <1>2, <2>1, <3>1
  <2>3. \A i \in 1 .. Len(t) : s[1].seq_count <= t[i].seq_count
    BY <1>1, <1>2, <2>1
  <2> QED BY <1>1, <2>2, <2>3 DEF Ordered, Above
<1>5. \A u : Before(s, u) => Before(t, u) /\ Above(u, Head(s).seq_count)
  BY <1>1, <1>2 DEF Before, Above
<1>6. \A u : Before(u, s) => Before(u, t) /\ Below(u, Head(s).seq_count)
  BY <1>1, <1>2 DEF Before, Below
<1> QED BY <1>3, <1>4, <1>5, <1>6 DEF Shortened

\* An empty pipe is in order with everything.
LEMMA OfEmpty ==
    /\ \A c : InWindow(<<>>, c) /\ Below(<<>>, c) /\ Above(<<>>, c)
    /\ Ordered(<<>>)
    /\ \A u : Before(<<>>, u) /\ Before(u, <<>>)
<1>1. Len(<<>>) = 0
  BY EmptySeq
<1> QED BY <1>1 DEF InWindow, Below, Above, Ordered, Before

\* Numbers in the window are not above the count, and when they are not below
\* it either the window can move on.
LEMMA OfWindow ==
    ASSUME NEW s, NEW c \in Nat, InWindow(s, c)
    PROVE  /\ Below(s, c)
           /\ Above(s, c) => InWindow(s, c + 1)
<1>1. \A i \in 1 .. Len(s) : s[i].seq_count \in {c - 1, c}
  BY DEF InWindow
<1>2. Below(s, c)
  BY <1>1 DEF Below
<1>3. Above(s, c) => InWindow(s, c + 1)
  BY <1>1 DEF Above, InWindow
<1> QED BY <1>2, <1>3

\* The numbers are natural.
LEMMA Counts ==
    /\ \A y \in Readings : y.seq_count \in Nat
    /\ \A y \in Commands : y.seq_count \in Nat
BY DEF Readings, Commands

\* What the steps of the loop do to the order, for pipes tt, fe, te and tb
\* and count c: the translator sends a reading with its count ...
LEMMA OrderSend ==
    ASSUME NEW tt, NEW fe, NEW te, NEW tb \in Seq(Readings), NEW c \in Nat,
           InOrder(tt, fe, te, tb, c), NEW x \in Readings, x.seq_count = c
    PROVE  InOrder(tt, fe, te, Append(tb, x), c)
<1>1. PICK t : t = Append(tb, x)
  OBVIOUS
<1>2. Below(tt, c) /\ Below(fe, c) /\ Below(te, c) /\ Below(tb, c)
  BY OfWindow DEF InOrder
<1>3. Lengthened(tb, x, t)
  BY <1>1, OfAppended, Counts
<1>4. InWindow(t, c) /\ Ordered(t) /\ Before(tt, t) /\ Before(fe, t) /\ Before(te, t)
  BY <1>2, <1>3 DEF InOrder, Lengthened
<1> QED BY <1>1, <1>4 DEF InOrder

\* ... the benchmarker throws one away ...
LEMMA OrderDrop ==
    ASSUME NEW tt, NEW fe, NEW te, NEW tb \in Seq(Readings), NEW c \in Nat,
           InOrder(tt, fe, te, tb, c), tb # <<>>
    PROVE  InOrder(tt, fe, te, Tail(tb), c)
<1>1. PICK t : t = Tail(tb)
  OBVIOUS
<1>2. Shortened(tb, Head(tb), t)
  BY <1>1, OfTailed, Counts
<1>3. InWindow(t, c) /\ Ordered(t) /\ Before(tt, t) /\ Before(fe, t) /\ Before(te, t)
  BY <1>2 DEF InOrder, Shortened
<1> QED BY <1>1, <1>3 DEF InOrder

\* ... or passes it on ...
LEMMA OrderPass ==
    ASSUME NEW tt, NEW fe, NEW te \in Seq(Readings), NEW tb \in Seq(Readings), NEW c \in Nat,
           InOrder(tt, fe, te, tb, c), tb # <<>>
    PROVE  InOrder(tt, fe, Append(te, Head(tb)), Tail(tb), c)
<1>1. PICK t : t = Tail(tb)
  OBVIOUS
<1>2. PICK x : x = Head(tb)
  OBVIOUS
<1>3. PICK u : u = Append(te, x)
  OBVIOUS
<1>4. x \in Readings
  BY <1>2, Tailed
<1>5. Shortened(tb, x, t)
  BY <1>1, <1>2, OfTailed, Counts
<1>6. /\ InWindow(t, c) /\ x.seq_count \in {c - 1, c} /\ Ordered(t)
      /\ Above(t, x.seq_count)
      /\ Before(tt, t) /\ Before(fe, t) /\ Before(te, t)
      /\ Below(tt, x.seq_count) /\ Below(fe, x.seq_count) /\ Below(te, x.seq_count)
  BY <1>5 DEF InOrder, Shortened
<1>7. Lengthened(te, x, u)
  BY <1>4, <1>3, OfAppended, Counts
<1>8. InWindow(u, c) /\ Ordered(u) /\ Before(tt, u) /\ Before(fe, u) /\ Before(u, t)
  BY <1>4, <1>6, <1>7 DEF InOrder, Lengthened
<1> QED BY <1>1, <1>2, <1>3, <1>6, <1>8 DEF InOrder

\* ... Empty answers with the number of the reading ...
LEMMA OrderAnswer ==
    ASSUME NEW tt, NEW fe \in Seq(Commands), NEW te \in Seq(Readings), NEW tb, NEW c \in Nat,
           InOrder(tt, fe, te, tb, c), te # <<>>,
           NEW y \in Commands, y.seq_count = Head(te).seq_count
    PROVE  InOrder(tt, Append(fe, y), Tail(te), tb, c)
<1>1. PICK t : t = Tail(te)
  OBVIOUS
<1>2. PICK x : x = Head(te)
  OBVIOUS
<1>3. PICK u : u = Append(fe, y)
  OBVIOUS
<1>4. Shortened(te, x, t)
  BY <1>1, <1>2, OfTailed, Counts
<1>5. /\ InWindow(t, c) /\ x.seq_count \in {c - 1, c} /\ Ordered(t)
      /\ Above(t, x.seq_count) /\ Above(tb, x.seq_count)
      /\ Before(tt, t) /\ Before(fe, t) /\ Before(t, tb)
      /\ Below(tt, x.seq_count) /\ Below(fe, x.seq_count)
  BY <1>4 DEF InOrder, Shortened
<1>6. y.seq_count = x.seq_count
  BY <1>2
<1>7. Lengthened(fe, y, u)
  BY <1>3, OfAppended, Counts
<1>8. InWindow(u, c) /\ Ordered(u) /\ Before(tt, u) /\ Before(u, t) /\ Before(u, tb)
  BY <1>5, <1>6, <1>7 DEF InOrder, Lengthened
<1> QED BY <1>1, <1>3, <1>5, <1>8 DEF InOrder

\* ... the benchmarker hands the answer back ...
LEMMA OrderReturn ==
    ASSUME NEW tt \in Seq(Commands), NEW fe \in Seq(Commands), NEW te, NEW tb, NEW c \in Nat,
           InOrder(tt, fe, te, tb, c), fe # <<>>
    PROVE  InOrder(Append(tt, Head(fe)), Tail(fe), te, tb, c)
<1>1. PICK t : t = Tail(fe)
  OBVIOUS
<1>2. PICK x : x = Head(fe)
  OBVIOUS
<1>3. PICK u : u = Append(tt, x)
  OBVIOUS
<1>4. x \in Commands
  BY <1>2, Tailed
<1>5. Shortened(fe, x, t)
  BY <1>1, <1>2, OfTailed, Counts
<1>6. /\ InWindow(t, c) /\ x.seq_count \in {c - 1, c} /\ Ordered(t)
      /\ Above(t, x.seq_count) /\ Above(te, x.seq_count) /\ Above(tb, x.seq_count)
      /\ Before(tt, t) /\ Before(t, te) /\ Before(t, tb)
      /\ Below(tt, x.seq_count)
  BY <1>5 DEF InOrder, Shortened
<1>7. Lengthened(tt, x, u)
  BY <1>4, <1>3, OfAppended, Counts
<1>8. InWindow(u, c) /\ Ordered(u) /\ Before(u, t) /\ Before(u, te) /\ Before(u, tb)
  BY <1>4, <1>6, <1>7 DEF InOrder, Lengthened
<1> QED BY <1>1, <1>2, <1>3, <1>6, <1>8 DEF InOrder

\* ... and the translator counts on from the number it gets back.  Either
\* that is the one before its count, or every number is its count.
LEMMA OrderRecv ==
    ASSUME NEW tt \in Seq(Commands), NEW fe, NEW te, NEW tb, NEW c \in Nat,
           InOrder(tt, fe, te, tb, c), tt # <<>>
    PROVE  InOrder(Tail(tt), fe, te, tb, NextSeq(Head(tt).seq_count))
<1>1. PICK t : t = Tail(tt)
  OBVIOUS
<1>2. PICK x : x = Head(tt)
  OBVIOUS
<1>3. PICK n : n = x.seq_count
  OBVIOUS
<1>4. Shortened(tt, x, t)
  BY <1>1, <1>2, OfTailed, Counts
<1>5. /\ InWindow(t, c) /\ n \in {c - 1, c} /\ Ordered(t)
      /\ Above(t, n) /\ Above(fe, n) /\ Above(te, n) /\ Above(tb, n)
      /\ Before(t, fe) /\ Before(t, te) /\ Before(t, tb)
  BY <1>3, <1>4 DEF InOrder, Shortened
<1>6. InOrder(t, fe, te, tb, c)
  BY <1>5 DEF InOrder
<1>7. CASE n = c - 1
  BY <1>1, <1>2, <1>3, <1>6, <1>7 DEF NextSeq
<1>8. CASE n = c
  <2>1. InWindow(t, c + 1) /\ InWindow(fe, c + 1) /\ InWindow(te, c + 1) /\ InWindow(tb, c + 1)
    BY <1>5, <1>6, <1>8, OfWindow DEF InOrder
  <2>2. InOrder(t, fe, te, tb, c + 1)
    BY <1>6, <2>1 DEF InOrder
  <2> QED BY <1>1, <1>2, <1>3, <1>8, <2>2 DEF NextSeq
<1> QED BY <1>5, <1>7, <1>8

\* At the start nothing is on its way.
LEMMA LoopInit == Init => LoopInv
<1> SUFFICES ASSUME Init PROVE LoopInv
  OBVIOUS
<1>1. Len(<<>>) = 0
  BY EmptySeq
<1>2. OneOut
  BY <1>1 DEF Init, OneOut
<1>3. InOrder(toTrans, fromEmpty, toEmpty, toBench, trans.seq_count)
  BY OfEmpty DEF Init, InOrder
<1> QED BY <1>2, <1>3, ScanInit DEF LoopInv

\* The steps of Player and of the translator.
LEMMA LoopTranslator ==
    LoopInv /\ (Player \/ Translator \/ MainShutdown)
      => OneOut' /\ InOrder(toTrans, fromEmpty, toEmpty, toBench, trans.seq_count)'
<1> SUFFICES ASSUME LoopInv, Player \/ Translator \/ MainShutdown
             PROVE  OneOut' /\ InOrder(toTrans, fromEmpty, toEmpty, toBench, trans.seq_count)'
  OBVIOUS
<1>1. UNCHANGED <<bench, toEmpty, fromEmpty>>
  BY DEF Player, Translator, DoOneUpdate, ProcessMessage, RecvMovCmd, MainShutdown, bvars
<1>2. OneOut'
  BY <1>1 DEF LoopInv, OneOut
<1>3. /\ trans \in TransRecs /\ trans.seq_count \in Nat /\ InQueue \in Seq(PlayerMsgs)
      /\ toBench \in Seq(Readings) /\ toTrans \in Seq(Commands)
      /\ InOrder(toTrans, fromEmpty, toEmpty, toBench, trans.seq_count)
  BY DEF LoopInv, ScanInv, Types, TransRecs
<1>4. CASE Player
  BY <1>1, <1>2, <1>3, <1>4 DEF Player
<1>5. CASE DoOneUpdate \/ MainShutdown
  <2>1. trans'.seq_count = trans.seq_count /\ UNCHANGED <<toBench, toTrans>>
    BY <1>3, <1>5 DEF DoOneUpdate, MainShutdown, TransRecs
  <2> QED BY <1>1, <1>2, <1>3, <2>1
<1>6. CASE ProcessMessage
  <2>1. trans'.seq_count = trans.seq_count /\ UNCHANGED toTrans
    BY <1>3, <1>6 DEF ProcessMessage, ProcessOdom, TransRecs
  <2>2. CASE UNCHANGED toBench
    BY <1>1, <1>2, <1>3, <2>1, <2>2
  <2>3. CASE ProcessRanger(Head(InQueue).at)
    <3>1. PICK x : x = Head(InQueue)
      OBVIOUS
    <3>2. x \in PlayerMsgs
      <4>1. trans.batch \in 1 .. Len(InQueue)
        BY <1>6 DEF LoopInv, ScanInv, ProcessMessage
      <4>2. InQueue # <<>>
        BY <1>3, <4>1, NotEmpty
      <4> QED BY <1>3, <3>1, <4>2, Tailed
    <3>3. PICK r : r = Reading(trans.seq_count, trans.pose, x.at)
      OBVIOUS
    <3>4. r \in Readings /\ r.seq_count = trans.seq_count
      BY <1>3, <3>2, <3>3 DEF Reading, Readings, PlayerMsgs, TransRecs
    <3>5. toBench' = Append(toBench, r)
      BY <2>3, <3>1, <3>3 DEF ProcessRanger, Numbered
    <3>6. InOrder(toTrans, fromEmpty, toEmpty, toBench', trans.seq_count)
      BY <1>3, <3>4, <3>5, OrderSend
    <3> QED BY <1>1, <1>2, <2>1, <3>6
  <2> QED BY <1>6, <2>2, <2>3 DEF ProcessMessage
<1>7. CASE RecvMovCmd /\ toTrans = <<>>
  <2>1. trans'.seq_count = trans.seq_count /\ UNCHANGED <<toBench, toTrans>>
    BY <1>3, <1>7 DEF RecvMovCmd, TransRecs
  <2> QED BY <1>1, <1>2, <1>3, <2>1
<1>8. CASE RecvMovCmd /\ toTrans # <<>>
  <2>1. InOrder(Tail(toTrans), fromEmpty, toEmpty, toBench, NextSeq(Head(toTrans).seq_count))
    BY <1>3, <1>8, OrderRecv
  <2>2. toTrans' = Tail(toTrans) /\ toBench' = toBench
    BY <1>8 DEF RecvMovCmd
  <2>3. PICK n : n = NextSeq(Head(toTrans).seq_count)
    OBVIOUS
  <2>4. trans' = [trans EXCEPT !.pc = "update", !.seq_count = n]
    BY <1>8, <2>3 DEF RecvMovCmd
  <2>5. trans'.seq_count = n
    BY <1>3, <2>4 DEF TransRecs
  <2> QED BY <1>1, <1>2, <2>1, <2>2, <2>3, <2>5
<1> QED BY <1>4, <1>5, <1>6, <1>7, <1>8 DEF Translator

\* The steps of the benchmarker: while a reading is out it throws the others
\* away, and an answer ends that.
LEMMA LoopBenchmarker ==
    LoopInv /\ Benchmarker
      => OneOut' /\ InOrder(toTrans, fromEmpty, toEmpty, toBench, trans.seq_count)'
<1> SUFFICES ASSUME LoopInv, Benchmarker
             PROVE  OneOut' /\ InOrder(toTrans, fromEmpty, toEmpty, toBench, trans.seq_count)'
  OBVIOUS
<1>1. trans' = trans
  BY DEF Benchmarker, PreRead, BenchSelect, BenchData, BenchCmd, tvars
<1>2. /\ bench \in BenchRecs /\ trans.seq_count \in Nat
      /\ toBench \in Seq(Readings) /\ toEmpty \in Seq(Readings)
      /\ toTrans \in Seq(Commands) /\ fromEmpty \in Seq(Commands)
      /\ InOrder(toTrans, fromEmpty, toEmpty, toBench, trans.seq_count)
  BY DEF LoopInv, ScanInv, Types, TransRecs
<1>3. /\ Len(toEmpty) \in Nat /\ Len(fromEmpty) \in Nat
      /\ toEmpty = <<>> <=> Len(toEmpty) = 0
      /\ fromEmpty = <<>> <=> Len(fromEmpty) = 0
  BY <1>2, NotEmpty
<1>4. CASE PreRead
  <2>1. /\ toBench # <<>> /\ toBench' = Tail(toBench) /\ UNCHANGED <<toTrans, toEmpty, fromEmpty>>
        /\ bench'.waiting_response = bench.waiting_response
    BY <1>2, <1>4 DEF PreRead, BenchRecs
  <2>2. InOrder(toTrans, fromEmpty, toEmpty, Tail(toBench), trans.seq_count)
    BY <1>2, <2>1, OrderDrop
  <2> QED BY <1>1, <2>1, <2>2 DEF LoopInv, OneOut
<1>5. CASE BenchSelect
  <2>1. /\ UNCHANGED <<toBench, toTrans, toEmpty, fromEmpty>>
        /\ bench'.waiting_response = bench.waiting_response
    BY <1>2, <1>5 DEF BenchSelect, BenchRecs
  <2> QED BY <1>1, <1>2, <2>1 DEF LoopInv, OneOut
<1>6. CASE BenchData
  <2>1. /\ toBench' = Tail(toBench) /\ UNCHANGED <<toTrans, fromEmpty>>
        /\ bench'.waiting_response = TRUE
    BY <1>2, <1>6 DEF BenchData, BenchRecs
  <2>2. toBench # <<>>
    BY <1>6 DEF LoopInv, ScanInv, BenchData
  <2>3. CASE bench.waiting_response
    <3>1. toEmpty' = toEmpty
      BY <1>6, <2>3 DEF BenchData, PassOn
    <3>2. InOrder(toTrans, fromEmpty, toEmpty, Tail(toBench), trans.seq_count)
      BY <1>2, <2>2, OrderDrop
    <3> QED BY <1>1, <2>1, <2>3, <3>1, <3>2 DEF LoopInv, OneOut
  <2>4. CASE ~bench.waiting_response
    <3>1. toEmpty' = Append(toEmpty, Head(toBench))
      BY <1>6, <2>4 DEF BenchData, PassOn
    <3>2. InOrder(toTrans, fromEmpty, toEmpty', Tail(toBench), trans.seq_count)
      BY <1>2, <2>2, <3>1, OrderPass
    <3>3. Head(toBench) \in Readings
      BY <1>2, <2>2, Tailed
    <3>4. Len(toEmpty') = Len(toEmpty) + 1
      BY <1>2, <3>1, <3>3, Appended
    <3>5. Len(toEmpty) + Len(fromEmpty) = 0
      BY <2>4 DEF LoopInv, OneOut
    <3>6. Len(toEmpty') + Len(fromEmpty) = 1
      BY <1>3, <3>4, <3>5
    <3> QED BY <1>1, <2>1, <3>2, <3>6 DEF OneOut
  <2> QED BY <2>3, <2>4
<1>7. CASE BenchCmd
  <2>1. fromEmpty # <<>>
    BY <1>7 DEF LoopInv, ScanInv, BenchCmd
  <2>2. /\ toTrans' = Append(toTrans, Head(fromEmpty)) /\ fromEmpty' = Tail(fromEmpty)
        /\ UNCHANGED <<toBench, toEmpty>>
        /\ bench'.waiting_response = FALSE
    BY <1>2, <1>7 DEF BenchCmd, AfterAnswer, BenchRecs
  <2>3. InOrder(toTrans', fromEmpty', toEmpty, toBench, trans.seq_count)
    BY <1>2, <2>1, <2>2, OrderReturn
  <2>4. Len(fromEmpty') = Len(fromEmpty) - 1
    BY <1>2, <2>1, <2>2, Tailed
  <2>5. Len(toEmpty) + Len(fromEmpty) \in {0, 1}
    BY DEF LoopInv, OneOut
  <2>6. Len(toEmpty) + Len(fromEmpty') = 0
    BY <1>3, <2>1, <2>4, <2>5
  <2> QED BY <1>1, <2>2, <2>3, <2>6 DEF OneOut
<1> QED BY <1>4, <1>5, <1>6, <1>7 DEF Benchmarker

\* The steps of Empty.
LEMMA LoopEmpty ==
    LoopInv /\ (EmptyLoop \/ Fault)
      => OneOut' /\ InOrder(toTrans, fromEmpty, toEmpty, toBench, trans.seq_count)'
<1> SUFFICES ASSUME LoopInv, EmptyLoop \/ Fault
             PROVE  OneOut' /\ InOrder(toTrans, fromEmpty, toEmpty, toBench, trans.seq_count)'
  OBVIOUS
<1>1. UNCHANGED <<trans, toBench, toTrans, bench>>
  BY DEF EmptyLoop, Fault, tvars
<1>2. /\ toEmpty \in Seq(Readings) /\ fromEmpty \in Seq(Commands) /\ trans.seq_count \in Nat
      /\ InOrder(toTrans, fromEmpty, toEmpty, toBench, trans.seq_count)
  BY DEF LoopInv, ScanInv, Types, TransRecs
<1>3. CASE Fault
  BY <1>1, <1>2, <1>3 DEF LoopInv, Fault, OneOut
<1>4. CASE EmptyLoop
  <2>1. toEmpty # <<>> /\ toEmpty' = Tail(toEmpty)
    BY <1>4 DEF EmptyLoop
  <2>2. PICK x \in Readings : x = Head(toEmpty)
    BY <1>2, <2>1, Tailed
  <2>3. PICK v \in Velocities : v = IF empty.insertSDC THEN "turn" ELSE "ahead"
    BY DEF Velocities
  <2>4. PICK y : y = MovCmd(x.seq_count, v)
    OBVIOUS
  <2>5. y \in Commands /\ y.seq_count = Head(toEmpty).seq_count
    BY <2>2, <2>4 DEF MovCmd, Commands, Readings
  <2>6. fromEmpty' = Append(fromEmpty, y)
    BY <1>4, <2>2, <2>3, <2>4 DEF EmptyLoop
  <2>7. InOrder(toTrans, fromEmpty', toEmpty', toBench, trans.seq_count)
    BY <1>2, <2>1, <2>5, <2>6, OrderAnswer
  <2>8. /\ Len(fromEmpty) \in Nat /\ Len(fromEmpty') = Len(fromEmpty) + 1
        /\ Len(toEmpty) \in Nat /\ Len(toEmpty') = Len(toEmpty) - 1
    BY <1>2, <2>1, <2>5, <2>6, Appended, Tailed
  <2>9. Len(toEmpty') + Len(fromEmpty') = Len(toEmpty) + Len(fromEmpty)
    BY <2>8
  <2> QED BY <1>1, <2>7, <2>9 DEF LoopInv, OneOut
<1> QED BY <1>3, <1>4

\* Every step keeps the window.
LEMMA LoopNext == LoopInv /\ [Next]_vars => LoopInv'
<1> SUFFICES ASSUME LoopInv, [Next]_vars PROVE LoopInv'
  OBVIOUS
<1>1. ScanInv'
  BY ScanNext DEF LoopInv
<1>2. CASE UNCHANGED vars
  BY <1>1, <1>2 DEF LoopInv, OneOut, vars
<1>3. CASE Next
  BY <1>1, <1>3, LoopTranslator, LoopBenchmarker, LoopEmpty DEF Next, LoopInv
<1> QED BY <1>2, <1>3

\* The numbers of u are in the window of c and do not decrease.
Climbs(u, c) ==
    \A i \in 1 .. Len(u) : u[i] \in {c - 1, c} /\ \A j \in 1 .. i : u[j] <= u[i]

\* No number of u is above one of v.
Under(u, v) == \A i \in 1 .. Len(u), j \in 1 .. Len(v) : u[i] <= v[j]

\* The numbers of a pipe are as the pipe is.
LEMMA OfNumbers ==
    ASSUME NEW S, \A y \in S : y.seq_count \in Nat,
           NEW s \in Seq(S), NEW c \in Nat, InWindow(s, c), Ordered(s)
    PROVE  /\ Numbers(s) \in Seq(Nat) /\ Len(Numbers(s)) = Len(s)
           /\ \A i \in 1 .. Len(s) : Numbers(s)[i] = s[i].seq_count
           /\ Climbs(Numbers(s), c)
<1>1. Len(s) \in Nat /\ DOMAIN s = 1 .. Len(s) /\ \A i \in 1 .. Len(s) : s[i] \in S
  BY LenProperties, ElementOfSeq
<1>2. PICK u : u = [i \in 1 .. Len(s) |-> s[i].seq_count]
  OBVIOUS
<1>3. u \in Seq(Nat) /\ Len(u) = Len(s) /\ \A i \in 1 .. Len(s) : u[i] = s[i].seq_count
  BY <1>1, <1>2
<1>4. Climbs(u, c)
  <2> SUFFICES ASSUME NEW i \in 1 .. Len(s)
               PROVE  u[i] \in {c - 1, c} /\ \A j \in 1 .. i : u[j] <= u[i]
    BY <1>3 DEF Climbs
  <2>1. s[i].seq_count \in {c - 1, c} /\ \A j \in 1 .. i : s[j].seq_count <= s[i].seq_count
    BY DEF InWindow, Ordered
  <2>2. \A j \in 1 .. i : j \in 1 .. Len(s)
    BY <1>1
  <2> QED BY <1>3, <2>1, <2>2
<1> QED BY <1>1, <1>2, <1>3, <1>4 DEF Numbers

\* Two stretches of the loop put together.
LEMMA Joined ==
    ASSUME NEW u \in Seq(Nat), NEW v \in Seq(Nat), NEW c \in Nat,
           Climbs(u, c), Climbs(v, c), Under(u, v)
    PROVE  /\ u \o v \in Seq(Nat) /\ Climbs(u \o v, c)
           /\ \A w : Under(u, w) /\ Under(v, w) => Under(u \o v, w)
<1>1. PICK t : t = u \o v
  OBVIOUS
<1>2. /\ t \in Seq(Nat) /\ Len(t) = Len(u) + Len(v)
      /\ \A i \in 1 .. Len(u) + Len(v) : t[i] = IF i <= Len(u) THEN u[i] ELSE v[i - Len(u)]
  BY <1>1, ConcatProperties
<1>3. Len(u) \in Nat /\ Len(v) \in Nat
  OBVIOUS
<1>4. ASSUME NEW i \in 1 .. Len(t)
      PROVE  \/ i \in 1 .. Len(u) /\ t[i] = u[i]
             \/ i > Len(u) /\ i - Len(u) \in 1 .. Len(v) /\ t[i] = v[i - Len(u)]
  BY <1>2, <1>3
<1>5. Climbs(t, c)
  <2> SUFFICES ASSUME NEW i \in 1 .. Len(t)
               PROVE  t[i] \in {c - 1, c} /\ \A j \in 1 .. i : t[j] <= t[i]
    BY DEF Climbs
  <2>1. \A j \in 1 .. i : j \in 1 .. Len(t)
    BY <1>2, <1>3
  <2>2. CASE i \in 1 .. Len(u) /\ t[i] = u[i]
    <3>1. u[i] \in {c - 1, c} /\ \A j \in 1 .. i : u[j] <= u[i]
      BY <2>2 DEF Climbs
    <3>2. \A j \in 1 .. i : t[j] = u[j]
      BY SMTT(30), <1>2, <1>3, <2>2
    <3> QED BY <2>2, <3>1, <3>2
  <2>3. CASE i > Len(u) /\ i - Len(u) \in 1 .. Len(v) /\ t[i] = v[i - Len(u)]
    <3>1. PICK k \in 1 .. Len(v) : k = i - Len(u)
      BY <2>3
    <3>2. v[k] \in {c - 1, c} /\ \A j \in 1 .. k : v[j] <= v[k]
      BY DEF Climbs
    <3>3. ASSUME NEW j \in 1 .. i PROVE t[j] <= t[i]
      <4>1. CASE j \in 1 .. Len(u) /\ t[j] = u[j]
        BY <2>3, <3>1, <4>1 DEF Under
      <4>2. CASE j > Len(u) /\ j - Len(u) \in 1 .. Len(v) /\ t[j] = v[j - Len(u)]
        <5>1. j - Len(u) \in 1 .. k
          BY <1>3, <3>1, <4>2
        <5> QED BY <2>3, <3>1, <3>2, <4>2, <5>1
      <4> QED BY <1>4, <2>1, <4>1, <4>2
    <3> QED BY <2>3, <3>1, <3>2, <3>3
  <2> QED BY <1>4, <2>2, <2>3
<1>6. ASSUME NEW w, Under(u, w), Under(v, w) PROVE Under(t, w)
  <2> SUFFICES ASSUME NEW i \in 1 .. Len(t), NEW j \in 1 .. Len(w) PROVE t[i] <= w[j]
    BY DEF Under
  <2> QED BY <1>4, <1>6 DEF Under
<1> QED BY <1>1, <1>2, <1>5, <1>6

\* The numbers around the loop stay in order and at most one behind the
\* translator's count, and at most one reading is out, as the benchmarker
\* knows: for every bound, and whatever the faults of Empty.
THEOREM NumbersStayInOrder == Spec => []SeqWindow
<1>1. LoopInv => SeqWindow
  <2> SUFFICES ASSUME LoopInv PROVE SeqWindow
    OBVIOUS
  <2>1. PICK c \in Nat : c = trans.seq_count
    BY DEF LoopInv, ScanInv, Types, TransRecs
  <2>2. /\ toBench \in Seq(Readings) /\ toEmpty \in Seq(Readings)
        /\ toTrans \in Seq(Commands) /\ fromEmpty \in Seq(Commands)
        /\ InOrder(toTrans, fromEmpty, toEmpty, toBench, c)
    BY <2>1 DEF LoopInv, ScanInv, Types
  <2>3. PICK a, b, d, e : /\ a = Numbers(toTrans) /\ b = Numbers(fromEmpty)
                          /\ d = Numbers(toEmpty) /\ e = Numbers(toBench)
    OBVIOUS
  <2>4. /\ a \in Seq(Nat) /\ Len(a) = Len(toTrans) /\ Climbs(a, c)
        /\ \A i \in 1 .. Len(a) : a[i] = toTrans[i].seq_count
    BY <2>2, <2>3, OfNumbers, Counts DEF InOrder
  <2>5. /\ b \in Seq(Nat) /\ Len(b) = Len(fromEmpty) /\ Climbs(b, c)
        /\ \A i \in 1 .. Len(b) : b[i] = fromEmpty[i].seq_count
    BY <2>2, <2>3, OfNumbers, Counts DEF InOrder
  <2>6. /\ d \in Seq(Nat) /\ Len(d) = Len(toEmpty) /\ Climbs(d, c)
        /\ \A i \in 1 .. Len(d) : d[i] = toEmpty[i].seq_count
    BY <2>2, <2>3, OfNumbers, Counts DEF InOrder
  <2>7. /\ e \in Seq(Nat) /\ Len(e) = Len(toBench) /\ Climbs(e, c)
        /\ \A i \in 1 .. Len(e) : e[i] = toBench[i].seq_count
    BY <2>2, <2>3, OfNumbers, Counts DEF InOrder
  <2>8. /\ Under(a, b) /\ Under(a, d) /\ Under(a, e)
        /\ Under(b, d) /\ Under(b, e) /\ Under(d, e)
    BY SMTT(30), <2>2, <2>4, <2>5, <2>6, <2>7 DEF InOrder, Before, Under
  <2>9. /\ a \o b \in Seq(Nat) /\ Climbs(a \o b, c)
        /\ Under(a \o b, d) /\ Under(a \o b, e)
    BY <2>4, <2>5, <2>8, Joined
  <2>10. (a \o b) \o d \in Seq(Nat) /\ Climbs((a \o b) \o d, c) /\ Under((a \o b) \o d, e)
    BY <2>6, <2>8, <2>9, Joined
  <2>11. PICK l : l = ((a \o b) \o d) \o e
    OBVIOUS
  <2>12. l \in Seq(Nat) /\ Climbs(l, c)
    BY <2>7, <2>10, <2>11, Joined
  <2>13. AroundTheLoop = l /\ DOMAIN l = 1 .. Len(l)
    BY <2>3, <2>11, <2>12 DEF AroundTheLoop
  <2>14. \A i \in DOMAIN l : l[i] \in {c - 1, c} /\ \A j \in 1 .. i : l[j] <= l[i]
    BY <2>12, <2>13 DEF Climbs
  <2> QED BY <2>1, <2>13, <2>14 DEF SeqWindow, LoopInv, OneOut
<1> QED BY <1>1, LoopInit, LoopNext, PTL DEF Spec
=============================================================================
