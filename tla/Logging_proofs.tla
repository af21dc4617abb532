--------------------------- MODULE Logging_proofs ---------------------------
(***************************************************************************)
(* Proofs about Logging, for every number of lives, readings, poses and    *)
(* kills: Logger never blocks in the middle of a message, and the lines it *)
(* writes before the goal tell how the robot moved.                        *)
(***************************************************************************)
EXTENDS Logging, SequenceTheorems, TLAPS

-----------------------------------------------------------------------------
(***************************************************************************)
(* The messages on their way.                                              *)
(***************************************************************************)

\* What a pipe carries.
Parts == [part : {"length", "text"}, of : Nat]
LengthOf(k) == [part |-> "length", of |-> k]
TextOf(k)   == [part |-> "text", of |-> k]

\* Pipe s holds the messages of ks whole, or (gone = 1) all but the length of
\* the first, which has been read.
Holds(s, gone, ks) ==
    /\ ks \in Seq(Nat)
    /\ Len(s) = 2 * Len(ks) - gone
    /\ \A i \in 1 .. Len(ks) :
         /\ 2 * i - gone > 1 => s[2 * i - 1 - gone] = LengthOf(ks[i])
         /\ s[2 * i - gone] = TextOf(ks[i])

\* Nothing but whole messages is under way.
Whole(s) == \E ks \in Seq(Nat) : Holds(s, 0, ks)

\* What is left of the message whose length is k, and whole messages.
HalfOf(s, k) == \E ks \in Seq(Nat) : ks # <<>> /\ ks[1] = k /\ Holds(s, 1, ks)

\* Where Logger is.
LoggerRecs == [pc : {"select", "data", "length", "text"}, ready : SUBSET {"data", "msg"},
               length : Nat]

\* Logger stands between two messages, or in the middle of the first one.
PipeInv ==
    /\ life \in Nat
    /\ logger \in LoggerRecs
    /\ repPipe \in Seq(Parts) /\ msgPipe \in Seq(Parts)
    /\ Whole(repPipe)
    /\ logger.pc = "text" => HalfOf(msgPipe, logger.length) /\ logger.ready = {}
    /\ logger.pc # "text" => Whole(msgPipe)
    /\ logger.pc = "length" \/ "msg" \in logger.ready => msgPipe # <<>>

-----------------------------------------------------------------------------
(***************************************************************************)
(* The lines.                                                              *)
(***************************************************************************)

\* In a trace s of poses, k is the last time before n that the robot moved.
MovedAt(s, n, k) ==
    /\ k \in 1 .. n - 1
    /\ k = 1 \/ s[k] # s[k - 1]
    /\ \A j \in k + 1 .. n - 1 : s[j] = s[j - 1]

\* The goal is not among the first n poses of s.
BeforeGoal(s, n) == \A i \in 1 .. n : s[i] # Goal

\* A line e about trace s is right.
RowRight(s, e) ==
    /\ e.n \in 1 .. Len(s)
    /\ BeforeGoal(s, e.n) =>
         /\ e.n > 1 /\ e.from = s[e.n - 1] /\ e.to = s[e.n]
         /\ \E k \in Nat : /\ MovedAt(s, e.n, k)
                           /\ e.rounds = IF e.from = e.to THEN 0 ELSE e.n - k

\* Lines of the file.
Lines == [type : {"message"}, of : Nat]
           \cup [type : {"row"}, from : Poses, to : Poses, rounds : Int, n : Nat]

\* What command() keeps; prev is no pose before the first reading.
RunRecs == [finished : BOOLEAN, first : BOOLEAN,
            prev : Poses \cup {CHOOSE p \in Poses : p # Goal}, time_elapsed : Int]

\* command() remembers the last pose and, up to the goal, how long ago the
\* robot moved.
RowInv ==
    /\ dataPipe \in Seq(Poses) /\ seen \in Seq(Poses) /\ log \in Seq(Lines)
    /\ run \in RunRecs
    /\ logger.pc = "data" => dataPipe # <<>>
    /\ run.first <=> seen = <<>>
    /\ seen # <<>> => run.prev = seen[Len(seen)]
    /\ seen = <<>> => run.time_elapsed = 0
    /\ seen # <<>> /\ BeforeGoal(seen, Len(seen)) =>
         \E k \in Nat : MovedAt(seen, Len(seen) + 1, k) /\ run.time_elapsed = Len(seen) - k
    /\ \A i \in 1 .. Len(log) : log[i].type = "row" => RowRight(seen, log[i])

-----------------------------------------------------------------------------
(***************************************************************************)
(* Logger never blocks inside a message.                                   *)
(***************************************************************************)

\* An empty pipe holds no message.
LEMMA EmptyWhole == Whole(<<>>)
<1>1. <<>> \in Seq(Nat) /\ Len(<<>>) = 0
  BY EmptySeq
<1>2. Holds(<<>>, 0, <<>>)
  BY <1>1 DEF Holds
<1> QED BY <1>1, <1>2 DEF Whole

\* A message as it is written is whole.
LEMMA MessageWhole ==
    ASSUME NEW k \in Nat
    PROVE  Message(k) \in Seq(Parts) /\ Whole(Message(k))
<1>1. PICK s : s = Message(k)
  OBVIOUS
<1>2. s \in Seq(Parts) /\ Len(s) = 2 /\ s[1] = LengthOf(k) /\ s[2] = TextOf(k)
  BY <1>1 DEF Message, Parts, LengthOf, TextOf
<1>3. PICK ks : ks = <<k>>
  OBVIOUS
<1>4. ks \in Seq(Nat) /\ Len(ks) = 1 /\ ks[1] = k
  BY <1>3
<1>5. Holds(s, 0, ks)
  BY <1>2, <1>4 DEF Holds
<1> QED BY <1>1, <1>2, <1>4, <1>5 DEF Whole

\* Whole messages behind others.
LEMMA HoldsConcat ==
    ASSUME NEW s \in Seq(Parts), NEW gone \in 0 .. 1, NEW ks, Holds(s, gone, ks),
           gone = 1 => ks # <<>>,
           NEW t \in Seq(Parts), NEW ls, Holds(t, 0, ls)
    PROVE  /\ Holds(s \o t, gone, ks \o ls)
           /\ ks # <<>> => ks \o ls # <<>> /\ (ks \o ls)[1] = ks[1]
<1>1. ks \in Seq(Nat) /\ ls \in Seq(Nat) /\ Len(ks) \in Nat /\ Len(ls) \in Nat
      /\ Len(s) = 2 * Len(ks) - gone /\ Len(t) = 2 * Len(ls)
      /\ Len(s) \in Nat /\ Len(t) \in Nat
  BY LenProperties DEF Holds
<1>2. PICK u : u = s \o t
  OBVIOUS
<1>3. PICK ms : ms = ks \o ls
  OBVIOUS
<1>4. /\ Len(u) = Len(s) + Len(t)
      /\ \A i \in 1 .. Len(s) + Len(t) : u[i] = IF i <= Len(s) THEN s[i] ELSE t[i - Len(s)]
  BY <1>2, ConcatProperties
<1>5. PICK a \in Nat, b \in Nat : a = Len(s) /\ b = Len(t)
  BY <1>1
<1>6.  /\ \A i \in 1 .. a : u[i] = s[i]
       /\ \A i \in 1 .. b : u[a + i] = t[i]
  <2>1. \A i \in 1 .. a + b : u[i] = IF i <= a THEN s[i] ELSE t[i - a]
    BY <1>4, <1>5
  <2>2. ASSUME NEW i \in 1 .. a PROVE u[i] = s[i]
    BY <2>1
  <2>3. ASSUME NEW i \in 1 .. b PROVE u[a + i] = t[i]
    <3>1. a + i \in 1 .. a + b /\ ~(a + i <= a) /\ (a + i) - a = i
      OBVIOUS
    <3> QED BY <2>1, <3>1
  <2> QED BY <2>2, <2>3
<1>7. /\ ms \in Seq(Nat) /\ Len(ms) = Len(ks) + Len(ls)
      /\ \A i \in 1 .. Len(ks) + Len(ls) : ms[i] = IF i <= Len(ks) THEN ks[i] ELSE ls[i - Len(ks)]
  BY <1>1, <1>3, ConcatProperties
<1>8. ASSUME NEW i \in 1 .. Len(ms)
      PROVE  /\ 2 * i - gone > 1 => u[2 * i - 1 - gone] = LengthOf(ms[i])
             /\ u[2 * i - gone] = TextOf(ms[i])
  <2>1. PICK n \in Int : n = 2 * i - gone
    <3>1. i \in Int /\ gone \in Int
      BY <1>1, <1>7
    <3>2. 2 * i - gone \in Int
      BY <3>1
    <3> QED BY <3>2
  <2>2. 2 * i - 1 - gone = n - 1
    BY <2>1
  <2>3. CASE i <= Len(ks)
    <3>1. ms[i] = ks[i] /\ i \in 1 .. Len(ks)
      BY <1>1, <1>7, <2>3
    <3>2. n \in 1 .. Len(s) /\ (n > 1 => n - 1 \in 1 .. Len(s))
      BY SMTT(30), <1>1, <2>1, <3>1
    <3>3. u[n] = s[n] /\ (n > 1 => u[n - 1] = s[n - 1])
      BY <1>5, <1>6, <3>2
    <3>4. s[n] = TextOf(ks[i]) /\ (n > 1 => s[n - 1] = LengthOf(ks[i]))
      BY <2>1, <2>2, <3>1 DEF Holds
    <3> QED BY <2>1, <2>2, <3>1, <3>3, <3>4
  <2>4. CASE i > Len(ks)
    <3>1. PICK j \in 1 .. Len(ls) : j = i - Len(ks)
      BY <1>1, <1>7, <2>4
    <3>2. ms[i] = ls[j]
      BY <1>1, <1>7, <2>4, <3>1
    <3>3. PICK m \in Int : m = 2 * j
      OBVIOUS
    <3>4. n = a + m /\ n - 1 = a + (m - 1) /\ m \in 1 .. b /\ m - 1 \in 1 .. b
      <4>1. PICK c \in Nat, d \in Nat : c = Len(ks) /\ d = Len(ls)
        BY <1>1
      <4>2. /\ a = 2 * c - gone /\ b = 2 * d /\ n = 2 * i - gone /\ j = i - c /\ m = 2 * j
            /\ j \in 1 .. d /\ i \in Int /\ gone \in Int
        BY <1>1, <1>7, <1>5, <2>1, <3>1, <3>3, <4>1
      <4> QED BY <4>2
    <3>5. u[n] = t[m] /\ u[n - 1] = t[m - 1]
      BY <1>6, <3>4
    <3>6. t[m] = TextOf(ls[j]) /\ t[m - 1] = LengthOf(ls[j])
      <4>1. 2 * j - 0 = m /\ 2 * j - 1 - 0 = m - 1 /\ 2 * j - 0 > 1
        BY <3>1, <3>3
      <4>2. /\ 2 * j - 0 > 1 => t[2 * j - 1 - 0] = LengthOf(ls[j])
            /\ t[2 * j - 0] = TextOf(ls[j])
        BY <3>1 DEF Holds
      <4> QED BY <4>1, <4>2
    <3> QED BY <2>1, <2>2, <3>2, <3>5, <3>6
  <2> QED BY <1>1, <1>7, <2>3, <2>4
<1>9. Holds(u, gone, ms)
  BY <1>1, <1>4, <1>7, <1>8 DEF Holds
<1>10. ks # <<>> => ms # <<>> /\ ms[1] = ks[1]
  <2> SUFFICES ASSUME ks # <<>> PROVE ms # <<>> /\ ms[1] = ks[1]
    OBVIOUS
  <2>1. Len(ks) > 0
    BY <1>1, EmptySeq
  <2> QED BY SMTT(30), <1>1, <1>7, <2>1, EmptySeq
<1> QED BY <1>2, <1>3, <1>9, <1>10

\* Two pipes of whole messages, one behind the other.
LEMMA WholeConcat ==
    ASSUME NEW s \in Seq(Parts), NEW t \in Seq(Parts), Whole(t)
    PROVE  /\ Whole(s) => Whole(s \o t)
           /\ \A k : HalfOf(s, k) => HalfOf(s \o t, k)
<1>1. PICK ls \in Seq(Nat) : Holds(t, 0, ls)
  BY DEF Whole
<1>2. ASSUME Whole(s) PROVE Whole(s \o t)
  <2>1. PICK ks \in Seq(Nat) : Holds(s, 0, ks)
    BY <1>2 DEF Whole
  <2>2. Holds(s \o t, 0, ks \o ls)
    BY <1>1, <2>1, HoldsConcat
  <2> QED BY <2>2 DEF Whole, Holds
<1>3. ASSUME NEW k, HalfOf(s, k) PROVE HalfOf(s \o t, k)
  <2>1. PICK ks \in Seq(Nat) : ks # <<>> /\ ks[1] = k /\ Holds(s, 1, ks)
    BY <1>3 DEF HalfOf
  <2>2. Holds(s \o t, 1, ks \o ls) /\ ks \o ls # <<>> /\ (ks \o ls)[1] = k
    BY <1>1, <2>1, HoldsConcat
  <2> QED BY <2>2 DEF HalfOf, Holds
<1> QED BY <1>2, <1>3

\* In front of whole messages is a length, and behind it its text.
LEMMA WholeTail ==
    ASSUME NEW s \in Seq(Parts), Whole(s), s # <<>>
    PROVE  /\ Head(s).part = "length" /\ Head(s).of \in Nat
           /\ Tail(s) \in Seq(Parts) /\ HalfOf(Tail(s), Head(s).of)
<1>1. PICK ks \in Seq(Nat) : Holds(s, 0, ks)
  BY DEF Whole
<1>2. Len(s) = 2 * Len(ks) /\ Len(ks) \in Nat /\ Len(s) > 0 /\ Len(s) \in Nat
  BY <1>1, EmptySeq, LenProperties DEF Holds
<1>3. PICK t : t = Tail(s)
  OBVIOUS
<1>4. /\ t \in Seq(Parts) /\ Head(s) = s[1] /\ Len(t) = Len(s) - 1
      /\ \A i \in 1 .. Len(t) : t[i] = s[i + 1]
  BY <1>3, HeadTailProperties
<1>5. \A i \in 1 .. Len(ks) : s[2 * i - 1] = LengthOf(ks[i]) /\ s[2 * i] = TextOf(ks[i])
  BY <1>1, <1>2 DEF Holds
<1>6. s[1] = LengthOf(ks[1]) /\ ks[1] \in Nat /\ ks # <<>>
  <2>1. 1 \in 1 .. Len(ks) /\ 2 * 1 - 1 = 1
    BY <1>2
  <2>2. s[2 * 1 - 1] = LengthOf(ks[1])
    BY <1>5, <2>1
  <2> QED BY <2>1, <2>2, ElementOfSeq, EmptySeq
<1>7. Holds(t, 1, ks)
  <2>1. ASSUME NEW i \in 1 .. Len(ks)
        PROVE  /\ 2 * i - 1 > 1 => t[2 * i - 1 - 1] = LengthOf(ks[i])
               /\ t[2 * i - 1] = TextOf(ks[i])
    <3>1. 2 * i - 1 \in 1 .. Len(t) /\ (2 * i - 1) + 1 = 2 * i
      BY <1>2, <1>4
    <3>2. t[2 * i - 1] = s[2 * i]
      BY <1>4, <3>1
    <3>3. ASSUME 2 * i - 1 > 1 PROVE t[2 * i - 1 - 1] = s[2 * i - 1]
      <4>1. 2 * i - 1 - 1 \in 1 .. Len(t) /\ (2 * i - 1 - 1) + 1 = 2 * i - 1
        BY <1>2, <1>4, <3>3
      <4> QED BY <1>4, <4>1
    <3> QED BY <1>5, <3>2, <3>3
  <2> QED BY <1>2, <1>4, <2>1 DEF Holds
<1>8. Head(s).part = "length" /\ Head(s).of = ks[1]
  BY <1>4, <1>6 DEF LengthOf
<1>9. HalfOf(t, ks[1])
  BY <1>6, <1>7 DEF HalfOf
<1> QED BY <1>3, <1>4, <1>6, <1>8, <1>9

\* Once the length is read the text is there, and behind it whole messages.
LEMMA HalfTail ==
    ASSUME NEW s \in Seq(Parts), NEW k, HalfOf(s, k)
    PROVE  /\ s # <<>> /\ Head(s) = TextOf(k)
           /\ Tail(s) \in Seq(Parts) /\ Whole(Tail(s))
<1>1. PICK ks \in Seq(Nat) : ks # <<>> /\ ks[1] = k /\ Holds(s, 1, ks)
  BY DEF HalfOf
<1>2. Len(s) = 2 * Len(ks) - 1 /\ Len(ks) \in Nat /\ Len(ks) > 0 /\ Len(s) \in Nat
  BY <1>1, EmptySeq, LenProperties DEF Holds
<1>3. s # <<>>
  BY <1>2, EmptySeq
<1>4. PICK t : t = Tail(s)
  OBVIOUS
<1>5. /\ t \in Seq(Parts) /\ Head(s) = s[1] /\ Len(t) = Len(s) - 1
      /\ \A i \in 1 .. Len(t) : t[i] = s[i + 1]
  BY <1>3, <1>4, HeadTailProperties
<1>6. PICK ls : ls = Tail(ks)
  OBVIOUS
<1>7. /\ ls \in Seq(Nat) /\ Len(ls) = Len(ks) - 1
      /\ \A i \in 1 .. Len(ls) : ls[i] = ks[i + 1]
  BY <1>1, <1>6, HeadTailProperties
<1>8. \A i \in 1 .. Len(ks) : /\ 2 * i - 1 > 1 => s[2 * i - 1 - 1] = LengthOf(ks[i])
                              /\ s[2 * i - 1] = TextOf(ks[i])
  BY <1>1 DEF Holds
<1>9. Head(s) = TextOf(k)
  <2>1. 1 \in 1 .. Len(ks) /\ 2 * 1 - 1 = 1
    BY <1>2
  <2>2. s[2 * 1 - 1] = TextOf(ks[1])
    BY <1>8, <2>1
  <2> QED BY <1>1, <1>5, <2>1, <2>2
<1>10. Holds(t, 0, ls)
  <2>1. ASSUME NEW i \in 1 .. Len(ls)
        PROVE  t[2 * i - 1 - 0] = LengthOf(ls[i]) /\ t[2 * i - 0] = TextOf(ls[i])
    <3>1. PICK j \in 1 .. Len(ks) : j = i + 1
      BY <1>2, <1>7
    <3>2. s[2 * j - 1 - 1] = LengthOf(ks[j]) /\ s[2 * j - 1] = TextOf(ks[j])
      BY <1>8, <3>1
    <3>3. ls[i] = ks[j]
      BY <1>7, <3>1
    <3>4. /\ 2 * i - 1 - 0 \in 1 .. Len(t) /\ (2 * i - 1 - 0) + 1 = 2 * j - 1 - 1
          /\ 2 * i - 0 \in 1 .. Len(t) /\ (2 * i - 0) + 1 = 2 * j - 1
      BY <1>2, <1>5, <1>7, <3>1
    <3>5. t[2 * i - 1 - 0] = s[2 * j - 1 - 1] /\ t[2 * i - 0] = s[2 * j - 1]
      BY <1>5, <3>4
    <3> QED BY <3>2, <3>3, <3>5
  <2>2. Len(t) = 2 * Len(ls) - 0
    BY <1>2, <1>5, <1>7
  <2> QED BY <1>7, <2>1, <2>2 DEF Holds
<1> QED BY <1>3, <1>4, <1>5, <1>7, <1>9, <1>10 DEF Whole

\* Nothing is under way at the start.
LEMMA PipeInit == Init => PipeInv
<1> SUFFICES ASSUME Init PROVE PipeInv
  OBVIOUS
<1>1. repPipe = <<>> /\ msgPipe = <<>> /\ repPipe \in Seq(Parts) /\ msgPipe \in Seq(Parts)
  BY EmptySeq DEF Init
<1>2. logger \in LoggerRecs /\ logger.pc = "select" /\ logger.ready = {} /\ life \in Nat
  BY DEF Init, LoggerRecs
<1> QED BY <1>1, <1>2, EmptyWhole DEF PipeInv

\* The steps of Load and of its voter: messages are written and passed on
\* whole, and what a restart throws away is whole messages.
LEMMA PipeVoter == PipeInv /\ (Load \/ Kill \/ VoterS) => PipeInv'
<1> SUFFICES ASSUME PipeInv, Load \/ Kill \/ VoterS PROVE PipeInv'
  OBVIOUS
<1>1. UNCHANGED logger
  BY DEF Load, PerCycle, Exit, Kill, VoterS, Accept, WaitPid, DoOneUpdate, gvars
<1>2. /\ life \in Nat /\ logger \in LoggerRecs
      /\ repPipe \in Seq(Parts) /\ msgPipe \in Seq(Parts) /\ Whole(repPipe)
      /\ logger.pc = "text" => HalfOf(msgPipe, logger.length) /\ logger.ready = {}
      /\ logger.pc # "text" => Whole(msgPipe)
      /\ logger.pc = "length" \/ "msg" \in logger.ready => msgPipe # <<>>
  BY DEF PipeInv
<1>3. CASE PerCycle
  <2>1. UNCHANGED <<life, msgPipe>> /\ (repPipe' = repPipe \/ repPipe' = repPipe \o Message(life))
    BY <1>3 DEF PerCycle, Write
  <2>2. Message(life) \in Seq(Parts) /\ Whole(Message(life))
    BY <1>2, MessageWhole
  <2>3. repPipe \o Message(life) \in Seq(Parts) /\ Whole(repPipe \o Message(life))
    BY <1>2, <2>2, WholeConcat, ConcatProperties
  <2>4. repPipe' \in Seq(Parts) /\ Whole(repPipe')
    BY <1>2, <2>1, <2>3
  <2> QED BY <1>1, <1>2, <2>1, <2>4 DEF PipeInv
<1>4. CASE Exit \/ Kill \/ Accept
  BY <1>1, <1>2, <1>4 DEF Exit, Kill, Accept, PipeInv
<1>5. CASE WaitPid
  <2>1. UNCHANGED msgPipe /\ life' \in Nat /\ (repPipe' = repPipe \/ repPipe' = <<>>)
    BY <1>2, <1>5 DEF WaitPid, VoterRestartHandler
  <2>2. repPipe' \in Seq(Parts) /\ Whole(repPipe')
    BY <1>2, <2>1, EmptyWhole, EmptySeq
  <2> QED BY <1>1, <1>2, <2>1, <2>2 DEF PipeInv
<1>6. CASE DoOneUpdate
  <2>1. UNCHANGED life /\ repPipe' = <<>> /\ msgPipe' = msgPipe \o repPipe
    BY <1>6 DEF DoOneUpdate, Forwarded
  <2>2. repPipe' \in Seq(Parts) /\ Whole(repPipe')
    BY <2>1, EmptyWhole, EmptySeq
  <2>3. msgPipe' \in Seq(Parts)
    BY <1>2, <2>1, ConcatProperties
  <2>4. /\ logger.pc = "text" => HalfOf(msgPipe', logger.length)
        /\ logger.pc # "text" => Whole(msgPipe')
    BY <1>2, <2>1, WholeConcat
  <2>5. msgPipe # <<>> => msgPipe' # <<>>
    BY <1>2, <2>1, ConcatEqualIffEmpty
  <2> QED BY <1>1, <1>2, <2>1, <2>2, <2>3, <2>4, <2>5 DEF PipeInv
<1> QED BY <1>3, <1>4, <1>5, <1>6 DEF Load, VoterS

\* The steps of Logger.
LEMMA PipeLogger == PipeInv /\ (Filter \/ Logger) => PipeInv'
<1> SUFFICES ASSUME PipeInv, Filter \/ Logger PROVE PipeInv'
  OBVIOUS
<1>1. UNCHANGED <<life, repPipe>>
  BY DEF Filter, Logger, Select, Command, RecvLength, RecvText, lvars
<1>2. /\ life \in Nat /\ logger \in LoggerRecs
      /\ repPipe \in Seq(Parts) /\ msgPipe \in Seq(Parts) /\ Whole(repPipe)
      /\ logger.pc = "text" => HalfOf(msgPipe, logger.length) /\ logger.ready = {}
      /\ logger.pc # "text" => Whole(msgPipe)
      /\ logger.pc = "length" \/ "msg" \in logger.ready => msgPipe # <<>>
  BY DEF PipeInv
<1>3. CASE Filter
  BY <1>1, <1>2, <1>3 DEF Filter, PipeInv, gvars
<1>4. CASE Select
  <2>1. PICK R : /\ R = {f \in {"data", "msg"} :
                           IF f = "data" THEN dataPipe # <<>> ELSE msgPipe # <<>>}
                 /\ R # {}
                 /\ logger' = [logger EXCEPT !.ready = R \ {"data"},
                                  !.pc = IF "data" \in R THEN "data" ELSE "length"]
    BY <1>4 DEF Select
  <2>2. PICK Q \in SUBSET {"data", "msg"}, p \in {"data", "length"} :
          /\ Q = R \ {"data"} /\ p = IF "data" \in R THEN "data" ELSE "length"
    BY <2>1
  <2>3. logger' = [logger EXCEPT !.ready = Q, !.pc = p]
    BY <2>1, <2>2
  <2>4. logger' \in LoggerRecs /\ logger'.ready = Q /\ logger'.pc = p
    BY <1>2, <2>3 DEF LoggerRecs
  <2>5. p = "length" \/ "msg" \in Q => msgPipe # <<>>
    BY <2>1, <2>2
  <2>6. Whole(msgPipe) /\ UNCHANGED msgPipe /\ p # "text"
    BY <1>2, <1>4, <2>2 DEF Select
  <2> QED BY <1>1, <1>2, <2>4, <2>5, <2>6 DEF PipeInv
<1>5. CASE Command
  <2>1. PICK p \in {"length", "select"} : p = IF "msg" \in logger.ready THEN "length" ELSE "select"
    OBVIOUS
  <2>2. logger' = [logger EXCEPT !.pc = p, !.ready = {}]
    BY <1>5, <2>1 DEF Command
  <2>3. logger' \in LoggerRecs /\ logger'.ready = {} /\ logger'.pc = p
    BY <1>2, <2>2 DEF LoggerRecs
  <2>4. Whole(msgPipe) /\ UNCHANGED msgPipe /\ p # "text" /\ (p = "length" => msgPipe # <<>>)
    BY <1>2, <1>5, <2>1 DEF Command
  <2> QED BY <1>1, <1>2, <2>3, <2>4 DEF PipeInv
<1>6. CASE RecvLength
  <2>1. /\ Whole(msgPipe) /\ msgPipe # <<>> /\ msgPipe' = Tail(msgPipe)
        /\ logger' = [logger EXCEPT !.pc = "text", !.length = Head(msgPipe).of, !.ready = {}]
    BY <1>2, <1>6 DEF RecvLength
  <2>2. PICK k : k = Head(msgPipe).of
    OBVIOUS
  <2>3. k \in Nat /\ msgPipe' \in Seq(Parts) /\ HalfOf(msgPipe', k)
    BY <1>2, <2>1, <2>2, WholeTail
  <2>4. logger' = [logger EXCEPT !.pc = "text", !.length = k, !.ready = {}]
    BY <2>1, <2>2
  <2>5. logger' \in LoggerRecs /\ logger'.pc = "text" /\ logger'.length = k /\ logger'.ready = {}
    BY <1>2, <2>3, <2>4 DEF LoggerRecs
  <2> QED BY <1>1, <1>2, <2>3, <2>5 DEF PipeInv
<1>7. CASE RecvText
  <2>1. /\ HalfOf(msgPipe, logger.length) /\ msgPipe' = Tail(msgPipe)
        /\ logger' = [logger EXCEPT !.pc = "select", !.length = 0]
        /\ logger.ready = {}
    BY <1>2, <1>7 DEF RecvText
  <2>2. msgPipe' \in Seq(Parts) /\ Whole(msgPipe')
    BY <1>2, <2>1, HalfTail
  <2>3. logger' \in LoggerRecs /\ logger'.pc = "select" /\ logger'.ready = {}
    BY <1>2, <2>1 DEF LoggerRecs
  <2> QED BY <1>1, <1>2, <2>2, <2>3 DEF PipeInv
<1> QED BY <1>3, <1>4, <1>5, <1>6, <1>7 DEF Logger

\* Every step keeps the messages whole.
LEMMA PipeNext == PipeInv /\ [Next]_vars => PipeInv'
<1>1. PipeInv /\ UNCHANGED vars => PipeInv'
  BY DEF PipeInv, vars
<1> QED BY <1>1, PipeVoter, PipeLogger DEF Next

\* Whole messages are what Logger needs.
LEMMA PipeText == PipeInv => TextFollows
<1> SUFFICES ASSUME PipeInv PROVE TextFollows
  OBVIOUS
<1>1. msgPipe \in Seq(Parts)
  BY DEF PipeInv
<1>2. logger.pc = "length" => msgPipe # <<>> /\ Head(msgPipe).part = "length"
  BY <1>1, WholeTail DEF PipeInv
<1>3. logger.pc = "text" => msgPipe # <<>> /\ Head(msgPipe) = TextOf(logger.length)
  BY <1>1, HalfTail DEF PipeInv
<1> QED BY <1>2, <1>3 DEF TextFollows, TextOf

-----------------------------------------------------------------------------
(***************************************************************************)
(* The lines tell how the robot moved.                                     *)
(***************************************************************************)

\* There is one last move.
LEMMA OneLastMove ==
    ASSUME NEW s, NEW n \in Nat, NEW k, MovedAt(s, n, k), NEW l, MovedAt(s, n, l)
    PROVE  k = l
<1>1. k \in 1 .. n - 1 /\ l \in 1 .. n - 1
  BY DEF MovedAt
<1>2. ASSUME NEW a \in 1 .. n - 1, NEW b \in 1 .. n - 1, a < b, MovedAt(s, n, a), MovedAt(s, n, b)
      PROVE  FALSE
  <2>1. b # 1 /\ b \in a + 1 .. n - 1
    BY <1>2
  <2>2. s[b] # s[b - 1] /\ s[b] = s[b - 1]
    BY <1>2, <2>1 DEF MovedAt
  <2> QED BY <2>2
<1> QED BY <1>1, <1>2

\* The last move before n is a matter of the poses before n.
LEMMA MovedBefore ==
    ASSUME NEW s, NEW t, NEW n \in Nat, \A i \in 1 .. n - 1 : t[i] = s[i],
           NEW k, MovedAt(s, n, k)
    PROVE  MovedAt(t, n, k)
<1>1. /\ k \in 1 .. n - 1
      /\ k = 1 \/ s[k] # s[k - 1]
      /\ \A j \in k + 1 .. n - 1 : s[j] = s[j - 1]
  BY DEF MovedAt
<1>2. k = 1 \/ t[k] # t[k - 1]
  BY <1>1
<1>3. ASSUME NEW j \in k + 1 .. n - 1 PROVE t[j] = t[j - 1]
  <2>1. j \in 1 .. n - 1 /\ j - 1 \in 1 .. n - 1
    BY <1>1
  <2> QED BY <1>1, <2>1
<1> QED BY <1>1, <1>2, <1>3 DEF MovedAt

\* A reading more: the robot has stood still, or it moves now.
LEMMA MovedNext ==
    ASSUME NEW s \in Seq(Poses), s # <<>>, NEW p \in Poses, NEW t, t = Append(s, p),
           NEW k \in Nat, MovedAt(s, Len(s) + 1, k)
    PROVE  /\ MovedAt(t, Len(s) + 1, k)
           /\ p = s[Len(s)] => MovedAt(t, Len(t) + 1, k)
           /\ p # s[Len(s)] => MovedAt(t, Len(t) + 1, Len(t))
<1>1. PICK n \in Nat : n = Len(s) /\ n > 0
  BY EmptySeq, LenProperties
<1>2. Len(t) = n + 1 /\ t[n + 1] = p /\ \A i \in 1 .. n : t[i] = s[i]
  BY <1>1, AppendProperties
<1>3. /\ k \in 1 .. n /\ (k = 1 \/ s[k] # s[k - 1])
      /\ \A j \in k + 1 .. n : s[j] = s[j - 1]
  <2>1. (n + 1) - 1 = n
    BY <1>1
  <2> QED BY <1>1, <2>1 DEF MovedAt
<1>4. /\ k = 1 \/ t[k] # t[k - 1]
      /\ \A j \in k + 1 .. n : t[j] = t[j - 1]
  <2>1. ASSUME k # 1 PROVE t[k] # t[k - 1]
    <3>1. k - 1 \in 1 .. n
      BY <1>3, <2>1
    <3> QED BY <1>2, <1>3, <2>1, <3>1
  <2>2. ASSUME NEW j \in k + 1 .. n PROVE t[j] = t[j - 1]
    <3>1. j \in 1 .. n /\ j - 1 \in 1 .. n
      BY <1>3
    <3> QED BY <1>2, <1>3, <3>1
  <2> QED BY <2>1, <2>2
<1>5. (n + 1) - 1 = n /\ (n + 2) - 1 = n + 1 /\ (n + 1) + 1 = n + 2 /\ k + 1 \in Nat /\ n + 1 \in Nat
  BY <1>1
<1>6. MovedAt(t, n + 1, k)
  BY <1>3, <1>4, <1>5 DEF MovedAt
<1>7. ASSUME p = s[n] PROVE MovedAt(t, n + 2, k)
  <2>1. t[n + 1] = t[n] /\ n \in 1 .. n
    BY <1>1, <1>2, <1>7
  <2>2. ASSUME NEW j \in k + 1 .. n + 1 PROVE t[j] = t[j - 1]
    <3>1. j \in k + 1 .. n \/ (j = n + 1 /\ j - 1 = n)
      BY <1>1, <1>3
    <3> QED BY <1>4, <2>1, <3>1
  <2>3. k \in 1 .. n + 1
    BY <1>1, <1>3
  <2> QED BY <1>4, <1>5, <2>2, <2>3 DEF MovedAt
<1>8. ASSUME p # s[n] PROVE MovedAt(t, n + 2, n + 1)
  <2>1. t[n + 1] # t[(n + 1) - 1] /\ n + 1 \in 1 .. n + 1
    BY <1>1, <1>2, <1>5, <1>8
  <2>2. (n + 1) + 1 .. n + 1 = {}
    BY <1>1
  <2> QED BY <1>5, <2>1, <2>2 DEF MovedAt
<1> QED BY <1>1, <1>2, <1>5, <1>6, <1>7, <1>8

\* A line stays right when more is seen.
LEMMA RowStays ==
    ASSUME NEW s \in Seq(Poses), NEW p \in Poses, NEW t, t = Append(s, p),
           NEW e, RowRight(s, e)
    PROVE  RowRight(t, e)
<1>1. PICK n \in Nat : n = Len(s)
  BY LenProperties
<1>2. Len(t) = n + 1 /\ \A i \in 1 .. n : t[i] = s[i]
  BY <1>1, AppendProperties
<1>3. PICK m \in 1 .. n : m = e.n
  BY <1>1 DEF RowRight
<1>4. m \in 1 .. Len(t) /\ \A i \in 1 .. m : t[i] = s[i]
  BY <1>2, <1>3
<1>5. ASSUME BeforeGoal(t, m)
      PROVE  /\ m > 1 /\ e.from = t[m - 1] /\ e.to = t[m]
             /\ \E k \in Nat : MovedAt(t, m, k) /\ e.rounds = IF e.from = e.to THEN 0 ELSE m - k
  <2>1. BeforeGoal(s, m)
    BY <1>4, <1>5 DEF BeforeGoal
  <2>2. m > 1 /\ e.from = s[m - 1] /\ e.to = s[m]
    BY <1>3, <2>1 DEF RowRight
  <2>3. PICK k \in Nat : MovedAt(s, m, k) /\ e.rounds = IF e.from = e.to THEN 0 ELSE m - k
    BY <1>3, <2>1 DEF RowRight
  <2>4. m - 1 \in 1 .. m /\ m \in 1 .. m /\ \A i \in 1 .. m - 1 : i \in 1 .. m
    BY <1>3, <2>2
  <2>5. MovedAt(t, m, k)
    <3>1. m \in Nat /\ \A i \in 1 .. m - 1 : t[i] = s[i]
      BY <1>4, <2>4
    <3>2. MovedAt(s, m, k)
      BY <2>3
    <3> QED BY <3>1, <3>2, MovedBefore
  <2> QED BY <1>4, <2>2, <2>3, <2>4, <2>5
<1> QED BY <1>3, <1>4, <1>5 DEF RowRight

\* Nothing is seen at the start.
LEMMA RowInit == Init => RowInv
<1> SUFFICES ASSUME Init PROVE RowInv
  OBVIOUS
<1>1. seen = <<>> /\ log = <<>> /\ dataPipe = <<>> /\ Len(log) = 0
      /\ dataPipe \in Seq(Poses) /\ seen \in Seq(Poses) /\ log \in Seq(Lines)
  BY EmptySeq DEF Init
<1>2. run \in RunRecs /\ run.first = TRUE /\ run.time_elapsed = 0 /\ logger.pc = "select"
  BY DEF Init, RunRecs
<1> QED BY <1>1, <1>2 DEF RowInv

\* command() writes a right line, and remembers what the next one needs.
LEMMA RowCommand == RowInv /\ logger \in LoggerRecs /\ Command => RowInv'
<1> SUFFICES ASSUME RowInv, logger \in LoggerRecs, Command PROVE RowInv'
  OBVIOUS
<1>1. /\ dataPipe \in Seq(Poses) /\ seen \in Seq(Poses) /\ log \in Seq(Lines) /\ run \in RunRecs
      /\ dataPipe # <<>>
      /\ run.first <=> seen = <<>>
      /\ seen # <<>> => run.prev = seen[Len(seen)]
      /\ seen = <<>> => run.time_elapsed = 0
      /\ seen # <<>> /\ BeforeGoal(seen, Len(seen)) =>
           \E k \in Nat : MovedAt(seen, Len(seen) + 1, k) /\ run.time_elapsed = Len(seen) - k
      /\ \A i \in 1 .. Len(log) : log[i].type = "row" => RowRight(seen, log[i])
  BY DEF RowInv, Command
<1>2. PICK p \in Poses : p = Head(dataPipe)
  BY <1>1, HeadTailProperties
<1>3. dataPipe' = Tail(dataPipe) /\ dataPipe' \in Seq(Poses) /\ seen' = Append(seen, p)
  BY <1>1, <1>2, HeadTailProperties DEF Command
<1>4. PICK n \in Nat : n = Len(seen) /\ (seen # <<>> => n > 0) /\ (seen = <<>> => n = 0)
  BY <1>1, EmptySeq, LenProperties
<1>5. /\ seen' \in Seq(Poses) /\ seen' # <<>> /\ Len(seen') = n + 1 /\ seen'[n + 1] = p
      /\ \A i \in 1 .. n : seen'[i] = seen[i]
  BY <1>1, <1>3, <1>4, AppendProperties
<1>6. logger'.pc # "data"
  <2>1. PICK q \in {"length", "select"} : q = IF "msg" \in logger.ready THEN "length" ELSE "select"
    OBVIOUS
  <2>2. logger' = [logger EXCEPT !.pc = q, !.ready = {}]
    BY <2>1 DEF Command
  <2> QED BY <2>2 DEF LoggerRecs
<1>7.  /\ Elapsed(p) \in Int
       /\ (IF p = run.prev THEN 0 ELSE run.time_elapsed + 1) \in Int
  <2>1. run.time_elapsed \in Int
    BY <1>1 DEF RunRecs
  <2> QED BY <2>1 DEF Elapsed
<1>8. ~run'.first /\ run'.prev = p /\ run' \in RunRecs
  <2>1. PICK el \in Int : el = Elapsed(p)
    BY <1>7
  <2>2. CASE p = Goal
    BY ZenonT(30), <1>1, <1>2, <2>2 DEF Command, RunRecs
  <2>3. CASE p # Goal /\ run.first
    BY <1>1, <1>2, <2>3 DEF Command, RunRecs
  <2>4. CASE p # Goal /\ ~run.first
    <3>1. run' = [run EXCEPT !.prev = p, !.time_elapsed = el]
      BY <1>2, <2>1, <2>4 DEF Command
    <3>2. run' \in RunRecs /\ run'.prev = p /\ run'.first = run.first
      BY <1>1, <3>1 DEF RunRecs
    <3> QED BY <2>4, <3>2
  <2> QED BY <2>2, <2>3, <2>4
<1>9. BeforeGoal(seen', n + 1) => BeforeGoal(seen, n) /\ p # Goal
  BY <1>4, <1>5 DEF BeforeGoal
<1>10. ASSUME BeforeGoal(seen', n + 1)
       PROVE  \E k \in Nat : MovedAt(seen', (n + 1) + 1, k) /\ run'.time_elapsed = (n + 1) - k
  <2>1. BeforeGoal(seen, n) /\ p # Goal
    BY <1>9, <1>10
  <2>2. CASE seen = <<>>
    <3>1. run' = [run EXCEPT !.first = FALSE, !.prev = p]
      BY <1>1, <1>2, <2>1, <2>2 DEF Command
    <3>2. run'.time_elapsed = 0
      BY <1>1, <2>2, <3>1 DEF RunRecs
    <3>3. MovedAt(seen', (n + 1) + 1, 1)
      <4>1. n + 1 = 1 /\ ((n + 1) + 1) - 1 = 1 /\ 1 + 1 .. 1 = {}
        BY <1>4, <2>2
      <4> QED BY <4>1 DEF MovedAt
    <3>4. (n + 1) - 1 = 0
      BY <1>4, <2>2
    <3> QED BY <3>2, <3>3, <3>4
  <2>3. CASE seen # <<>>
    <3>1. PICK k \in Nat : MovedAt(seen, n + 1, k) /\ run.time_elapsed = n - k
      BY <1>1, <1>4, <2>1, <2>3
    <3>2. /\ p = seen[n] => MovedAt(seen', (n + 1) + 1, k)
          /\ p # seen[n] => MovedAt(seen', (n + 1) + 1, n + 1)
      BY ZenonT(30), <1>1, <1>3, <1>4, <1>5, <2>3, <3>1, MovedNext
    <3>3. run.prev = seen[n] /\ ~run.first
      BY <1>1, <1>4, <2>3
    <3>4. PICK el \in Int : el = Elapsed(p)
      BY <1>7
    <3>5. run' = [run EXCEPT !.prev = p, !.time_elapsed = el]
      BY <1>2, <2>1, <3>3, <3>4 DEF Command
    <3>6. run'.time_elapsed = el
      BY <1>1, <3>5 DEF RunRecs
    <3>7. CASE p = seen[n]
      <4>1. el = run.time_elapsed + 1
        BY <3>3, <3>4, <3>7 DEF Elapsed
      <4>2. run'.time_elapsed = (n + 1) - k
        BY <3>1, <3>6, <4>1
      <4> QED BY <3>2, <3>7, <4>2
    <3>8. CASE p # seen[n]
      <4>1. el = 0 /\ (n + 1) - (n + 1) = 0 /\ n + 1 \in Nat
        BY <3>3, <3>4, <3>8 DEF Elapsed
      <4> QED BY <3>2, <3>6, <3>8, <4>1
    <3> QED BY <3>7, <3>8
  <2> QED BY <2>2, <2>3
<1>11. \A i \in 1 .. Len(log) : log[i].type = "row" => RowRight(seen', log[i])
  BY <1>1, <1>2, <1>3, RowStays
<1>12. CASE p = Goal \/ run.first
  <2>1. UNCHANGED log
    BY <1>2, <1>12 DEF Command
  <2> QED BY <1>1, <1>3, <1>4, <1>5, <1>6, <1>8, <1>10, <1>11, <2>1 DEF RowInv
<1>13. CASE p # Goal /\ ~run.first
  <2>1. PICK rounds \in Int : rounds = IF p = run.prev THEN 0 ELSE run.time_elapsed + 1
    BY <1>7
  <2>2. PICK e : e = Row(run.prev, p, rounds)
    OBVIOUS
  <2>3. seen # <<>> /\ run.prev = seen[n] /\ n > 0
    BY <1>1, <1>4, <1>13
  <2>4. seen[n] \in Poses
    BY <1>1, <1>4, <2>3, ElementOfSeq
  <2>5. /\ e.type = "row" /\ e.from = seen[n] /\ e.to = p /\ e.rounds = rounds /\ e.n = n + 1
        /\ e \in Lines
    BY <1>4, <2>2, <2>3, <2>4 DEF Row, Lines
  <2>6. log' = Append(log, e)
    BY <1>2, <1>13, <2>1, <2>2 DEF Command
  <2>7. RowRight(seen', e)
    <3>1. ASSUME BeforeGoal(seen', n + 1)
          PROVE  \E k \in Nat : /\ MovedAt(seen', n + 1, k)
                                /\ e.rounds = IF e.from = e.to THEN 0 ELSE (n + 1) - k
      <4>1. PICK k \in Nat : MovedAt(seen, n + 1, k) /\ run.time_elapsed = n - k
        BY <1>1, <1>4, <1>9, <2>3, <3>1
      <4>2. MovedAt(seen', n + 1, k)
        BY <1>1, <1>3, <1>4, <2>3, <4>1, MovedNext
      <4>3. rounds = IF e.from = e.to THEN 0 ELSE (n + 1) - k
        BY <2>1, <2>3, <2>5, <4>1
      <4> QED BY <2>5, <4>2, <4>3
    <3>2. (n + 1) - 1 = n /\ n \in 1 .. n /\ n + 1 > 1 /\ n + 1 \in 1 .. n + 1
      BY <2>3
    <3>3. e.from = seen'[(n + 1) - 1] /\ e.to = seen'[n + 1]
      BY <1>5, <2>5, <3>2
    <3> QED BY <1>5, <2>5, <3>1, <3>2, <3>3 DEF RowRight
  <2>8. /\ log' \in Seq(Lines) /\ Len(log') = Len(log) + 1 /\ Len(log) \in Nat
        /\ log'[Len(log) + 1] = e /\ \A i \in 1 .. Len(log) : log'[i] = log[i]
    BY <1>1, <2>5, <2>6, AppendProperties, LenProperties
  <2>9. \A i \in 1 .. Len(log') : log'[i].type = "row" => RowRight(seen', log'[i])
    <3> SUFFICES ASSUME NEW i \in 1 .. Len(log'), log'[i].type = "row"
                 PROVE  RowRight(seen', log'[i])
      OBVIOUS
    <3>1. i \in 1 .. Len(log) \/ i = Len(log) + 1
      BY <2>8
    <3> QED BY <1>11, <2>7, <2>8, <3>1
  <2> QED BY <1>3, <1>4, <1>5, <1>6, <1>8, <1>10, <2>8, <2>9 DEF RowInv
<1> QED BY <1>12, <1>13

\* The other steps see no reading.
LEMMA RowOthers ==
    PipeInv /\ RowInv /\ (Load \/ Kill \/ VoterS \/ Filter \/ Select \/ RecvLength \/ RecvText)
      => RowInv'
<1> SUFFICES ASSUME PipeInv, RowInv,
                    Load \/ Kill \/ VoterS \/ Filter \/ Select \/ RecvLength \/ RecvText
             PROVE  RowInv'
  OBVIOUS
<1>1. logger \in LoggerRecs /\ msgPipe \in Seq(Parts)
  BY DEF PipeInv
<1>2. UNCHANGED <<run, seen>>
  BY DEF Load, PerCycle, Exit, Kill, VoterS, Accept, WaitPid, DoOneUpdate, Filter, Select,
         RecvLength, RecvText, gvars
<1>3. CASE Load \/ Kill \/ VoterS
  <2>1. UNCHANGED <<logger, log, dataPipe>>
    BY <1>3 DEF Load, PerCycle, Exit, Kill, VoterS, Accept, WaitPid, DoOneUpdate, gvars
  <2> QED BY <1>2, <2>1 DEF RowInv
<1>4. CASE Filter
  <2>1. UNCHANGED <<logger, log>> /\ dataPipe \in Seq(Poses)
    BY <1>4 DEF Filter, gvars, RowInv
  <2>2. PICK p \in Poses : dataPipe' = Append(dataPipe, p)
    BY <1>4 DEF Filter
  <2>3. dataPipe' \in Seq(Poses) /\ dataPipe' # <<>>
    BY <2>1, <2>2, AppendProperties
  <2> QED BY <1>2, <2>1, <2>3 DEF RowInv
<1>5. CASE Select
  <2>1. PICK R : /\ R = {f \in {"data", "msg"} :
                           IF f = "data" THEN dataPipe # <<>> ELSE msgPipe # <<>>}
                 /\ logger' = [logger EXCEPT !.ready = R \ {"data"},
                                  !.pc = IF "data" \in R THEN "data" ELSE "length"]
    BY <1>5 DEF Select
  <2>2. "data" \in R => dataPipe # <<>>
    BY <2>1
  <2>3. logger'.pc = IF "data" \in R THEN "data" ELSE "length"
    BY <1>1, <2>1 DEF LoggerRecs
  <2>4. UNCHANGED <<log, dataPipe>>
    BY <1>5 DEF Select
  <2> QED BY <1>2, <2>2, <2>3, <2>4 DEF RowInv
<1>6. CASE RecvLength
  <2>1. logger'.pc = "text" /\ UNCHANGED <<log, dataPipe>>
    BY <1>1, <1>6 DEF RecvLength, LoggerRecs
  <2> QED BY <1>2, <2>1 DEF RowInv
<1>7. CASE RecvText
  <2>1. logger'.pc = "select" /\ UNCHANGED dataPipe /\ msgPipe # <<>>
    BY <1>1, <1>7 DEF RecvText, LoggerRecs
  <2>2. PICK k : k = Head(msgPipe).of
    OBVIOUS
  <2>3. k \in Nat
    <3>1. Head(msgPipe) \in Parts
      BY <1>1, <2>1, HeadTailProperties
    <3> QED BY <2>2, <3>1 DEF Parts
  <2>4. PICK e : e = [type |-> "message", of |-> k]
    OBVIOUS
  <2>5. e \in Lines /\ e.type # "row"
    BY <2>3, <2>4 DEF Lines
  <2>6. log' = log \/ log' = Append(log, e)
    BY <1>7, <2>2, <2>4 DEF RecvText
  <2>7. log \in Seq(Lines) /\ \A i \in 1 .. Len(log) : log[i].type = "row" => RowRight(seen, log[i])
    BY DEF RowInv
  <2>8. /\ log' \in Seq(Lines)
        /\ \A i \in 1 .. Len(log') : log'[i].type = "row" => RowRight(seen, log'[i])
    <3>1. CASE log' = log
      BY <2>7, <3>1
    <3>2. CASE log' = Append(log, e)
      <4>1. PICK n \in Nat : n = Len(log)
        BY <2>7, LenProperties
      <4>2. /\ log' \in Seq(Lines) /\ Len(log') = n + 1 /\ log'[n + 1] = e
            /\ \A i \in 1 .. n : log'[i] = log[i]
        BY <2>5, <2>7, <3>2, <4>1, AppendProperties
      <4>3. \A i \in 1 .. n + 1 : i \in 1 .. n \/ i = n + 1
        OBVIOUS
      <4> QED BY <2>5, <2>7, <4>1, <4>2, <4>3
    <3> QED BY <2>6, <3>1, <3>2
  <2> QED BY <1>2, <2>1, <2>8 DEF RowInv
<1> QED BY <1>3, <1>4, <1>5, <1>6, <1>7

\* Every step keeps the lines right.
LEMMA RowNext == PipeInv /\ RowInv /\ [Next]_vars => RowInv'
<1>1. RowInv /\ UNCHANGED vars => RowInv'
  BY DEF RowInv, vars
<1>2. PipeInv => logger \in LoggerRecs
  BY DEF PipeInv
<1> QED BY <1>1, <1>2, RowCommand, RowOthers DEF Next, Logger

\* The move that LastMove chooses is the only one there is.
LEMMA RowVelocity == RowInv => VelocityRight
<1> SUFFICES ASSUME RowInv, NEW e \in ToSet(log), e.type = "row",
                    \A i \in 1 .. e.n : seen[i] # Goal
             PROVE  /\ e.n > 1 /\ e.from = seen[e.n - 1] /\ e.to = seen[e.n]
                    /\ e.rounds = IF e.from = e.to THEN 0 ELSE e.n - LastMove(e.n)
  BY DEF VelocityRight
<1>1. RowRight(seen, e)
  <2>1. DOMAIN log = 1 .. Len(log)
    BY LenProperties DEF RowInv
  <2> QED BY <2>1 DEF RowInv, ToSet
<1>2. PICK n \in Nat : n = e.n
  BY <1>1, LenProperties DEF RowRight, RowInv
<1>3. BeforeGoal(seen, n)
  BY <1>2 DEF BeforeGoal
<1>4. n > 1 /\ e.from = seen[n - 1] /\ e.to = seen[n]
  BY <1>1, <1>2, <1>3 DEF RowRight
<1>5. PICK k \in Nat : MovedAt(seen, n, k) /\ e.rounds = IF e.from = e.to THEN 0 ELSE n - k
  BY <1>1, <1>2, <1>3 DEF RowRight
<1>6. LastMove(n) = k
  <2>1. /\ k \in 1 .. n - 1
        /\ k = 1 \/ seen[k] # seen[k - 1]
        /\ \A j \in k + 1 .. n - 1 : seen[j] = seen[j - 1]
    BY <1>5 DEF MovedAt
  <2>2. PICK l : l = LastMove(n)
    OBVIOUS
  <2>3. /\ l \in 1 .. n - 1
        /\ l = 1 \/ seen[l] # seen[l - 1]
        /\ \A j \in l + 1 .. n - 1 : seen[j] = seen[j - 1]
    BY <2>1, <2>2, Zenon DEF LastMove
  <2>4. MovedAt(seen, n, l)
    BY <2>3 DEF MovedAt
  <2> QED BY <1>5, <2>2, <2>4, OneLastMove
<1> QED BY <1>2, <1>4, <1>5, <1>6

\* Logger always gets on, whatever becomes of Load (commRecvMsgBuffer), and
\* the lines it writes before the goal tell how the robot moved (command() of
\* logger.c), for every number of restarts and readings.
THEOREM LogsAreRight == Spec => []LogRight
<1>1. PipeInv /\ RowInv => LogRight
  BY PipeText, RowVelocity DEF LogRight
<1> QED BY <1>1, PipeInit, PipeNext, RowInit, RowNext, PTL DEF Spec
=============================================================================
