------------------------------ MODULE Logging -------------------------------
(***************************************************************************)
(* Load, a component that computes, sends one message and exits            *)
(* (controllers/load.c); VoterS, which does nothing but pass its message   *)
(* on and start it again (voter/voters.c); and Logger, which writes Load's *)
(* messages and a line for every reading to a file (controllers/logger.c). *)
(***************************************************************************)
EXTENDS Integers, Sequences, FiniteSets, SequencesExt

CONSTANTS
    MaxLives,      \* bound: the last Load process works for ever
    MaxReadings,   \* bound on the readings sent to Logger
    Poses, Goal,   \* places; at Goal the robot is less than 1 m from the goal
    Images,        \* whether the image can be read: a subset of BOOLEAN
    MaxKills       \* bound on the processes killed from outside

ASSUME LoggingAssumption ==
    /\ MaxLives \in Nat \ {0} /\ MaxReadings \in Nat /\ MaxKills \in Nat
    /\ Goal \in Poses
    /\ Images \subseteq BOOLEAN /\ Images # {}

VARIABLES
    life,       \* number of Load processes started so far
    load,       \* the present one: "forked", "work", "sent", "dead"
    kills,
    repPipe,    \* from Load to VoterS: lengths and texts
    voter,      \* VoterS: "accept", "waitpid" or "select"
    msgPipe,    \* from VoterS to Logger
    dataPipe,   \* readings for Logger
    sentCount,  \* number of readings sent to it
    logger,     \* [pc, ready, length]
    run,        \* command(): [finished, first, prev, time_elapsed]
    log,        \* the file
    seen        \* poses Logger has read, for the properties only

lvars == <<life, load, kills, repPipe>>
gvars == <<logger, run, log, seen>>
vars == <<life, load, kills, repPipe, voter, msgPipe, dataPipe, sentCount, logger, run,
          log, seen>>

\* A message on its way is its length followed by its text.
Message(k) == << [part |-> "length", of |-> k], [part |-> "text", of |-> k] >>

Init ==
    /\ life = 1 /\ load = "forked" /\ kills = 0
    /\ voter = "accept"
    /\ repPipe = <<>> /\ msgPipe = <<>> /\ dataPipe = <<>> /\ sentCount = 0
    /\ logger = [pc |-> "select", ready |-> {}, length |-> 0]
    /\ run = [finished |-> FALSE, first |-> TRUE, prev |-> CHOOSE p \in Poses : p # Goal,
              time_elapsed |-> 0]
    /\ log = <<>> /\ seen = <<>>

-----------------------------------------------------------------------------
(***************************************************************************)
(* Load.                                                                   *)
(***************************************************************************)
\* Mutant of Write: two calls, the first of them for the length alone.
WriteLength == <<Message(life)[1]>>

\* commSendMsgBuffer: one write.
Write == Message(life)

\* perCyclePedestrian, up to the message.
PerCycle ==
    /\ load = "work" /\ life < MaxLives
    /\ load' = "sent"
    /\ \E image \in Images : repPipe' = IF image THEN repPipe \o Write ELSE repPipe
    /\ UNCHANGED <<life, kills, voter, msgPipe, dataPipe, sentCount, gvars>>

Exit ==
    /\ load = "sent"
    /\ load' = "dead"
    /\ UNCHANGED <<life, kills, repPipe, voter, msgPipe, dataPipe, sentCount, gvars>>

\* The process is killed, after it has got its pipes.
Kill ==
    /\ load \in {"work", "sent"} /\ life < MaxLives /\ kills < MaxKills
    /\ load' = "dead" /\ kills' = kills + 1
    /\ UNCHANGED <<life, repPipe, voter, msgPipe, dataPipe, sentCount, gvars>>

Load == PerCycle \/ Exit

-----------------------------------------------------------------------------
(***************************************************************************)
(* VoterS.                                                                 *)
(***************************************************************************)
\* acceptSendFDS in startReplicas: the new process has its pipes.
Accept ==
    /\ voter = "accept" /\ load = "forked"
    /\ load' = "work" /\ voter' = "select"
    /\ UNCHANGED <<life, kills, repPipe, msgPipe, dataPipe, sentCount, gvars>>

\* Mutant of VoterRestartHandler: no new process is forked.
RestartNothing ==
    /\ repPipe' = <<>>
    /\ load' = "forked" /\ voter' = "select"
    /\ UNCHANGED life

\* cleanupReplica closes the pipe, startReplicas makes one and forks.
VoterRestartHandler ==
    /\ repPipe' = <<>>
    /\ life' = life + 1 /\ load' = "forked" /\ voter' = "accept"

WaitPid ==
    /\ voter = "waitpid"
    /\ IF load = "dead" THEN VoterRestartHandler
       ELSE voter' = "select" /\ UNCHANGED <<life, load, repPipe>>
    /\ UNCHANGED <<kills, msgPipe, dataPipe, sentCount, gvars>>

\* processFromRep, checkSDC and sendPipe: all that was read is sent.
Forwarded == repPipe

\* select(), which may time out, and what follows.
DoOneUpdate ==
    /\ voter = "select"
    /\ voter' = "waitpid"
    /\ msgPipe' = msgPipe \o Forwarded
    /\ repPipe' = <<>>
    /\ UNCHANGED <<life, load, kills, dataPipe, sentCount, gvars>>

VoterS == Accept \/ WaitPid \/ DoOneUpdate

-----------------------------------------------------------------------------
(***************************************************************************)
(* Logger, and the voter of Filter that sends it readings.                 *)
(***************************************************************************)
Filter ==
    /\ sentCount < MaxReadings
    /\ sentCount' = sentCount + 1
    /\ \E p \in Poses : dataPipe' = Append(dataPipe, p)
    /\ UNCHANGED <<lvars, voter, msgPipe, gvars>>

Select ==
    /\ logger.pc = "select"
    /\ LET ready == {f \in {"data", "msg"} :
                       IF f = "data" THEN dataPipe # <<>> ELSE msgPipe # <<>>}
       IN /\ ready # {}
          /\ logger' = [logger EXCEPT !.ready = ready \ {"data"},
                                      !.pc = IF "data" \in ready THEN "data" ELSE "length"]
    /\ UNCHANGED <<lvars, voter, msgPipe, dataPipe, sentCount, run, log, seen>>

\* A line of the file: the way since the last reading, and the number of
\* rounds it is divided by (0 when the velocity is 0).
Row(from, to, rounds) ==
    [type |-> "row", from |-> from, to |-> to, rounds |-> rounds, n |-> Len(seen) + 1]

\* time_elapsed after a reading, in rounds.
Elapsed(p) == IF p = run.prev THEN run.time_elapsed + 1 ELSE 0

\* commCopyRanger and command(), with the reading at p.
Command ==
    /\ logger.pc = "data"
    /\ LET p == Head(dataPipe) IN
         /\ seen' = Append(seen, p)
         /\ IF p = Goal
            THEN /\ run' = [run EXCEPT !.finished = TRUE, !.first = FALSE, !.prev = p]
                 /\ UNCHANGED log
            ELSE IF run.first
            THEN /\ run' = [run EXCEPT !.first = FALSE, !.prev = p]
                 /\ UNCHANGED log
            ELSE /\ run' = [run EXCEPT !.prev = p, !.time_elapsed = Elapsed(p)]
                 /\ log' = Append(log, Row(run.prev, p,
                               IF p = run.prev THEN 0 ELSE run.time_elapsed + 1))
    /\ dataPipe' = Tail(dataPipe)
    /\ logger' = [logger EXCEPT !.pc = IF "msg" \in logger.ready THEN "length" ELSE "select",
                                !.ready = {}]
    /\ UNCHANGED <<lvars, voter, msgPipe, sentCount>>

\* commRecvMsgBuffer, its two reads.
RecvLength ==
    /\ logger.pc = "length"
    /\ msgPipe # <<>>
    /\ logger' = [logger EXCEPT !.pc = "text", !.length = Head(msgPipe).of, !.ready = {}]
    /\ msgPipe' = Tail(msgPipe)
    /\ UNCHANGED <<lvars, voter, dataPipe, sentCount, run, log, seen>>

RecvText ==
    /\ logger.pc = "text"
    /\ msgPipe # <<>>
    /\ log' = IF run.finished THEN log
              ELSE Append(log, [type |-> "message", of |-> Head(msgPipe).of])
    /\ msgPipe' = Tail(msgPipe)
    /\ logger' = [logger EXCEPT !.pc = "select", !.length = 0]
    /\ UNCHANGED <<lvars, voter, dataPipe, sentCount, run, seen>>

Logger == Select \/ Command \/ RecvLength \/ RecvText

Next == Load \/ Kill \/ VoterS \/ Filter \/ Logger

Spec == Init /\ [][Next]_vars

\* The three processes have processors of their own or higher priority than
\* Load; nothing is assumed about readings or kills.
FairSpec == Spec /\ WF_vars(Load) /\ WF_vars(VoterS) /\ WF_vars(Logger)

-----------------------------------------------------------------------------
Logged == {log[i].of : i \in {j \in DOMAIN log : log[j].type = "message"}}
OnTheWay == {x.of : x \in ToSet(msgPipe)}
               \cup (IF logger.pc = "text" THEN {logger.length} ELSE {})

TypeOK ==
    /\ life \in 1 .. MaxLives /\ kills \in 0 .. MaxKills
    /\ load \in {"forked", "work", "sent", "dead"}
    /\ voter \in {"accept", "waitpid", "select"}
    /\ logger.pc \in {"select", "data", "length", "text"}
    /\ logger.length \in 0 .. MaxLives
    /\ run.time_elapsed \in 0 .. MaxReadings /\ run.prev \in Poses
    /\ seen \in Seq(Poses)
    /\ Logged \cup OnTheWay \subseteq 1 .. MaxLives

\* Logger never blocks inside commRecvMsgBuffer, where it would no longer take
\* readings: behind a length there is its text, through restarts of Load and
\* whatever the voter read at once (commtypes.c:435-466).
TextFollows ==
    /\ logger.pc = "length" => msgPipe # <<>> /\ Head(msgPipe).part = "length"
    /\ logger.pc = "text" => /\ msgPipe # <<>>
                             /\ Head(msgPipe) = [part |-> "text", of |-> logger.length]

\* Up to the goal, a line's way is the one between two readings that follow
\* each other, and its time is the time since the robot was last seen to move
\* (logger.c:84-98).
LastMove(i) == CHOOSE k \in 1 .. i - 1 :
                 /\ k = 1 \/ seen[k] # seen[k - 1]
                 /\ \A j \in k + 1 .. i - 1 : seen[j] = seen[j - 1]
VelocityRight ==
    \A e \in ToSet(log) :
        e.type = "row" /\ (\A i \in 1 .. e.n : seen[i] # Goal) =>
            /\ e.n > 1 /\ e.from = seen[e.n - 1] /\ e.to = seen[e.n]
            /\ e.rounds = IF e.from = e.to THEN 0 ELSE e.n - LastMove(e.n)

\* What Logger does with its two pipes is right, whatever becomes of Load: it
\* always gets on, and the lines it writes tell how the robot moved.
LogRight == TextFollows /\ VelocityRight

\* Load is started again whenever it has ended, however it ended.
LoadKeepsRunning == <>(life = MaxLives /\ load = "work")
=============================================================================
