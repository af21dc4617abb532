# A TLA+ verification of S3RES

S3RES runs the controllers of a robot as replicated Linux processes.  A *voter*
sits between a controller's pipes and its one, two or three replicas (SMR, DMR,
TMR).  It copies every input to all replicas, compares their outputs, forwards
one of them, and replaces a replica that died, hangs or answered differently
from the others by a fork of a healthy one.  This directory models the three
voters with the controllers they replicate, the voting buffers, the handshake
that gives a new replica its pipes, the wiring of the system from its
configuration file, the loop around the controllers, and the protocol of maps and
waypoints between them; it model-checks the models with TLC and proves theorems
about most of them with TLAPS.

Paths below are relative to the repository.

## 1. Inventory

| component | state it keeps | operations | interacts through |
|---|---|---|---|
| **VoterM** (`voter/voterm.c`) | voting buffers and counts per replica and pipe, the active input, the index of the faulty replica | `recvData`, `sendToReps`, `collectFromReps` (with timer), `checkSDC`, `findFaultReplica`, `killAndClean`, `startReplicas`, `sendData` | external pipes; two pipes per replica and link; signals; a Unix socket to hand over pipes |
| **ArtPot** (`controllers/art_pot.c`) | current and next waypoint, `way_pending`, `seq_count` | select loop, reading waypoints, `command` | two input and two output pipes |
| **Controller library** (`src/controller.c`) | `insertSDC`, `insertCFE` | restart handler (fork, take new pipes), simulated-fault handlers | signals from voter and injector |
| **Voting buffers** (`voter/vote_buff.c`) | ring index, count and bytes per replica and pipe | `pipeToBuff`, `buffToPipe`, `fakeToPipe`, `copyPipe`, `compareBuffs`, `resetVotePipe` | called by VoterD |
| **VoterD** (`voter/voterd.c`) | the replicas, timers per input pipe, buffered input | input and output processing as data comes, `checkSDC`, `sendPipe`, `restart_prep`, stealing and returning pipes | as VoterM, several rounds in flight |
| **Replica table** (`src/replicas.c`) | pid, priority, status, pipes of every replica | `bytesReady`, `behindRep`, `balanceReps`, `restartReplica` | called by VoterD and VoterS |
| **VoterS** (`voter/voters.c`) | one replica | forwards, restarts on a timeout | as VoterD |
| **fd handshake** (`src/fd_client.c`, `src/fd_server.c`, `voter/fd_serverm.c`) | a socket | connect, accept, send and receive descriptors | voter and restarted replica |
| **Fault injector** (`fault_injection/`) | none | SIGKILL, simulated SDC, simulated CFE, register flips | signals to replicas and voters |
| **Mapper, AStar** (`controllers/mapper.c`, `mapping.c`, `a_star.c`) | an obstacle map each | map updates, acknowledgements, resends; path search | pipes to each other, to the filter and to ArtPot |
| **Filter, Logger, Load, Empty** (`controllers/`) | little | fan-out, sinks, echo | pipes |
| **Benchmarker, Player translator** (`controllers/benchmarker.c`, `player_translator_driver/`) | sequence number, `waiting_response` | passes on one reading at a time | pipes to Player and to the first component |
| **Message library** (`src/commtypes.c`) | none | message layout, `serializePipe`, `deserializePipe` | all processes |
| **Plumber** (`plumber/`) | components and links of a configuration | creates pipes, starts every component | arguments of the voters and controllers |
| **Timing library** (`tas_lib/`) | none | priorities, CPU pinning, page locking, cycle counter | system calls |

### What is hard

* *Concurrency*: the voter and its replicas run at the same time on four cores,
  and the voter reads whatever happens to be in the pipes.  A reply is two
  writes, so it can be seen half done.
* *Failure*: a replica can die or hang at any point; nothing but a timer tells,
  since the voter keeps both ends of each pipe open.  A restart clones a running
  process wherever it is, and gives the clone new, empty pipes.
* *Identification*: a timeout or a mismatch has to be attributed to one
  replica; the wrong choice kills a healthy one and clones a broken one.
* *Counting*: `collectFromReps` counts reads, not replicas, so something left
  over from one round would count for the next.
* *Boundaries*: the ring buffers copy, write and compare in two parts.
* *Timing*: the code relies on healthy replicas having answered before the timer
  expires.

### What makes each component correct

* VoterM with its replicas: one fault at a time is invisible outside; the replica
  that is killed is the faulty one; after a restart all replicas are in the same
  state; no round leaves anything to the next; every reading is answered.
* ArtPot: never sees a reading twice or misses one; a request for waypoints is
  answered in the end.
* Voting buffers: they are byte queues; comparison is equality of the contents;
  no copy leaves an array.
* VoterD and replica table: as VoterM, and nothing written by the restarter is
  lost or repeated when its pipes are taken over; the voter never waits in a
  `read` or an `accept` that nobody will end.
* Handshake: the pid in a slot is that of the process with the slot's pipes,
  whoever connected first; a restart ends.
* Mapper and AStar: every obstacle Mapper reports gets into AStar's map and into
  the waypoints ArtPot follows, whenever AStar is restarted.
* Mapper under VoterD: its updates reach AStar whole although the voter knows no
  messages, and replicas that wake up at different moments do not lose obstacles.
* AStar's search: a shortest path if there is one, over free cells.
* Filter under VoterM: each reading on all three outputs, once and in order.
* Benchmarker and translator: at most one reading is unanswered, numbers stay
  within one of each other, and the loop of bounded pipes never stops.
* VoterS, Load and Logger: Load is started again however it ends, and Logger never
  waits for the rest of a message.
* Plumber and argument parsing: every program gets the pipes of its links, and
  timer indexes refer to the pipes they are meant for.

`PROJECT.json` lists the hazards with the lines where they bite, and which
property would catch each.

## 2. Modules

| module | models |
|---|---|
| `ArtPot` | the controller as a deterministic machine: its state, what `command` writes, how inputs change it |
| `VoterM` | the voter's main loop, the replicas, the pipes, the faults; EXTENDS `ArtPot` |
| `Component` | abstract: one ArtPot with the promise of its mode (never fails; may let a corruption pass; may start again); `VoterM` is shown to implement it |
| `VoterD` | VoterD's main loop, its restart step by step, and two or three replicas of AStar |
| `VoteBuff` | the ring buffers of one output pipe, as VoterD uses them |
| `VoteQueue` | abstract: one queue of bytes per replica; `VoteBuff` is shown to implement it |
| `MapSync` | Mapper, AStar under VoterD with one replica, and ArtPot's waypoints |
| `MapperVote` | two or three replicas of Mapper under VoterD; updates in pieces |
| `FilterVote` | two or three replicas of Filter under VoterM; `select` pipe by pipe, and the SINGLE_CORE build |
| `Handshake` | the fd servers and client, signals, forks and the table of replicas |
| `Wiring` | the plumber, the text of a pipe, and the voters' `parseArgs` |
| `Bench` | the translator, the benchmarker and Empty between them |
| `Logging` | Load under VoterS, and Logger |
| `Search` | AStar's `command` on the lists of `mapping.c`, and `sendWaypoints` |
| `MC_*` | the instances that TLC looks at |
| `VoterM_proofs` | theorems about `VoterM`: its types; what its rounds keep true, and that it implements `Component` |
| `VoterD_proofs`, `MapSync_proofs`, `MapperVote_proofs`, `FilterVote_proofs`, `Bench_proofs`, `Logging_proofs` | theorems about the module of that name |
| `Replicas_proofs` | theorems about `VoteBuff` and `Handshake`: what a voter keeps for each replica |

**Instances.**  Most modules have a constant `Instances`: a set of configurations
(number of replicas, build, faults that strike).  `Init` chooses one, which never
changes: `rep_count` and `kinds` in VoterM, `config` elsewhere.  One run covers all
of them, and a property that only some configurations promise names the condition
(`Promise` in VoterM, `InStep` in VoterD, `config.prompt`, `config.scan`,
`config.hostile`).

**TypeOK** says what the state of a module looks like.  The run `voterm` lists it; it
is proved for VoterM, VoterD, VoteBuff, MapSync and MapperVote, and for FilterVote as part
of `RoundInv`.  In VoteBuff the names of the specification begin with `Buff`
(`BuffInit`, `BuffNext`, `BuffSpec`, `BuffTypeOK`), since `Replicas_proofs` extends it
together with Handshake.

### VoterM and the code

`pc` is the place in `main()` (QUAD_CORE build, `voterm.c:763-866`):

| `pc` | action | code |
|---|---|---|
| recv | `RecvData` | `recvData`: all bytes of the first ready external pipe |
| send | `SendToReps` | `sendToReps`, `checkWaitOnInput` |
| collect | `CollectFromReps`, `Timeout` | one turn of the select loop of `collectFromReps`; its timer |
| vote | `CheckSDC` | `checkSDC` with `killAndClean` |
| timeout | `FindFaultReplica` | `findFaultReplica` with `killAndClean` |
| restart | `RestartReplica` | `startReplicas(false, ...)`: signal, fork, `accept`, new pipes |
| fork, resend, recollect | `ForkReplica`, `ResendToReps`, `RecollectFromReps` | the SMR branch of `main` |
| send0, sendRestarter | `SendVoted`, `SendRestarter` | `sendData` of replica 0, or of the restarter |

A replica is `Select`, `ReadWaypoints`, `ReadReading`, `WriteAnswer`: one step per
system call of `enterLoop` and `command`, each of which any other process may
precede or follow.  `KillReplica`, `TestSDCHandler` and `TestCFEHandler` are the
injector's signals; a control-flow error takes effect at the next wake-up, a data
error in the next command, as in `art_pot.c`.

The environment is `SendReading` (the benchmarker, which withholds readings until
the last one is answered) and `SendWaypoints` (AStar, one response per request).

A message is abstracted to what its bytes depend on: the reading it answers, the
waypoints in use and whether it was corrupted.  The potential-field arithmetic of
`command` is a function of these.  The order of the pipes is that of
`controllers/configs/all_tmr_wl.cfg`.

`ref`, `faulty` and `faults` are history variables: the state of a fault-free
controller after the same inputs, the replicas hit and not yet replaced, and the
number of faults.

### Assumptions of the VoterM model

* **One fault at a time** (`Fault`): the next one strikes after the replica hit
  by the last has been replaced.  That is what triple replication masks.  Under
  SMR none strikes between the restart and the answer, because the code collects
  there without a timer (`voterm.c:849`) and would block; the hazard is listed.
* **InTime**: when the timer of DMR or TMR expires, healthy replicas have answered
  and have been read.  The code says and needs so (`voterm.c:851-855`).  SMR does
  without it: its timer may expire at any moment.
* `select()` sees all pipes at one instant.  The kernel scans them one by one;
  `FilterVote` has that.
* Readings are numbered one after the other.  `Bench` shows that the translator
  can send a number twice; ArtPot then prints an error and goes on.
* A read returns everything in the pipe (a message is far below a page).
* `KillAndClean` puts the controller state of the dead process at its initial
  value: nobody reads it before it is assigned by a restart.

### VoteBuff and the code

`PipeToBuff` is `pipeToBuff` after the `read`, with its two-part copy and its drop
of a read that does not fit; `SendPipe` is VoterD's `sendPipe` (`buffToPipe` for
the sender, `fakeToPipe` for the others, `bytesReady` bytes); `RestartPrep` is the
buffer part of `restart_prep`: reset, `copyPipe`, and `sendPipe`; `CompareBuffs`
is `compareBuffs`, with its result as a Boolean.

### MapSync and the code

| actor | action | code |
|---|---|---|
| Mapper | `RecvReading`, `RecvAck` | a wake-up of `enterLoop` with a reading (`updateMap`, `addObstacle`) and the acknowledgement, or with an acknowledgement alone |
| ArtPot | `RequestWaypoints`, `RecvWaypoints` | the request of `command`, and the response |
| VoterD | `ProcessData`, `ProcessFromRep` | the two halves of `doOneUpdate`: the first ready input, and all answers of the replica |
| VoterD | `VoterRestartHandler` | its SMR case: kill, new process, new pipes, last read of every input repeated |
| AStar | `Select`, `RecvMapUpdate`, `SendWaypoints` | `enterLoop`, one step per handler |
| | `Crash` | the injector: AStar dies or loops, between any two of its steps |

`hits` is Mapper's grid, counting up to one above the threshold.  An update is the
set of cells it lists; a path, and waypoints, are the set of obstacles the path
was planned around.  AStar's state is lost in a restart; what the voter keeps is
the bytes of the last read of each input.  The restart does not stop the timer.

Assumptions: a path exists; Mapper, ArtPot and their voters do not fail in this
module; messages are read whole; the voter gets ahead of a running AStar by at
most `RepCap` messages per pipe (the code has no such bound, see the hazards).

### VoterD and the code

| `pc` | action | code |
|---|---|---|
| loop | `VoterSelect`, `VoterRestartHandler` | `select` in `doOneUpdate`, and its timeout |
| scan | `ProcessData`, `ProcessFromRep` | the first ready input; then every replica pipe that `select` reported, in order: `pipeToBuff`, `balanceReps`, `checkSDC`, `sendPipe` |
| steal | `StealPipe`, `KillRestartee` | `stealPipes`, one `read` a step; `restartReplica` up to the signal |
| fork | `ForkAndSend` | fork of the restarter, new pipes, `copyPipe`, `sendPipe` |
| return | `ReturnPipe`, `Restarted` | `returnPipes` |

The buffers are the queues that `VoteBuff` implements.  AStar is `Select`,
`RecvMapUpdate` and `SendWaypoints`; its state is the number of the update it has
planned with and what decides its answers.  Every update brings an obstacle and no
request has `padding` set; MapSync has updates without obstacles, and MapSync and
Search both kinds of request.  An injected data error stays in
`fake_hash`, as in the code, so one corruption is seen in every later vote.
`burst` bounds the messages that wait in front of the voter: with 1 the replicas
are in step, with 2 one `read` brings two messages.  `inputs` is how many come in
all; it belongs to the instance, since bursts multiply the states.  `AllAnswered` is
the timing assumption, as in VoterM.  `ref` and `expected` are history: a fault-free
AStar.

### Handshake and the code

The voter is `ForkReplicas`, `Accept`, `SendFDS`, `ReadPid` (or `ReadPidFailed`) and
`Restart`; a process is `Connect`, `RequestFDS`, `SendPid`, `InitController` and, as
restarter, `RestartHandler`.  `Signalled` is what `kill` reaches, pid -1 included.
A slot's pipes are known by slot and by how often they were created, so a process
with pipes of an earlier generation is seen to be one.  VoterD forks all replicas
and then accepts; VoterM forks and accepts one after the other and sends inputs
first.  With `hostile` faults come at any moment, else when no start is under way.

### FilterVote and MapperVote

FilterVote: `Select` looks at one pipe a step when `scan` is set, and replicas write
in between.  Under SINGLE_CORE `turn` is the replica `sendCollect` waits for.
MapperVote: an update is a header with its count and one unit per obstacle; the
voter takes as many units as all replicas have, whatever they belong to.  Readings
come one at a time.  `prompt` says that replicas handle an acknowledgement before
the next reading comes.

### Wiring, Bench, Logging, Search

Wiring reads the files of `controllers/configs` as lists of declarations and links,
writes each pipe as text, character by character (`serializePipe` goes wrong on
characters), and parses it as each program does.  Descriptors are below 200
without 100 to 109: for a number with a 0 in its middle `serializePipe` counts too
few digits.  Bench has Player as a bounded queue of messages to the translator; reading
and pose travel together for `PoseOfTheScan`.  Logging has one pipe from Load to
VoterS and two into Logger, with a message as two pieces.  Search keeps the lists in
order, distances in thousandths of a cell, and the goal in a corner of the room, as
in the code.  The map starts free, and updates bring obstacles of the room and the
walls, which are its outermost cells (`Walls`).  `removeNode` of the only node followed
by `addNode` is the state `crashed`; a look around an outermost cell, at which
`genNeighbors` reads beyond the array, is the state `beyond`, and nothing is said of
what follows.

## 3. Runs

| run | instances | shows |
|---|---|---|
| `voterm` | TMR with all faults, DMR with the faults it masks and with the one it detects, SMR, TMR with uncleared buffers; 3 readings, 2 faults | each mode keeps its promise (`Masking`), right blame, nothing left over, agreement after restarts, a live and finished restarter, every corruption noticed, every reading and request answered |
| `vote_buff` | 3 interchangeable replicas, ring of 3 bytes, 2 byte values | refinement of queues, equal indexes, exact comparison, bounded copies |
| `map_sync` | 1 cell, threshold 1, 1 restart, both kinds of request | no obstacle forgotten; each gets into the map and the waypoints; requests at most doubled by a restart |
| `voterd` | TMR with all faults and DMR with those it masks, in step, 4 inputs; TMR with two inputs at once and a corruption, 3 inputs; 1 fault | in step answers are those of one faultless AStar, the voter kills only the faulty replica, never blocks, answers everything, and healthy replicas agree; in every instance no update is lost or repeated |
| `voterd_protect` | TMR, two inputs at once, 1 kill | **violated**: an input is never answered (section 5) |
| `handshake` | VoterD and VoterM with 3 replicas, VoterM with 1, VoterD with faults at any moment; 3 faults | table and pipes match, restarts complete |
| `wiring` | 5 configuration files, first descriptor from 3 to 80 and from 110 to 180 | pipes arrive, at both ends and in the right place; timed pairs are right |
| `bench` | 1 step of the robot, 2 places, queue of 2, pipes of 3, both faults of Empty | one reading out, numbers within one, pose of the scan, the loop goes on |
| `logging` | 3 lives of Load, 1 kill, 4 readings, 3 places | no half messages, right velocities, Load keeps running |
| `search` | every map of a room of 4 by 3 cells with all its walls, none, or all but one; every place of the robot | shortest paths, waypoints on them; no search that knows the walls leaves the map |
| `filter_vote` | TMR in both builds with all faults, DMR with `select` pipe by pipe; 2 readings, 2 faults | right outputs, right blame, every reading answered |
| `mapper_vote` | TMR that races, TMR and DMR that do not; 3 readings, 1 restart of AStar, 1 fault | whole updates, nothing forgotten, right blame, every reading answered |

**Masking** is the main property of VoterM: with `in` mapped to the inputs the
voter has not finished with, `out` to everything it wrote and `state` to `ref`,
every behaviour is one of `Component` with the promise of its mode: an ArtPot that
does not fail (TMR, and DMR without corruption), one whose velocity may be
corrupted (DMR), or one that may start again (SMR).

**Bounds.**  A round that follows a fault shows the state the restart left, and
the first round differs from the later ones only by the first waypoint request:
three readings and two faults give a fault in a round that follows a restart, and
the round after it.  A ring of three bytes with reads of one to three
bytes has every position of index and end relative to the wrap, as well as full
and empty.  Three replicas are needed for a restart to leave anything in the new
buffer: with two, all that was copied is sent at once.  The proofs remove these
bounds.  The replicas are symmetric in `VoteBuff`; in the voters they are not, since
ties are resolved by index.

In VoterD four inputs let a restart fall between two of them with two more to show
what it left, in either order of the two kinds.  In the handshake three faults let
a slot be replaced from a replica that was itself replaced.  A search is decided by
the map and the place it starts from, and one update with any set of obstacles has
all of them; 4 by 3 cells have walls with gaps, corners that touch, and cul-de-sacs.
In Bench a queue of two lets odometry and a scan change places; the queue is shorter
than a pipe, as it is in Player, and with a queue as long as a pipe TLC finds all
three processes waiting for room in each other's pipe.

In MapSync cells do not influence each other, except that an update with any
obstacle leads to a new path, so one cell has all interesting orders; a threshold
of 1 makes a cell need two sightings.  `RequestsDoNotStack` answers the question in
`a_star.c:301` ("Do these calls stack up?"): not without restarts, but a restart
repeats requests that were answered, nothing ever drops the extra ones, and the
bound of 2^restarts is reached.

**CHECK_DEADLOCK FALSE**, in all runs but `vote_buff` and `map_sync`: the number of
inputs is bounded, and when all are answered the system is idle and waits in
`select`, or the search is over.  Deadlocks in the middle of the work are what the
liveness properties exclude.

**Fairness.**  In VoterM: weak fairness of the voter, of each replica, and of
AStar's answers.  All are processes that the kernel runs when they can run, under
real-time priorities on cores of their own; the timer expires if nothing else
happens (weak fairness of `Voter` includes `Timeout`).  Nothing is assumed of
readings or faults.  FilterVote and MapperVote: weak fairness of the voter and of
the replicas together.  VoterD and Handshake need only that some process that can
run does.  Logging: weak fairness of Load, VoterS and Logger, each a process with a
processor.  Bench: the same of translator, benchmarker and Empty, and strong
fairness of the simulator's range messages, which it publishes at a fixed rate
whenever there is room in the queue.

In MapSync, readings keep coming, and Mapper, ArtPot, the voter (timer included)
and AStar each run when they can.  Strong fairness of `ProcessData(WAY_REQ)` says
that the voter takes a request if, over and over, it is ready and no update waits.
The voter serves updates first, so `WaypointsAvoidObstacles` is conditional on that
happening (`[]<>Unloaded`): an AStar that never catches up with the updates never
answers a request.  `MapsConverge` needs no such condition.

**Uncleared buffers.**  `buff_counts` of VoterM is malloc'ed and not cleared.  If a
replica dies in the very first round and a count happened not to be 0, the timeout
scores it on garbage and blames replica 0.  Memory fresh from the kernel is zero, so
the instances with faults start from empty buffers; the one without faults shows
that a complete first round overwrites whatever was there.

## 4. Theorems

### VoteBuff (for every `MAX > 1`, set of bytes, non-empty set of replicas)

These and the theorems about Handshake are in `Replicas_proofs`.

* `BuffersTypeCorrect`: indexes and counts stay in `0..MAX-1`.
* `IndexesStayEqual`: all replicas' buffers start at the same index.
* `CopiesStayInBounds`, `ComparisonIsExact`: consequences of the two.
* `BuffersImplementQueues`: `BuffSpec => Queues!QSpec`, the ring buffers implement the
  abstract queues.

The argument: lemmas on `%` around the ring size give what each operation does to
`Ring(buf, idx, c)`, the logical content.  Filling appends the bytes that were
read, whether or not they wrap; `Written` is a prefix of the content; advancing
index and count drops that prefix; `Copied` makes the contents equal.  The type
invariant is inductive by itself; equality of the indexes needs it.  That the
smallest count exists (`bytesReady`) is an instance of well-founded
induction on the naturals, stated there without an operator parameter.  The
refinement then maps `PipeToBuff` to `Enqueue` or a stutter, `SendPipe` to `Send`
and `RestartPrep` to `Replace`.

### VoterM (for every set of instances, all bounds and initial buffers)

* `TypeCorrect`: `Spec => []TypeOK`, with the invariant `TypeInv`.  `TypeOK` alone
  is not inductive: `SendToReps` and `SendData` take an element of `ext_in_buffer`,
  which is only there because the voter has just read something; `TypeInv` adds
  that the buffer is not empty while `pc # "recv"`.  Its content is mostly that
  every blamed index is a replica (`LowestScore`, `OddOneOut`, `Restarter`).
* `RestarterIsReady`, `ReplicasStayEqual`, `BlameTheFaulty`, `NothingLeftOver`: the
  invariants `RestarterReady`, `ReplicasAgree` and `NoLeftovers` and the action
  property `BlameIsRight`.
* `CorruptionIsNoticed` (`SDCDetected`) and `ReplicationMasks` (`Masking`), from
  `SMRNotCorrupted`: no instance corrupts a single replica.  Nothing compares its
  answers, in the code as in the model.

The invariant `VoterInv` is `RoundInv` with two or three replicas and `SingleInv`
with one.  `RoundInv` has, next to `TypeInv`:

* `Faults`: at most one replica is faulty, and whatever is not as it should be is
  the faulty one, or the one just killed;
* `Counts`, `Requests`: one reading is out at a time, and a request for waypoints
  is exactly where `way_pending` says it is.  Without them nothing excludes two
  readings in one round, for which a replica would answer twice;
* `Phase`: for each place of `main()`, where every replica is.  Between rounds all
  rest (`Rests`).  While the voter collects, each replica waits for its turn, has
  taken the reading and has each part of its answer to write, in the pipe or
  collected, or stopped halfway (`Waiting`, `Answering`, `Stuck`).  `rep_done`
  counts replicas, although the code counts reads, *because* nothing is left over
  and no part of an answer overtakes another.  At the vote, all answers are there
  and only the faulty replica's differs; at the timeout, all but the faulty one's.

From `Phase` the vote and the scores are decided by cases on which replica is the
odd one.  `SingleInv` is the same for one replica, which may have died after half of
its answer: what the dead process left in the voter's buffer may only be sent as
part of an answer that the new one also gives (`NoOldRequest`).  There is no
agreement with `ref` to keep, since a new process has forgotten everything.

`Masking` is a refinement, so the proof maps each step of `VoterM`: the inputs of the
environment to inputs of `Component`; the two places where the voter forwards an
answer to the step that answers, with the promise of the mode (the answer is
`Ans(FALSE)`, or `Ans(TRUE)` where the mode is `corrupts`, or that of any process
that may have been started since); the waypoints to the step that takes them; the
new process of SMR to `StartAgain`; and everything else, the replacement of a replica
of DMR or TMR included, to a stutter.

### VoterD (for every set of instances and all bounds)

* `TypeCorrect`: `Spec => []TypeOK`.
* `RestartsKeepUpdates`: the first part of `HealthyAgree`, however many inputs come at
  once.  `PlansInv` counts the updates that the voter holds while it restarts a
  replica; `StealInv` says that what was not stolen is still to be, which makes the
  copy of the restarter's state complete when the fork happens.
* `AnswersStayRight`, `OnlyFaultyIsKilled`, `VoterNeverBlocks`, `ReplicasStayHealthy`:
  the four invariants of the run, from `DMRNotCorrupted`: with two replicas no
  instance corrupts answers.  `checkSDC` with two replicas has no way to tell which
  of two answers is wrong.

The properties in step rest on `StepInv`: either everything is at rest, all replicas
in the state of the faultless AStar and all answers sent; or the timer runs and
exactly one answer is due, each replica being before it (`Waits`), done (`Right`), or
corrupted and faulty (`Wrong`); or the faulty replica is being replaced, when all
others have answered and been read (`Replacing`).  It also says that the pipes left in
`select_set` have data, which is what makes it harmless to go on with the scan after
a restart, and that there is nothing to steal.  `VoteFacts`, `VoteRight` and
`VoteWrong` are what the vote decides when the buffers hold one answer each, or one
of them a different one.

### MapSync (for every set of cells, threshold and bound)

* `TypeCorrect`: `Spec => []TypeOK`.  The invariant `TypeInv` adds that a pipe
  `select` reported has data, without which `Head` has no type.
* `NoObstacleForgotten`: `Spec => []NothingForgotten`.  The invariant says that a
  resend is due or every reported obstacle is in AStar's map or in one of the two
  pipes before it.  It is inductive together with `TypeInv`: a request for all
  obstacles moves from `request_all` to the acknowledgement, through two pipes, to
  `resending_all`, and is discharged by the update that lists all of them; an
  obstacle moves through two pipes to the map; a crash makes a resend due again.
  Three lemmas say what appending, concatenating and taking the head do to the
  obstacles and requests of a pipe.
* `RequestsBounded`: `Spec => []RequestsDoNotStack`.  The bound is not inductive:
  ArtPot may ask as long as `way_pending` is not set, so `Room` counts one more for
  it then, and a restart repeats the last read, so that is bounded too.  Of the
  power only `2^(n+1) = 2 * 2^n` is needed.

### MapperVote (for every set of instances and all bounds)

* `NothingIsForgotten` (`NothingForgotten`): a replica's obstacles are in AStar's map, or
  under way to it, or a request to resend everything is.  It holds in every
  configuration, racing replicas and DMR with corruption included: the vote may go
  wrong there, and still nothing is lost.
* `TypeCorrect`, and `OnlyFaultyBlamed` (`CaughtSDC`), in every configuration as well.
* `UpdatesAreWhole`: `Spec => [](Decidable(config) => UpdatesWhole)`.  `Decidable` asks for
  replicas that are prompt and not corrupted if they are two, and for no faults if
  they race.  Each of these is needed: TLC finds cut or corrupted updates for DMR
  that races, for prompt DMR with a corruption, and for racing TMR with any one of
  the three faults.  The run has only decidable instances.

The voter counts bytes and knows no updates; that it forwards whole ones is about
rounds, from `processData` to the vote.  `RoundInv` holds through every fault: while
the timer runs, what a replica has said is nothing or one whole answer in one
piece, in the pipe or in the buffer (`Answering`), and when it does not run every
replica that is alive has handled every reading (`Idle`).  `Covered` is
`NothingForgotten` of every replica that runs, faulty ones too, since the next restart
may copy them; it needs that a replica drops `resending_all` only when it writes
everything.  `StepInv` then says which answers there are: promptly all replicas
give the same, but for one faulty replica (`InStep`), because before the round they
owe AStar the same (`Alike`); racing ones each give one of two.  All restarts and
votes are one kind of step, in which each replica goes on as itself or as a copy
of the restarter, and the smallest count is sent (`Closes`, `Heir`), so that the
invariant is shown once for it (`ClosesStep`).

### FilterVote (for every set of instances and all bounds)

* `OutputsAreRight`: `Spec => [](Decidable(config) => OutputsRight)`, and
  `BlamedIsFaulty`, the same of `BlameIsRight`.  `Decidable` excludes corruption for two
  replicas, as in VoterM, and all faults but kills where `select` looks at one pipe
  after the other (`scan`).  With a scan and an infinite loop or a corruption TLC finds
  wrong outputs for two and three replicas in both builds; with kills the theorem
  goes beyond the run, whose instance that scans has no faults.

`RoundInv` follows an answer from the replica to the buffers.  `Answering`: a replica
writes its pipes in order and the timed one last, so whoever has written that one
has written all.  `Selecting`: without a scan a timed output is never reported
without the untimed ones that are there.  So the replicas counted in `rep_done` have
answered on every pipe (`Gathering`), a vote has whole answers to compare and the
timeout finds only the faulty replica short (`Voting`), and the readings are counted
by what comes out (`Counted`).  While `select` scans, this is kept of the timed output
alone (`Tracked`), for which `OutputsRight` is stated then; that an untimed output was
written, though perhaps not read, is in `Kept`.

### Handshake (for every voter, number of replicas and of faults)

* `TableStaysRight` and `PipesStayRight`: `TableRight` and `RightPipes`, with faults
  at any moment of the handshake.

`HandshakeInv` follows a process from the queue of connections (`QueueInv`: each there
once, and not yet given pipes) over the connection that is open (`ProcessInv`: pipes
under way are those of the slot that is being started) to its slot (`TableInv`: a slot
is either settled, and held by the process its pid names and no other, or being
started, and held by nobody but the process at the other end of the connection).
The part of `TableRight` about faults outside of starts needs to know that nobody
connects who is not expected: `CalmInv` counts the processes that are coming, a
signal standing for the process it will fork, and says they are as many as the voter
will accept.

### Bench and Logging (for every bound)

* `ScansHaveTheirPose` (`PoseOfTheScan`): only odometry changes the place, so every
  message queued has the place of the one before it, and the translator's pose is
  that before the first (`ScanInv`).
* `NumbersStayInOrder` (`SeqWindow`): inductive with `ScanInv`, which says there is a
  message wherever one is read.  The window is kept pipe by pipe around the loop
  (`InOrder`); the translator's count moves on only by an answer, and since an answer
  leaves no smaller number behind it, the window moves with it.
* `LogsAreRight` (`LogRight`): the pipes hold whole messages, or all but the length
  that was just read (`PipeInv`; one message is one `write`), and `command` remembers
  the last pose and when the robot last moved, until the goal (`RowInv`).

### Model-checked only

* Liveness, in all modules: out of the prover's reach.
* `PathShortest` of Search: what a search computes for every map would need induction
  over its folds.
* `PipesArrive` and `TimersPaired` of Wiring: computations on given configuration
  files and texts, of which TLC does all.

## 5. Observations

What TLC showed about the code beyond the properties that hold.  The first is the
run `voterd_protect`; each of the others is where a property above is conditional,
and dropping the condition gives the counterexample.

* **VoterD stalls after a kill when two inputs came at once** (`voterd.c:368`).  The
  first vote stops the timer while another answer is missing; `checkSync` is false,
  so no input is read, and no timer runs that would replace the dead replica.
* **`stealPipes` can block** (`voterd.c:202`): `select` reports input of the healthy
  replica, which reads it before the voter does (two inputs at once).
* **A healthy replica is replaced** (`voterd.c:170`): bytes that the restarter had
  written and the voter not read are not copied, so the new replica comes up an
  answer short and `behindRep` picks it later (two inputs at once).
* **An update overtakes a request** (`voterd.c:368`): with two inputs at once, even
  without a fault, the first pair of acknowledgements stops the timer while a request
  is due, and the next update gets to the replicas first, or to some of them: what is
  passed on is no longer what one AStar would send.  With four inputs and a kill the
  restarter may then be the dead replica, and the voter blocks in `accept`.
* **The scan goes on after a restart** (`voterd.c:309-319`) by a `select_set` that was
  about the closed pipes; in step every pipe left in it still has data.
* **Priorities** (`replicas.c:113`): with gaps 1, 0 and 2 `balanceReps` puts replica 1,
  which is not behind, above replica 0, which is.
* **CPU of a replaced replica** (`replicas.c:187`): `initReplicas` is given a table of
  one, so VoterD pins every replacement to CPU 1.  VoterM keeps them apart.
* **`kill(-1)`** (`replicas.c:44`): a replica that dies before it has written its pid
  leaves -1 in the table, and the next cleanup of the slot signals every process.
  Likewise a restart signal that comes before the handler is registered kills the
  restarter, and the voter blocks in `accept`.
* **Order of links** (`voterm.c:200`): `timer_stop_index` is filled by the number of the
  pair and indexed by the number of the input; they agree only while timed inputs
  come first in the file, as in all the shipped ones.
* **Numbers repeat** (`translator_driver.cc:383`): readings sent before an answer share
  its number, and the check of the second answer prints "TRANS SEQ ERROR." without
  any fault.
* **Load's last message can be lost** (`voters.c:83`): `waitpid` is asked before the
  pipes are looked at, and the restart closes the pipe with the message in it.
* **The search can dereference a null list** (`mapping.c:104`): when the only open cell
  is improved, `removeNode` leaves no list for `addNode`.
* **The search can leave the map** (`a_star.c:74`): `obstacle_map` starts free, and until
  the walls are known `genNeighbors` may look around an outermost cell, beyond the array.
* **A failed search keeps the old path** (`a_star.c:165`), which may lead through the
  obstacles that cut the goal off; `WaypointsFree` is about searches that succeed.
* **Missed untimed outputs** (`voterm.c:189`): when `select` looks at an untimed pipe
  before it is written and at the timed one after, the vote goes without the former,
  or a healthy replica is replaced.  The timed output stays right when replicas are
  killed (`OutputsAreRight`); if a replica that is about to loop or to be corrupted is
  the one the healthy replica is made a copy of, two fail at once and it does not.
* **Mapper's replicas diverge** (`mapper.c:180`): one that finds an acknowledgement
  beside the next reading handles the reading first, sends a shorter update and is
  outvoted; with two replicas the rest of the longer update stays in its buffer and
  the voter takes no further input.
* **Several readings at once**: `art_pot_vote_test.c:88` says that they "create havoc for
  VoterM (but not VoterD)".  Of VoterM nothing is promised then: its readings come one at
  a time, as the benchmarker sends them (`SeqWindow`), and `RoundInv` needs that
  (`Counts`).  VoterD does have trouble with two inputs at once, as the first points of
  this list show.
* **Descriptors such as 100** (`commtypes.c:43`) lose digits in `serializePipe`; `PipesArrive`
  is checked of those it writes right.
* **Waypoints lag in SMR**: after a cold restart two responses may wait for ArtPot,
  which reads one per wake-up and so follows the one before the last.

## 6. Not modelled, and the plan

1. A second fault of SMR before the new process has answered (`voterm.c:849`), and
   DMR and TMR without the timing assumption.
2. Reads of VoterD that end inside a message (`voterd.c:295`, 4096 bytes).

Left out for good: the timing library and `RefreshTAS` (wrappers of system calls),
the potential-field arithmetic and the trigonometry of Mapper (functions of the
inputs, on which no protocol property depends), the lexer and grammar of the
plumber beyond the lists they produce, register flips and the search for processes
in the injector, GenericEmpty (an echo used by tests), memory errors whose effect
is not defined (`voterd.c:120` frees beyond an array, `voterd.c:564` copies a name
without its end, `mapper.c:80` and `mapper.c:139` index a grid without a check), run
scripts, tests and the vendored `include/ccv.h`.
