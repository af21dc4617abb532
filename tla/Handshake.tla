----------------------------- MODULE Handshake -----------------------------
(***************************************************************************)
(* How a replica gets its pipes: the fd server of a voter (fd_server.c for *)
(* VoterD, fd_serverm.c for VoterM), the client side (fd_client.c), the    *)
(* replica's signal handler (controller.c) and the table of replicas       *)
(* (replicas.c, startReplicas of voterm.c).                                *)
(*                                                                         *)
(* A replica is started by a fork of the voter or, when another one runs,  *)
(* by a fork of that one in its signal handler.  The new process connects, *)
(* gets the pipes of a slot with one message, and sends its pid back.      *)
(***************************************************************************)
EXTENDS Integers, Sequences, FiniteSets

CONSTANTS
    Instances,     \* the configurations to look at
    Links,         \* the pipes, in the plumber's order: [type, in]
    MaxFaults      \* bound: faults injected

\* Server: which voter; rep_count: how many replicas; hostile: a fault may hit
\* while the voter starts a replica, and a restart may find other replicas
\* that are still starting.
ASSUME HandshakeAssumption ==
    /\ Instances \subseteq [Server : {"VoterM", "VoterD"}, rep_count : 1 .. 3,
                            hostile : BOOLEAN]
    /\ Links \in Seq([type : STRING, in : BOOLEAN])
    /\ MaxFaults \in Nat

Procs == 1 .. 3 + 2 * MaxFaults   \* pids, in the order of the forks
NoPid == -1

\* A process that runs, in whatever stage of its start.
Stages == {"exec", "connected", "received", "named", "up"}

VARIABLE config    \* one of Instances
Server    == config.Server
rep_count == config.rep_count
Slots     == 0 .. rep_count - 1

\* A pipe is known by its place in Links, and by the slot and the turn of
\* createPipes it was made in.
Pipes == [type : {Links[j].type : j \in DOMAIN Links}, fd : DOMAIN Links]
Process == [state : Stages \cup {"none", "hung", "dead"}, slot : Slots \cup {-1},
            turn : Nat, pipes : Seq(Pipes), cpu : Nat, handlers : BOOLEAN,
            signalled : BOOLEAN]

VARIABLES
    \* the voter
    pc,          \* "fork", "accept", "send", "read", "up" or "exited"
    slot,        \* the slot it is starting
    starting,    \* startReplicas runs, not restartReplica
    conn,        \* connection_fd: the process it is connected to
    backlog,     \* connections that wait for accept()
    pid,         \* [Slots -> Procs \cup {NoPid}]
    pinned_cpu,  \* [Slots -> Nat]
    turn,        \* [Slots -> Nat]: how often the slot's pipes were created
    \* the processes
    proc,        \* [Procs -> Process]
    msg,         \* [Procs -> messages of sendFDS that wait for recvmsg]
    named,       \* processes that have written their pid
    \* history
    faulty       \* processes hit by a fault

voterVars == <<pc, slot, starting, conn, backlog, pid, pinned_cpu, turn>>
vars == <<config, voterVars, proc, msg, named, faulty>>

Message == [pipes : Seq(Pipes), cpu : Nat, slot : Slots, turn : Nat]

TypeOK ==
    /\ config \in Instances
    /\ pc \in {"fork", "accept", "send", "read", "up", "exited"}
    /\ slot \in Slots
    /\ starting \in BOOLEAN
    /\ conn \in Procs \cup {NoPid}
    /\ backlog \in Seq(Procs)
    /\ pid \in [Slots -> Procs \cup {NoPid}]
    /\ pinned_cpu \in [Slots -> Nat]
    /\ turn \in [Slots -> Nat]
    /\ proc \in [Procs -> Process]
    /\ msg \in [Procs -> Seq(Message)]
    /\ named \in SUBSET Procs
    /\ faulty \in SUBSET Procs

Unborn == [state |-> "none", slot |-> -1, turn |-> 0, pipes |-> <<>>,
           cpu |-> 0, handlers |-> FALSE, signalled |-> FALSE]

Alive(p)  == proc[p].state \in Stages \cup {"hung"}
NextPid   == CHOOSE p \in Procs : /\ proc[p].state = "none"
                                  /\ \A q \in 1 .. p - 1 : proc[q].state # "none"
MayFork   == \E p \in Procs : proc[p].state = "none"

\* createFDS, initReplicas and createPipes.
Init ==
    /\ config \in Instances
    /\ pc = "fork"
    /\ slot = 0
    /\ starting = TRUE
    /\ conn = NoPid
    /\ backlog = <<>>
    /\ pid = [s \in Slots |-> NoPid]
    /\ pinned_cpu = [s \in Slots |-> s + 1]
    /\ turn = [s \in Slots |-> 1]
    /\ proc = [p \in Procs |-> Unborn]
    /\ msg = [p \in Procs |-> <<>>]
    /\ named = {}
    /\ faulty = {}

-----------------------------------------------------------------------------
(***************************************************************************)
(* The voter.                                                              *)
(***************************************************************************)

\* forkReplicas of replicas.c: all the processes before the first accept().
ForkReplicasD ==
    /\ Server = "VoterD"
    /\ pid' = [pid EXCEPT ![slot] = NextPid]
    /\ IF slot = rep_count - 1
       THEN pc' = "accept" /\ slot' = 0
       ELSE pc' = "fork" /\ slot' = slot + 1

\* forkReplicas of voterm.c, called for one replica at a time.
ForkReplicasM ==
    /\ Server = "VoterM"
    /\ pc' = "accept"
    /\ UNCHANGED <<pid, slot>>

ForkReplicas ==
    /\ pc = "fork"
    /\ MayFork
    /\ proc' = [proc EXCEPT ![NextPid].state = "exec"]
    /\ ForkReplicasD \/ ForkReplicasM
    /\ UNCHANGED <<starting, conn, backlog, pinned_cpu, turn, msg, named, faulty>>

Accept ==
    /\ pc = "accept"
    /\ backlog # <<>>
    /\ conn' = Head(backlog)
    /\ backlog' = Tail(backlog)
    /\ pc' = "send"
    /\ UNCHANGED <<slot, starting, pid, pinned_cpu, turn, proc, msg, named, faulty>>

\* sendFDS of fd_serverm.c: inputs first, as parseArgs has sorted them.
Sorted(in) == SelectSeq([j \in DOMAIN Links |-> j], LAMBDA j : Links[j].in = in)
InsFirst == Sorted(TRUE) \o Sorted(FALSE)

\* sendFDS of fd_server.c: pipes and types in the plumber's order.
TypedPipesD == [j \in DOMAIN Links |-> [type |-> Links[j].type, fd |-> j]]

\* Mutant of TypedPipesM: the types are left in the plumber's order.
TypesUnsorted ==
    [j \in DOMAIN Links |-> [type |-> Links[j].type, fd |-> InsFirst[j]]]

TypedPipesM ==
    [j \in DOMAIN Links |-> [type |-> Links[InsFirst[j]].type, fd |-> InsFirst[j]]]

\* sendmsg to a process that is gone raises SIGPIPE, which nobody handles.
SendFDS ==
    /\ pc = "send"
    /\ \/ /\ proc[conn].state # "dead"
          /\ msg' = [msg EXCEPT ![conn] = Append(@,
                       [pipes |-> IF Server = "VoterM" THEN TypedPipesM
                                  ELSE TypedPipesD,
                        cpu |-> pinned_cpu[slot], slot |-> slot,
                        turn |-> turn[slot]])]
          /\ pc' = "read"
       \/ /\ proc[conn].state = "dead"
          /\ pc' = "exited"
          /\ UNCHANGED msg
    /\ UNCHANGED <<slot, starting, conn, backlog, pid, pinned_cpu, turn, proc,
                   named, faulty>>

\* The voter is done with a slot: the next one, or the main loop.
NextSlot ==
    IF starting /\ slot < rep_count - 1
    THEN /\ slot' = slot + 1
         /\ pc' = IF Server = "VoterM" THEN "fork" ELSE "accept"
         /\ UNCHANGED starting
    ELSE /\ pc' = "up"
         /\ starting' = FALSE
         /\ UNCHANGED slot

\* Mutant of ReadPid: the pid that fork() returned is kept.
KeepForkedPid ==
    /\ pc = "read"
    /\ conn \in named
    /\ pid' = [pid EXCEPT ![slot] = IF @ = NoPid THEN conn ELSE @]
    /\ NextSlot
    /\ conn' = NoPid
    /\ UNCHANGED <<backlog, pinned_cpu, turn, proc, msg, named, faulty>>

\* The last step of acceptSendFDS.
ReadPid ==
    /\ pc = "read"
    /\ conn \in named
    /\ pid' = [pid EXCEPT ![slot] = conn]
    /\ NextSlot
    /\ conn' = NoPid
    /\ UNCHANGED <<backlog, pinned_cpu, turn, proc, msg, named, faulty>>

\* The process died before it sent its pid.  startReplicas exits;
\* restartReplica does not look at what acceptSendFDS returns.
ReadPidFailed ==
    /\ pc = "read"
    /\ conn \notin named
    /\ proc[conn].state = "dead"
    /\ IF Server = "VoterM" \/ starting
       THEN pc' = "exited" /\ UNCHANGED <<slot, starting>>
       ELSE NextSlot
    /\ conn' = NoPid
    /\ UNCHANGED <<backlog, pid, pinned_cpu, turn, proc, msg, named, faulty>>

Failed(s) == pid[s] # NoPid => proc[pid[s]].state \in {"dead", "hung"}

\* Whom kill() reaches: a pid of -1 stands for every process.
Reached(n) == {p \in Procs : n \in {p, NoPid}}

\* Mutant of Signalled: the failed process is asked to fork.
SignalItself(e, r) ==
    [p \in Procs |-> IF p = pid[e] THEN [proc[p] EXCEPT !.signalled = TRUE]
                     ELSE proc[p]]

\* The processes after SIGKILL to slot e and RESTART_SIGNAL to slot r.
Signalled(e, r) ==
    [p \in Procs |->
       IF Alive(p) /\ p \in Reached(pid[e]) THEN [proc[p] EXCEPT !.state = "dead"]
       ELSE IF Alive(p) /\ rep_count > 1 /\ p \in Reached(pid[r])
       THEN [proc[p] EXCEPT !.signalled = TRUE]
       ELSE proc[p]]

\* restartReplica of replicas.c: the slot is reset, as if it were the first.
ResetSlotD(e) ==
    /\ Server = "VoterD"
    /\ pid' = [pid EXCEPT ![e] = NoPid]
    /\ pinned_cpu' = [pinned_cpu EXCEPT ![e] = 1]

\* killAndClean and startReplicas of voterm.c.
ResetSlotM(e) ==
    /\ Server = "VoterM"
    /\ UNCHANGED <<pid, pinned_cpu>>

Restart(e) ==
    /\ pc = "up"
    /\ Failed(e)
    /\ ~config.hostile => \A s \in Slots : ~Failed(s) => proc[pid[s]].state = "up"
    /\ proc' = Signalled(e, (e + rep_count - 1) % rep_count)
    /\ turn' = [turn EXCEPT ![e] = @ + 1]
    /\ ResetSlotD(e) \/ ResetSlotM(e)
    /\ slot' = e
    /\ starting' = (rep_count = 1)
    /\ pc' = IF rep_count = 1 THEN "fork" ELSE "accept"
    /\ UNCHANGED <<conn, backlog, msg, named, faulty>>

-----------------------------------------------------------------------------
(***************************************************************************)
(* A replica.                                                              *)
(***************************************************************************)
Connect(p) ==
    /\ proc[p].state = "exec"
    /\ proc' = [proc EXCEPT ![p].state = "connected"]
    /\ backlog' = Append(backlog, p)
    /\ UNCHANGED <<pc, slot, starting, conn, pid, pinned_cpu, turn, msg, named,
                   faulty>>

\* requestFDS, then InitTAS.
RequestFDS(p) ==
    /\ proc[p].state = "connected"
    /\ msg[p] # <<>>
    /\ proc' = [proc EXCEPT ![p].state = "received",
                            ![p].slot  = Head(msg[p]).slot,
                            ![p].turn  = Head(msg[p]).turn,
                            ![p].pipes = Head(msg[p]).pipes,
                            ![p].cpu   = Head(msg[p]).cpu]
    /\ msg' = [msg EXCEPT ![p] = Tail(@)]
    /\ UNCHANGED <<voterVars, named, faulty>>

SendPid(p) ==
    /\ proc[p].state = "received"
    /\ proc' = [proc EXCEPT ![p].state = "named"]
    /\ named' = named \cup {p}
    /\ UNCHANGED <<voterVars, msg, faulty>>

\* initController; a process that was forked in the handler returns from it.
InitController(p) ==
    /\ proc[p].state = "named"
    /\ proc' = [proc EXCEPT ![p].state = "up", ![p].handlers = TRUE]
    /\ UNCHANGED <<voterVars, msg, named, faulty>>

\* restartHandler.  Before initController the signal is deadly.
RestartHandler(p) ==
    /\ Alive(p)
    /\ proc[p].signalled
    /\ \/ /\ proc[p].handlers
          /\ MayFork
          /\ proc' = [proc EXCEPT
                        ![p].signalled = FALSE,
                        ![NextPid] = [Unborn EXCEPT !.state = "exec",
                                                    !.handlers = TRUE]]
       \/ /\ ~proc[p].handlers
          /\ proc' = [proc EXCEPT ![p].state = "dead"]
    /\ UNCHANGED <<voterVars, msg, named, faulty>>

\* The injector: one process is killed, or runs on without doing anything,
\* while no slot but one that is being started has failed.
Fault(p, state) ==
    /\ proc[p].state \in Stages
    /\ Cardinality(faulty) < MaxFaults
    /\ \A s \in Slots : Failed(s) => pc # "up" /\ (starting \/ s = slot)
    /\ config.hostile \/ pc = "up"
    /\ proc' = [proc EXCEPT ![p].state = state]
    /\ faulty' = faulty \cup {p}
    /\ UNCHANGED <<voterVars, msg, named>>

-----------------------------------------------------------------------------
Voter ==
    /\ \/ ForkReplicas \/ Accept \/ SendFDS \/ ReadPid \/ ReadPidFailed
       \/ \E e \in Slots : Restart(e)
    /\ UNCHANGED config

Replica(p) ==
    /\ \/ Connect(p) \/ RequestFDS(p) \/ SendPid(p) \/ InitController(p)
       \/ RestartHandler(p)
    /\ UNCHANGED config

Injector ==
    /\ \E p \in Procs, state \in {"dead", "hung"} : Fault(p, state)
    /\ UNCHANGED config

Next == Voter \/ (\E p \in Procs : Replica(p)) \/ Injector

Spec == Init /\ [][Next]_vars

\* Some process that can run always does; a failed replica is noticed (by
\* the voter's timer).
FairSpec == Spec /\ WF_vars(Voter \/ \E p \in Procs : Replica(p))

-----------------------------------------------------------------------------
\* Whichever process answered which accept(), the pid in a slot is that of
\* the process that holds the slot's pipes, and no other live process holds
\* them: a signal or a kill meant for a slot hits the right replica.  Unless
\* a fault struck in the middle of a start, no process is left over that
\* could go on answering (killAndClean, cleanupReplica), and none but failed
\* ones were killed ("Kill old replica", replicas.c:43).
TableRight ==
    pc = "up" =>
      /\ \A s \in Slots, p \in Procs :
           Alive(p) => (pid[s] = p <=> proc[p].slot = s /\ proc[p].turn = turn[s])
      /\ ~config.hostile => \A p \in Procs :
           /\ Alive(p) => \E s \in Slots : pid[s] = p
           /\ proc[p].state = "dead" => p \in faulty

\* A replica reads and writes every pipe as what it is, however the server
\* sorts them: the type that came with a file descriptor is the type of its
\* link.  Under VoterM every replica also keeps a CPU of its own ("replicas
\* should be pinned to CPUS 1, 2, and 3", include/system_config.h:20).
RightPipes ==
    /\ \A p \in Procs : \A k \in DOMAIN proc[p].pipes :
         proc[p].pipes[k].type = Links[proc[p].pipes[k].fd].type
    /\ Server = "VoterM" => \A p, q \in Procs :
         p # q /\ proc[p].state = "up" /\ proc[q].state = "up"
           => proc[p].cpu # proc[q].cpu

\* The voter gets back to its main loop after every start and every restart,
\* unless a fault strikes in the middle of one: whenever it waits in accept()
\* somebody connects ("You better know a client is about to connect!",
\* fd_server.c:109), and whoever connects sends its pid.
RestartCompletes == []<>(config.hostile \/ pc = "up")
=============================================================================
