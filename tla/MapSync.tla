------------------------------- MODULE MapSync -------------------------------
(***************************************************************************)
(* The planning half of the system: Mapper (controllers/mapper.c) finds    *)
(* obstacles and sends AStar (controllers/a_star.c) only what is new;      *)
(* ArtPot asks AStar for waypoints.  AStar runs as one replica under       *)
(* VoterD (SMR in controllers/configs/all_smr_wl.cfg): when it dies or     *)
(* hangs the voter starts a new process, which knows no obstacle and asks  *)
(* Mapper, in its first acknowledgement, to send all of them again.        *)
(*                                                                         *)
(* Mapper, ArtPot and their voters do not fail here; the links between the *)
(* components are queues.                                                  *)
(***************************************************************************)
EXTENDS Naturals, Sequences

CONSTANTS
    Cells,         \* cells of the grid
    OBS_THRES,     \* a cell seen more often than this is an obstacle
    RANGE_COUNT,   \* how often one reading may see the same cell
    Paddings,      \* the values of padding ArtPot sends
    PipeCap,       \* bound: updates in the pipe before Mapper's write blocks
    RepCap,        \* bound: how far the voter gets ahead of a running AStar
    MaxRestarts    \* bound: how often AStar is restarted

ASSUME BoundsAssumption ==
    /\ OBS_THRES \in Nat
    /\ RANGE_COUNT \in Nat
    /\ Paddings \subseteq BOOLEAN
    /\ PipeCap \in Nat
    /\ RepCap \in Nat
    /\ MaxRestarts \in Nat

\* The voter's pipes, in the order the plumber links them.
MAP_UPDATE == 0
COMM_ACK   == 1
WAY_REQ    == 2
WAY_RES    == 3
Ins  == {MAP_UPDATE, WAY_REQ}
Outs == {COMM_ACK, WAY_RES}

\* A message is what matters of it.  obs: the obstacles a MAP_UPDATE lists,
\* those a WAY_RES was planned around; flag: resend_request of a COMM_ACK,
\* padding of a WAY_REQ.
Msg == [obs : SUBSET Cells, flag : BOOLEAN]
Message(S, f) == [obs |-> S, flag |-> f]

VARIABLES
    \* Mapper
    hits,            \* its obstacle_map: how often each cell was seen
    resending_all,
    \* ArtPot
    way_pending,
    goal,            \* the obstacles its waypoints were planned around
    \* the voter
    ext_in,          \* [Ins -> Seq(Msg)]: pipes from Mapper and ArtPot
    ext_out,         \* [Outs -> Seq(Msg)]: pipes to them
    ext_buffer,      \* [Ins -> Seq(Msg)]: what the last read of each got
    timer_started,
    \* AStar and its pipes
    rep_in,
    rep_out,
    status,          \* "up" or "down": dead, or in an endless loop
    selected,        \* pipes the last select() reported, not handled yet
    obstacle_map,
    goal_path,       \* the obstacles the path was planned around
    current_goal,    \* the same for the waypoints in use
    request_all,
    ready_to_send,
    \* history
    restarts

mapperVars == <<hits, resending_all>>
artPotVars == <<way_pending, goal>>
extVars    == <<ext_in, ext_out>>
voterVars  == <<ext_buffer, timer_started>>
pipeVars   == <<rep_in, rep_out>>
planVars   == <<obstacle_map, goal_path, current_goal, request_all,
                ready_to_send>>
vars == <<mapperVars, artPotVars, extVars, voterVars, pipeVars, status,
          selected, planVars, restarts>>

Empty(P) == [p \in P |-> <<>>]

TypeOK ==
    /\ hits \in [Cells -> 0 .. OBS_THRES + 1]
    /\ resending_all \in BOOLEAN
    /\ way_pending \in BOOLEAN
    /\ goal \in SUBSET Cells
    /\ ext_in \in [Ins -> Seq(Msg)]
    /\ ext_out \in [Outs -> Seq(Msg)]
    /\ ext_buffer \in [Ins -> Seq(Msg)]
    /\ timer_started \in BOOLEAN
    /\ rep_in \in [Ins -> Seq(Msg)]
    /\ rep_out \in [Outs -> Seq(Msg)]
    /\ status \in {"up", "down"}
    /\ selected \in SUBSET Ins
    /\ obstacle_map \in SUBSET Cells
    /\ goal_path \in SUBSET Cells
    /\ current_goal \in SUBSET Cells
    /\ request_all \in BOOLEAN
    /\ ready_to_send \in BOOLEAN
    /\ restarts \in Nat

Init ==
    /\ hits = [c \in Cells |-> 0]
    /\ resending_all = FALSE
    /\ way_pending = FALSE
    /\ goal = {}
    /\ ext_in = Empty(Ins)
    /\ ext_out = Empty(Outs)
    /\ ext_buffer = Empty(Ins)
    /\ timer_started = FALSE
    /\ rep_in = Empty(Ins)
    /\ rep_out = Empty(Outs)
    /\ status = "up"
    /\ selected = {}
    /\ obstacle_map = {}
    /\ goal_path = {}
    /\ current_goal = {}
    /\ request_all = TRUE
    /\ ready_to_send = FALSE
    /\ restarts = 0

-----------------------------------------------------------------------------
(***************************************************************************)
(* Mapper.  A wake-up handles a reading, an acknowledgement or both, the   *)
(* reading first.                                                          *)
(***************************************************************************)

Obstacles(h) == {c \in Cells : h[c] > OBS_THRES}

\* addObstacle for every range of a reading that saw cell c seen[c] times.
AddObstacles(seen) ==
    [c \in Cells |-> IF hits[c] + seen[c] > OBS_THRES
                     THEN OBS_THRES + 1 ELSE hits[c] + seen[c]]

\* Mutant: only what is new, whatever was asked for.
UpdateNewOnly(h) == Obstacles(h) \ Obstacles(hits)

\* What updateMap sends: the new obstacles, and all of them when a resend
\* was asked for.
Update(h) ==
    IF resending_all THEN Obstacles(h) ELSE Obstacles(h) \ Obstacles(hits)

\* One reading, with the acknowledgement that is there, if any.  One that
\* comes between select() and the write is left for the next wake-up, which
\* nobody but Mapper can tell from taking it now.
RecvReading(seen) ==
    /\ Len(ext_in[MAP_UPDATE]) < PipeCap
    /\ hits' = AddObstacles(seen)
    /\ ext_in' = [ext_in EXCEPT ![MAP_UPDATE] =
                    Append(@, Message(Update(AddObstacles(seen)), FALSE))]
    /\ IF ext_out[COMM_ACK] = <<>>
       THEN /\ resending_all' = FALSE
            /\ UNCHANGED ext_out
       ELSE /\ resending_all' = Head(ext_out[COMM_ACK]).flag
            /\ ext_out' = [ext_out EXCEPT ![COMM_ACK] = Tail(@)]
    /\ UNCHANGED <<artPotVars, voterVars, pipeVars, status, selected,
                   planVars, restarts>>

RecvAck ==
    /\ ext_out[COMM_ACK] # <<>>
    /\ resending_all' = (resending_all \/ Head(ext_out[COMM_ACK]).flag)
    /\ ext_out' = [ext_out EXCEPT ![COMM_ACK] = Tail(@)]
    /\ UNCHANGED <<hits, artPotVars, ext_in, voterVars, pipeVars, status,
                   selected, planVars, restarts>>

-----------------------------------------------------------------------------
(***************************************************************************)
(* ArtPot, as far as its waypoints go.                                     *)
(***************************************************************************)

\* Mutant: way_pending is not looked at.
RequestAlways(padding) ==
    /\ way_pending' = TRUE
    /\ ext_in' = [ext_in EXCEPT ![WAY_REQ] =
                    Append(@, Message({}, padding))]
    /\ UNCHANGED <<mapperVars, goal, ext_out, voterVars, pipeVars, status,
                   selected, planVars, restarts>>

\* command() asks for waypoints unless it waits for some; padding says that
\* the robot has come to the end of those it has.
RequestWaypoints(padding) ==
    /\ ~way_pending
    /\ way_pending' = TRUE
    /\ ext_in' = [ext_in EXCEPT ![WAY_REQ] =
                    Append(@, Message({}, padding))]
    /\ UNCHANGED <<mapperVars, goal, ext_out, voterVars, pipeVars, status,
                   selected, planVars, restarts>>

RecvWaypoints ==
    /\ ext_out[WAY_RES] # <<>>
    /\ goal' = Head(ext_out[WAY_RES]).obs
    /\ way_pending' = FALSE
    /\ ext_out' = [ext_out EXCEPT ![WAY_RES] = Tail(@)]
    /\ UNCHANGED <<mapperVars, ext_in, voterVars, pipeVars, status, selected,
                   planVars, restarts>>

-----------------------------------------------------------------------------
(***************************************************************************)
(* VoterD with one replica.                                                *)
(***************************************************************************)

\* doOneUpdate: while the timer is off, all that waits in the first pipe
\* with data is read and passed on.  Both inputs are timed.
ProcessData(p) ==
    /\ ~timer_started
    /\ ext_in[p] # <<>>
    /\ status = "up" => Len(rep_in[p]) < RepCap
    /\ \A q \in Ins : q < p => ext_in[q] = <<>>
    /\ ext_buffer' = [ext_buffer EXCEPT ![p] = ext_in[p]]
    /\ rep_in' = [rep_in EXCEPT ![p] = @ \o ext_in[p]]
    /\ ext_in' = [ext_in EXCEPT ![p] = <<>>]
    /\ timer_started' = TRUE
    /\ UNCHANGED <<mapperVars, artPotVars, ext_out, rep_out, status, selected,
                   planVars, restarts>>

\* The other half of doOneUpdate: processFromRep for every pipe with answers
\* passes them on.  Any answer stops the timer, whichever input started it.
ProcessFromRep ==
    /\ rep_out # Empty(Outs)
    /\ ext_out' = [p \in Outs |-> ext_out[p] \o rep_out[p]]
    /\ rep_out' = Empty(Outs)
    /\ timer_started' = FALSE
    /\ UNCHANGED <<mapperVars, artPotVars, ext_in, ext_buffer, rep_in, status,
                   selected, planVars, restarts>>

\* Mutant: the new process does not ask for the map.
RestartWithoutRequest ==
    /\ timer_started
    /\ restarts < MaxRestarts
    /\ restarts' = restarts + 1
    /\ rep_in' = ext_buffer
    /\ rep_out' = Empty(Outs)
    /\ status' = "up"
    /\ selected' = {}
    /\ obstacle_map' = {}
    /\ goal_path' = {}
    /\ current_goal' = {}
    /\ request_all' = FALSE
    /\ ready_to_send' = FALSE
    /\ UNCHANGED <<mapperVars, artPotVars, extVars, voterVars>>

\* The timer expires: the replica is killed, its pipes are closed with what
\* is in them, a new process gets new pipes and on each of them the bytes of
\* the last read, answered before or not.  The timer stays on.
VoterRestartHandler ==
    /\ timer_started
    /\ restarts < MaxRestarts
    /\ restarts' = restarts + 1
    /\ rep_in' = ext_buffer
    /\ rep_out' = Empty(Outs)
    /\ status' = "up"
    /\ selected' = {}
    /\ obstacle_map' = {}
    /\ goal_path' = {}
    /\ current_goal' = {}
    /\ request_all' = TRUE
    /\ ready_to_send' = FALSE
    /\ UNCHANGED <<mapperVars, artPotVars, extVars, voterVars>>

-----------------------------------------------------------------------------
(***************************************************************************)
(* AStar.                                                                  *)
(***************************************************************************)

Select ==
    /\ status = "up"
    /\ selected = {}
    /\ selected' = {p \in Ins : rep_in[p] # <<>>}
    /\ selected' # {}
    /\ UNCHANGED <<mapperVars, artPotVars, extVars, voterVars, pipeVars,
                   status, planVars, restarts>>

\* command(): the search for a path around the obstacles AStar knows, taken
\* to find one; a path is abstracted to the obstacles it avoids.
Command(known) == known

\* Mutant: the new path waits until the old waypoints are used up.
RecvWithoutReady ==
    /\ status = "up"
    /\ MAP_UPDATE \in selected
    /\ LET m == Head(rep_in[MAP_UPDATE]) IN
         /\ obstacle_map' = obstacle_map \cup m.obs
         /\ goal_path' = IF m.obs # {} THEN Command(obstacle_map') ELSE goal_path
    /\ rep_out' = [rep_out EXCEPT ![COMM_ACK] =
                     Append(@, Message({}, request_all))]
    /\ request_all' = FALSE
    /\ rep_in' = [rep_in EXCEPT ![MAP_UPDATE] = Tail(@)]
    /\ selected' = selected \ {MAP_UPDATE}
    /\ UNCHANGED <<mapperVars, artPotVars, extVars, voterVars, status,
                   current_goal, ready_to_send, restarts>>

\* One map update.  New obstacles lead to a new path.  Every
\* update is acknowledged, the first one with a request for all obstacles.
RecvMapUpdate ==
    /\ status = "up"
    /\ MAP_UPDATE \in selected
    /\ LET m == Head(rep_in[MAP_UPDATE]) IN
         /\ obstacle_map' = obstacle_map \cup m.obs
         /\ IF m.obs # {}
            THEN goal_path' = Command(obstacle_map') /\ ready_to_send' = TRUE
            ELSE UNCHANGED <<goal_path, ready_to_send>>
    /\ rep_out' = [rep_out EXCEPT ![COMM_ACK] =
                     Append(@, Message({}, request_all))]
    /\ request_all' = FALSE
    /\ rep_in' = [rep_in EXCEPT ![MAP_UPDATE] = Tail(@)]
    /\ selected' = selected \ {MAP_UPDATE}
    /\ UNCHANGED <<mapperVars, artPotVars, extVars, voterVars, status,
                   current_goal, restarts>>

\* The waypoints sendWaypoints sends: the next ones of the path if it is
\* forced to, else the same ones again.
Waypoints(force_send) == IF force_send THEN goal_path ELSE current_goal

\* One request.  New waypoints are sent if there is a new path or the robot
\* has come to the end of those it has.
SendWaypoints ==
    /\ status = "up"
    /\ WAY_REQ \in selected
    /\ MAP_UPDATE \notin selected
    /\ current_goal' = Waypoints(ready_to_send \/ Head(rep_in[WAY_REQ]).flag)
    /\ ready_to_send' = FALSE
    /\ rep_out' = [rep_out EXCEPT ![WAY_RES] =
                     Append(@, Message(current_goal', FALSE))]
    /\ rep_in' = [rep_in EXCEPT ![WAY_REQ] = Tail(@)]
    /\ selected' = selected \ {WAY_REQ}
    /\ UNCHANGED <<mapperVars, artPotVars, extVars, voterVars, status,
                   obstacle_map, goal_path, request_all, restarts>>

\* SIGKILL or an endless loop, between any two steps.
Crash ==
    /\ status = "up"
    /\ restarts < MaxRestarts
    /\ status' = "down"
    /\ selected' = {}
    /\ UNCHANGED <<mapperVars, artPotVars, extVars, voterVars, pipeVars,
                   planVars, restarts>>

-----------------------------------------------------------------------------
Mapper == RecvAck \/ \E seen \in [Cells -> 0 .. RANGE_COUNT] : RecvReading(seen)
ArtPot == RecvWaypoints \/ \E padding \in Paddings : RequestWaypoints(padding)
VoterD ==
    \/ \E p \in Ins : ProcessData(p)
    \/ ProcessFromRep
    \/ VoterRestartHandler
AStar  == Select \/ RecvMapUpdate \/ SendWaypoints

Next == Mapper \/ ArtPot \/ VoterD \/ AStar \/ Crash

Spec == Init /\ [][Next]_vars

\* Readings keep coming to Mapper and to ArtPot, every process that can run
\* runs, and the timer expires.  The voter is quick enough to take a request
\* when it keeps meeting the update pipe empty.  Nothing makes AStar crash.
Fairness ==
    /\ WF_vars(\E seen \in [Cells -> 0 .. RANGE_COUNT] : RecvReading(seen))
    /\ WF_vars(Mapper) /\ WF_vars(ArtPot) /\ WF_vars(VoterD) /\ WF_vars(AStar)
    /\ SF_vars(ProcessData(WAY_REQ))

FairSpec == Spec /\ Fairness
-----------------------------------------------------------------------------
\* All the obstacles in the messages of s.
Listed(s) == UNION {s[i].obs : i \in 1 .. Len(s)}

Requested(s) == \E i \in 1 .. Len(s) : s[i].flag

\* A resend of the whole map is due: AStar has to be restarted or has yet to
\* ask for it, or the request is on its way.
ResendDue ==
    \/ status = "down"
    \/ request_all
    \/ Requested(rep_out[COMM_ACK])
    \/ Requested(ext_out[COMM_ACK])
    \/ resending_all

\* Every obstacle Mapper counts as reported is in AStar's map, on its way
\* there, or about to be reported again: whenever AStar is killed, no
\* obstacle is forgotten for good (mapper.c:133-145, a_star.c:287-292).
NothingForgotten ==
    ResendDue \/ Obstacles(hits) \subseteq
        (obstacle_map \cup Listed(ext_in[MAP_UPDATE])
                      \cup Listed(rep_in[MAP_UPDATE]))

\* Requests for waypoints do not pile up ("Do these calls stack up?",
\* a_star.c:301): one is on its way at a time, until a restart repeats the
\* requests of the last read although they were answered before; a restart
\* at most doubles them (voterd.c:150-156).
RequestsDoNotStack ==
    Len(ext_in[WAY_REQ]) + Len(rep_in[WAY_REQ]) + Len(rep_out[WAY_RES])
        + Len(ext_out[WAY_RES]) <= 2 ^ restarts

\* AStar comes to know every obstacle, restarts or not.
MapsConverge ==
    \A c \in Cells : (c \in Obstacles(hits)) ~> (c \in obstacle_map)

\* The voter is ready for an input and finds no update waiting.
Unloaded == ~timer_started /\ ext_in[MAP_UPDATE] = <<>>

\* The robot is led around every obstacle in the end: a new path reaches
\* ArtPot although AStar only answers requests and repeats old waypoints
\* (ready_to_send, a_star.c:302-307).  Updates come first in the voter, so
\* this takes that AStar keeps up with them.
WaypointsAvoidObstacles ==
    []<>Unloaded => \A c \in Cells : (c \in Obstacles(hits)) ~> (c \in goal)
=============================================================================
