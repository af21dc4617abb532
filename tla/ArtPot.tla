------------------------------- MODULE ArtPot -------------------------------
(***************************************************************************)
(* The ArtPot controller (controllers/art_pot.c): the component VoterM     *)
(* replicates in every shipped configuration.  It is deterministic: the    *)
(* velocity and the waypoint request it sends are functions of the sensor  *)
(* reading and of the waypoints it holds.  A message is abstracted to what *)
(* determines its bytes: the reading it answers, the waypoints in use and  *)
(* whether a fault corrupted it.                                           *)
(***************************************************************************)
EXTENDS Naturals, Sequences

\* Pipe indexes, in the order the plumber links them to the voter
\* (controllers/configs/all_tmr_wl.cfg).
DATA    == 0      \* RANGE_POSE_DATA in, timed
WAY_RES == 1      \* WAY_RES in
WAY_REQ == 0      \* WAY_REQ out
MOV_CMD == 1      \* MOV_CMD out, timed
Ins  == {DATA, WAY_RES}
Outs == {WAY_REQ, MOV_CMD}

\* seq: the reading a MOV_CMD answers, or a WAY_REQ's padding was derived
\* from; goal: the waypoints in use; bad: the SDC flag was set.
Msg == [seq : Nat, goal : Nat, bad : BOOLEAN]

\* The controller's state: goal/next_goal as the number of the WAY_RES they
\* came from (0: none yet), way_pending, and seq_count, the last reading.
\* Readings are numbered from 1, so that 0 stands for the code's initial -1.
Ctl == [goal : Nat, way_pending : BOOLEAN, seq_count : Nat]

CtlInit == [goal |-> 0, way_pending |-> FALSE, seq_count |-> 0]

\* A WAY_RES arrives: new waypoints, and the next command may ask again.
RecvWay(c, w) == [c EXCEPT !.goal = w, !.way_pending = FALSE]

\* What command() writes for reading n: a request unless one is outstanding,
\* and always a velocity, which alone an SDC corrupts.
Answer(c, n, sdc) ==
    [p \in Outs |->
        IF p = MOV_CMD
        THEN <<[seq |-> n, goal |-> c.goal, bad |-> sdc]>>
        ELSE IF c.way_pending
             THEN <<>>
             ELSE <<[seq |-> n, goal |-> c.goal, bad |-> FALSE]>>]

\* Reading n is noted, and command() leaves a request outstanding whatever
\* way_pending was.
AfterCommand(c, n) == [c EXCEPT !.way_pending = TRUE, !.seq_count = n]

NoOutput == [p \in Outs |-> <<>>]
=============================================================================
