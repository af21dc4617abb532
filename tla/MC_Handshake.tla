---------------------------- MODULE MC_Handshake ----------------------------
(***************************************************************************)
(* Instances of Handshake for TLC, with AStar's links as they are in       *)
(* controllers/configs/all_tmr_wl.cfg.                                     *)
(***************************************************************************)
EXTENDS Handshake

AStarLinks == << [type |-> "MAP_UPDATE", in |-> TRUE],
                 [type |-> "COMM_ACK",   in |-> FALSE],
                 [type |-> "WAY_REQ",    in |-> TRUE],
                 [type |-> "WAY_RES",    in |-> FALSE] >>

\* Both voters with three replicas, VoterM with one, and VoterD when faults
\* strike at any time.
AllModes ==
    {[Server |-> "VoterD", rep_count |-> 3, hostile |-> FALSE],
     [Server |-> "VoterM", rep_count |-> 3, hostile |-> FALSE],
     [Server |-> "VoterM", rep_count |-> 1, hostile |-> FALSE],
     [Server |-> "VoterD", rep_count |-> 3, hostile |-> TRUE]}
=============================================================================
