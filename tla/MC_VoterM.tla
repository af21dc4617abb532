----------------------------- MODULE MC_VoterM -----------------------------
(***************************************************************************)
(* Instances of VoterM for TLC.                                            *)
(***************************************************************************)
EXTENDS VoterM

\* TMR with every fault; DMR with the faults it masks and with the one it
\* only detects; SMR with the faults it notices; TMR on a heap that did not
\* start zeroed.
AllModes ==
    {[rep_count |-> 3, kinds |-> FaultKinds],
     [rep_count |-> 2, kinds |-> {"kill", "cfe"}],
     [rep_count |-> 2, kinds |-> {"sdc"}],
     [rep_count |-> 1, kinds |-> {"kill", "cfe"}],
     [rep_count |-> 3, kinds |-> {}]}

\* What a count that was never cleared may be; one stands for all junk.
Junk == [seq |-> 0, goal |-> 0, bad |-> TRUE]
Uncleared == {<<>>, <<Junk>>}
=============================================================================
