----------------------------- MODULE MC_VoterD -----------------------------
(***************************************************************************)
(* Instances of VoterD for TLC.                                            *)
(***************************************************************************)
EXTENDS VoterD

Every == {"kill", "sdc", "cfe"}

\* TMR and DMR in step, and TMR with two inputs at once, where a restart
\* meets inputs that its restarter has not read.
AllModes ==
    {[rep_count |-> 3, burst |-> 1, inputs |-> 4, kinds |-> Every],
     [rep_count |-> 2, burst |-> 1, inputs |-> 4, kinds |-> {"kill", "cfe"}],
     [rep_count |-> 3, burst |-> 2, inputs |-> 3, kinds |-> {"sdc"}]}

\* TMR, two inputs at once, and a replica that is killed.
Bursts == {[rep_count |-> 3, burst |-> 2, inputs |-> 2, kinds |-> {"kill"}]}
=============================================================================
