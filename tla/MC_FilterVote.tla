--------------------------- MODULE MC_FilterVote ---------------------------
(***************************************************************************)
(* Instances of FilterVote for TLC: both builds with three replicas and    *)
(* every fault, and two replicas under a select() that takes its time.     *)
(***************************************************************************)
EXTENDS FilterVote

Every == {"kill", "sdc", "cfe"}

AllModes ==
    {[rep_count |-> 3, SINGLE_CORE |-> FALSE, scan |-> FALSE, kinds |-> Every],
     [rep_count |-> 3, SINGLE_CORE |-> TRUE,  scan |-> FALSE, kinds |-> Every],
     [rep_count |-> 2, SINGLE_CORE |-> FALSE, scan |-> TRUE,  kinds |-> {}]}
=============================================================================
