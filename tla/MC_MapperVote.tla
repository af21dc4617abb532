--------------------------- MODULE MC_MapperVote ---------------------------
(***************************************************************************)
(* Instances of MapperVote for TLC: three replicas that race, without      *)
(* faults, and three and two that do not, with them.                       *)
(***************************************************************************)
EXTENDS MapperVote

AllModes ==
    {[rep_count |-> 3, prompt |-> FALSE, kinds |-> {}],
     [rep_count |-> 3, prompt |-> TRUE,  kinds |-> {"kill", "sdc", "cfe"}],
     [rep_count |-> 2, prompt |-> TRUE,  kinds |-> {"kill", "cfe"}]}
=============================================================================
