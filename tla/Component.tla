----------------------------- MODULE Component -----------------------------
(***************************************************************************)
(* What replication promises to the rest of the system: one ArtPot process *)
(* that takes its inputs from its pipes in order and answers every reading *)
(* once, with exactly what command() writes.  The weaker configurations    *)
(* promise less: a corrupted velocity may pass, or the process may start   *)
(* again, and then answers with whatever waypoints it has got since.       *)
(***************************************************************************)
EXTENDS ArtPot

CONSTANT Values     \* what an input message may be

VARIABLES
    in,       \* [Ins -> Seq(Values)]: inputs not taken yet
    out,      \* [Outs -> Seq(Msg)]: everything written
    state,    \* the controller's state
    promise   \* "masks", "corrupts" or "restarts"; it never changes

cvars == <<in, out, state, promise>>

CInit ==
    /\ in = [p \in Ins |-> <<>>]
    /\ out = [p \in Outs |-> <<>>]
    /\ state = CtlInit
    /\ promise \in {"masks", "corrupts", "restarts"}

\* The environment writes an input.
Arrive ==
    /\ \E p \in Ins, v \in Values : in' = [in EXCEPT ![p] = Append(@, v)]
    /\ UNCHANGED <<out, state>>

\* New waypoints are taken; only the last of several counts.
TakeWaypoints ==
    /\ in[WAY_RES] # <<>>
    /\ \E k \in 1 .. Len(in[WAY_RES]) :
         /\ state' = RecvWay(state, in[WAY_RES][k])
         /\ in' = [in EXCEPT ![WAY_RES] = SubSeq(@, k + 1, Len(@))]
    /\ UNCHANGED out

\* The states command() may work from.
Current ==
    IF promise = "restarts"
    THEN [goal : Values, way_pending : BOOLEAN, seq_count : {state.seq_count}]
    ELSE {state}

\* One reading is taken and its answer written.
AnswerReading ==
    /\ in[DATA] # <<>>
    /\ \E c \in Current, sdc \in BOOLEAN :
         /\ sdc => promise = "corrupts"
         /\ out' = [p \in Outs |->
                      out[p] \o Answer(c, Head(in[DATA]), sdc)[p]]
    /\ state' = AfterCommand(state, Head(in[DATA]))
    /\ in' = [in EXCEPT ![DATA] = Tail(@)]

\* The process is replaced by a new one.
StartAgain ==
    /\ promise = "restarts"
    /\ state' = CtlInit
    /\ UNCHANGED <<in, out>>

CNext ==
    /\ Arrive \/ TakeWaypoints \/ AnswerReading \/ StartAgain
    /\ UNCHANGED promise

CSpec == CInit /\ [][CNext]_cvars
=============================================================================
