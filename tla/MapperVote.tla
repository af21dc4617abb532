----------------------------- MODULE MapperVote -----------------------------
(***************************************************************************)
(* Two or three replicas of Mapper (controllers/mapper.c) under VoterD.    *)
(* A reading is timed and answered with a map update; an acknowledgement   *)
(* of AStar is neither, and may ask Mapper to send every obstacle again.   *)
(* The voter passes an acknowledgement on and goes on at once: a replica   *)
(* that wakes up late finds the next reading beside it, and handles the    *)
(* reading first.                                                          *)
(*                                                                         *)
(* An update is a header and one unit per obstacle, since the voter knows  *)
(* nothing of messages and takes what all replicas have sent.  VoterD has  *)
(* the steps of a restart, which is one step here, and MapSync what a      *)
(* restarted AStar does.                                                   *)
(***************************************************************************)
EXTENDS Integers, Sequences, FiniteSets, SequencesExt

CONSTANTS
    Instances,     \* the configurations to look at
    MaxReadings,   \* bound: readings sent
    MaxStarts,     \* bound: how often AStar is started anew
    MaxFaults      \* bound: faults injected

\* rep_count: 2 (DMR) or 3 (TMR); prompt: an acknowledgement is handled before
\* the next input comes; kinds: the faults that strike.
ASSUME MapperVoteAssumption ==
    /\ Instances \subseteq [rep_count : 2..3, prompt : BOOLEAN,
                            kinds : SUBSET {"kill", "sdc", "cfe"}]
    /\ MaxReadings \in Nat /\ MaxStarts \in Nat /\ MaxFaults \in Nat

DATA == "DATA"
ACK  == "ACK"

VARIABLES
    config,          \* one of Instances
    \* the outside
    sensed,          \* readings sent so far
    ext_data,        \* readings waiting for the voter
    ext_ack,         \* acknowledgements waiting: their resend_request
    ext_out,         \* updates on their way to AStar
    planner,         \* AStar: [map, request_all]
    starts,          \* how often it was started anew
    \* the voter
    timer_started,
    buffers,         \* [Reps -> Seq(units)]
    blamed,          \* the replica restarted last, with its reason
    \* the replicas and their pipes
    rep_data,        \* [Reps -> Seq(Nat)]
    rep_ack,         \* [Reps -> Seq(BOOLEAN)]
    rep_out,         \* [Reps -> Seq(units)]
    status,          \* "up", "looping" or "dead"
    selected,        \* pipes the last select() reported, not handled yet
    obstacle_map,    \* [Reps -> set of obstacles]
    resending_all,
    insertSDC, insertCFE,
    \* history
    faulty, faults

extVars   == <<sensed, ext_data, ext_ack, ext_out, planner, starts>>
voterVars == <<timer_started, buffers, blamed>>
repVars   == <<status, selected, obstacle_map, resending_all, insertSDC, insertCFE>>
histVars  == <<faulty, faults>>
vars == <<config, extVars, voterVars, rep_data, rep_ack, rep_out, repVars, histVars>>

rep_count == config.rep_count
Reps      == 0 .. rep_count - 1

Nobody == [rep |-> 0, why |-> "none", healthy |-> FALSE]

Init ==
    /\ config \in Instances
    /\ sensed = 0 /\ ext_data = <<>> /\ ext_ack = <<>> /\ ext_out = <<>>
    /\ planner = [map |-> {}, request_all |-> TRUE] /\ starts = 0
    /\ timer_started = FALSE /\ buffers = [r \in Reps |-> <<>>] /\ blamed = Nobody
    /\ rep_data = [r \in Reps |-> <<>>] /\ rep_ack = [r \in Reps |-> <<>>]
    /\ rep_out = [r \in Reps |-> <<>>]
    /\ status = [r \in Reps |-> "up"] /\ selected = [r \in Reps |-> {}]
    /\ obstacle_map = [r \in Reps |-> {}] /\ resending_all = [r \in Reps |-> FALSE]
    /\ insertSDC = [r \in Reps |-> FALSE] /\ insertCFE = [r \in Reps |-> FALSE]
    /\ faulty = {} /\ faults = 0

\* Mutant of Update: obs_count is taken before the resend is added.
UpdateShortCount(k, all, resend, bad) ==
    LET list == <<k>> \o (IF resend THEN SetToSeq(all) ELSE <<>>)
    IN  <<<<"header", k, 1, bad>>>> \o
        [i \in 1 .. Len(list) |-> <<"obstacle", list[i]>>]

\* What updateMap sends for reading k, which shows obstacle k: the new one,
\* and then, if all were asked for, every one.  The code lists them in the
\* order of its grid; any order will do that is the same for all replicas.
Header(k, n, bad) == <<"header", k, n, bad>>
Unit(c) == <<"obstacle", c>>
Update(k, all, resend, bad) ==
    LET list == <<k>> \o (IF resend THEN SetToSeq(all) ELSE <<>>)
    IN  <<Header(k, Len(list), bad)>> \o [i \in 1 .. Len(list) |-> Unit(list[i])]
IsHeader(u) == u[1] = "header"
Obstacles(s) == {s[i][2] : i \in {j \in DOMAIN s : ~IsHeader(s[j])}}

-----------------------------------------------------------------------------
(***************************************************************************)
(* The outside: Filter's readings, and AStar.                              *)
(***************************************************************************)
SendReading ==
    /\ sensed < MaxReadings
    /\ ext_data = <<>>
    /\ sensed' = sensed + 1
    /\ ext_data' = <<sensed + 1>>
    /\ UNCHANGED <<ext_ack, ext_out, planner, starts, voterVars, rep_data, rep_ack,
                   rep_out, repVars, histVars>>

\* One whole update: a header, and as many obstacles as it says.
RecvMapUpdate ==
    /\ ext_out # <<>> /\ IsHeader(Head(ext_out))
    /\ LET n == Head(ext_out)[3] IN
         /\ Len(ext_out) > n
         /\ planner' = [map |-> planner.map \cup Obstacles(SubSeq(ext_out, 2, n + 1)),
                        request_all |-> FALSE]
         /\ ext_out' = SubSeq(ext_out, n + 2, Len(ext_out))
    /\ ext_ack' = Append(ext_ack, planner.request_all)
    /\ UNCHANGED <<sensed, ext_data, starts, voterVars, rep_data, rep_ack, rep_out,
                   repVars, histVars>>

\* AStar is started anew, with an empty map.
StartAStar ==
    /\ starts < MaxStarts
    /\ starts' = starts + 1
    /\ planner' = [map |-> {}, request_all |-> TRUE]
    /\ UNCHANGED <<sensed, ext_data, ext_ack, ext_out, voterVars, rep_data, rep_ack,
                   rep_out, repVars, histVars>>

-----------------------------------------------------------------------------
(***************************************************************************)
(* Mapper.                                                                 *)
(***************************************************************************)
Select(r) ==
    /\ status[r] = "up" /\ selected[r] = {}
    /\ LET ready == {p \in {DATA, ACK} : IF p = DATA THEN rep_data[r] # <<>>
                                                     ELSE rep_ack[r] # <<>>} IN
         /\ ready # {}
         /\ IF insertCFE[r]
            THEN status' = [status EXCEPT ![r] = "looping"] /\ UNCHANGED selected
            ELSE selected' = [selected EXCEPT ![r] = ready] /\ UNCHANGED status
    /\ UNCHANGED <<extVars, voterVars, rep_data, rep_ack, rep_out, obstacle_map,
                   resending_all, insertSDC, insertCFE, histVars>>

RecvReading(r) ==
    /\ status[r] = "up" /\ DATA \in selected[r]
    /\ LET k == Head(rep_data[r]) IN
         /\ obstacle_map' = [obstacle_map EXCEPT ![r] = @ \cup {k}]
         /\ rep_out' = [rep_out EXCEPT ![r] =
                          @ \o Update(k, obstacle_map'[r], resending_all[r], insertSDC[r])]
    /\ resending_all' = [resending_all EXCEPT ![r] = FALSE]
    /\ rep_data' = [rep_data EXCEPT ![r] = Tail(@)]
    /\ selected' = [selected EXCEPT ![r] = @ \ {DATA}]
    /\ insertSDC' = [insertSDC EXCEPT ![r] = FALSE]
    /\ UNCHANGED <<extVars, voterVars, rep_ack, status, insertCFE, histVars>>

\* Mutant of RecvAck: the request is not kept.
RecvAckForget(r) ==
    /\ status[r] = "up" /\ selected[r] = {ACK}
    /\ rep_ack' = [rep_ack EXCEPT ![r] = Tail(@)]
    /\ selected' = [selected EXCEPT ![r] = {}]
    /\ UNCHANGED <<extVars, voterVars, rep_data, rep_out, status, obstacle_map,
                   resending_all, insertSDC, insertCFE, histVars>>

RecvAck(r) ==
    /\ status[r] = "up" /\ selected[r] = {ACK}
    /\ resending_all' = [resending_all EXCEPT ![r] = @ \/ Head(rep_ack[r])]
    /\ rep_ack' = [rep_ack EXCEPT ![r] = Tail(@)]
    /\ selected' = [selected EXCEPT ![r] = {}]
    /\ UNCHANGED <<extVars, voterVars, rep_data, rep_out, status, obstacle_map,
                   insertSDC, insertCFE, histVars>>

Fault(r, kind) ==
    /\ faults < MaxFaults /\ faulty = {} /\ status[r] = "up"
    /\ faults' = faults + 1 /\ faulty' = {r}
    /\ status' = IF kind = "kill" THEN [status EXCEPT ![r] = "dead"] ELSE status
    /\ insertSDC' = [insertSDC EXCEPT ![r] = @ \/ kind = "sdc"]
    /\ insertCFE' = [insertCFE EXCEPT ![r] = @ \/ kind = "cfe"]
    /\ UNCHANGED <<extVars, voterVars, rep_data, rep_ack, rep_out, selected,
                   obstacle_map, resending_all>>

-----------------------------------------------------------------------------
(***************************************************************************)
(* VoterD.                                                                 *)
(***************************************************************************)
BytesReady(b) == CHOOSE n \in {Len(b[r]) : r \in Reps} : \A r \in Reps : n <= Len(b[r])
CheckSync == \A r, q \in Reps : Len(buffers[r]) = Len(buffers[q])

\* Every replica that runs has handled its acknowledgements.
AcksHandled == \A r \in Reps : status[r] = "up" => rep_ack[r] = <<>>

\* Mutant of ProcessData: the reading starts no timer.
ProcessDataUntimed ==
    /\ ~timer_started /\ CheckSync /\ ext_data # <<>>
    /\ config.prompt => AcksHandled
    /\ rep_data' = [r \in Reps |-> rep_data[r] \o ext_data]
    /\ ext_data' = <<>>
    /\ UNCHANGED <<sensed, ext_ack, ext_out, planner, starts, timer_started, buffers,
                   blamed, rep_ack, rep_out, repVars, histVars>>

\* A reading, which starts the timer, or else the acknowledgements.
ProcessData ==
    /\ ~timer_started /\ CheckSync /\ ext_data # <<>>
    /\ config.prompt => AcksHandled
    /\ rep_data' = [r \in Reps |-> rep_data[r] \o ext_data]
    /\ ext_data' = <<>>
    /\ timer_started' = TRUE
    /\ UNCHANGED <<sensed, ext_ack, ext_out, planner, starts, buffers, blamed,
                   rep_ack, rep_out, repVars, histVars>>

ProcessAck ==
    /\ ~timer_started /\ CheckSync /\ ext_data = <<>> /\ ext_ack # <<>>
    /\ rep_ack' = [r \in Reps |-> rep_ack[r] \o ext_ack]
    /\ ext_ack' = <<>>
    /\ UNCHANGED <<sensed, ext_data, ext_out, planner, starts, voterVars, rep_data,
                   rep_out, repVars, histVars>>

\* sendPipe of what all have, from replica s.
SendPipe(b, s) ==
    /\ ext_out' = ext_out \o SubSeq(b[s], 1, BytesReady(b))
    /\ buffers' = [r \in Reps |-> SubSeq(b[r], BytesReady(b) + 1, Len(b[r]))]

\* restart_prep: e becomes a copy of s, with its voting buffer and the input
\* it has not read, and what is then ready is sent.
RestartPrep(b, e, s, why, out) ==
    /\ status[s] # "dead"
    /\ SendPipe([b EXCEPT ![e] = b[s]], s)
    /\ rep_out' = [out EXCEPT ![e] = <<>>]
    /\ rep_data' = [rep_data EXCEPT ![e] = rep_data[s]]
    /\ rep_ack' = [rep_ack EXCEPT ![e] = rep_ack[s]]
    /\ status' = [status EXCEPT ![e] = status[s]]
    /\ selected' = [selected EXCEPT ![e] = selected[s]]
    /\ obstacle_map' = [obstacle_map EXCEPT ![e] = obstacle_map[s]]
    /\ resending_all' = [resending_all EXCEPT ![e] = resending_all[s]]
    /\ insertSDC' = [insertSDC EXCEPT ![e] = insertSDC[s]]
    /\ insertCFE' = [insertCFE EXCEPT ![e] = insertCFE[s]]
    /\ blamed' = [rep |-> e, why |-> why, healthy |-> e \notin faulty]
    /\ timer_started' = FALSE
    /\ faulty' = faulty \ {e}

\* compareBuffs of what is ready.
Agree(b, r, q) ==
    SubSeq(b[r], 1, BytesReady(b)) = SubSeq(b[q], 1, BytesReady(b))
Succ(r, k) == (r + k) % rep_count

\* Mutant of Trusted: the result of compareBuffs is taken the wrong way.
TrustedInverted(b) ==
    {r \in Reps : /\ ~Agree(b, r, Succ(r, 1))
                  /\ \A q \in 0 .. r - 1 : Agree(b, q, Succ(q, 1))}

\* The replica checkSDC goes by: 0 in DMR, in TMR the first that agrees with
\* the next one.
Trusted(b) ==
    IF rep_count = 2 THEN {0}
    ELSE {r \in Reps : /\ Agree(b, r, Succ(r, 1))
                       /\ \A q \in 0 .. r - 1 : ~Agree(b, q, Succ(q, 1))}
Outvoted(b) == {r \in Trusted(b) : rep_count = 3 /\ ~Agree(b, r, Succ(r, 2))}

\* processFromRep and checkSDC.
ProcessFromRep(r) ==
    /\ rep_out[r] # <<>>
    /\ \E b \in {[buffers EXCEPT ![r] = @ \o rep_out[r]]} :
       LET out == [rep_out EXCEPT ![r] = <<>>] IN
         \/ /\ BytesReady(b) > 0
            /\ \E s \in Outvoted(b) : RestartPrep(b, Succ(s, 2), s, "SDC", out)
            /\ UNCHANGED faults
         \/ /\ BytesReady(b) > 0 /\ Outvoted(b) = {}
            /\ \E s \in Trusted(b) : SendPipe(b, s)
            /\ timer_started' = FALSE
            /\ rep_out' = out
            /\ UNCHANGED <<blamed, rep_data, rep_ack, repVars, histVars>>
         \/ /\ BytesReady(b) = 0 \/ Trusted(b) = {}
            /\ buffers' = b /\ rep_out' = out
            /\ timer_started' = TRUE
            /\ UNCHANGED <<ext_out, blamed, rep_data, rep_ack, repVars, histVars>>
    /\ UNCHANGED <<sensed, ext_data, ext_ack, planner, starts>>

\* voterRestartHandler, after all that run have answered.  Of several that
\* are equally far behind any may be the one (behindRep goes by priority).
VoterRestartHandler ==
    /\ timer_started
    /\ \A r \in Reps : /\ rep_out[r] = <<>>
                       /\ status[r] = "up" => rep_data[r] = <<>> /\ selected[r] = {}
    /\ \E e \in {r \in Reps : \A q \in Reps : Len(buffers[r]) <= Len(buffers[q])} :
         RestartPrep(buffers, e, Succ(e, rep_count - 1), "timeout", rep_out)
    /\ UNCHANGED <<sensed, ext_data, ext_ack, planner, starts, faults>>

-----------------------------------------------------------------------------
Outside == (SendReading \/ RecvMapUpdate \/ StartAStar) /\ UNCHANGED config
Voter ==
    /\ \/ ProcessData \/ ProcessAck \/ VoterRestartHandler
       \/ \E r \in Reps : ProcessFromRep(r)
    /\ UNCHANGED config
Replicas ==
    /\ \E r \in Reps : Select(r) \/ RecvReading(r) \/ RecvAck(r)
    /\ UNCHANGED config
Injector ==
    /\ \E r \in Reps, kind \in config.kinds : Fault(r, kind)
    /\ UNCHANGED config

Next == Outside \/ Voter \/ Replicas \/ Injector

Spec == Init /\ [][Next]_vars

\* The voter and the replicas run when they can, and the timer expires.
FairSpec == Spec /\ WF_vars(Voter) /\ WF_vars(Replicas)

-----------------------------------------------------------------------------
TypeOK ==
    /\ config \in Instances
    /\ sensed \in Nat /\ ext_data \in Seq(Nat) /\ ext_ack \in Seq(BOOLEAN)
    /\ planner \in [map : SUBSET (1 .. MaxReadings), request_all : BOOLEAN]
    /\ timer_started \in BOOLEAN
    /\ rep_data \in [Reps -> Seq(Nat)] /\ rep_ack \in [Reps -> Seq(BOOLEAN)]
    /\ status \in [Reps -> {"up", "looping", "dead"}]
    /\ selected \in [Reps -> SUBSET {DATA, ACK}]
    /\ obstacle_map \in [Reps -> SUBSET (1 .. MaxReadings)]
    /\ resending_all \in [Reps -> BOOLEAN]
    /\ faulty \subseteq Reps /\ faults \in Nat /\ starts \in Nat

\* What AStar reads is a sequence of whole updates, none of them corrupted:
\* whatever the voter cut the replicas' bytes into, it put together again
\* (sendPipe, copyPipe).
UpdatesWhole ==
    /\ ext_out # <<>> => IsHeader(ext_out[1])
    /\ \A i \in DOMAIN ext_out :
         IsHeader(ext_out[i]) =>
             LET next == i + ext_out[i][3] + 1 IN
             /\ ~ext_out[i][4]
             /\ next <= Len(ext_out) + 1
             /\ \A j \in i + 1 .. next - 1 : ~IsHeader(ext_out[j])
             /\ next \in DOMAIN ext_out => IsHeader(ext_out[next])

\* No obstacle is forgotten, whichever way the replicas' races and the votes
\* between them end: for every healthy replica a resend is due, or each of
\* its obstacles is in AStar's map or on its way there.
NothingForgotten ==
    \A r \in Reps : status[r] = "up" /\ r \notin faulty =>
        \/ planner.request_all
        \/ \E i \in DOMAIN ext_ack : ext_ack[i]
        \/ \E i \in DOMAIN rep_ack[r] : rep_ack[r][i]
        \/ resending_all[r]
        \/ obstacle_map[r] \subseteq
             planner.map \cup Obstacles(ext_out) \cup Obstacles(buffers[r] \o rep_out[r])

\* "Caught SDC" (voterd.c:438): as long as acknowledgements are handled in
\* time, the voter says so of a replica only when that replica is faulty.
CaughtSDC == config.prompt /\ blamed.why = "SDC" => ~blamed.healthy

\* As long as acknowledgements are handled in time, every reading is taken and
\* answered in the end, and the replicas are in step again.
EveryReadingAnswered ==
    []<>(config.prompt => ext_data = <<>> /\ ~timer_started /\ CheckSync)
=============================================================================
