------------------------------- MODULE Wiring -------------------------------
(***************************************************************************)
(* How the plumber (plumber/pb.y, plumber/plumbing.c) wires the system up  *)
(* from its configuration file, and what the voters and components make of *)
(* the arguments they are started with: the file descriptors               *)
(* (serializePipe and the parsers of its text) and the tables that tie a   *)
(* timed input to the output that answers it (parseArgs of the voters).    *)
(***************************************************************************)
EXTENDS Integers, Sequences, FiniteSets, SequencesExt

CONSTANTS
    Configs,     \* files: declarations, then links
    Types,       \* message types that commToEnum knows
    FirstFds,    \* file descriptors pipe() may start with
    BenchIn,     \* data_in.fd_in, given by the benchmarker
    BenchOut     \* cmd_out.fd_out

ASSUME WiringAssumption ==
    /\ FirstFds \subseteq Nat \ {0}
    /\ BenchIn \in Nat \ {0} /\ BenchOut \in Nat \ {0}

\* A file is [declarations, relations].  A declaration is [name, value, run],
\* where run is "none" or the voter.  A relation is [from, fromTimed, type, to,
\* toTimed]; a name in () is timed 1, in [] 2.
Bench == "Bench"

VARIABLES
    config,    \* the file this run reads
    declared,  \* number of declarations read so far
    nodes,     \* the node list: declarations, in order
    pipes,     \* node -> sequence of [type, fd_in, fd_out, timed]
    linked,    \* numbers of the relations that are done
    next_fd,   \* what pipe() returns next
    failed,    \* yyparse gave up
    launched,  \* nodes started so far
    tables     \* node -> what the started program has parsed

vars == <<config, declared, nodes, pipes, linked, next_fd, failed, launched, tables>>

Declarations == config.declarations
Relations    == config.relations
Names == {Declarations[i].name : i \in DOMAIN Declarations}
RunOf(n) == LET i == CHOOSE j \in DOMAIN nodes : nodes[j].name = n IN nodes[i].run

Empty == [pipes |-> <<>>, timer_start_index |-> <<>>, timer_stop_index |-> <<>>]

Init ==
    /\ config \in Configs
    /\ declared = 0
    /\ nodes = <<>>
    /\ pipes = [n \in Names |-> <<>>]
    /\ linked = {}
    /\ next_fd \in FirstFds
    /\ failed = FALSE
    /\ launched = {}
    /\ tables = [n \in Names |-> Empty]

-----------------------------------------------------------------------------
(***************************************************************************)
(* The plumber.                                                            *)
(***************************************************************************)

\* add_node; a name that is taken keeps its first declaration.
AddNode ==
    /\ ~failed /\ launched = {}
    /\ declared < Len(Declarations)
    /\ declared' = declared + 1
    /\ LET d == Declarations[declared + 1] IN
         nodes' = IF \E i \in DOMAIN nodes : nodes[i].name = d.name
                  THEN nodes ELSE Append(nodes, d)
    /\ UNCHANGED <<config, pipes, linked, next_fd, failed, launched, tables>>

Pipe(type, in, out, timed) ==
    [type |-> type, fd_in |-> in, fd_out |-> out, timed |-> timed]

\* The timed argument of link_bench is a bool.
AsBool(timed) == IF timed = 0 THEN 0 ELSE 1

LinkBench(l) ==
    /\ pipes' = IF l.from = Bench
                THEN [pipes EXCEPT ![l.to] =
                        Append(@, Pipe(l.type, BenchIn, 0, AsBool(l.toTimed)))]
                ELSE [pipes EXCEPT ![l.from] =
                        Append(@, Pipe(l.type, 0, BenchOut, AsBool(l.fromTimed)))]
    /\ UNCHANGED <<next_fd, failed>>

LinkNode(l) ==
    /\ pipes' = [pipes EXCEPT
                   ![l.from] = Append(@, Pipe(l.type, 0, next_fd + 1, l.fromTimed)),
                   ![l.to]   = Append(@, Pipe(l.type, next_fd, 0, l.toTimed))]
    /\ next_fd' = next_fd + 2
    /\ UNCHANGED failed

\* One line of the file; a type nobody knows ends the parsing.
Relationship(i) ==
    /\ ~failed /\ launched = {}
    /\ declared = Len(Declarations)
    /\ i \notin linked
    /\ \A j \in 1 .. i - 1 : j \in linked
    /\ linked' = linked \cup {i}
    /\ LET l == Relations[i] IN
         \/ Bench \in {l.from, l.to} /\ LinkBench(l)
         \/ Bench \notin {l.from, l.to} /\ l.type \in Types /\ LinkNode(l)
         \/ /\ Bench \notin {l.from, l.to} /\ l.type \notin Types
            /\ failed' = TRUE
            /\ UNCHANGED <<pipes, next_fd>>
    /\ UNCHANGED <<config, declared, nodes, launched, tables>>

-----------------------------------------------------------------------------
(***************************************************************************)
(* The text of a pipe: type, two file descriptors and, for a voter, timed, *)
(* with ':' between them.  The name of the type counts as one character.   *)
(***************************************************************************)
Chars == <<"0", "1", "2", "3", "4", "5", "6", "7", "8", "9">>
Digit(n, k) == Chars[((n \div 10^k) % 10) + 1]
IsDigit(c)  == \E d \in 1 .. 10 : Chars[d] = c

\* How many digits n has, and how many serializePipe makes room for.
Digits(n) == CHOOSE d \in 1 .. 9 : n \div 10^d = 0 /\ \A k \in 1 .. d - 1 : n \div 10^k > 0
NumLen(n) == CHOOSE d \in 1 .. 9 : /\ (n \div 10^d) % 10 = 0
                                   /\ \A k \in 1 .. d - 1 : (n \div 10^k) % 10 > 0

\* Mutant of SerializePipe: the digits from the last to the first.
SerializeBackwards(p) ==
    LET out == p.fd_in = 0
        fd  == IF out THEN p.fd_out ELSE p.fd_in
        txt == [i \in 1 .. Digits(fd) |-> Digit(fd, i - 1)]
    IN  IF out THEN <<p.type, ":", "0", ":">> \o txt
        ELSE <<p.type, ":">> \o txt \o <<":", "0">>

\* serializePipe.  Digit k goes to the place at + num_len - 1 - k; where no
\* digit falls, what was there stays, which is whatever malloc returned.
SerializePipe(p) ==
    LET out == p.fd_in = 0
        fd  == IF out THEN p.fd_out ELSE p.fd_in
        at  == IF out THEN 5 ELSE 3
        pre == IF out THEN <<p.type, ":", "0", ":">> ELSE <<p.type, ":">>
        txt == [i \in 1 .. at + Digits(fd) - 1 |->
                  IF at + NumLen(fd) - 1 - i \in 0 .. Digits(fd) - 1
                  THEN Digit(fd, at + NumLen(fd) - 1 - i)
                  ELSE IF i < at THEN pre[i] ELSE "?"]
    IN  IF out THEN txt ELSE txt \o <<":", "0">>

\* Field k of the text, and atoi of it.
Field(s, k) ==
    LET colons == SelectSeq([i \in 1 .. Len(s) |-> i], LAMBDA i : s[i] = ":")
        all    == <<0>> \o colons \o <<Len(s) + 1>>
    IN  IF k >= Len(all) THEN <<>> ELSE SubSeq(s, all[k] + 1, all[k + 1] - 1)
Atoi(f) ==
    LET n == CHOOSE m \in 0 .. Len(f) : /\ \A i \in 1 .. m : IsDigit(f[i])
                                        /\ m = Len(f) \/ ~IsDigit(f[m + 1])
    IN  FoldLeft(LAMBDA v, c : 10 * v + (CHOOSE d \in 0 .. 9 : Chars[d + 1] = c),
                 0, SubSeq(f, 1, n))

\* deserializePipe, for a component without a voter.
DeserializePipe(s) ==
    Pipe(Field(s, 1)[1], Atoi(Field(s, 2)), Atoi(Field(s, 3)), 0)

\* parsePipe of VoterD and VoterS, and the same in VoterM's parseArgs.
ParsePipe(s) ==
    Pipe(Field(s, 1)[1], Atoi(Field(s, 2)), Atoi(Field(s, 3)), Atoi(Field(s, 4)))

-----------------------------------------------------------------------------
(***************************************************************************)
(* The voters' parseArgs.  Pipes are counted from 1.                       *)
(***************************************************************************)
IsIn(p)  == p.fd_in # 0
Where(ps, Test(_)) == SelectSeq([i \in 1 .. Len(ps) |-> i], LAMBDA i : Test(ps[i]))

\* Mutant of ParseArgsM: one counter for both kinds of pipes.
OneCounter(ps) ==
    [pipes |-> SelectSeq(ps, IsIn) \o SelectSeq(ps, LAMBDA p : ~IsIn(p)),
     timer_start_index |-> Where(ps, LAMBDA p : p.timed > 0 /\ IsIn(p)),
     timer_stop_index  |-> Where(ps, LAMBDA p : p.timed > 0 /\ ~IsIn(p))]

\* VoterM has its inputs and its outputs in two arrays, and files a timed
\* pipe under the number of its pair; 0 stands for what is never set.
ParseArgsM(ps) ==
    LET sorted == SelectSeq(ps, IsIn) \o SelectSeq(ps, LAMBDA p : ~IsIn(p))
        filed(sub, t) == IF \E i \in 1 .. Len(sub) : sub[i].timed = t
                         THEN CHOOSE i \in 1 .. Len(sub) : sub[i].timed = t
                         ELSE 0
    IN  [pipes |-> sorted,
         timer_start_index |-> [t \in 1 .. 2 |-> filed(SelectSeq(ps, IsIn), t)],
         timer_stop_index  |->
            [t \in 1 .. 2 |-> filed(SelectSeq(ps, LAMBDA p : ~IsIn(p)), t)]]

\* VoterD numbers the timed inputs and the timed outputs as they come.
ParseArgsD(ps) ==
    [pipes |-> ps,
     timer_start_index |-> Where(ps, LAMBDA p : p.timed > 0 /\ IsIn(p)),
     timer_stop_index  |-> Where(ps, LAMBDA p : p.timed > 0 /\ ~IsIn(p))]

\* VoterS has no timer.
ParseArgsS(ps) == [Empty EXCEPT !.pipes = ps]

\* launch_node: the next node of the list.  main does not look at what
\* yyparse returns.
LaunchNode(n) ==
    /\ declared = Len(Declarations)
    /\ failed \/ linked = DOMAIN Relations
    /\ n = nodes[Cardinality(launched) + 1].name
    /\ launched' = launched \cup {n}
    /\ LET run    == RunOf(n)
           serial == [i \in DOMAIN pipes[n] |-> SerializePipe(pipes[n][i])]
           argv   == [i \in DOMAIN serial |->
                        serial[i] \o <<":", Chars[pipes[n][i].timed + 1]>>]
           ps     == [i \in DOMAIN argv |-> ParsePipe(argv[i])]
       IN tables' = [tables EXCEPT ![n] =
            CASE run = "none"   -> [Empty EXCEPT !.pipes =
                                      [i \in DOMAIN serial |-> DeserializePipe(serial[i])]]
              [] run = "VoterM" -> ParseArgsM(ps)
              [] run = "VoterD" -> ParseArgsD(ps)
              [] run = "VoterS" -> ParseArgsS(ps)]
    /\ UNCHANGED <<config, declared, nodes, pipes, linked, next_fd, failed>>

Next ==
    \/ AddNode
    \/ \E i \in DOMAIN Relations : Relationship(i)
    \/ \E n \in Names : Cardinality(launched) < Len(nodes) /\ LaunchNode(n)

Spec == Init /\ [][Next]_vars

-----------------------------------------------------------------------------
\* The two ends of every link are with the programs the file names, the
\* writing end with the first: whatever was linked before, and even when a
\* later line of the file is refused.
EndsMatch ==
    \A i \in linked :
        LET l == Relations[i] IN
          l.from \in launched /\ l.to \in launched /\ l.type \in Types =>
            \E p \in ToSet(tables[l.from].pipes), q \in ToSet(tables[l.to].pipes) :
                /\ p.type = l.type /\ q.type = l.type
                /\ IsIn(q) /\ ~IsIn(p)
                /\ p.fd_out = q.fd_in + 1

\* Components that go by the position of a pipe find there what they expect:
\* Logger its readings (logger.c:44), Filter its input (filter.c:37), Load its
\* output (load.c:33).
PositionsRight ==
    \A d \in ToSet(nodes) :
        d.name \in launched /\ tables[d.name].pipes # <<>> =>
          LET ps == tables[d.name].pipes IN
            CASE d.value = "Logger" -> IsIn(ps[1]) /\ ps[1].type = "RANGE_POSE_DATA"
              [] d.value = "Filter" -> \A i \in DOMAIN ps : IsIn(ps[i]) <=> i = 1
              [] d.value = "Load"   -> ~IsIn(ps[1])
              [] OTHER -> TRUE

\* Every program gets the pipes it was given: what it parses is what the
\* plumber linked, up to order (and up to timed, which components ignore),
\* and each pipe connects the programs the file says, in the places where
\* they look for it (serializePipe, deserializePipe, parsePipe).
PipesArrive ==
    /\ \A n \in launched :
         ToSet([i \in DOMAIN tables[n].pipes |-> [tables[n].pipes[i] EXCEPT !.timed = 0]])
           = ToSet([i \in DOMAIN pipes[n] |-> [pipes[n][i] EXCEPT !.timed = 0]])
    /\ EndsMatch
    /\ PositionsRight

\* The output that the voter n waits for after an input on its timed pair t
\* is the one the file marks as the answer.  VoterM looks it up by the
\* number of the input, not of the pair (voterm.c:200 and 726).
Paired(n, t) ==
    LET tab == tables[n]
        a   == tab.timer_start_index[t]
        ins == Len(SelectSeq(tab.pipes, IsIn))
    IN  IF RunOf(n) = "VoterM"
        THEN a # 0 => /\ a \in DOMAIN tab.timer_stop_index
                      /\ ins + tab.timer_stop_index[a] \in ins + 1 .. Len(tab.pipes)
                      /\ tab.pipes[ins + tab.timer_stop_index[a]].timed = t
        ELSE /\ t \in DOMAIN tab.timer_stop_index
             /\ tab.pipes[tab.timer_stop_index[t]].timed = tab.pipes[a].timed

\* "in graph, () indicates that this is the timed piped"
\* (controllers/configs/all_tmr_wl.cfg:3).
TimersPaired ==
    \A n \in launched : \A t \in DOMAIN tables[n].timer_start_index : Paired(n, t)
=============================================================================
