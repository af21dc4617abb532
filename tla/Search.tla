------------------------------- MODULE Search -------------------------------
(***************************************************************************)
(* The planner of AStar (controllers/a_star.c): the search in command(),   *)
(* on the sorted lists of controllers/mapping.c, and the waypoints that    *)
(* are cut from the path it finds.                                         *)
(***************************************************************************)
EXTENDS Integers, Sequences, FiniteSets, SequencesExt

CONSTANTS
    Width, Height,   \* of the room, which is the map without its outermost cells
    goal,            \* the cell of the goal
    Walls,           \* what an update may bring of the outermost cells
    MaxUpdates,      \* bound on the map updates
    MaxNew           \* bound on the new obstacles of an update

ASSUME SearchAssumption ==
    /\ Width \in Nat \ {0} /\ Height \in Nat \ {0}
    /\ goal \in (1 .. Width) \X (1 .. Height)
    /\ Walls \subseteq SUBSET (((0 .. Width + 1) \X (0 .. Height + 1)) \ ((1 .. Width) \X (1 .. Height)))
    /\ MaxUpdates \in Nat /\ MaxNew \in Nat

\* The cells of obstacle_map: those of the room, and the outermost ones.
Cells == (0 .. Width + 1) \X (0 .. Height + 1)
Room  == (1 .. Width) \X (1 .. Height)
Edge  == Cells \ Room

VARIABLES
    pc,             \* "select", "search", or where it ends: "crashed", "beyond"
    obstacle_map,   \* cells known to be obstacles
    pose,
    open_set,       \* [cell, g_score, sort_val, back_link], in order
    closed_set,     \* the same without sort_val, as a set
    goal_path,      \* cells
    current_goal, n_current_goal,   \* cells, or NULL
    ready_to_send,
    sent,           \* the last waypoints, or NULL
    solution,       \* what the last search came to
    from,           \* where the robot was then
    updates

vars == <<pc, obstacle_map, pose, open_set, closed_set, goal_path, current_goal,
          n_current_goal, ready_to_send, sent, solution, from, updates>>

NULL == <<>>

Init ==
    /\ pc = "select"
    /\ obstacle_map = {}
    /\ pose \in Room
    /\ open_set = <<>> /\ closed_set = {}
    /\ goal_path = <<>> /\ current_goal = NULL /\ n_current_goal = NULL
    /\ ready_to_send = FALSE
    /\ sent = NULL
    /\ solution = FALSE /\ from = pose
    /\ updates = 0

-----------------------------------------------------------------------------
(***************************************************************************)
(* Distances, in thousandths of a cell, rounded down.                      *)
(***************************************************************************)
Sqrt(n) == CHOOSE r \in 0 .. 8000 :
             r * r <= 1000000 * n /\ (r + 1) * (r + 1) > 1000000 * n

\* Squares of distances on maps of up to six cells a side.
Squares == {i * i + j * j : i \in 0 .. 5, j \in 0 .. 5}
RootOf == [n \in Squares |-> Sqrt(n)]
EstDistance(a, b) == RootOf[(a[1] - b[1]) * (a[1] - b[1]) + (a[2] - b[2]) * (a[2] - b[2])]
EstDistanceG(a) == EstDistance(a, goal)

-----------------------------------------------------------------------------
(***************************************************************************)
(* The lists of mapping.c.                                                 *)
(***************************************************************************)
FindNode(list, c) == {i \in DOMAIN list : list[i].cell = c}

\* Before the first node with a greater value.
AddNode(list, n) ==
    LET at == SelectInSeq(list, LAMBDA x : x.sort_val > n.sort_val)
    IN  IF at = 0 THEN Append(list, n) ELSE InsertAt(list, at, n)

RemoveNode(list, c) == SelectSeq(list, LAMBDA n : n.cell # c)

Around(c) ==
    LET offsets == << <<-1, -1>>, <<-1, 0>>, <<-1, 1>>, <<0, -1>>, <<0, 1>>,
                      <<1, -1>>, <<1, 0>>, <<1, 1>> >>
    IN  [k \in 1 .. 8 |-> << c[1] + offsets[k][1], c[2] + offsets[k][2] >>]

\* The neighbours, in the order of the two loops.
GenNeighbors(c) ==
    LET free(n) == n \notin obstacle_map
    IN  SelectSeq(Around(c), LAMBDA n :
                    /\ free(n)
                    /\ n[1] # c[1] /\ n[2] # c[2] => free(<<n[1], c[2]>>) \/ free(<<c[1], n[2]>>))

-----------------------------------------------------------------------------
(***************************************************************************)
(* command()                                                               *)
(***************************************************************************)
\* Mutant of Improve: the score of a cell that is open stays as it was.
ImproveNever(acc, current, n) ==
    LET tent_g_score == current.g_score + EstDistance(n, current.cell)
    IN  IF (\E x \in closed_set : x.cell = n) \/ FindNode(acc.list, n) # {} THEN acc
        ELSE [acc EXCEPT !.list =
                AddNode(acc.list,
                        [cell |-> n, g_score |-> tent_g_score,
                         sort_val |-> tent_g_score + EstDistanceG(n),
                         back_link |-> current.cell])]

\* One neighbour n of current.  list is open_set; when the only node of it is
\* replaced, removeNode leaves no list for addNode to add to.
Improve(acc, current, n) ==
    LET tent_g_score == current.g_score + EstDistance(n, current.cell)
        old == FindNode(acc.list, n)
    IN  IF acc.null \/ \E x \in closed_set : x.cell = n THEN acc
        ELSE IF old # {} /\ \A i \in old : tent_g_score >= acc.list[i].g_score THEN acc
        ELSE IF old # {} /\ Len(acc.list) = 1 THEN [acc EXCEPT !.null = TRUE]
        ELSE [acc EXCEPT !.list =
                AddNode(RemoveNode(acc.list, n),
                        [cell |-> n, g_score |-> tent_g_score,
                         sort_val |-> tent_g_score + EstDistanceG(n),
                         back_link |-> current.cell])]

\* The path behind the node n, by its back links, which all lead to closed nodes.
PathTo(n) ==
    LET back(c) == IF \E x \in closed_set : x.cell = c
                   THEN (CHOOSE x \in closed_set : x.cell = c).back_link ELSE NULL
        steps == FoldLeft(LAMBDA p, i : IF p[1] = NULL THEN p ELSE <<back(p[1])>> \o p,
                          <<n.back_link, n.cell>>, [i \in 1 .. Cardinality(closed_set) |-> i])
    IN  SelectSeq(steps, LAMBDA c : c # NULL)

StartSearch ==
    /\ pc' = "search"
    /\ open_set' = << [cell |-> pose', g_score |-> 0, sort_val |-> EstDistanceG(pose'),
                       back_link |-> NULL] >>
    /\ closed_set' = {}
    /\ solution' = FALSE /\ from' = pose'

\* The goal comes off the list: the old path is erased for the new one.
GoalReached(current) ==
    /\ goal_path' = PathTo(current)
    /\ solution' = TRUE
    /\ ready_to_send' = TRUE
    /\ pc' = "select"
    /\ open_set' = <<>> /\ closed_set' = {}

\* The list is empty: the old path stays.
NoPath ==
    /\ ready_to_send' = TRUE
    /\ pc' = "select"
    /\ open_set' = <<>> /\ closed_set' = {}
    /\ UNCHANGED <<goal_path, solution>>

\* One turn of the loop.  Around an outermost cell genNeighbors reads beyond the
\* array, and what it finds there, and the search after it, is not defined.
Command ==
    /\ pc = "search"
    /\ IF open_set = <<>> THEN NoPath
       ELSE LET current == Head(open_set) IN
            IF current.cell = goal THEN GoalReached(current)
            ELSE IF current.cell \in Edge
            THEN pc' = "beyond" /\ UNCHANGED <<open_set, closed_set, goal_path, solution, ready_to_send>>
            ELSE \E acc \in {FoldLeft(LAMBDA a, n : Improve(a, current, n),
                                      [list |-> Tail(open_set), null |-> FALSE],
                                      GenNeighbors(current.cell))} :
                   /\ closed_set' = closed_set \cup
                        {[cell |-> current.cell, g_score |-> current.g_score,
                          back_link |-> current.back_link]}
                   /\ open_set' = acc.list
                   /\ pc' = IF acc.null THEN "crashed" ELSE "search"
                   /\ UNCHANGED <<goal_path, solution, ready_to_send>>
    /\ UNCHANGED <<obstacle_map, pose, current_goal, n_current_goal, sent, from, updates>>

-----------------------------------------------------------------------------
(***************************************************************************)
(* enterLoop                                                               *)
(***************************************************************************)
\* A map update with the robot at p and the obstacles new.
RecvMapUpdate(p, new) ==
    /\ updates' = updates + 1
    /\ pose' = p
    /\ obstacle_map' = obstacle_map \cup new
    /\ sent' = NULL
    /\ IF new # {} THEN StartSearch
       ELSE UNCHANGED <<pc, open_set, closed_set, solution, from>>
    /\ UNCHANGED <<goal_path, current_goal, n_current_goal, ready_to_send>>

\* What commSendWaypoints is given: two cells of the map, or the point
\* (7.0, 7.0) twice.
Waypoints(c, n) == IF c = NULL \/ n = NULL THEN <<goal, goal>> ELSE <<c, n>>

\* A forced send cuts the next two cells from the path.
SendWaypoints(force_send) ==
    IF force_send
    THEN /\ current_goal' = IF goal_path = <<>> THEN NULL ELSE goal_path[1]
         /\ n_current_goal' = IF Len(goal_path) < 2 THEN NULL ELSE goal_path[2]
         /\ goal_path' = SubSeq(goal_path, 3, Len(goal_path))
         /\ sent' = Waypoints(current_goal', n_current_goal')
    ELSE /\ sent' = Waypoints(current_goal, n_current_goal)
         /\ UNCHANGED <<goal_path, current_goal, n_current_goal>>

RecvWayReq(padding) ==
    /\ pc = "select"
    /\ SendWaypoints(ready_to_send \/ padding = 1)
    /\ ready_to_send' = FALSE
    /\ UNCHANGED <<pc, obstacle_map, pose, open_set, closed_set, solution, from, updates>>

\* The robot is in the room, and never where an obstacle is.
Next ==
    \/ Command
    \/ /\ pc = "select" /\ updates < MaxUpdates
       /\ \E new \in SUBSET (Room \ obstacle_map), wall \in Walls :
            /\ Cardinality(new) <= MaxNew
            /\ \E p \in Room \ (obstacle_map \cup new) : RecvMapUpdate(p, new \cup wall)
    \/ \E padding \in {0, 1} : RecvWayReq(padding)

Spec == Init /\ [][Next]_vars

-----------------------------------------------------------------------------
(***************************************************************************)
(* The reference: the length of a shortest path, by relaxation.            *)
(***************************************************************************)
Far == 1000000
Step(a, b) ==
    /\ a # b /\ b \notin obstacle_map
    /\ a[1] - b[1] \in -1 .. 1 /\ a[2] - b[2] \in -1 .. 1
    /\ <<a[1], b[2]>> \notin obstacle_map \/ <<b[1], a[2]>> \notin obstacle_map
\* known: pairs of a cell and the length of the shortest way known to it; fresh:
\* those found last, from which longer ways may go on.
Relax(ways) ==
    LET all  == ways.known \cup UNION {{<<b, k[2] + EstDistance(k[1], b)>> :
                                   b \in {c \in Cells : Step(k[1], c)}} : k \in ways.fresh}
        best == {k \in all : \A l \in all : l[1] = k[1] => k[2] <= l[2]}
    IN  IF ways.fresh = {} THEN ways ELSE [known |-> best, fresh |-> best \ ways.known]
Shortest ==
    LET start == {<<from, 0>>}
        ways  == FoldLeft(LAMBDA w, i : Relax(w), [known |-> start, fresh |-> start],
                          [i \in 1 .. Cardinality(Cells) |-> i])
        reach == {k \in ways.known : k[1] = goal}
    IN  IF reach = {} THEN Far ELSE (CHOOSE k \in reach : TRUE)[2]
Length(path) ==
    FoldLeft(LAMBDA s, i : s + EstDistance(path[i], path[i + 1]), 0,
             [i \in 1 .. Len(path) - 1 |-> i])

\* A search has just ended, and nobody has asked for waypoints since.
Planned == pc = "select" /\ ready_to_send

TypeOK ==
    /\ pc \in {"select", "search", "crashed", "beyond"}
    /\ obstacle_map \subseteq Cells /\ pose \in Room
    /\ \A i \in DOMAIN open_set : open_set[i].cell \in Cells /\ open_set[i].g_score < Far
    /\ goal_path \in Seq(Cells)
    /\ current_goal \in Cells \cup {NULL} /\ n_current_goal \in Cells \cup {NULL}

\* A path found leads from the robot to the goal over free neighbours, and
\* never between two obstacles that touch at a corner.
PathSound ==
    Planned /\ solution =>
        /\ goal_path # <<>> /\ goal_path[1] = from /\ Last(goal_path) = goal
        /\ \A i \in 1 .. Len(goal_path) - 1 : Step(goal_path[i], goal_path[i + 1])

\* After a search that found a path the waypoints are free cells, and the
\* second is a neighbour of the first.
WaypointsFree ==
    solution /\ sent # NULL /\ sent # <<goal, goal>> =>
        sent[1] \notin obstacle_map /\ Step(sent[1], sent[2])

\* Once the walls are known, genNeighbors never reads beyond obstacle_map.
StaysInside == Edge \subseteq obstacle_map => pc # "beyond"

\* A path is found exactly when there is one; it is a way for the robot, none
\* is shorter, and the waypoints cut from it are on it (command(),
\* sendWaypoints(), a_star.c:134-241).  This is so of every search that ends,
\* and one that knows the walls does not leave the map (genNeighbors).
PathShortest ==
    /\ StaysInside
    /\ Planned => Shortest = IF solution THEN Length(goal_path) ELSE Far
    /\ PathSound
    /\ WaypointsFree
=============================================================================
