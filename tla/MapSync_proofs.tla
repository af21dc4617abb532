--------------------------- MODULE MapSync_proofs ---------------------------
(***************************************************************************)
(* Proofs about MapSync, for every grid, threshold and bound: the types,   *)
(* that no obstacle is forgotten however often AStar is restarted, and     *)
(* that a restart at most doubles the waypoint requests on their way.      *)
(***************************************************************************)
EXTENDS MapSync, TLAPS, SequenceTheorems, FiniteSetTheorems, FunctionTheorems

\* The four pipes are where they should be and differ.
LEMMA Pipes ==
    /\ MAP_UPDATE \in Ins /\ WAY_REQ \in Ins /\ MAP_UPDATE # WAY_REQ
    /\ COMM_ACK \in Outs /\ WAY_RES \in Outs /\ COMM_ACK # WAY_RES
BY DEF MAP_UPDATE, WAY_REQ, COMM_ACK, WAY_RES, Ins, Outs

\* Message makes messages.
LEMMA MessageType ==
    ASSUME NEW S \in SUBSET Cells, NEW f \in BOOLEAN
    PROVE  /\ Message(S, f) \in Msg
           /\ Message(S, f).obs = S /\ Message(S, f).flag = f
BY DEF Message, Msg

\* Empty pipes are pipes.
LEMMA EmptyType ==
    Empty(Ins) \in [Ins -> Seq(Msg)] /\ Empty(Outs) \in [Outs -> Seq(Msg)]
BY DEF Empty

\* What appending a message adds to the obstacles and requests of a pipe.
LEMMA OfAppend ==
    ASSUME NEW s \in Seq(Msg), NEW m \in Msg
    PROVE  /\ Listed(s) \cup m.obs \subseteq Listed(Append(s, m))
           /\ Requested(s) \/ m.flag => Requested(Append(s, m))
<1> DEFINE t == Append(s, m)
<1>1. t \in Seq(Msg) /\ Len(t) = Len(s) + 1
      /\ t[Len(s) + 1] = m /\ \A i \in 1 .. Len(s) : t[i] = s[i]
  OBVIOUS
<1>2. Len(s) \in Nat
  OBVIOUS
<1>3. 1 .. Len(s) \subseteq 1 .. Len(t) /\ Len(s) + 1 \in 1 .. Len(t)
  BY <1>1, <1>2
<1> HIDE DEF t
<1>4. Listed(s) \cup m.obs \subseteq Listed(t)
  BY <1>1, <1>3 DEF Listed
<1>5. Requested(s) \/ m.flag => Requested(t)
  BY <1>1, <1>3 DEF Requested
<1> QED BY <1>4, <1>5 DEF t

\* What concatenation does to them.
LEMMA OfConcat ==
    ASSUME NEW s \in Seq(Msg), NEW t \in Seq(Msg)
    PROVE  /\ Listed(s) \cup Listed(t) \subseteq Listed(s \o t)
           /\ Requested(s) \/ Requested(t) => Requested(s \o t)
<1> DEFINE u == s \o t
<1>1. /\ u \in Seq(Msg) /\ Len(u) = Len(s) + Len(t)
      /\ \A i \in 1 .. Len(s) : u[i] = s[i]
      /\ \A i \in 1 .. Len(t) : u[Len(s) + i] = t[i]
  OBVIOUS
<1>2. Len(s) \in Nat /\ Len(t) \in Nat
  OBVIOUS
<1>3. 1 .. Len(s) \subseteq 1 .. Len(u)
      /\ \A i \in 1 .. Len(t) : Len(s) + i \in 1 .. Len(u)
  BY <1>1, <1>2
<1> HIDE DEF u
<1>4. Listed(s) \cup Listed(t) \subseteq Listed(u)
  BY <1>1, <1>3 DEF Listed
<1>5. Requested(s) \/ Requested(t) => Requested(u)
  BY <1>1, <1>3 DEF Requested
<1> QED BY <1>4, <1>5 DEF u

\* What taking the first message leaves of them.
LEMMA OfTail ==
    ASSUME NEW s \in Seq(Msg), s # <<>>
    PROVE  /\ Head(s) \in Msg /\ Tail(s) \in Seq(Msg)
           /\ Listed(s) \subseteq Head(s).obs \cup Listed(Tail(s))
           /\ Requested(s) => Head(s).flag \/ Requested(Tail(s))
<1> DEFINE t == Tail(s)
<1>1. /\ Head(s) \in Msg /\ t \in Seq(Msg) /\ Len(t) = Len(s) - 1
      /\ Head(s) = s[1] /\ \A i \in 1 .. Len(t) : t[i] = s[i + 1]
  OBVIOUS
<1>2. Len(s) \in Nat /\ Len(s) > 0
  OBVIOUS
<1>3. \A i \in 1 .. Len(s) : i = 1 \/ (i - 1 \in 1 .. Len(t) /\ t[i - 1] = s[i])
  BY <1>1, <1>2
<1> HIDE DEF t
<1>4. \A i \in 1 .. Len(s) : s[i].obs \subseteq Head(s).obs \cup Listed(t)
  BY <1>1, <1>3 DEF Listed
<1>5. Listed(s) \subseteq Head(s).obs \cup Listed(t)
  BY <1>4 DEF Listed
<1>6. Requested(s) => Head(s).flag \/ Requested(t)
  BY <1>1, <1>3 DEF Requested
<1> QED BY <1>1, <1>5, <1>6 DEF t

-----------------------------------------------------------------------------
\* TypeOK is not inductive as it stands: AStar takes the first message of a
\* pipe select() reported, which is there because nobody else reads it.
SelectedHaveData == \A p \in selected : rep_in[p] # <<>>

\* The inductive strengthening of TypeOK.
TypeInv == TypeOK /\ SelectedHaveData

\* Counting a reading keeps the counts of Mapper's grid in range, and what
\* it then sends is a set of cells.
LEMMA AddObstaclesType ==
    ASSUME TypeOK, NEW seen \in [Cells -> 0 .. RANGE_COUNT]
    PROVE  /\ AddObstacles(seen) \in [Cells -> 0 .. OBS_THRES + 1]
           /\ Update(AddObstacles(seen)) \in SUBSET Cells
           /\ Obstacles(hits) \subseteq Obstacles(AddObstacles(seen))
<1>1. \A c \in Cells : hits[c] \in 0 .. OBS_THRES + 1 /\ seen[c] \in Nat
  BY BoundsAssumption DEF TypeOK
<1>2. ASSUME NEW c \in Cells
      PROVE  /\ AddObstacles(seen)[c] \in 0 .. OBS_THRES + 1
             /\ hits[c] > OBS_THRES => AddObstacles(seen)[c] > OBS_THRES
  <2> DEFINE n == hits[c] + seen[c]
  <2>1. n \in Nat /\ (hits[c] > OBS_THRES => n > OBS_THRES)
    BY <1>1, BoundsAssumption
  <2>2. AddObstacles(seen)[c] = IF n > OBS_THRES THEN OBS_THRES + 1 ELSE n
    BY DEF AddObstacles
  <2> HIDE DEF n
  <2> QED BY <2>1, <2>2, BoundsAssumption
<1>3. AddObstacles(seen) \in [Cells -> 0 .. OBS_THRES + 1]
  BY <1>2 DEF AddObstacles
<1> QED BY <1>2, <1>3 DEF Update, Obstacles

\* Every initial state has the types.
LEMMA InitType == Init => TypeInv
<1> SUFFICES ASSUME Init PROVE TypeInv
  OBVIOUS
<1>1. hits \in [Cells -> 0 .. OBS_THRES + 1]
  BY BoundsAssumption DEF Init
<1>2. /\ ext_in \in [Ins -> Seq(Msg)] /\ ext_out \in [Outs -> Seq(Msg)]
      /\ ext_buffer \in [Ins -> Seq(Msg)]
      /\ rep_in \in [Ins -> Seq(Msg)] /\ rep_out \in [Outs -> Seq(Msg)]
  BY EmptyType DEF Init
<1> QED BY <1>1, <1>2 DEF Init, TypeInv, TypeOK, SelectedHaveData

\* Every step keeps the types.
LEMMA NextType == TypeInv /\ [Next]_vars => TypeInv'
<1> SUFFICES ASSUME TypeOK, SelectedHaveData, [Next]_vars PROVE TypeInv'
  BY DEF TypeInv
<1> USE Pipes
<1>1. ASSUME NEW seen \in [Cells -> 0 .. RANGE_COUNT], RecvReading(seen)
      PROVE  TypeInv'
  <2> DEFINE m == Message(Update(AddObstacles(seen)), FALSE)
  <2>1. m \in Msg
    BY AddObstaclesType, MessageType, <1>1
  <2> HIDE DEF m
  <2>2. ext_in' = [ext_in EXCEPT ![MAP_UPDATE] = Append(@, m)]
    BY <1>1 DEF RecvReading, m
  <2>3. ext_in' \in [Ins -> Seq(Msg)]
    BY <2>1, <2>2 DEF TypeOK
  <2>4. resending_all' \in BOOLEAN /\ ext_out' \in [Outs -> Seq(Msg)]
    <3>1. CASE ext_out[COMM_ACK] = <<>>
      BY <3>1, <1>1 DEF RecvReading, TypeOK
    <3>2. CASE ext_out[COMM_ACK] # <<>>
      <4>1. Head(ext_out[COMM_ACK]) \in Msg
            /\ Tail(ext_out[COMM_ACK]) \in Seq(Msg)
        BY <3>2, OfTail DEF TypeOK
      <4>2. Head(ext_out[COMM_ACK]).flag \in BOOLEAN
        BY <4>1 DEF Msg
      <4> QED BY <3>2, <4>1, <4>2, <1>1 DEF RecvReading, TypeOK
    <3> QED BY <3>1, <3>2
  <2>5. hits' \in [Cells -> 0 .. OBS_THRES + 1]
    BY AddObstaclesType, <1>1 DEF RecvReading
  <2> QED
    BY <2>3, <2>4, <2>5, <1>1
    DEF RecvReading, TypeInv, TypeOK, SelectedHaveData, artPotVars, voterVars,
        pipeVars, planVars
<1>2. CASE RecvAck
  <2>1. Head(ext_out[COMM_ACK]) \in Msg /\ Tail(ext_out[COMM_ACK]) \in Seq(Msg)
    BY <1>2, OfTail DEF RecvAck, TypeOK
  <2>2. resending_all' \in BOOLEAN
    BY <2>1, <1>2 DEF RecvAck, TypeOK, Msg
  <2>3. ext_out' \in [Outs -> Seq(Msg)]
    BY <2>1, <1>2 DEF RecvAck, TypeOK
  <2> QED
    BY <2>2, <2>3, <1>2
    DEF RecvAck, TypeInv, TypeOK, SelectedHaveData, artPotVars, voterVars,
        pipeVars, planVars
<1>3. ASSUME NEW padding \in Paddings, RequestWaypoints(padding) PROVE TypeInv'
  <2> DEFINE m == Message({}, padding)
  <2>1. m \in Msg
    BY MessageType, BoundsAssumption
  <2> HIDE DEF m
  <2>2. ext_in' = [ext_in EXCEPT ![WAY_REQ] = Append(@, m)]
    BY <1>3 DEF RequestWaypoints, m
  <2>3. ext_in' \in [Ins -> Seq(Msg)]
    BY <2>1, <2>2 DEF TypeOK
  <2> QED
    BY <2>3, <1>3
    DEF RequestWaypoints, TypeInv, TypeOK, SelectedHaveData, mapperVars,
        voterVars, pipeVars, planVars
<1>4. CASE RecvWaypoints
  <2>1. Head(ext_out[WAY_RES]) \in Msg /\ Tail(ext_out[WAY_RES]) \in Seq(Msg)
    BY <1>4, OfTail DEF RecvWaypoints, TypeOK
  <2>2. goal' \in SUBSET Cells
    BY <2>1, <1>4 DEF RecvWaypoints, Msg
  <2>3. ext_out' \in [Outs -> Seq(Msg)]
    BY <2>1, <1>4 DEF RecvWaypoints, TypeOK
  <2> QED
    BY <2>2, <2>3, <1>4
    DEF RecvWaypoints, TypeInv, TypeOK, SelectedHaveData, mapperVars,
        voterVars, pipeVars, planVars
<1>5. ASSUME NEW p \in Ins, ProcessData(p) PROVE TypeInv'
  <2>1. rep_in[p] \in Seq(Msg) /\ ext_in[p] \in Seq(Msg)
    BY DEF TypeOK
  <2>2. rep_in[p] \o ext_in[p] \in Seq(Msg)
        /\ (ext_in[p] # <<>> => rep_in[p] \o ext_in[p] # <<>>)
    BY <2>1
  <2>3. /\ ext_in' \in [Ins -> Seq(Msg)]
        /\ ext_buffer' \in [Ins -> Seq(Msg)]
        /\ rep_in' \in [Ins -> Seq(Msg)]
        /\ \A q \in Ins : rep_in[q] # <<>> => rep_in'[q] # <<>>
    BY <2>1, <2>2, <1>5 DEF ProcessData, TypeOK
  <2> QED
    BY <2>3, <1>5
    DEF ProcessData, TypeInv, TypeOK, SelectedHaveData, mapperVars,
        artPotVars, planVars
<1>6. CASE ProcessFromRep
  <2>1. \A p \in Outs : ext_out[p] \o rep_out[p] \in Seq(Msg)
    BY DEF TypeOK
  <2>2. ext_out' \in [Outs -> Seq(Msg)] /\ rep_out' \in [Outs -> Seq(Msg)]
    BY <2>1, EmptyType, <1>6 DEF ProcessFromRep
  <2> QED
    BY <2>2, <1>6
    DEF ProcessFromRep, TypeInv, TypeOK, SelectedHaveData, mapperVars,
        artPotVars, planVars
<1>7. CASE VoterRestartHandler
  <2>1. rep_out' \in [Outs -> Seq(Msg)] /\ rep_in' \in [Ins -> Seq(Msg)]
    BY EmptyType, <1>7 DEF VoterRestartHandler, TypeOK
  <2>2. restarts' \in Nat
    BY <1>7 DEF VoterRestartHandler, TypeOK
  <2> QED
    BY <2>1, <2>2, <1>7
    DEF VoterRestartHandler, TypeInv, TypeOK, SelectedHaveData, mapperVars,
        artPotVars, extVars, voterVars
<1>8. CASE Select
  BY <1>8
  DEF Select, TypeInv, TypeOK, SelectedHaveData, mapperVars, artPotVars,
      extVars, voterVars, pipeVars, planVars
<1>9. CASE RecvMapUpdate
  <2> DEFINE m == Head(rep_in[MAP_UPDATE])
             ack == Message({}, request_all)
  <2>1. m \in Msg /\ Tail(rep_in[MAP_UPDATE]) \in Seq(Msg)
    BY <1>9, OfTail DEF RecvMapUpdate, TypeOK, SelectedHaveData
  <2>2. m.obs \in SUBSET Cells
    BY <2>1 DEF Msg
  <2>3. ack \in Msg
    BY MessageType DEF TypeOK
  <2>4. /\ obstacle_map' = obstacle_map \cup m.obs
        /\ IF m.obs # {}
           THEN goal_path' = obstacle_map' /\ ready_to_send' = TRUE
           ELSE UNCHANGED <<goal_path, ready_to_send>>
        /\ rep_out' = [rep_out EXCEPT ![COMM_ACK] = Append(@, ack)]
    BY <1>9 DEF RecvMapUpdate, Command
  <2> HIDE DEF m, ack
  <2>5. /\ obstacle_map' \in SUBSET Cells
        /\ goal_path' \in SUBSET Cells
        /\ ready_to_send' \in BOOLEAN
    BY <2>2, <2>4 DEF TypeOK
  <2>6. rep_out' \in [Outs -> Seq(Msg)]
    BY <2>3, <2>4 DEF TypeOK
  <2>7. /\ rep_in' \in [Ins -> Seq(Msg)]
        /\ \A q \in Ins \ {MAP_UPDATE} : rep_in'[q] = rep_in[q]
    BY <2>1, <1>9 DEF RecvMapUpdate, TypeOK
  <2> QED
    BY <2>5, <2>6, <2>7, <1>9
    DEF RecvMapUpdate, TypeInv, TypeOK, SelectedHaveData, mapperVars,
        artPotVars, extVars, voterVars
<1>10. CASE SendWaypoints
  <2> DEFINE res == Message(current_goal', FALSE)
  <2>1. Tail(rep_in[WAY_REQ]) \in Seq(Msg)
    BY <1>10, OfTail DEF SendWaypoints, TypeOK, SelectedHaveData
  <2>2. current_goal' \in SUBSET Cells /\ ready_to_send' \in BOOLEAN
    BY <1>10 DEF SendWaypoints, Waypoints, TypeOK
  <2>3. res \in Msg
    BY <2>2, MessageType
  <2>4. rep_out' = [rep_out EXCEPT ![WAY_RES] = Append(@, res)]
    BY <1>10 DEF SendWaypoints
  <2> HIDE DEF res
  <2>5. rep_out' \in [Outs -> Seq(Msg)]
    BY <2>3, <2>4 DEF TypeOK
  <2>6. /\ rep_in' \in [Ins -> Seq(Msg)]
        /\ \A q \in Ins \ {WAY_REQ} : rep_in'[q] = rep_in[q]
    BY <2>1, <1>10 DEF SendWaypoints, TypeOK
  <2> QED
    BY <2>2, <2>5, <2>6, <1>10
    DEF SendWaypoints, TypeInv, TypeOK, SelectedHaveData, mapperVars,
        artPotVars, extVars, voterVars
<1>11. CASE Crash
  BY <1>11
  DEF Crash, TypeInv, TypeOK, SelectedHaveData, mapperVars, artPotVars,
      extVars, voterVars, pipeVars, planVars
<1>12. CASE UNCHANGED vars
  BY <1>12
  DEF vars, TypeInv, TypeOK, SelectedHaveData, mapperVars, artPotVars,
      extVars, voterVars, pipeVars, planVars
<1> QED
  BY <1>1, <1>2, <1>3, <1>4, <1>5, <1>6, <1>7, <1>8, <1>9, <1>10, <1>11, <1>12
  DEF Next, Mapper, ArtPot, VoterD, AStar

\* The variables of Mapper, ArtPot, AStar and its voter keep their types: no
\* count passes the threshold (mapper.c:85-95), every obstacle and waypoint
\* comes from the grid.
THEOREM TypeCorrect == Spec => []TypeOK
<1>1. Init => TypeInv
  BY InitType
<1>2. TypeInv /\ [Next]_vars => TypeInv'
  BY NextType
<1>3. TypeInv => TypeOK
  BY DEF TypeInv
<1> QED BY <1>1, <1>2, <1>3, PTL DEF Spec

-----------------------------------------------------------------------------
\* What AStar knows or will be told.
Reported == obstacle_map \cup Listed(ext_in[MAP_UPDATE])
                         \cup Listed(rep_in[MAP_UPDATE])

\* Every step keeps NothingForgotten: a request for all obstacles is passed
\* on until Mapper answers it, and an obstacle that was sent is passed on
\* until AStar has it, or dies.
LEMMA NextForgetsNothing ==
    TypeInv /\ NothingForgotten /\ [Next]_vars => NothingForgotten'
<1> SUFFICES ASSUME TypeOK, SelectedHaveData, NothingForgotten, [Next]_vars
             PROVE  ResendDue' \/ Obstacles(hits)' \subseteq Reported'
  BY DEF TypeInv, NothingForgotten, Reported
<1> USE Pipes
<1>a. ResendDue \/ Obstacles(hits) \subseteq Reported
  BY DEF NothingForgotten, Reported
<1>1. ASSUME NEW seen \in [Cells -> 0 .. RANGE_COUNT], RecvReading(seen)
      PROVE  ResendDue' \/ Obstacles(hits)' \subseteq Reported'
  <2> DEFINE h == AddObstacles(seen)
             m == Message(Update(h), FALSE)
  <2>1. m \in Msg /\ m.obs = Update(h)
    BY AddObstaclesType, MessageType
  <2>2. ext_in[MAP_UPDATE] \in Seq(Msg)
    BY DEF TypeOK
  <2>3. ext_in'[MAP_UPDATE] = Append(ext_in[MAP_UPDATE], m) /\ hits' = h
    BY <1>1 DEF RecvReading, TypeOK
  <2>4. Listed(ext_in[MAP_UPDATE]) \cup Update(h)
            \subseteq Listed(ext_in[MAP_UPDATE])'
    BY <2>1, <2>2, <2>3, OfAppend
  <2>5. Obstacles(hits)' = Obstacles(h)
    BY <2>3 DEF Obstacles
  <2>6. Reported \cup Update(h) \subseteq Reported'
    BY <2>4, <1>1 DEF RecvReading, Reported, pipeVars, planVars
  <2>7. CASE resending_all
    BY <2>5, <2>6, <2>7 DEF Update
  <2>8. CASE ~ResendDue
    <3>1. Obstacles(h) \subseteq Obstacles(hits) \cup Update(h)
      BY <2>8 DEF Update, ResendDue
    <3> QED BY <3>1, <2>5, <2>6, <2>8, <1>a
  <2>9. CASE Requested(ext_out[COMM_ACK])
    <3>1. ext_out[COMM_ACK] \in Seq(Msg) /\ ext_out[COMM_ACK] # <<>>
      BY <2>9 DEF TypeOK, Requested
    <3>2. Head(ext_out[COMM_ACK]).flag \/ Requested(Tail(ext_out[COMM_ACK]))
      BY <2>9, <3>1, OfTail
    <3>3. /\ resending_all' = Head(ext_out[COMM_ACK]).flag
          /\ ext_out'[COMM_ACK] = Tail(ext_out[COMM_ACK])
      BY <3>1, <1>1 DEF RecvReading, TypeOK
    <3>4. Requested(ext_out[COMM_ACK])' = Requested(Tail(ext_out[COMM_ACK]))
      BY <3>3 DEF Requested
    <3> QED BY <3>2, <3>3, <3>4 DEF ResendDue
  <2>10. CASE status = "down" \/ request_all \/ Requested(rep_out[COMM_ACK])
    BY <2>10, <1>1 DEF RecvReading, ResendDue, Requested, pipeVars, planVars
  <2> QED BY <2>7, <2>8, <2>9, <2>10 DEF ResendDue
<1>2. CASE RecvAck
  <2>1. ext_out[COMM_ACK] \in Seq(Msg) /\ ext_out[COMM_ACK] # <<>>
    BY <1>2 DEF RecvAck, TypeOK
  <2>2. Requested(ext_out[COMM_ACK]) =>
            Head(ext_out[COMM_ACK]).flag \/ Requested(Tail(ext_out[COMM_ACK]))
    BY <2>1, OfTail
  <2>3. /\ resending_all' = (resending_all \/ Head(ext_out[COMM_ACK]).flag)
        /\ ext_out'[COMM_ACK] = Tail(ext_out[COMM_ACK])
    BY <1>2 DEF RecvAck, TypeOK
  <2>4. Requested(ext_out[COMM_ACK])' = Requested(Tail(ext_out[COMM_ACK]))
    BY <2>3 DEF Requested
  <2>5. /\ Requested(rep_out[COMM_ACK])' = Requested(rep_out[COMM_ACK])
        /\ Reported' = Reported /\ Obstacles(hits)' = Obstacles(hits)
        /\ request_all' = request_all /\ status' = status
    BY <1>2 DEF RecvAck, Requested, Reported, Listed, Obstacles, pipeVars,
                planVars
  <2> QED BY <2>2, <2>3, <2>4, <2>5, <1>a DEF ResendDue
<1>3. ASSUME NEW padding \in Paddings, RequestWaypoints(padding)
      PROVE  ResendDue' \/ Obstacles(hits)' \subseteq Reported'
  <2>1. ext_in'[MAP_UPDATE] = ext_in[MAP_UPDATE]
    BY <1>3 DEF RequestWaypoints, TypeOK
  <2>2. Reported' = Reported /\ Obstacles(hits)' = Obstacles(hits)
    BY <2>1, <1>3 DEF RequestWaypoints, Reported, Listed, Obstacles, pipeVars,
                      planVars, mapperVars
  <2>3. ResendDue' = ResendDue
    BY <1>3 DEF RequestWaypoints, ResendDue, Requested, pipeVars, planVars,
                mapperVars
  <2> QED BY <2>2, <2>3, <1>a
<1>4. CASE RecvWaypoints
  <2>1. ext_out'[COMM_ACK] = ext_out[COMM_ACK]
    BY <1>4 DEF RecvWaypoints, TypeOK
  <2>2. Reported' = Reported /\ Obstacles(hits)' = Obstacles(hits)
    BY <1>4 DEF RecvWaypoints, Reported, Listed, Obstacles, pipeVars,
                planVars, mapperVars
  <2>3. ResendDue' = ResendDue
    BY <2>1, <1>4 DEF RecvWaypoints, ResendDue, Requested, pipeVars, planVars,
                      mapperVars
  <2> QED BY <2>2, <2>3, <1>a
<1>5. ASSUME NEW p \in Ins, ProcessData(p)
      PROVE  ResendDue' \/ Obstacles(hits)' \subseteq Reported'
  <2>1. ResendDue' = ResendDue /\ Obstacles(hits)' = Obstacles(hits)
        /\ obstacle_map' = obstacle_map
    BY <1>5 DEF ProcessData, ResendDue, Requested, Obstacles, planVars,
                mapperVars
  <2>2. CASE p = MAP_UPDATE
    <3>1. rep_in[MAP_UPDATE] \in Seq(Msg) /\ ext_in[MAP_UPDATE] \in Seq(Msg)
      BY DEF TypeOK
    <3>2. rep_in'[MAP_UPDATE] = rep_in[MAP_UPDATE] \o ext_in[MAP_UPDATE]
      BY <2>2, <1>5 DEF ProcessData, TypeOK
    <3>3. Listed(rep_in[MAP_UPDATE]) \cup Listed(ext_in[MAP_UPDATE])
              \subseteq Listed(rep_in[MAP_UPDATE])'
      BY <3>1, <3>2, OfConcat
    <3> QED BY <3>3, <2>1, <1>a DEF Reported
  <2>3. CASE p # MAP_UPDATE
    <3>1. rep_in'[MAP_UPDATE] = rep_in[MAP_UPDATE]
          /\ ext_in'[MAP_UPDATE] = ext_in[MAP_UPDATE]
      BY <2>3, <1>5 DEF ProcessData, TypeOK
    <3>2. Reported' = Reported
      BY <3>1, <2>1 DEF Reported, Listed
    <3> QED BY <3>2, <2>1, <1>a
  <2> QED BY <2>2, <2>3
<1>6. CASE ProcessFromRep
  <2>1. rep_out[COMM_ACK] \in Seq(Msg) /\ ext_out[COMM_ACK] \in Seq(Msg)
    BY DEF TypeOK
  <2>2. ext_out'[COMM_ACK] = ext_out[COMM_ACK] \o rep_out[COMM_ACK]
    BY <1>6 DEF ProcessFromRep
  <2>3. Requested(rep_out[COMM_ACK]) \/ Requested(ext_out[COMM_ACK])
            => Requested(ext_out[COMM_ACK])'
    BY <2>1, <2>2, OfConcat
  <2>4. /\ Reported' = Reported /\ Obstacles(hits)' = Obstacles(hits)
        /\ request_all' = request_all /\ status' = status
        /\ resending_all' = resending_all
    BY <1>6 DEF ProcessFromRep, Reported, Listed, Obstacles, planVars,
                mapperVars
  <2> QED BY <2>3, <2>4, <1>a DEF ResendDue
<1>7. CASE VoterRestartHandler
  BY <1>7 DEF VoterRestartHandler, ResendDue
<1>8. CASE Select
  <2>1. /\ Reported' = Reported /\ Obstacles(hits)' = Obstacles(hits)
        /\ ResendDue' = ResendDue
    BY <1>8 DEF Select, Reported, Listed, Obstacles, ResendDue, Requested,
                planVars, mapperVars, extVars, pipeVars
  <2> QED BY <2>1, <1>a
<1>9. CASE RecvMapUpdate
  <2> DEFINE m == Head(rep_in[MAP_UPDATE])
             ack == Message({}, request_all)
  <2>1. rep_in[MAP_UPDATE] \in Seq(Msg) /\ rep_in[MAP_UPDATE] # <<>>
    BY <1>9 DEF RecvMapUpdate, TypeOK, SelectedHaveData
  <2>2. Listed(rep_in[MAP_UPDATE])
            \subseteq m.obs \cup Listed(Tail(rep_in[MAP_UPDATE]))
    BY <2>1, OfTail
  <2>3. rep_in'[MAP_UPDATE] = Tail(rep_in[MAP_UPDATE])
    BY <1>9 DEF RecvMapUpdate, TypeOK
  <2>4. Listed(rep_in[MAP_UPDATE])' = Listed(Tail(rep_in[MAP_UPDATE]))
    BY <2>3 DEF Listed
  <2>5. obstacle_map' = obstacle_map \cup m.obs
    BY <1>9 DEF RecvMapUpdate
  <2>6. Listed(ext_in[MAP_UPDATE])' = Listed(ext_in[MAP_UPDATE])
        /\ Obstacles(hits)' = Obstacles(hits)
        /\ Requested(ext_out[COMM_ACK])' = Requested(ext_out[COMM_ACK])
        /\ resending_all' = resending_all /\ status' = status
    BY <1>9 DEF RecvMapUpdate, Listed, Obstacles, Requested, extVars,
                mapperVars
  <2> HIDE DEF m
  <2>7. Reported \subseteq Reported'
    BY <2>2, <2>4, <2>5, <2>6 DEF Reported
  <2>8. ack \in Msg /\ ack.flag = request_all
    BY MessageType DEF TypeOK
  <2>9. rep_out'[COMM_ACK] = Append(rep_out[COMM_ACK], ack)
        /\ rep_out[COMM_ACK] \in Seq(Msg)
    BY <1>9 DEF RecvMapUpdate, TypeOK
  <2>10. Requested(rep_out[COMM_ACK]) \/ request_all
             => Requested(rep_out[COMM_ACK])'
    BY <2>8, <2>9, OfAppend
  <2> QED BY <2>6, <2>7, <2>10, <1>a DEF ResendDue
<1>10. CASE SendWaypoints
  <2>1. rep_in'[MAP_UPDATE] = rep_in[MAP_UPDATE]
        /\ rep_out'[COMM_ACK] = rep_out[COMM_ACK]
    BY <1>10 DEF SendWaypoints, TypeOK
  <2>2. Reported' = Reported /\ Obstacles(hits)' = Obstacles(hits)
    BY <2>1, <1>10 DEF SendWaypoints, Reported, Listed, Obstacles, extVars,
                       mapperVars
  <2>3. ResendDue' = ResendDue
    BY <2>1, <1>10 DEF SendWaypoints, ResendDue, Requested, extVars,
                       mapperVars
  <2> QED BY <2>2, <2>3, <1>a
<1>11. CASE Crash
  BY <1>11 DEF Crash, ResendDue
<1>12. CASE UNCHANGED vars
  <2>1. /\ Reported' = Reported /\ Obstacles(hits)' = Obstacles(hits)
        /\ ResendDue' = ResendDue
    BY <1>12 DEF vars, Reported, Listed, Obstacles, ResendDue, Requested,
                 planVars, mapperVars, extVars, pipeVars
  <2> QED BY <2>1, <1>a
<1> QED
  BY <1>1, <1>2, <1>3, <1>4, <1>5, <1>6, <1>7, <1>8, <1>9, <1>10, <1>11, <1>12
  DEF Next, Mapper, ArtPot, VoterD, AStar

\* Whatever the grid, the threshold and the number of restarts, an obstacle
\* that Mapper has reported is in AStar's map, on its way there, or will be
\* reported again (mapper.c:133-145, a_star.c:287-292, 358).
THEOREM NoObstacleForgotten == Spec => []NothingForgotten
<1>1. Init => TypeInv /\ NothingForgotten
  BY InitType DEF Init, NothingForgotten, ResendDue
<1>2. TypeInv /\ NothingForgotten /\ [Next]_vars
          => (TypeInv /\ NothingForgotten)'
  BY NextType, NextForgetsNothing
<1> QED BY <1>1, <1>2, PTL DEF Spec

-----------------------------------------------------------------------------
\* One more restart doubles the bound.  The provers do not know powers, only
\* that 2^n is the number of subsets of a set of n.
LEMMA PowerDoubles ==
    ASSUME NEW n \in Nat PROVE 2 ^ n \in Nat /\ 2 ^ (n + 1) = 2 ^ n + 2 ^ n
<1> DEFINE S == SUBSET (1 .. n)
           T == {A \cup {n + 1} : A \in S}
           f == [A \in S |-> A \cup {n + 1}]
<1>1. /\ IsFiniteSet(1 .. n) /\ Cardinality(1 .. n) = n
      /\ IsFiniteSet(1 .. n + 1) /\ Cardinality(1 .. n + 1) = n + 1
  <2>1. n \in Int /\ n + 1 \in Int /\ 1 \in Int /\ 1 <= n + 1 /\ (1 <= n \/ n = 0)
    OBVIOUS
  <2> QED BY <2>1, FS_Interval
<1>2. IsFiniteSet(S) /\ Cardinality(S) = 2 ^ n
  BY <1>1, FS_SUBSET
<1>3. Cardinality(SUBSET (1 .. n + 1)) = 2 ^ (n + 1)
  BY <1>1, FS_SUBSET
<1>4. \A A \in S : n + 1 \notin A
  OBVIOUS
<1>5. SUBSET (1 .. n + 1) = S \cup T
  <2>1. \A A \in SUBSET (1 .. n + 1) : A \in S \/ A \in T
    <3> TAKE A \in SUBSET (1 .. n + 1)
    <3>1. CASE n + 1 \notin A
      <4>1. A \subseteq 1 .. n
        BY <3>1
      <4> QED BY <4>1
    <3>2. CASE n + 1 \in A
      <4>1. A \ {n + 1} \in S /\ A = (A \ {n + 1}) \cup {n + 1}
        BY <3>2
      <4> QED BY <4>1
    <3> QED BY <3>1, <3>2
  <2>2. \A A \in S \cup T : A \subseteq 1 .. n + 1
    OBVIOUS
  <2> QED BY <2>1, <2>2
<1>6. S \cap T = {}
  BY <1>4
<1>7. f \in Bijection(S, T)
  <2>1. f \in [S -> T] /\ \A B \in T : \E A \in S : f[A] = B
    OBVIOUS
  <2>2. \A A, B \in S : f[A] = f[B] => A = B
    BY <1>4
  <2> QED BY <2>1, <2>2, Fun_IsBij
<1>8. ExistsBijection(S, T)
  BY <1>7 DEF ExistsBijection
<1> HIDE DEF S, T, f
<1>9. IsFiniteSet(T) /\ Cardinality(T) = Cardinality(S)
  BY <1>2, <1>8, FS_Bijection
<1>10. Cardinality(S) \in Nat
  BY <1>2, FS_CardinalityType
<1>11. Cardinality(S \cup T) = Cardinality(S) + Cardinality(T)
  <2>1. Cardinality(S \cup T) = Cardinality(S) + Cardinality(T) - Cardinality(S \cap T)
    BY <1>2, <1>9, FS_Union
  <2>2. Cardinality(S \cap T) = 0
    BY <1>6, FS_EmptySet
  <2> QED BY <1>9, <1>10, <2>1, <2>2
<1> QED BY <1>2, <1>3, <1>5, <1>9, <1>10, <1>11

\* The requests and the answers on their way between ArtPot and AStar.
Asked    == Len(ext_in[WAY_REQ])
Handed   == Len(rep_in[WAY_REQ])
Planned  == Len(rep_out[WAY_RES])
Returned == Len(ext_out[WAY_RES])
OnTheWay == Asked + Handed + Planned + Returned

\* RequestsDoNotStack is not inductive: ArtPot may ask while there is room for
\* one more, which is what way_pending stands for, and a restart repeats the
\* last read, so that this has to be bounded too.
Room ==
    /\ OnTheWay + (IF way_pending THEN 0 ELSE 1) <= 2 ^ restarts
    /\ Len(ext_buffer[WAY_REQ]) <= 2 ^ restarts

\* All of these are lengths.
LEMMA RoomType ==
    ASSUME TypeOK
    PROVE  /\ ext_in[WAY_REQ] \in Seq(Msg) /\ rep_in[WAY_REQ] \in Seq(Msg)
           /\ rep_out[WAY_RES] \in Seq(Msg) /\ ext_out[WAY_RES] \in Seq(Msg)
           /\ Len(ext_in[WAY_REQ]) \in Nat /\ Len(rep_in[WAY_REQ]) \in Nat
           /\ Len(rep_out[WAY_RES]) \in Nat /\ Len(ext_out[WAY_RES]) \in Nat
           /\ Len(ext_buffer[WAY_REQ]) \in Nat /\ restarts \in Nat /\ way_pending \in BOOLEAN
<1>1. /\ ext_in[WAY_REQ] \in Seq(Msg) /\ rep_in[WAY_REQ] \in Seq(Msg)
      /\ rep_out[WAY_RES] \in Seq(Msg) /\ ext_out[WAY_RES] \in Seq(Msg)
      /\ ext_buffer[WAY_REQ] \in Seq(Msg)
  BY Pipes DEF TypeOK
<1> QED BY <1>1, LenProperties DEF TypeOK

\* Every step keeps the room: a request takes it, an answer that ArtPot reads
\* gives it back, and a restart doubles it.
LEMMA NextKeepsRoom == TypeInv /\ Room /\ [Next]_vars => Room'
<1> SUFFICES ASSUME TypeOK, SelectedHaveData, Room, [Next]_vars PROVE Room'
  BY DEF TypeInv
<1> USE Pipes
<1>a. /\ ext_in[WAY_REQ] \in Seq(Msg) /\ rep_in[WAY_REQ] \in Seq(Msg)
      /\ rep_out[WAY_RES] \in Seq(Msg) /\ ext_out[WAY_RES] \in Seq(Msg)
      /\ Len(ext_in[WAY_REQ]) \in Nat /\ Len(rep_in[WAY_REQ]) \in Nat
      /\ Len(rep_out[WAY_RES]) \in Nat /\ Len(ext_out[WAY_RES]) \in Nat
      /\ Len(ext_buffer[WAY_REQ]) \in Nat /\ restarts \in Nat /\ way_pending \in BOOLEAN
  BY RoomType
<1>b. PICK k \in Nat : k = 2 ^ restarts
  BY <1>a, PowerDoubles
<1>c. /\ OnTheWay + (IF way_pending THEN 0 ELSE 1) <= k /\ Len(ext_buffer[WAY_REQ]) <= k
  BY <1>b DEF Room
<1>e. Asked \in Nat /\ Handed \in Nat /\ Planned \in Nat /\ Returned \in Nat
  BY <1>a DEF Asked, Handed, Planned, Returned
<1>f. OnTheWay \in Nat
  BY <1>e DEF OnTheWay
<1>d. ASSUME restarts' = restarts, ext_buffer'[WAY_REQ] = ext_buffer[WAY_REQ],
             OnTheWay' + (IF way_pending' THEN 0 ELSE 1) <= k
      PROVE  Room'
  BY <1>b, <1>c, <1>d DEF Room
<1>1. ASSUME NEW seen \in [Cells -> 0 .. RANGE_COUNT], RecvReading(seen) PROVE Room'
  <2>1. /\ ext_in'[WAY_REQ] = ext_in[WAY_REQ] /\ ext_out'[WAY_RES] = ext_out[WAY_RES]
        /\ UNCHANGED <<rep_in, rep_out, ext_buffer, restarts, way_pending>>
    BY <1>1 DEF RecvReading, TypeOK, artPotVars, voterVars, pipeVars
  <2> QED BY <1>c, <1>d, <2>1 DEF OnTheWay, Asked, Handed, Planned, Returned
<1>2. CASE RecvAck
  <2>1. /\ ext_out'[WAY_RES] = ext_out[WAY_RES]
        /\ UNCHANGED <<ext_in, rep_in, rep_out, ext_buffer, restarts, way_pending>>
    BY <1>2 DEF RecvAck, TypeOK, artPotVars, voterVars, pipeVars
  <2> QED BY <1>c, <1>d, <2>1 DEF OnTheWay, Asked, Handed, Planned, Returned
<1>3. ASSUME NEW padding \in Paddings, RequestWaypoints(padding) PROVE Room'
  <2>1. Message({}, padding) \in Msg
    BY MessageType, BoundsAssumption
  <2>2. /\ ~way_pending /\ way_pending'
        /\ ext_in'[WAY_REQ] = Append(ext_in[WAY_REQ], Message({}, padding))
        /\ UNCHANGED <<ext_out, rep_in, rep_out, ext_buffer, restarts>>
    BY <1>3 DEF RequestWaypoints, TypeOK, voterVars, pipeVars
  <2>3. Asked' = Asked + 1
    BY <1>a, <2>1, <2>2, AppendProperties DEF Asked
  <2>4. OnTheWay' = OnTheWay + 1
    <3>1. UNCHANGED <<Handed, Planned, Returned>>
      BY <2>2 DEF Handed, Planned, Returned
    <3> QED BY <1>e, <2>3, <3>1 DEF OnTheWay
  <2>5. OnTheWay' + (IF way_pending' THEN 0 ELSE 1) <= k
    BY <1>c, <1>f, <2>2, <2>4
  <2> QED BY <1>d, <2>2, <2>5
<1>4. CASE RecvWaypoints
  <2>1. /\ ext_out[WAY_RES] # <<>> /\ ext_out'[WAY_RES] = Tail(ext_out[WAY_RES]) /\ ~way_pending'
        /\ UNCHANGED <<ext_in, rep_in, rep_out, ext_buffer, restarts>>
    BY <1>4 DEF RecvWaypoints, TypeOK, voterVars, pipeVars
  <2>2. Returned' = Returned - 1
    BY <1>a, <2>1, HeadTailProperties DEF Returned
  <2>3. OnTheWay' = OnTheWay - 1
    <3>1. UNCHANGED <<Asked, Handed, Planned>>
      BY <2>1 DEF Asked, Handed, Planned
    <3> QED BY <1>e, <2>2, <3>1 DEF OnTheWay
  <2>4. OnTheWay' + (IF way_pending' THEN 0 ELSE 1) <= k
    BY <1>c, <1>f, <2>1, <2>3
  <2> QED BY <1>d, <2>1, <2>4
<1>5. ASSUME NEW p \in Ins, ProcessData(p) PROVE Room'
  <2>0. UNCHANGED <<ext_out, rep_out, restarts, way_pending>>
    BY <1>5 DEF ProcessData, artPotVars
  <2>1. CASE p = WAY_REQ
    <3>1. /\ ext_in'[WAY_REQ] = <<>> /\ ext_buffer'[WAY_REQ] = ext_in[WAY_REQ]
          /\ rep_in'[WAY_REQ] = rep_in[WAY_REQ] \o ext_in[WAY_REQ]
      BY <1>5, <2>1 DEF ProcessData, TypeOK
    <3>2. Handed' = Handed + Asked /\ Asked' = 0
      BY <1>a, <3>1, ConcatProperties DEF Handed, Asked
    <3>3. OnTheWay' = OnTheWay
      <4>1. UNCHANGED <<Planned, Returned>>
        BY <2>0 DEF Planned, Returned
      <4> QED BY <1>e, <3>2, <4>1 DEF OnTheWay
    <3>4. Asked <= k
      <4>1. Asked <= OnTheWay
        BY <1>e DEF OnTheWay
      <4> QED BY <1>b, <1>c, <1>e, <1>f, <4>1
    <3> QED BY <1>b, <1>c, <2>0, <3>1, <3>3, <3>4 DEF Room, Asked
  <2>2. CASE p # WAY_REQ
    <3>1. /\ ext_in'[WAY_REQ] = ext_in[WAY_REQ] /\ rep_in'[WAY_REQ] = rep_in[WAY_REQ]
          /\ ext_buffer'[WAY_REQ] = ext_buffer[WAY_REQ]
      BY <1>5, <2>2 DEF ProcessData, TypeOK
    <3> QED BY <1>c, <1>d, <2>0, <3>1 DEF OnTheWay, Asked, Handed, Planned, Returned
  <2> QED BY <2>1, <2>2
<1>6. CASE ProcessFromRep
  <2>1. /\ ext_out'[WAY_RES] = ext_out[WAY_RES] \o rep_out[WAY_RES] /\ rep_out'[WAY_RES] = <<>>
        /\ UNCHANGED <<ext_in, rep_in, ext_buffer, restarts, way_pending>>
    BY <1>6 DEF ProcessFromRep, Empty, artPotVars
  <2>2. Returned' = Returned + Planned /\ Planned' = 0
    BY <1>a, <2>1, ConcatProperties DEF Returned, Planned
  <2>3. OnTheWay' = OnTheWay
    <3>1. UNCHANGED <<Asked, Handed>>
      BY <2>1 DEF Asked, Handed
    <3> QED BY <1>e, <2>2, <3>1 DEF OnTheWay
  <2> QED BY <1>c, <1>d, <2>1, <2>3
<1>7. CASE VoterRestartHandler
  <2>1. /\ rep_in' = ext_buffer /\ rep_out'[WAY_RES] = <<>> /\ restarts' = restarts + 1
        /\ UNCHANGED <<ext_in, ext_out, ext_buffer, way_pending>>
    BY <1>7 DEF VoterRestartHandler, Empty, artPotVars, extVars, voterVars
  <2>2. Planned' = 0
    BY <2>1 DEF Planned
  <2>3. 2 ^ (restarts + 1) = k + k
    BY <1>a, <1>b, PowerDoubles
  <2>4. 2 ^ restarts' = k + k
    BY <2>1, <2>3
  <2>5. OnTheWay' <= OnTheWay + k /\ OnTheWay' \in Nat
    <3>1. UNCHANGED <<Asked, Returned>> /\ Handed' <= k /\ Handed' \in Nat
      BY <1>a, <1>c, <2>1 DEF Asked, Handed, Returned
    <3>2. OnTheWay' = Asked + Handed' + Returned
      BY <1>e, <2>2, <3>1 DEF OnTheWay
    <3>3. \A h \in Nat : h <= k => /\ Asked + h + Returned <= OnTheWay + k
                                   /\ Asked + h + Returned \in Nat
      BY <1>e DEF OnTheWay
    <3>4. Handed' <= k /\ Handed' \in Nat
      BY <3>1
    <3> QED BY <3>2, <3>3, <3>4, Zenon
  <2>6. OnTheWay' + (IF way_pending' THEN 0 ELSE 1) <= k + k
    BY <1>b, <1>c, <1>f, <2>1, <2>5
  <2>7. Len(ext_buffer'[WAY_REQ]) <= k + k
    BY <1>a, <1>b, <1>c, <2>1
  <2> QED BY <2>4, <2>6, <2>7 DEF Room
<1>8. CASE Select \/ Crash \/ UNCHANGED vars
  <2>1. UNCHANGED <<ext_in, ext_out, rep_in, rep_out, ext_buffer, restarts, way_pending>>
    BY <1>8 DEF Select, Crash, vars, artPotVars, extVars, voterVars, pipeVars
  <2> QED BY <1>c, <1>d, <2>1 DEF OnTheWay, Asked, Handed, Planned, Returned
<1>9. CASE RecvMapUpdate
  <2>1. /\ rep_in'[WAY_REQ] = rep_in[WAY_REQ] /\ rep_out'[WAY_RES] = rep_out[WAY_RES]
        /\ UNCHANGED <<ext_in, ext_out, ext_buffer, restarts, way_pending>>
    BY <1>9 DEF RecvMapUpdate, TypeOK, artPotVars, extVars, voterVars
  <2> QED BY <1>c, <1>d, <2>1 DEF OnTheWay, Asked, Handed, Planned, Returned
<1>10. CASE SendWaypoints
  <2> DEFINE res == Message(current_goal', FALSE)
  <2>1. /\ rep_in[WAY_REQ] # <<>> /\ rep_in'[WAY_REQ] = Tail(rep_in[WAY_REQ])
        /\ rep_out'[WAY_RES] = Append(rep_out[WAY_RES], res)
        /\ UNCHANGED <<ext_in, ext_out, ext_buffer, restarts, way_pending>>
    BY <1>10 DEF SendWaypoints, TypeOK, SelectedHaveData, artPotVars, extVars, voterVars
  <2>2. res \in Msg
    <3>1. current_goal' \in SUBSET Cells
      BY <1>10 DEF SendWaypoints, Waypoints, TypeOK
    <3> QED BY <3>1, MessageType
  <2> HIDE DEF res
  <2>3. Handed' = Handed - 1
    BY <1>a, <2>1, HeadTailProperties DEF Handed
  <2>4. Planned' = Planned + 1
    BY <1>a, <2>1, <2>2, AppendProperties DEF Planned
  <2>5. OnTheWay' = OnTheWay
    <3>1. UNCHANGED <<Asked, Returned>>
      BY <2>1 DEF Asked, Returned
    <3> QED BY <1>e, <2>3, <2>4, <3>1 DEF OnTheWay
  <2> QED BY <1>c, <1>d, <2>1, <2>5
<1> QED
  BY <1>1, <1>2, <1>3, <1>4, <1>5, <1>6, <1>7, <1>8, <1>9, <1>10
  DEF Next, Mapper, ArtPot, VoterD, AStar

\* However often AStar is restarted, the requests ArtPot has out are at most
\* doubled each time: with no restart there is one ("Do these calls stack
\* up?", a_star.c:301).
THEOREM RequestsBounded == Spec => []RequestsDoNotStack
<1>1. Init => TypeInv /\ Room
  <2> SUFFICES ASSUME Init PROVE Room
    BY InitType
  <2>1. /\ ext_in[WAY_REQ] = <<>> /\ rep_in[WAY_REQ] = <<>> /\ rep_out[WAY_RES] = <<>>
        /\ ext_out[WAY_RES] = <<>> /\ ext_buffer[WAY_REQ] = <<>> /\ restarts = 0
    BY Pipes DEF Init, Empty
  <2>2. 2 ^ 0 = 1
    OBVIOUS
  <2>3. Asked = 0 /\ Handed = 0 /\ Planned = 0 /\ Returned = 0 /\ Len(ext_buffer[WAY_REQ]) = 0
    BY <2>1 DEF Asked, Handed, Planned, Returned
  <2>4. OnTheWay = 0
    BY <2>3 DEF OnTheWay
  <2> QED BY <2>1, <2>2, <2>3, <2>4 DEF Room
<1>2. TypeInv /\ Room /\ [Next]_vars => (TypeInv /\ Room)'
  BY NextType, NextKeepsRoom
<1>3. TypeInv /\ Room => RequestsDoNotStack
  <2> SUFFICES ASSUME TypeOK, Room PROVE RequestsDoNotStack
    BY DEF TypeInv
  <2>1. 2 ^ restarts \in Nat
    BY PowerDoubles DEF TypeOK
  <2>2. Asked \in Nat /\ Handed \in Nat /\ Planned \in Nat /\ Returned \in Nat
    BY RoomType DEF Asked, Handed, Planned, Returned
  <2>3. OnTheWay \in Nat
    BY <2>2 DEF OnTheWay
  <2>4. OnTheWay <= 2 ^ restarts
    BY <2>1, <2>3 DEF Room
  <2> QED BY <2>4, Zenon DEF OnTheWay, RequestsDoNotStack, Asked, Handed, Planned, Returned
<1> QED BY <1>1, <1>2, <1>3, PTL DEF Spec
=============================================================================
