------------------------------ MODULE MC_Wiring ------------------------------
(***************************************************************************)
(* Configuration files, as they are in controllers/configs.                *)
(***************************************************************************)
EXTENDS Wiring

Node(name, value, run) == [name |-> name, value |-> value, run |-> run]
Link(from, ft, type, to, tt) ==
    [from |-> from, fromTimed |-> ft, type |-> type, to |-> to, toTimed |-> tt]

\* The links all the complete files share.
FirstLinks == << Link(Bench, 0, "RANGE_POSE_DATA", "phil", 1),
            Link("phil", 0, "RANGE_POSE_DATA", "map", 1),
            Link("phil", 0, "RANGE_POSE_DATA", "log", 0),
            Link("phil", 1, "RANGE_POSE_DATA", "l_n", 1) >>
LastLinks == << Link("map", 1, "MAP_UPDATE", "plan", 1),
           Link("plan", 1, "COMM_ACK", "map", 0),
           Link("l_n", 0, "WAY_REQ", "plan", 2),
           Link("plan", 2, "WAY_RES", "l_n", 0),
           Link("l_n", 1, "MOV_CMD", Bench, 0) >>

\* all_tmr_wl.cfg; the other files with a load differ in the number of replicas.
all_tmr_wl ==
    [declarations |-> << Node("log", "Logger", "none"), Node("load", "Load", "VoterS"),
                         Node("l_n", "ArtPot", "VoterM"), Node("map", "Mapper", "VoterD"),
                         Node("plan", "AStar", "VoterD"), Node("phil", "Filter", "VoterM") >>,
     relations |-> FirstLinks \o <<Link("load", 0, "MSG_BUFFER", "log", 0)>> \o LastLinks]

\* all.cfg
all ==
    [declarations |-> << Node("log", "Logger", "none"), Node("l_n", "ArtPot", "none"),
                         Node("map", "Mapper", "none"), Node("plan", "AStar", "none"),
                         Node("phil", "Filter", "none") >>,
     relations |-> FirstLinks \o LastLinks]

\* tmr_empty.cfg
tmr_empty ==
    [declarations |-> << Node("empty", "Empty", "VoterM") >>,
     relations |-> << Link(Bench, 0, "RANGE_POSE_DATA", "empty", 1),
                      Link("empty", 1, "MOV_CMD", Bench, 0) >>]

\* all.cfg with an unknown type in its seventh link.
misspelled ==
    [all EXCEPT !.relations = [@ EXCEPT ![7].type = "WAY_REK"]]

\* tmr_empty.cfg with a second declaration of its component.
redeclared ==
    [tmr_empty EXCEPT !.declarations = Append(@, Node("empty", "Filter", "none"))]

Files == {all_tmr_wl, all, tmr_empty, misspelled, redeclared}

KnownTypes == {"WAY_REQ", "WAY_RES", "MOV_CMD", "RANGE_POSE_DATA", "MAP_UPDATE",
               "COMM_ACK", "MSG_BUFFER"}

\* The first descriptor.  No file has more than 20, so none is in 100 .. 109 or
\* 200 .. 209, where serializePipe counts too few digits.
WellCounted == (3 .. 80) \cup (110 .. 180)
=============================================================================
