------------------------------ MODULE MC_Search ------------------------------
EXTENDS Search

\* The goal is at (7.0, 7.0), in a corner of the room.
Corner == <<Width, Height>>

\* All walls are known, or none, or all but the one across from the goal or the
\* one behind it.
KnownWalls == {{}, Edge, {c \in Edge : c[1] > 0}, {c \in Edge : c[1] <= Width}}
=============================================================================
