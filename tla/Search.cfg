SPECIFICATION Spec
CONSTANTS
    Width = 4
    Height = 3
    goal <- Corner
    Walls <- KnownWalls
    MaxUpdates = 1
    MaxNew = 12
INVARIANT PathShortest
CHECK_DEADLOCK FALSE
