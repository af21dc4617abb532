SPECIFICATION FairSpec
CONSTANTS
    Instances <- AllModes
    Links <- AStarLinks
    MaxFaults = 3
INVARIANTS TableRight RightPipes
PROPERTIES RestartCompletes
CHECK_DEADLOCK FALSE
