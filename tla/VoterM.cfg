SPECIFICATION FairSpec
CONSTANTS
    Instances <- AllModes
    MaxRounds = 3
    MaxFaults = 2
    InitBuffers <- Uncleared
INVARIANTS TypeOK NoLeftovers ReplicasAgree RestarterReady SDCDetected
PROPERTIES Masking BlameIsRight EveryReadingAnswered WaypointsArrive
CHECK_DEADLOCK FALSE
