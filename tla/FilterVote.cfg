SPECIFICATION FairSpec
CONSTANTS
    Instances <- AllModes
    MaxRounds = 2
    MaxFaults = 2
INVARIANTS OutputsRight BlameIsRight
PROPERTIES EveryReadingAnswered
CHECK_DEADLOCK FALSE
