SPECIFICATION FairSpec
CONSTANTS
    Instances <- AllModes
    MaxReadings = 3
    MaxStarts = 1
    MaxFaults = 1
INVARIANTS UpdatesWhole NothingForgotten CaughtSDC
PROPERTIES EveryReadingAnswered
CHECK_DEADLOCK FALSE
