SPECIFICATION FairSpec
CONSTANTS
    Instances <- Bursts
    MaxFaults = 1
PROPERTIES EveryInputAnswered
CHECK_DEADLOCK FALSE
