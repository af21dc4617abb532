SPECIFICATION FairSpec
CONSTANTS
    Instances <- AllModes
    MaxFaults = 1
INVARIANTS VotedAnswersRight OnlyFaultyKilled NeverBlocks HealthyAgree
PROPERTIES AnsweredInStep
CHECK_DEADLOCK FALSE
