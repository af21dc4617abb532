SPECIFICATION FairSpec
CONSTANTS
    MaxSeq = 1
    Poses = {0, 1}
    QueueMax = 2
    PipeMax = 3
    PreReads = 1
    FaultKinds = {"sdc", "cfe"}
INVARIANTS SeqWindow PoseOfTheScan
PROPERTY RobotFollows
CHECK_DEADLOCK FALSE
