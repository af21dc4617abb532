SPECIFICATION FairSpec
CONSTANTS
    Cells = {c1}
    OBS_THRES = 1
    RANGE_COUNT = 1
    Paddings = {TRUE, FALSE}
    PipeCap = 1
    RepCap = 1
    MaxRestarts = 1
INVARIANTS NothingForgotten RequestsDoNotStack
PROPERTIES MapsConverge WaypointsAvoidObstacles
