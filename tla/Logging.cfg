SPECIFICATION FairSpec
CONSTANTS
    MaxLives = 3
    MaxReadings = 4
    Poses = {"a", "b", "g"}
    Goal = "g"
    Images = {TRUE, FALSE}
    MaxKills = 1
INVARIANT LogRight
PROPERTIES LoadKeepsRunning
CHECK_DEADLOCK FALSE
