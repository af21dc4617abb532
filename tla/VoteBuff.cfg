SPECIFICATION BuffSpec
CONSTANTS
    r1 = r1
    r2 = r2
    r3 = r3
    Reps <- ThreeReplicas
    MAX = 3
    Bytes = {0, 1}
SYMMETRY Interchangeable
INVARIANTS IndexesAgree CompareIsExact CopiesInBounds
PROPERTIES BuffersAreQueues
