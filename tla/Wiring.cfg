SPECIFICATION Spec
CONSTANTS
    Configs <- Files
    Types <- KnownTypes
    FirstFds <- WellCounted
    BenchIn = 3
    BenchOut = 14
INVARIANTS PipesArrive TimersPaired
CHECK_DEADLOCK FALSE
