CONSTANTS
    Programs <- StackLeakPrograms
    Oracles <- MCOracles
    MaxSteps = 60
    Unpatched = Unpatched
    FallThrough = FALSE
INIT Init
NEXT Next
INVARIANT StackBalance
CHECK_DEADLOCK FALSE
