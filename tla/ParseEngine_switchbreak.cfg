CONSTANTS
    Programs <- SwitchBreakPrograms
    Oracles <- MCOracles
    MaxSteps = 60
    Unpatched = Unpatched
    FallThrough = TRUE
INIT Init
NEXT Next
INVARIANT CompiledMatchesSource
CHECK_DEADLOCK FALSE
