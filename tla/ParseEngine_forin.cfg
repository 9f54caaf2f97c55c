CONSTANTS
    Programs <- ForInExprPrograms
    Oracles <- MCOracles
    MaxSteps = 60
    Unpatched = Unpatched
    FallThrough = FALSE
INIT Init
NEXT Next
INVARIANT CompiledMatchesSource
CHECK_DEADLOCK FALSE
