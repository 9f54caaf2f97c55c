CONSTANTS
    Programs <- CompiledDivergencePrograms
    Oracles <- MCOracles
    MaxSteps = 60
    Unpatched = Unpatched
    FallThrough = TRUE
INIT Init
NEXT Next
INVARIANT CompiledCorrect
CHECK_DEADLOCK FALSE
