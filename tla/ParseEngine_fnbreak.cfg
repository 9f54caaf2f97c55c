CONSTANTS
    Programs <- FnBreakPrograms
    Oracles <- MCOracles
    MaxSteps = 60
    Unpatched = Unpatched
    FallThrough = FALSE
INIT Init
NEXT Next
INVARIANT ParserMemorySafe
CHECK_DEADLOCK FALSE
