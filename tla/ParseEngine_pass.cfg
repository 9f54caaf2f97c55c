CONSTANTS
    Programs <- MCPrograms
    Oracles <- MCOracles
    MaxSteps = 100
    Unpatched = Unpatched
    FallThrough = FALSE
INIT Init
NEXT Next
INVARIANTS TypeOK JumpsPatched ParserBalanced CompiledMatchesSource StackBalance
CHECK_DEADLOCK FALSE
