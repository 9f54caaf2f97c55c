CONSTANTS
    Programs <- MCPrograms
    TaskArgs <- MCTaskArgs
    MemInfos <- MCMemInfos
    Langs = {"m8r", "lua"}
    Scripts <- MCScripts
    MayRunOutOfMemory = TRUE
    Tick = 1000
    MaxTime = 6000
INIT Init
NEXT Next
INVARIANTS TypeOK StackBalance ResultsMatchArgs OutputMatchesArgs LuaStateSafe
CHECK_DEADLOCK FALSE
