CONSTANTS
    Programs <- ContractPrograms
    TaskArgs <- MCTaskArgs
    MemInfos <- MCMemInfos
    Langs = {"m8r", "lua"}
    Scripts <- MCScripts
    MayRunOutOfMemory = TRUE
    Tick = 1000
    MaxTime = 6000
INIT Init
NEXT Next
PROPERTY ContractRefined
CHECK_DEADLOCK FALSE
