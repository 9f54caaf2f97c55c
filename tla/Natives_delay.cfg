CONSTANTS
    Programs <- DelayPrograms
    TaskArgs <- MCTaskArgs
    MemInfos <- MCMemInfos
    Langs = {"m8r"}
    Scripts <- MCScripts
    MayRunOutOfMemory = FALSE
    Tick = 1000
    MaxTime = 6000
INIT Init
NEXT Next
PROPERTY ContractRefined
CHECK_DEADLOCK FALSE
