CONSTANTS
    c1 = c1
    c2 = c2
    t1 = t1
    t2 = t2
    t3 = t3
    f1 = f1
    a1 = a1
    Conns <- MCConns
    Tasks <- MCTasks
    Funcs = {f1}
    Addrs = {a1}
    Proto = Proto
    NoFunc = NoFunc
    MaxLookups = 2
SPECIFICATION MCSpec
INVARIANTS
    TypeOK
    ListeningMatchesPending
    CallbackFunctionLive
    NamesChecked
CHECK_DEADLOCK FALSE
