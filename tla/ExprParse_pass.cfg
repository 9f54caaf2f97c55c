CONSTANT Trees <- MCTrees
INIT Init
NEXT Next
INVARIANTS TypeOK ExpressionRoundTrip
CHECK_DEADLOCK FALSE
