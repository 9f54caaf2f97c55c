CONSTANT Trees <- TernaryTrees
INIT Init
NEXT Next
INVARIANT ExpressionRoundTrip
CHECK_DEADLOCK FALSE
