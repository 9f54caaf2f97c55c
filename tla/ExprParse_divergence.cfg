CONSTANT Trees <- DivergentTrees
INIT Init
NEXT Next
INVARIANT ExpressionRoundTrip
CHECK_DEADLOCK FALSE
