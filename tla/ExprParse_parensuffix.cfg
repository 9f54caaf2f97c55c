CONSTANT Trees <- ParenSuffixTrees
INIT Init
NEXT Next
INVARIANT ExpressionRoundTrip
CHECK_DEADLOCK FALSE
