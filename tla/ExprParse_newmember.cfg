CONSTANT Trees <- NewMemberTrees
INIT Init
NEXT Next
INVARIANT ExpressionRoundTrip
CHECK_DEADLOCK FALSE
