CONSTANTS
    Alphabet <- OperatorAlphabet
    MaxLen = 2
    MaxTokens = 3
SPECIFICATION Spec
INVARIANT TokensMatchSource
CHECK_DEADLOCK FALSE
