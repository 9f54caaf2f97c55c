CONSTANTS
    Alphabet <- CutAlphabet
    MaxLen = 1
    MaxTokens = 2
SPECIFICATION Spec
INVARIANT TokensMatchSource
CHECK_DEADLOCK FALSE
