CONSTANTS
    Alphabet <- ScanAlphabet
    MaxLen = 4
    MaxTokens = 5
SPECIFICATION Spec
INVARIANT TypeOK
INVARIANT PushbackSingleSlot
CHECK_DEADLOCK FALSE
