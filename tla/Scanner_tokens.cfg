CONSTANTS
    Alphabet <- TokensAlphabet
    MaxLen = 2
    MaxTokens = 3
SPECIFICATION Spec
INVARIANT ScannerCorrect
CHECK_DEADLOCK FALSE
