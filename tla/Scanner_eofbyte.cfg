CONSTANTS
    Alphabet <- EOFByteAlphabet
    MaxLen = 3
    MaxTokens = 4
SPECIFICATION Spec
INVARIANT ReadsWholeInput
CHECK_DEADLOCK FALSE
