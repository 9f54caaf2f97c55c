CONSTANTS
    Alphabet <- LineAlphabet
    MaxLen = 2
    MaxTokens = 3
SPECIFICATION Spec
INVARIANT LineNumberAtTokenStart
CHECK_DEADLOCK FALSE
