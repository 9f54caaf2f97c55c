CONSTANTS
    Alphabet <- SlashAlphabet
    MaxLen = 3
    MaxTokens = 4
SPECIFICATION Spec
INVARIANT TokensMatchSource
CHECK_DEADLOCK FALSE
