----------------------------- MODULE MC_Scanner -----------------------------
(* Model-checking instances of the Scanner: each alphabet is a small set of *)
(* bytes, one or two of each character class the scanner dispatches on.   *)
EXTENDS Scanner

(* Every class the scanner tells apart except bytes no routine accepts:    *)
(* letters (one a keyword prefix), '0', another digit, 'x', the '<' and    *)
(* '>' ladders, a two-character operator start, punctuation, comment       *)
(* characters, a quote and whitespace.                                     *)
ScanAlphabet == {"i", "o", "0", "1", "x", "<", ">", "=", "+", ";", "/", "*",
                 "\"", " ", "\n"}

(* An identifier that is a proper prefix of the keyword "if".              *)
KeywordAlphabet == {"i", "o", " "}
(* A two-character operator that is not '==' but ends in '='.              *)
OperatorAlphabet == {"+", "=", "o"}
(* A decimal literal of two digits.                                        *)
NumberAlphabet == {"1", "2", " "}
(* A '/' that starts neither a comment nor '/='.                           *)
SlashAlphabet == {"/", "o"}
(* A token followed by a newline.                                          *)
LineAlphabet == {"o", "\n"}
(* A byte 0xFF, which get() returns as the uint8_t C_EOF.                 *)
EOFByteAlphabet == {"o", EOF}
(* An operator character as the last byte of the stream.                  *)
CutAlphabet == {"+"}
(* The passing run's classes and a 0xFF byte.                              *)
TokensAlphabet == ScanAlphabet \cup {EOF}
=============================================================================
