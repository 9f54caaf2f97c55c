---------------------------- MODULE Application ----------------------------
(***************************************************************************)
(* The name checks of src/src/Application.cpp: validateFileName and        *)
(* validateBonjourName.  A name is a C string: a null pointer, or the     *)
(* sequence of its character codes before the terminating zero.            *)
(***************************************************************************)
EXTENDS Naturals, Sequences

Name(cs) == [null |-> FALSE, cs |-> cs]
NullName == [null |-> TRUE, cs |-> <<>>]

(* The characters each check lets through, by their codes.                  *)
Digit(c) == c >= 48 /\ c <= 57          \* '0' .. '9'
Lower(c) == c >= 97 /\ c <= 122         \* 'a' .. 'z'
Upper(c) == c >= 65 /\ c <= 90          \* 'A' .. 'Z'
FileNameChar(c) == c \in {45, 46, 95, 43} \/ Digit(c) \/ Lower(c) \/ Upper(c)   \* - . _ +
BonjourNameChar(c) == c = 45 \/ Digit(c) \/ Lower(c)
NameChar(c, fileName) == IF fileName THEN FileNameChar(c) ELSE BonjourNameChar(c)

RECURSIVE NameLoop(_, _, _)

(* Mutant: the length test lets a 32nd character through.                  *)
NameLoopMut(name, i, fileName) ==
    IF i >= Len(name) THEN "Ok"
    ELSE IF i >= 32 THEN "BadLength"
    ELSE IF NameChar(name[i + 1], fileName) THEN NameLoop(name, i + 1, fileName)
    ELSE "InvalidChar"

(* The loop of both checks: for (i = 0; name[i]; i++), BadLength once i  *)
(* reaches 31, InvalidChar at the first character that is not allowed,   *)
(* Ok at the terminating zero.                                             *)
NameLoop(name, i, fileName) ==
    IF i >= Len(name) THEN "Ok"
    ELSE IF i >= 31 THEN "BadLength"
    ELSE IF NameChar(name[i + 1], fileName) THEN NameLoop(name, i + 1, fileName)
    ELSE "InvalidChar"

(* A null or empty name is BadLength; otherwise the loop.                   *)
ValidateFileName(name) ==
    IF name.null \/ name.cs = <<>> THEN "BadLength" ELSE NameLoop(name.cs, 0, TRUE)

ValidateBonjourName(name) ==
    IF name.null \/ name.cs = <<>> THEN "BadLength" ELSE NameLoop(name.cs, 0, FALSE)

(* Reference: the errors a name really has.  A valid name is not null, has *)
(* 1 to 31 characters, and each is a letter, digit or one of - . _ + for a *)
(* file name, a lower-case letter, digit or - for a Bonjour name.          *)
NameErrors(n, fileName) ==
    (IF n.null \/ Len(n.cs) \notin 1..31 THEN {"BadLength"} ELSE {})
    \cup (IF ~n.null /\ \E i \in DOMAIN n.cs : ~NameChar(n.cs[i], fileName)
          THEN {"InvalidChar"} ELSE {})
=============================================================================
