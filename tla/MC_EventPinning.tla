-------------------------- MODULE MC_EventPinning --------------------------
(* Model values for the EventPinning runs.                                 *)
EXTENDS EventPinning, Application

CONSTANTS c1, c2, t1, t2, t3, f1, a1

MCConns == {c1, c2}
MCTasks == {t1, t2, t3}

(* Names of 0 to 2 and of 30 to 33 characters, all 'a' but the first or    *)
(* the last, which is a character at or next to an edge of an allowed      *)
(* range (space + - . / 0 9 : @ A Z [ _ ` a z {); and the null pointer.   *)
Codes == {32, 43, 45, 46, 47, 48, 57, 58, 64, 65, 90, 91, 95, 96, 97, 122, 123}
MCNames ==
    {NullName} \cup
    UNION {{Name([i \in 1..n |-> IF i = k THEN c ELSE 97]) : k \in {1, n}, c \in Codes} :
           n \in {0, 1, 2, 30, 31, 32, 33}}

(* The run composes the event model with the name checks, which keep no   *)
(* state: an initial state either starts the event model (checked = None) *)
(* or hands one name of MCNames to both checks and has no successor.      *)
VARIABLE checked
NoneName == [null |-> FALSE, cs |-> <<0>>]
MCInit == Init /\ checked \in MCNames \cup {NoneName}
MCNext == checked = NoneName /\ Next /\ UNCHANGED checked
MCSpec == MCInit /\ [][MCNext]_<<vars, checked>>

(* validateFileName and validateBonjourName (Application.cpp) accept       *)
(* exactly the non-null names of 1 to 31 allowed characters, and reject    *)
(* every other name with an error it really has: the loop's length test    *)
(* at i >= 31 and its character tests agree on where the limits are.      *)
NamesChecked ==
    checked # NoneName =>
        \A fileName \in BOOLEAN :
            LET e == NameErrors(checked, fileName)
                r == IF fileName THEN ValidateFileName(checked)
                     ELSE ValidateBonjourName(checked)
            IN  IF e = {} THEN r = "Ok" ELSE r \in e
=============================================================================
