---------------------------- MODULE TaskContract ----------------------------
(***************************************************************************)
(* What the specification promises of one Task, whichever frontend loaded  *)
(* it: the abstract specification the Task model (Natives.tla) is checked  *)
(* against.                                                                *)
(*                                                                         *)
(*  - spec 7: a script that does not parse is rejected and no part of it   *)
(*    runs; an allocation failure is fatal to the Task but not to the      *)
(*    scheduler, so a Task ends, it never brings the process down;         *)
(*  - spec 4.6: a running Task suspends with MsDelay or WaitForEvent,      *)
(*    finishes, or ends with an error;                                     *)
(*  - spec 8.6: a Task resumed after MsDelay(n) runs on only once n ms     *)
(*    have passed, and after WaitForEvent only once an event came.        *)
(***************************************************************************)
EXTENDS Integers

VARIABLES
    tstatus,    \* "loading", "running", "sleeping", "waiting", "finished",
                \* "failed" (ended by an error) or "rejected" (never ran)
    clock,      \* the time, in microseconds
    wakeAfter,  \* the earliest time a sleeping Task may run again
    valid,      \* the Task's source is a program of its language
    memFailed   \* an allocation failed while the Task was loaded

cvars == <<tstatus, clock, wakeAfter, valid, memFailed>>

Init ==
    /\ tstatus \in {"loading", "running"}
    /\ clock = 0
    /\ wakeAfter = 0
    /\ valid \in BOOLEAN
    /\ memFailed = FALSE

(* Loading: a valid script runs, an invalid one is rejected, and when an  *)
(* allocation fails the Task ends without running, either way.             *)
Load ==
    /\ tstatus = "loading"
    /\ memFailed' \in BOOLEAN
    /\ tstatus' \in IF memFailed' THEN {"rejected", "failed"}
                    ELSE IF valid THEN {"running"} ELSE {"rejected"}
    /\ UNCHANGED <<clock, wakeAfter, valid>>

(* MsDelay(n): sleep until at least n ms from now.                         *)
Sleep ==
    /\ tstatus = "running"
    /\ tstatus' = "sleeping"
    /\ wakeAfter' >= clock
    /\ UNCHANGED <<clock, valid, memFailed>>

Wake ==
    /\ tstatus = "sleeping" /\ clock >= wakeAfter
    /\ tstatus' = "running"
    /\ UNCHANGED <<clock, wakeAfter, valid, memFailed>>

(* WaitForEvent, and the event that ends the wait.                          *)
Wait ==
    /\ tstatus = "running"
    /\ tstatus' = "waiting"
    /\ UNCHANGED <<clock, wakeAfter, valid, memFailed>>

Deliver ==
    /\ tstatus = "waiting"
    /\ tstatus' = "running"
    /\ UNCHANGED <<clock, wakeAfter, valid, memFailed>>

(* The program finishes, or an error (a runtime error, an allocation       *)
(* failure) ends the Task.                                                 *)
End ==
    /\ tstatus = "running"
    /\ tstatus' \in {"finished", "failed"}
    /\ UNCHANGED <<clock, wakeAfter, valid, memFailed>>

Tick ==
    /\ clock' > clock
    /\ UNCHANGED <<tstatus, wakeAfter, valid, memFailed>>

Next == Load \/ Sleep \/ Wake \/ Wait \/ Deliver \/ End \/ Tick

Spec == Init /\ [][Next]_cvars
=============================================================================
