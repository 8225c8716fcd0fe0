------------------------------ MODULE OnceSpec ------------------------------
(***************************************************************************)
(* What Once promises (src/std/src/sync/once.cppm): the initializer runs    *)
(* once, and no call_once or wait returns before it has finished.           *)
(***************************************************************************)
CONSTANT Threads

VARIABLES
    phase,   \* "Incomplete", "Running" or "Complete"
    back     \* threads whose call_once or wait returned

Init == phase = "Incomplete" /\ back = {}

Start == phase = "Incomplete" /\ phase' = "Running" /\ UNCHANGED back

Finish == phase = "Running" /\ phase' = "Complete" /\ UNCHANGED back

Return(t) == phase = "Complete" /\ t \notin back /\ back' = back \cup {t} /\ UNCHANGED phase

Next == Start \/ Finish \/ \E t \in Threads : Return(t)

Spec == Init /\ [][Next]_<<phase, back>>
=============================================================================
