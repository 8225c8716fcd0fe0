------------------------------ MODULE ParkSpec ------------------------------
(***************************************************************************)
(* What thread::park, park_timeout and unpark promise                       *)
(* (src/std/src/thread/functions.cppm): a thread has one token, unpark makes *)
(* it available, park returns by consuming it and park_timeout returns with *)
(* or without it.                                                           *)
(***************************************************************************)
VARIABLES
    phase,  \* "Out", in park ("Parked") or in park_timeout ("Timed")
    token

Init == phase = "Out" /\ token = FALSE

\* park and park_timeout return at once with a token, and block without one.
Immediate == phase = "Out" /\ token /\ token' = FALSE /\ UNCHANGED phase

Block == phase = "Out" /\ ~token /\ phase' \in {"Parked", "Timed"} /\ UNCHANGED token

Return == phase # "Out" /\ (token \/ phase = "Timed") /\ phase' = "Out" /\ token' = FALSE

Unpark == token' = TRUE /\ UNCHANGED phase

Next == Immediate \/ Block \/ Return \/ Unpark

Spec == Init /\ [][Next]_<<phase, token>>
=============================================================================
