---------------------------- MODULE FutexParker ----------------------------
(***************************************************************************)
(* sys::sync::thread_parking::futex::Parker                                 *)
(* (src/std/src/sys/sync/thread_parking/futex.cpp): the thread that owns it *)
(* parks, with or without a timeout, over and over; others unpark it.       *)
(***************************************************************************)
EXTENDS Integers

CONSTANTS
    Unparkers,
    Rechecks    \* futex_wait compares again after a wake (unix) or returns (Windows)

PARKED == -1
EMPTY == 0
NOTIFIED == 1

VARIABLES
    state,   \* Parker::state
    timed,   \* the owner is in park_timeout
    pc,      \* where the owner is in park or park_timeout
    waking   \* unparkers between the exchange and futex_wake

vars == <<state, timed, pc, waking>>

Init == state = EMPTY /\ timed = FALSE /\ pc = "Out" /\ waking = {}

\* fetch_sub(NOTIFIED): a notification is consumed, or EMPTY becomes PARKED.
Park(withTimeout) ==
    /\ pc = "Out"
    /\ state' = state - NOTIFIED
    /\ \/ state = NOTIFIED /\ UNCHANGED <<timed, pc>>
       \/ state # NOTIFIED /\ timed' = withTimeout /\ pc' = "Wait"
    /\ UNCHANGED waking

\* futex_wait(PARKED)
Wait ==
    /\ pc = "Wait"
    /\ pc' = IF state = PARKED THEN "Asleep" ELSE "Check"
    /\ UNCHANGED <<state, timed, waking>>

\* What follows a wake, an EINTR or a spurious return.
Roused == IF Rechecks THEN "Wait" ELSE "Check"

Interrupt == pc = "Asleep" /\ pc' = Roused /\ UNCHANGED <<state, timed, waking>>

Timeout == pc = "Asleep" /\ timed /\ pc' = "Check" /\ UNCHANGED <<state, timed, waking>>

\* Mutant: park takes any wake-up for a notification.
CheckTrusts == pc = "Check" /\ state' = EMPTY /\ pc' = "Out" /\ timed' = FALSE /\ UNCHANGED waking

\* Mutant: park looks for a notification and never for the right value.
CheckNeverTakes ==
    /\ pc = "Check"
    /\ \/ timed /\ state' = EMPTY /\ pc' = "Out" /\ timed' = FALSE
       \/ ~timed /\ pc' = "Wait" /\ UNCHANGED <<state, timed>>
    /\ UNCHANGED waking

\* park retries until it has changed NOTIFIED to EMPTY; park_timeout exchanges EMPTY.
Check ==
    /\ pc = "Check"
    /\ \/ (timed \/ state = NOTIFIED) /\ state' = EMPTY /\ pc' = "Out" /\ timed' = FALSE
       \/ ~timed /\ state # NOTIFIED /\ pc' = "Wait" /\ UNCHANGED <<state, timed>>
    /\ UNCHANGED waking

\* unpark: exchange(NOTIFIED)...
Unpark(u) ==
    /\ u \notin waking
    /\ state' = NOTIFIED
    /\ waking' = IF state = PARKED THEN waking \cup {u} ELSE waking
    /\ UNCHANGED <<timed, pc>>

\* ...then futex_wake, which may hit a later park.
Wake(u) ==
    /\ u \in waking
    /\ waking' = waking \ {u}
    /\ pc' = IF pc = "Asleep" THEN Roused ELSE pc
    /\ UNCHANGED <<state, timed>>

Next ==
    \/ \E b \in BOOLEAN : Park(b)
    \/ Wait \/ Interrupt \/ Timeout \/ Check
    \/ \E u \in Unparkers : Unpark(u) \/ Wake(u)

Spec == Init /\ [][Next]_vars

Run == Wait \/ Check

\* The owner runs, and an unpark that began ends; nobody has to unpark or park.
LiveSpec ==
    /\ Spec
    /\ WF_vars(Run)
    /\ \A u \in Unparkers : WF_vars(Wake(u))

-----------------------------------------------------------------------------
\* fetch_sub never takes the state below PARKED, and it is EMPTY or NOTIFIED outside.
TypeOK ==
    /\ state \in {PARKED, EMPTY, NOTIFIED}
    /\ timed \in BOOLEAN
    /\ pc \in {"Out", "Wait", "Asleep", "Check"}
    /\ waking \subseteq Unparkers
    /\ pc = "Out" => state # PARKED /\ ~timed
    /\ pc # "Out" => state # EMPTY

Phase == IF pc = "Out" THEN "Out" ELSE IF timed THEN "Timed" ELSE "Parked"

Abstract == INSTANCE ParkSpec WITH phase <- Phase, token <- (state = NOTIFIED)

\* A wake-up that is late or meant for an earlier park is not taken for a token, and
\* a token that is stored is consumed by exactly one park.
ImplementsPark == Abstract!Spec

\* A thread asleep with a token available has a futex_wake coming.
SleeperWoken == pc = "Asleep" /\ state = NOTIFIED => waking # {}

\* A parked thread whose token is available returns.
UnparkWakes == (pc # "Out" /\ state = NOTIFIED) ~> pc = "Out"
=============================================================================
