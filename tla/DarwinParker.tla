---------------------------- MODULE DarwinParker ----------------------------
(***************************************************************************)
(* sys::sync::thread_parking::darwin::Parker                                *)
(* (src/std/src/sys/sync/thread_parking/darwin.cpp): a state word and a     *)
(* dispatch semaphore, which is external and modelled as a counter.  The    *)
(* hard part is the timeout: a signal that is on its way when the wait      *)
(* expires has to be drained, or a later park would take it for its own.    *)
(***************************************************************************)
EXTENDS Integers, FiniteSets

CONSTANT Unparkers

PARKED == -1
EMPTY == 0
NOTIFIED == 1

VARIABLES
    state,     \* Parker::state
    timed,     \* the owner is in park_timeout
    pc,        \* where the owner is
    permits,   \* the semaphore's value
    signaling  \* unparkers between the exchange and the signal

vars == <<state, timed, pc, permits, signaling>>

Init == state = EMPTY /\ timed = FALSE /\ pc = "Out" /\ permits = 0 /\ signaling = {}

\* fetch_sub(1)
Park(withTimeout) ==
    /\ pc = "Out"
    /\ state' = state - 1
    /\ \/ state = NOTIFIED /\ UNCHANGED <<timed, pc>>
       \/ state # NOTIFIED /\ timed' = withTimeout /\ pc' = "Wait"
    /\ UNCHANGED <<permits, signaling>>

\* dispatch_semaphore_wait returns with a permit.
Acquire ==
    /\ pc \in {"Wait", "Drain"} /\ permits > 0
    /\ permits' = permits - 1
    /\ \/ pc = "Wait" /\ pc' = "Signaled" /\ UNCHANGED timed
       \/ pc = "Drain" /\ pc' = "Out" /\ timed' = FALSE
    /\ UNCHANGED <<state, signaling>>

\* dispatch_semaphore_wait times out.
Timeout ==
    /\ pc = "Wait" /\ timed /\ permits = 0
    /\ pc' = "TimedOut"
    /\ UNCHANGED <<state, timed, permits, signaling>>

\* exchange(EMPTY), and if the notification came after the timeout, wait for its signal.
Finish ==
    /\ pc \in {"Signaled", "TimedOut"}
    /\ state' = EMPTY
    /\ \/ pc = "TimedOut" /\ state = NOTIFIED /\ pc' = "Drain" /\ UNCHANGED timed
       \/ ~(pc = "TimedOut" /\ state = NOTIFIED) /\ pc' = "Out" /\ timed' = FALSE
    /\ UNCHANGED <<permits, signaling>>

\* unpark: exchange(NOTIFIED)...
Unpark(u) ==
    /\ u \notin signaling
    /\ state' = NOTIFIED
    /\ signaling' = IF state = PARKED THEN signaling \cup {u} ELSE signaling
    /\ UNCHANGED <<timed, pc, permits>>

\* ...then dispatch_semaphore_signal.
Signal(u) ==
    /\ u \in signaling
    /\ signaling' = signaling \ {u}
    /\ permits' = permits + 1
    /\ UNCHANGED <<state, timed, pc>>

Next ==
    \/ \E b \in BOOLEAN : Park(b)
    \/ Acquire \/ Timeout \/ Finish
    \/ \E u \in Unparkers : Unpark(u) \/ Signal(u)

Spec == Init /\ [][Next]_vars

Run == Acquire \/ Finish

\* The owner runs, and an unpark that began ends; nobody has to unpark or park.
LiveSpec ==
    /\ Spec
    /\ WF_vars(Run)
    /\ \A u \in Unparkers : WF_vars(Signal(u))

-----------------------------------------------------------------------------
\* The semaphore never holds more than one permit.
TypeOK ==
    /\ state \in {PARKED, EMPTY, NOTIFIED}
    /\ timed \in BOOLEAN
    /\ pc \in {"Out", "Wait", "Signaled", "TimedOut", "Drain"}
    /\ permits \in 0..1
    /\ signaling \subseteq Unparkers

\* Signals and parks pair up: outside of park no permit is stored or on its way, so
\* that no park can be ended by a signal meant for an earlier one; and a drain or a
\* wait that was notified has exactly one to come.
PermitsAccounted ==
    LET due == permits + Cardinality(signaling)
    IN  /\ pc = "Out" => due = 0 /\ state # PARKED
        /\ pc \in {"Wait", "TimedOut"} => due = IF state = NOTIFIED THEN 1 ELSE 0
        /\ pc = "Signaled" => due = 0 /\ state = NOTIFIED
        /\ pc = "Drain" => due = 1

\* The owner is seen as parked until it exchanged EMPTY; the drain that may follow
\* only delays the return, and tokens that arrive meanwhile are for the next park.
Phase == IF pc \in {"Out", "Drain"} THEN "Out" ELSE IF timed THEN "Timed" ELSE "Parked"

Abstract == INSTANCE ParkSpec WITH phase <- Phase, token <- (state = NOTIFIED)

\* A signal that raced a timeout is not taken for a token by a later park.
ImplementsPark == Abstract!Spec

\* A parked thread whose token is available returns, and so does one that drains.
UnparkWakes == (pc = "Drain" \/ (pc # "Out" /\ state = NOTIFIED)) ~> pc = "Out"
=============================================================================
