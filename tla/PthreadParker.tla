---------------------------- MODULE PthreadParker ----------------------------
(***************************************************************************)
(* sys::sync::thread_parking::pthread::Parker                               *)
(* (src/std/src/sys/sync/thread_parking/pthread.cpp), used where there is   *)
(* neither a futex nor a dispatch semaphore: a state word, a mutex and a    *)
(* condition variable, which are external.                                  *)
(***************************************************************************)
EXTENDS Naturals

CONSTANTS Unparkers, Owner

EMPTY == 0
PARKED == 1
NOTIFIED == 2

VARIABLES
    state,   \* Parker::state
    timed,   \* the owner is in park_timeout
    pc,      \* where the owner and the unparkers are
    holder   \* who has Parker::lock

vars == <<state, timed, pc, holder>>

Threads == Unparkers \cup {Owner}

Init ==
    /\ state = EMPTY /\ timed = FALSE
    /\ pc = [t \in Threads |-> "Out"]
    /\ holder = {}

Go(t, from, to) == pc[t] = from /\ pc' = [pc EXCEPT ![t] = to]

\* The fast path: NOTIFIED becomes EMPTY without the lock.
Park(withTimeout) ==
    /\ \/ state = NOTIFIED /\ state' = EMPTY /\ Go(Owner, "Out", "Out") /\ UNCHANGED timed
       \/ state # NOTIFIED /\ timed' = withTimeout /\ Go(Owner, "Out", "Lock") /\ UNCHANGED state
    /\ UNCHANGED holder

\* lock.lock(), by the owner on the slow path or by an unparker.
Lock(t) ==
    /\ Go(t, "Lock", "Locked")
    /\ holder = {} /\ holder' = {t}
    /\ UNCHANGED <<state, timed>>

\* EMPTY becomes PARKED and the owner waits, or the notification that came is taken.
Prepare ==
    /\ \/ /\ state = EMPTY /\ state' = PARKED
          /\ Go(Owner, "Locked", "Waiting") /\ holder' = {} /\ UNCHANGED timed
       \/ /\ state = NOTIFIED /\ state' = EMPTY
          /\ Go(Owner, "Locked", "Out") /\ timed' = FALSE /\ UNCHANGED holder

\* cvar.wait or wait_timeout returns with the lock: notified, spuriously or timed out.
Woken ==
    /\ Go(Owner, "Waiting", "Check")
    /\ holder = {} /\ holder' = {Owner}
    /\ UNCHANGED <<state, timed>>

\* park leaves its loop when it took the notification; park_timeout returns.
Check ==
    /\ \/ /\ timed \/ state = NOTIFIED
          /\ state' = EMPTY /\ Go(Owner, "Check", "Out") /\ timed' = FALSE /\ UNCHANGED holder
       \/ /\ ~timed /\ state # NOTIFIED
          /\ Go(Owner, "Check", "Waiting") /\ holder' = {} /\ UNCHANGED <<state, timed>>

\* unpark: exchange(NOTIFIED), and on to the lock if the owner was parked.
Unpark(u) ==
    /\ Go(u, "Out", IF state = PARKED THEN "Lock" ELSE "Out")
    /\ state' = NOTIFIED
    /\ UNCHANGED <<timed, holder>>

\* lock.unlock(), then notify_one, which is what ends a wait at the latest.
Notify(u) ==
    /\ u \in Unparkers
    /\ Go(u, "Locked", "Out")
    /\ holder' = {}
    /\ UNCHANGED <<state, timed>>

Next ==
    \/ \E b \in BOOLEAN : Park(b)
    \/ \E t \in Threads : Lock(t)
    \/ Prepare \/ Woken \/ Check
    \/ \E u \in Unparkers : Unpark(u) \/ Notify(u)

Spec == Init /\ [][Next]_vars

\* Threads run and a wait ends, by a notification or spuriously; nobody has to unpark.
LiveSpec ==
    /\ Spec
    /\ WF_vars(Prepare) /\ SF_vars(Woken) /\ WF_vars(Check)
    /\ \A t \in Threads : SF_vars(Lock(t))
    /\ \A u \in Unparkers : WF_vars(Notify(u))

-----------------------------------------------------------------------------
\* "Blocks the current thread until its token is made available via `unpark`": once it
\* is, park returns.
UnparkWakes == (pc[Owner] # "Out" /\ state = NOTIFIED) ~> pc[Owner] = "Out"
=============================================================================
