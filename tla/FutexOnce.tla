----------------------------- MODULE FutexOnce -----------------------------
(***************************************************************************)
(* sys::sync::once::futex::Once (src/std/src/sys/sync/once/futex.cpp):      *)
(* callers run or await the initializer, waiters only await it.  The weak   *)
(* compare_exchange may fail with the word unchanged.                       *)
(***************************************************************************)
EXTENDS Naturals

CONSTANTS Callers, Waiters

COMPLETE == 0
RUNNING == 1
INCOMPLETE == 3
QUEUED == 4

VARIABLES
    word,   \* Once::state_and_queued
    cur,    \* each thread's local state_and_queued
    pc

vars == <<word, cur, pc>>

Users == Callers \cup Waiters

State(w) == w % QUEUED

Queued(w) == w >= QUEUED

Init ==
    /\ word = INCOMPLETE
    /\ cur = [t \in Users |-> INCOMPLETE]
    /\ pc = [t \in Users |-> "Load"]

Go(t, from, to) == pc[t] = from /\ pc' = [pc EXCEPT ![t] = to]

\* The load before the loop and the one after futex_wait; is_completed is the same load.
Load(t) ==
    /\ Go(t, "Load", "Look")
    /\ cur' = [cur EXCEPT ![t] = word]
    /\ UNCHANGED word

\* state == COMPLETE
Return(t) ==
    /\ State(cur[t]) = COMPLETE
    /\ Go(t, "Look", "Done")
    /\ UNCHANGED <<word, cur>>

\* compare_exchange_weak(cur, next), which may fail and then reloads cur.
Cas(t, next, to, local) ==
    \/ /\ word = cur[t] /\ word' = next
       /\ Go(t, "Look", to) /\ cur' = [cur EXCEPT ![t] = local]
    \/ /\ Go(t, "Look", "Look") /\ cur' = [cur EXCEPT ![t] = word]
       /\ UNCHANGED word

\* Mutant: the caller forgets that somebody queued before it started.
StartForgets(t) ==
    /\ t \in Callers /\ State(cur[t]) = INCOMPLETE
    /\ Cas(t, RUNNING, "Running", cur[t])

\* A caller that finds INCOMPLETE becomes the one that runs, and keeps the QUEUED bit.
Start(t) ==
    /\ t \in Callers /\ State(cur[t]) = INCOMPLETE
    /\ Cas(t, RUNNING + (IF Queued(cur[t]) THEN QUEUED ELSE 0), "Running", cur[t])

Awaits(t) ==
    State(cur[t]) # COMPLETE /\ ~(t \in Callers /\ State(cur[t]) = INCOMPLETE)

\* The QUEUED bit is set before the thread sleeps.
Queue(t) ==
    /\ Awaits(t)
    /\ \/ Queued(cur[t]) /\ Go(t, "Look", "Wait") /\ UNCHANGED <<word, cur>>
       \/ ~Queued(cur[t]) /\ Cas(t, cur[t] + QUEUED, "Wait", cur[t] + QUEUED)

\* Mutant: the word is not loaded again after futex_wait.
WaitKeepsStale(t) ==
    /\ Go(t, "Wait", IF word = cur[t] THEN "Asleep" ELSE "Look")
    /\ UNCHANGED <<word, cur>>

\* futex_wait(cur)
Wait(t) ==
    /\ Go(t, "Wait", IF word = cur[t] THEN "Asleep" ELSE "Load")
    /\ UNCHANGED <<word, cur>>

\* EINTR or a spurious return.
Interrupt(t) == Go(t, "Asleep", "Load") /\ UNCHANGED <<word, cur>>

\* The callback has returned: exchange(COMPLETE).
Finish(t) ==
    /\ Go(t, "Running", "Wake")
    /\ word' = COMPLETE
    /\ cur' = [cur EXCEPT ![t] = word]

\* futex_wake_all if the bit was set.
Wake(t) ==
    /\ pc[t] = "Wake"
    /\ pc' = [u \in Users |->
                 IF u = t THEN "Done"
                 ELSE IF Queued(cur[t]) /\ pc[u] = "Asleep" THEN "Load" ELSE pc[u]]
    /\ UNCHANGED <<word, cur>>

Run(t) ==
    \/ Load(t) \/ Return(t) \/ Start(t) \/ Queue(t) \/ Wait(t) \/ Finish(t) \/ Wake(t)

Next == \E t \in Users : Run(t) \/ Interrupt(t)

Spec == Init /\ [][Next]_vars

\* A compare_exchange_weak that succeeds.
Exchange(t) == (Start(t) \/ Queue(t)) /\ pc'[t] # "Look"

\* Users run, initializers return, and a weak exchange does not fail for ever.
LiveSpec ==
    /\ Spec
    /\ \A t \in Users :
          /\ WF_vars(Run(t))
          /\ SF_vars(Exchange(t))

-----------------------------------------------------------------------------
\* The word is a state, with the QUEUED bit unless it is COMPLETE.
TypeOK ==
    /\ word \in {COMPLETE, RUNNING, INCOMPLETE, RUNNING + QUEUED, INCOMPLETE + QUEUED}
    /\ cur \in [Users -> {COMPLETE, RUNNING, INCOMPLETE, RUNNING + QUEUED, INCOMPLETE + QUEUED}]
    /\ pc \in [Users -> {"Load", "Look", "Running", "Wait", "Asleep", "Wake", "Done"}]

Phase == CASE State(word) = COMPLETE -> "Complete"
           [] State(word) = RUNNING -> "Running"
           [] OTHER -> "Incomplete"

Abstract == INSTANCE OnceSpec WITH Threads <- Users, phase <- Phase, back <- {t \in Users : pc[t] = "Done"}

\* One initializer runs, and only completion lets anybody return.
ImplementsOnce == Abstract!Spec

\* A thread asleep or about to sleep is announced by the QUEUED bit, or the one that
\* took the bit away has yet to wake it, or it will find the word changed.
SleepersAnnounced ==
    \A t \in Users : pc[t] = "Asleep" =>
        Queued(word) \/ \E u \in Users : pc[u] = "Wake" /\ Queued(cur[u])

\* If anybody calls, everybody that calls or waits returns.
AllReturn == <>(\A t \in Users : pc[t] = "Done")
=============================================================================
