---------------------------- MODULE FutexCondvar ----------------------------
(***************************************************************************)
(* sys::sync::condvar::futex::Condvar and rstd::sync::Condvar               *)
(* (src/std/src/sys/sync/condvar/futex.cpp, src/std/src/sync/condvar.cppm)  *)
(* over a mutex that is LockSpec, which FutexMutex implements.              *)
(*                                                                          *)
(* Consumers wait_while there is no item, timed ones wait_timeout_while;    *)
(* producers add an item and notify, before or after they unlock.           *)
(***************************************************************************)
EXTENDS Naturals, FiniteSets

CONSTANTS
    Producers, Consumers,
    Timed,       \* consumers that use wait_timeout_while
    NotifyAll,   \* producers that call notify_all instead of notify_one
    Rechecks,    \* futex_wait compares again after a wake (unix) or returns (Windows)
    CvModulus    \* the condvar's word counts modulo this (2^32), more than there are notifications

VARIABLES
    owner,    \* who holds the mutex
    job,      \* each thread's place in wait_while, or in the producer
    cv,       \* Condvar::m_futex
    expected, \* wait_optional_timeout's `value'
    dozing,   \* threads in the kernel's queue on the condvar's word
    items,    \* what the mutex protects
    over      \* timed consumers whose timeout has elapsed

vars == <<owner, job, cv, expected, dozing, items, over>>

Users == Producers \cup Consumers

Mutex == INSTANCE LockSpec WITH Threads <- Users

Init ==
    /\ Mutex!Init
    /\ job = [t \in Users |-> "Start"]
    /\ cv = 0
    /\ expected = [t \in Users |-> 0]
    /\ dozing = {}
    /\ items = 0
    /\ over = {}

Job(t, from, to) == job[t] = from /\ job' = [job EXCEPT ![t] = to]

\* mutex.lock(), at the start and after a wait.
Acquire(t) ==
    /\ Job(t, "Start", "Locked") \/ Job(t, "Relock", "Locked")
    /\ Mutex!Acquire(t)
    /\ UNCHANGED <<cv, expected, dozing, items, over>>

\* The loop finds no item, and some of the timeout left: wait() reads the word while
\* it holds the mutex.  A timed wait is given the time that remains.
Load(t) ==
    /\ t \in Consumers /\ items = 0 /\ t \notin over
    /\ Job(t, "Locked", "Release")
    /\ expected' = [expected EXCEPT ![t] = cv]
    /\ UNCHANGED <<owner, cv, dozing, items, over>>

\* wait() unlocks.
Release(t) ==
    /\ Job(t, "Release", "Wait")
    /\ Mutex!Release(t)
    /\ UNCHANGED <<cv, expected, dozing, items, over>>

\* Mutant: the kernel does not compare the word before it sleeps.
WaitBlindly(t) ==
    /\ Job(t, "Wait", "Dozing")
    /\ dozing' = dozing \cup {t}
    /\ UNCHANGED <<owner, cv, expected, items, over>>

\* futex_wait(value): sleep if the word still has it.
Wait(t) ==
    /\ \/ cv = expected[t] /\ Job(t, "Wait", "Dozing") /\ dozing' = dozing \cup {t}
       \/ cv # expected[t] /\ Job(t, "Wait", "Relock") /\ UNCHANGED dozing
    /\ UNCHANGED <<owner, cv, expected, items, over>>

Roused == IF Rechecks THEN "Wait" ELSE "Relock"

\* EINTR, or a spurious return.
Interrupt(t) ==
    /\ Job(t, "Dozing", Roused)
    /\ dozing' = dozing \ {t}
    /\ UNCHANGED <<owner, cv, expected, items, over>>

\* The timeout, counted from the first look at the condition, has elapsed.
Elapse(t) ==
    /\ t \in Timed \ over /\ job[t] \in {"Locked", "Release", "Wait", "Dozing", "Relock"}
    /\ over' = over \cup {t}
    /\ UNCHANGED <<owner, job, cv, expected, dozing, items>>

\* ETIMEDOUT: the wait's answer is ignored, and the loop looks again.
Expire(t) ==
    /\ t \in over
    /\ Job(t, "Dozing", "Relock")
    /\ dozing' = dozing \ {t}
    /\ UNCHANGED <<owner, cv, expected, items, over>>

\* The condition is false: wait_while returns and the consumer takes an item.
Take(t) ==
    /\ t \in Consumers /\ items > 0
    /\ Job(t, "Locked", "Leave")
    /\ items' = items - 1
    /\ UNCHANGED <<owner, cv, expected, dozing, over>>

\* wait_timeout_while returns timed_out: no item and no time left.
GiveUp(t) ==
    /\ t \in over /\ items = 0
    /\ Job(t, "Locked", "Leave")
    /\ UNCHANGED <<owner, cv, expected, dozing, items, over>>

\* The producer adds an item, and notifies with the mutex held or after it unlocks.
Put(t) ==
    /\ t \in Producers
    /\ Job(t, "Locked", "Bump") \/ Job(t, "Locked", "Unlock")
    /\ items' = items + 1
    /\ UNCHANGED <<owner, cv, expected, dozing, over>>

Unlock(t) ==
    /\ Job(t, "Unlock", "Bump")
    /\ Mutex!Release(t)
    /\ UNCHANGED <<cv, expected, dozing, items, over>>

\* notify_one, notify_all: fetch_add, which wraps.
Bump(t) ==
    /\ Job(t, "Bump", "Notify")
    /\ cv' = (cv + 1) % CvModulus
    /\ UNCHANGED <<owner, expected, dozing, items, over>>

\* These threads wake up, and t is done or has the mutex still to release.
Rouse(t, woken) ==
    /\ job[t] = "Notify"
    /\ job' = [u \in Users |->
                  IF u \in woken THEN Roused
                  ELSE IF u # t THEN job[u]
                  ELSE IF owner = {t} THEN "Leave" ELSE "Done"]
    /\ dozing' = dozing \ woken
    /\ UNCHANGED <<owner, cv, expected, items, over>>

\* ...then futex_wake(1) or futex_wake_all.
Notify(t) ==
    \/ (t \in NotifyAll \/ dozing = {}) /\ Rouse(t, dozing)
    \/ t \notin NotifyAll /\ \E w \in dozing : Rouse(t, {w})

\* The guard is dropped.
Leave(t) ==
    /\ Job(t, "Leave", "Done")
    /\ Mutex!Release(t)
    /\ UNCHANGED <<cv, expected, dozing, items, over>>

\* What a thread that is not asleep does next.
Run(t) ==
    \/ Acquire(t) \/ Load(t) \/ Release(t) \/ Wait(t) \/ Take(t) \/ GiveUp(t)
    \/ Put(t) \/ Unlock(t) \/ Bump(t) \/ Notify(t) \/ Leave(t)

Next == \E t \in Users : Run(t) \/ Interrupt(t) \/ Elapse(t) \/ Expire(t)

Spec == Init /\ [][Next]_vars

\* Users run; time passes and the kernel sees it; interrupts need not happen and do not
\* go on for ever (on Windows, where each one takes the mutex again, they could keep it
\* from everybody else: no mutex of the code is fair).
LiveSpec ==
    /\ Spec
    /\ \A t \in Users : WF_vars(Run(t)) /\ WF_vars(Elapse(t)) /\ WF_vars(Expire(t))
    /\ <>[][\A t \in Users : ~Interrupt(t)]_vars

-----------------------------------------------------------------------------
\* The condvar's word stays below its modulus and the kernel's queue is who dozes.
TypeOK ==
    /\ owner \subseteq Users
    /\ job \in [Users -> {"Start", "Locked", "Release", "Wait", "Dozing", "Relock",
                          "Leave", "Unlock", "Bump", "Notify", "Done"}]
    /\ cv \in 0..CvModulus - 1
    /\ expected \in [Users -> 0..CvModulus - 1]
    /\ dozing = {t \in Consumers : job[t] = "Dozing"}
    /\ items \in 0..Cardinality(Producers)
    /\ over \subseteq Timed

\* No notification is lost between the release of the mutex and the sleep: while a
\* consumer sleeps and there is an item, a consumer is awake that will look for it or
\* a producer has yet to notify.
NoLostNotify ==
    items > 0 /\ dozing # {} =>
        \/ \E t \in Consumers : job[t] \notin {"Dozing", "Leave", "Done"}
        \/ \E t \in Producers : job[t] \in {"Unlock", "Bump", "Notify"}

\* With an item for every consumer each wait ends, timed or not, and everybody leaves.
AllServed == <>(\A t \in Users : job[t] = "Done")
=============================================================================
