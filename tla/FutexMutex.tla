----------------------------- MODULE FutexMutex -----------------------------
(***************************************************************************)
(* sys::sync::mutex::futex::Mutex, the mutex below rstd::sync::Mutex on     *)
(* Linux and Windows (src/std/src/sys/sync/mutex/futex.cpp), one atomic     *)
(* access or system call per step, over the futex calls of                  *)
(* src/std/src/sys/pal/{unix,windows}/futex.cpp.                            *)
(*                                                                          *)
(* The kernel's queue is the set of threads asleep on the word: futex_wake  *)
(* may pick any of them.  spin() is its last load, the ones before have no  *)
(* effect.                                                                  *)
(***************************************************************************)
EXTENDS Naturals, FiniteSets

CONSTANTS
    Threads,
    Rechecks   \* futex_wait loads the word again after a wake (unix) or returns (Windows)

UNLOCKED == 0
LOCKED == 1
CONTENDED == 2

VARIABLES
    word,   \* Mutex::m_futex
    pc,     \* where each thread is in lock, lock_contended, futex_wait or unlock
    seen,   \* lock_contended's local `state'
    asleep  \* threads in the kernel's queue on the word

mutexVars == <<word, pc, seen, asleep>>

Init ==
    /\ word = UNLOCKED
    /\ pc = [t \in Threads |-> "Out"]
    /\ seen = [t \in Threads |-> UNLOCKED]
    /\ asleep = {}

At(t, here) == pc[t] = here

Go(t, there) == pc' = [pc EXCEPT ![t] = there]

\* A compare_exchange_strong(UNLOCKED, LOCKED).
Cas(t, otherwise) ==
    \/ word = UNLOCKED /\ word' = LOCKED /\ Go(t, "Held")
    \/ word # UNLOCKED /\ Go(t, otherwise) /\ UNCHANGED word

TryLock(t) == At(t, "Out") /\ Cas(t, "Out") /\ UNCHANGED <<seen, asleep>>

\* Mutex::lock
Lock(t) == At(t, "Out") /\ Cas(t, "Spin") /\ UNCHANGED <<seen, asleep>>

\* The first spin() of lock_contended.
Spin(t) ==
    /\ At(t, "Spin")
    /\ seen' = [seen EXCEPT ![t] = word]
    /\ Go(t, IF word = UNLOCKED THEN "Retry" ELSE "Swap")
    /\ UNCHANGED <<word, asleep>>

Retry(t) == At(t, "Retry") /\ Cas(t, "Reload") /\ UNCHANGED <<seen, asleep>>

\* Mutant: a thread whose futex_wait returned waits again without another exchange.
ReloadWaits(t) ==
    /\ At(t, "Reload")
    /\ seen' = [seen EXCEPT ![t] = word]
    /\ Go(t, "Wait")
    /\ UNCHANGED <<word, asleep>>

\* The load after a failed retry, and the spin() after a futex_wait.
Reload(t) ==
    /\ At(t, "Reload")
    /\ seen' = [seen EXCEPT ![t] = word]
    /\ Go(t, "Swap")
    /\ UNCHANGED <<word, asleep>>

\* Mutant: a thread that was asleep takes the mutex as LOCKED.
SwapLocked(t) ==
    /\ At(t, "Swap")
    /\ \/ seen[t] = CONTENDED /\ Go(t, "Wait") /\ UNCHANGED word
       \/ seen[t] = LOCKED /\ word' = CONTENDED /\ Go(t, IF word = UNLOCKED THEN "Held" ELSE "Wait")
       \/ seen[t] = UNLOCKED /\ Cas(t, "Wait")
    /\ UNCHANGED <<seen, asleep>>

\* The test at the head of lock_contended's loop.
Swap(t) ==
    /\ At(t, "Swap")
    /\ \/ seen[t] = CONTENDED /\ Go(t, "Wait") /\ UNCHANGED word
       \/ /\ seen[t] # CONTENDED
          /\ word' = CONTENDED
          /\ Go(t, IF word = UNLOCKED THEN "Held" ELSE "Wait")
    /\ UNCHANGED <<seen, asleep>>

\* futex_wait(CONTENDED): load and compare, then the kernel compares again and sleeps.
Wait(t) ==
    /\ At(t, "Wait")
    /\ \/ word = CONTENDED /\ asleep' = asleep \cup {t} /\ Go(t, "Asleep")
       \/ word # CONTENDED /\ Go(t, "Reload") /\ UNCHANGED asleep
    /\ UNCHANGED <<word, seen>>

\* The wait ends without a wake: EINTR, or a spurious return.
Interrupt(t) ==
    /\ At(t, "Asleep")
    /\ asleep' = asleep \ {t}
    /\ Go(t, IF Rechecks THEN "Wait" ELSE "Reload")
    /\ UNCHANGED <<word, seen>>

\* Mutant: unlock gives the mutex to a sleeper instead of freeing it.
UnlockHandsOver(t) ==
    /\ At(t, "Held")
    /\ \/ /\ asleep = {} /\ word' = UNLOCKED
          /\ Go(t, "Out") /\ UNCHANGED asleep
       \/ \E w \in asleep :
             /\ pc' = [pc EXCEPT ![t] = "Out", ![w] = "Held"]
             /\ asleep' = asleep \ {w} /\ UNCHANGED word
    /\ UNCHANGED seen

\* Mutex::unlock
Unlock(t) ==
    /\ At(t, "Held")
    /\ word' = UNLOCKED
    /\ Go(t, IF word = CONTENDED THEN "Wake" ELSE "Out")
    /\ UNCHANGED <<seen, asleep>>

\* Mutant: the woken thread stays in the kernel's queue.
WakeKeepsQueue(t) ==
    /\ At(t, "Wake")
    /\ \/ asleep = {} /\ Go(t, "Out")
       \/ \E w \in asleep : pc' = [pc EXCEPT ![t] = "Out", ![w] = "Reload"]
    /\ UNCHANGED <<word, seen, asleep>>

\* Mutex::wake: futex_wake(1).
Wake(t) ==
    /\ At(t, "Wake")
    /\ \/ asleep = {} /\ Go(t, "Out") /\ UNCHANGED asleep
       \/ \E w \in asleep :
             /\ asleep' = asleep \ {w}
             /\ pc' = [pc EXCEPT ![t] = "Out", ![w] = IF Rechecks THEN "Wait" ELSE "Reload"]
    /\ UNCHANGED <<word, seen>>

\* The rest of lock() once its first exchange has failed.
Contend(t) == Spin(t) \/ Retry(t) \/ Reload(t) \/ Swap(t) \/ Wait(t) \/ Interrupt(t)

Next == \E t \in Threads : TryLock(t) \/ Lock(t) \/ Contend(t) \/ Unlock(t) \/ Wake(t)

Spec == Init /\ [][Next]_mutexVars

\* What a thread does by itself: go on with its lock(), and unlock.
Run(t) == Spin(t) \/ Retry(t) \/ Reload(t) \/ Swap(t) \/ Wait(t) \/ Unlock(t) \/ Wake(t)

\* Threads run and a holder unlocks; interrupts need not happen.
LiveSpec == Spec /\ \A t \in Threads : WF_mutexVars(Run(t))

-----------------------------------------------------------------------------
\* The word is one of its three states, and the kernel's queue is who sleeps.
TypeOK ==
    /\ word \in {UNLOCKED, LOCKED, CONTENDED}
    /\ pc \in [Threads -> {"Out", "Spin", "Retry", "Reload", "Swap", "Wait", "Asleep",
                           "Held", "Wake"}]
    /\ seen \in [Threads -> {UNLOCKED, LOCKED, CONTENDED}]
    /\ asleep = {t \in Threads : pc[t] = "Asleep"}

Holders == {t \in Threads : pc[t] = "Held"}

\* lock and try_lock never let two threads in, whatever they saw while spinning.
Exclusion == \A t, u \in Holders : t = u

\* A sleeper is never forgotten: while one sleeps, the holder will see CONTENDED, or
\* an unlock has yet to wake, or a thread that was woken (and so stands for the
\* sleepers behind it) will mark the word CONTENDED again before it holds or sleeps.
SleepersCovered ==
    asleep # {} =>
        \/ word = CONTENDED
        \/ \E t \in Threads : pc[t] = "Wake"
        \/ \E t \in Threads : pc[t] \in {"Wait", "Reload"} \/ (pc[t] = "Swap" /\ seen[t] # CONTENDED)

\* Contention is resolved: while some thread wants the mutex, somebody gets it.
LockProgress ==
    (\E t \in Threads : pc[t] \in {"Spin", "Retry", "Reload", "Swap", "Wait", "Asleep"})
        ~> (\E t \in Threads : pc[t] = "Held")

\* Held is ownership: the word-level algorithm implements a lock.
Lock_ == INSTANCE LockSpec WITH owner <- Holders

ImplementsLock == Lock_!Spec
=============================================================================
