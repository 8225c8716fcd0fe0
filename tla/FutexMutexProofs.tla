-------------------------- MODULE FutexMutexProofs --------------------------
(***************************************************************************)
(* The futex mutex for every set of threads and both futex_wait flavours:   *)
(* exclusion, no forgotten sleeper, and that it implements LockSpec.        *)
(***************************************************************************)
EXTENDS FutexMutex, TLAPS

\* Why Exclusion is preserved: a holder keeps the word from being UNLOCKED, and the
\* word has to be UNLOCKED for a thread to become a holder.
HeldIsLocked ==
    /\ \A t \in Threads : pc[t] = "Held" => word # UNLOCKED
    /\ \A t, u \in Threads : pc[t] = "Held" /\ pc[u] = "Held" => t = u

\* The inductive invariant.
IInv == TypeOK /\ HeldIsLocked /\ SleepersCovered

\* The mutex starts free, with nobody asleep.
LEMMA InitIInv == Init => IInv
  BY SMT DEF Init, IInv, TypeOK, HeldIsLocked, SleepersCovered, UNLOCKED, LOCKED, CONTENDED

\* One step of one thread.
Step(t) ==
    \/ TryLock(t) \/ Lock(t) \/ Spin(t) \/ Retry(t) \/ Reload(t) \/ Swap(t) \/ Wait(t)
    \/ Interrupt(t) \/ Unlock(t) \/ Wake(t)

USE DEF TryLock, Lock, Spin, Retry, Reload, Swap, Wait, Interrupt, Unlock, Wake, Cas, At,
        Go, UNLOCKED, LOCKED, CONTENDED

\* The word, the program counters and the kernel's queue keep their types.
LEMMA TypeStep ==
  ASSUME TypeOK, NEW t \in Threads, Step(t)
  PROVE  TypeOK'
<1>1. CASE TryLock(t) \/ Lock(t) \/ Retry(t)
  BY <1>1, SMT DEF TypeOK
<1>2. CASE Spin(t) \/ Reload(t)
  BY <1>2, SMT DEF TypeOK
<1>3. CASE Swap(t)
  BY <1>3, SMT DEF TypeOK
<1>4. CASE Wait(t)
  BY <1>4, SMT DEF TypeOK
<1>5. CASE Interrupt(t)
  BY <1>5, SMT DEF TypeOK
<1>6. CASE Unlock(t)
  BY <1>6, SMT DEF TypeOK
<1>7. CASE Wake(t)
  BY <1>7, SMT DEF TypeOK
<1> QED BY <1>1, <1>2, <1>3, <1>4, <1>5, <1>6, <1>7 DEF Step

\* Only Cas and Swap make a holder, and both need an UNLOCKED word.
LEMMA HeldStep ==
  ASSUME TypeOK, HeldIsLocked, NEW t \in Threads, Step(t)
  PROVE  HeldIsLocked'
<1>1. CASE TryLock(t) \/ Lock(t) \/ Retry(t)
  BY <1>1, SMT DEF TypeOK, HeldIsLocked
<1>2. CASE Spin(t) \/ Reload(t) \/ Wait(t) \/ Interrupt(t)
  BY <1>2, SMT DEF TypeOK, HeldIsLocked
<1>3. CASE Swap(t)
  BY <1>3, SMT DEF TypeOK, HeldIsLocked
<1>4. CASE Unlock(t)
  BY <1>4, SMT DEF TypeOK, HeldIsLocked
<1>5. CASE Wake(t)
  BY <1>5, SMT DEF TypeOK, HeldIsLocked
<1> QED BY <1>1, <1>2, <1>3, <1>4, <1>5 DEF Step

\* Whoever stops standing for the sleepers has marked the word, or passed the duty on.
LEMMA SleepersStep ==
  ASSUME TypeOK, SleepersCovered, NEW t \in Threads, Step(t)
  PROVE  SleepersCovered'
<1>1. CASE TryLock(t) \/ Lock(t) \/ Retry(t)
  BY <1>1, SMT DEF TypeOK, SleepersCovered
<1>2. CASE Spin(t) \/ Reload(t)
  BY <1>2, SMT DEF TypeOK, SleepersCovered
<1>3. CASE Swap(t)
  BY <1>3, SMT DEF TypeOK, SleepersCovered
<1>4. CASE Wait(t)
  BY <1>4, SMT DEF TypeOK, SleepersCovered
<1>5. CASE Interrupt(t)
  BY <1>5 DEF TypeOK, SleepersCovered
<1>6. CASE Unlock(t)
  BY <1>6, SMT DEF TypeOK, SleepersCovered
<1>7. CASE Wake(t)
  BY <1>7 DEF TypeOK, SleepersCovered
<1> QED BY <1>1, <1>2, <1>3, <1>4, <1>5, <1>6, <1>7 DEF Step

\* Every step preserves the inductive invariant.
LEMMA InductiveIInv == IInv /\ [Next]_mutexVars => IInv'
<1> SUFFICES ASSUME IInv, [Next]_mutexVars PROVE IInv'
  OBVIOUS
<1>1. CASE Next
  <2>1. PICK t \in Threads : Step(t)
    BY <1>1, Zenon DEF Next, Contend, Step
  <2> QED BY <2>1, TypeStep, HeldStep, SleepersStep DEF IInv
<1>2. CASE UNCHANGED mutexVars
  BY <1>2 DEF mutexVars, IInv, TypeOK, HeldIsLocked, SleepersCovered
<1> QED BY <1>1, <1>2

\* The inductive invariant holds throughout.
THEOREM Invariance == Spec => []IInv
  BY InitIInv, InductiveIInv, PTL DEF Spec

\* The word, the program counters and the kernel's queue are always well-typed.
THEOREM MutexTyped == Spec => []TypeOK
<1>1. IInv => TypeOK
  BY DEF IInv
<1> QED BY <1>1, Invariance, PTL

\* lock, try_lock and lock_contended admit one thread at a time.
THEOREM MutexExclusion == Spec => []Exclusion
<1>1. IInv => Exclusion
  BY DEF IInv, HeldIsLocked, Exclusion, Holders
<1> QED BY <1>1, Invariance, PTL

\* No thread asleep in futex_wait is forgotten.
THEOREM SleepersAreCovered == Spec => []SleepersCovered
<1>1. IInv => SleepersCovered
  BY DEF IInv
<1> QED BY <1>1, Invariance, PTL

\* Every step of a thread acquires the free lock, releases the lock it holds, or
\* leaves the holders as they are.
LEMMA StepRefines ==
  ASSUME TypeOK, HeldIsLocked, NEW t \in Threads, Step(t)
  PROVE  Lock_!Next \/ UNCHANGED Holders
<1>1. CASE word = UNLOCKED /\ pc' = [pc EXCEPT ![t] = "Held"]
  <2>1. Holders = {}
    BY <1>1 DEF HeldIsLocked, Holders
  <2>2. Holders' = {t}
    BY <1>1, <2>1 DEF TypeOK, Holders
  <2> QED BY <2>1, <2>2 DEF Lock_!Next, Lock_!Acquire
<1>2. CASE Unlock(t)
  <2>1. Holders = {t}
    BY <1>2 DEF HeldIsLocked, Holders
  <2>2. Holders' = {}
    BY <1>2, <2>1 DEF TypeOK, Holders
  <2> QED BY <2>1, <2>2 DEF Lock_!Next, Lock_!Release
<1>3. CASE Wake(t)
  <2>1. \A u \in Threads : pc'[u] = "Held" <=> pc[u] = "Held"
    BY <1>3, SMT DEF TypeOK
  <2> QED BY <2>1 DEF Holders
<1>4. CASE \E there \in {"Out", "Spin", "Retry", "Reload", "Swap", "Wait", "Asleep"} :
              pc[t] # "Held" /\ pc' = [pc EXCEPT ![t] = there]
  <2>1. \A u \in Threads : pc'[u] = "Held" <=> pc[u] = "Held"
    BY <1>4, SMT DEF TypeOK
  <2> QED BY <2>1 DEF Holders
<1>5. CASE TryLock(t) \/ Lock(t) \/ Retry(t) \/ Swap(t)
  BY <1>5, <1>1, <1>4, SMT DEF TypeOK
<1>6. CASE Spin(t) \/ Reload(t) \/ Wait(t) \/ Interrupt(t)
  BY <1>6, <1>4, SMT DEF TypeOK
<1> QED BY <1>2, <1>3, <1>5, <1>6 DEF Step

\* The futex mutex implements the lock.
THEOREM MutexImplementsLock == Spec => ImplementsLock
<1>1. Init => Lock_!Init
  BY DEF Init, Lock_!Init, Holders
<1>2. IInv /\ [Next]_mutexVars => [Lock_!Next]_Holders
  <2> SUFFICES ASSUME IInv, [Next]_mutexVars PROVE [Lock_!Next]_Holders
    OBVIOUS
  <2>1. CASE Next
    <3>1. PICK t \in Threads : Step(t)
      BY <2>1, Zenon DEF Next, Contend, Step
    <3> QED BY <3>1, StepRefines DEF IInv
  <2>2. CASE UNCHANGED mutexVars
    BY <2>2 DEF mutexVars, Holders
  <2> QED BY <2>1, <2>2
<1> QED BY <1>1, <1>2, Invariance, PTL DEF Spec, ImplementsLock, Lock_!Spec
=============================================================================
