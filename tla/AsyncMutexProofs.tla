-------------------------- MODULE AsyncMutexProofs --------------------------
(***************************************************************************)
(* Mutual exclusion, the accounting of grants and the announcement of every *)
(* grant, for any number of lock futures and tasks.                         *)
(***************************************************************************)
EXTENDS AsyncMutex, TLAPS

Distinct(q) == \A i, j \in 1..Len(q) : q[i] = q[j] => i = j

\* The queue holds, once each, exactly the pending futures without a grant.
QueueInv ==
    /\ Distinct(queue)
    /\ \A i \in 1..Len(queue) : phase[queue[i]] = "Pending" /\ ~granted[queue[i]]
    /\ \A l \in Locks : phase[l] = "Pending" => granted[l] \/ Queued(l)
    /\ \A l \in Locks : phase[l] = "New" => ~granted[l]

\* A queued future that its owner is not about to poll holds the owner's waker.
WakerInv == \A i \in 1..Len(queue) :
                due[queue[i]] \/ waker[queue[i]] = owner[queue[i]]

\* The inductive invariant.
IInv ==
    /\ TypeOK
    /\ QueueInv
    /\ WakerInv
    /\ MutualExclusion
    /\ GrantAccounted
    /\ GrantAnnounced

\* Queue::unlink removes one waiter and keeps the others, in order.
LEMMA UnlinkFacts ==
    ASSUME NEW q \in Seq(Locks), Distinct(q), NEW k \in 1..Len(q)
    PROVE  /\ Unlink(q, q[k]) \in Seq(Locks)
           /\ Len(Unlink(q, q[k])) = Len(q) - 1
           /\ Distinct(Unlink(q, q[k]))
           /\ \A i \in 1..(Len(q) - 1) :
                 /\ Unlink(q, q[k])[i] # q[k]
                 /\ \E j \in 1..Len(q) : Unlink(q, q[k])[i] = q[j]
           /\ \A j \in 1..Len(q) : j # k =>
                 \E i \in 1..(Len(q) - 1) : Unlink(q, q[k])[i] = q[j]
<1> DEFINE u == [j \in 1..(Len(q) - 1) |-> IF j < k THEN q[j] ELSE q[j + 1]]
<1>1. (CHOOSE j \in 1..Len(q) : q[j] = q[k]) = k
  BY DEF Distinct
<1>2. Unlink(q, q[k]) = u
  BY <1>1 DEF Unlink
<1>3. Len(q) \in Nat /\ k \in Nat /\ Len(q) - 1 \in Nat
  OBVIOUS
<1>4. \A j \in 1..(Len(q) - 1) : u[j] \in Locks
  BY <1>3
<1>5. u \in Seq(Locks) /\ Len(u) = Len(q) - 1
  BY <1>3, <1>4
<1>6. Distinct(u)
  BY <1>3, <1>5 DEF Distinct
<1>7. \A i \in 1..(Len(q) - 1) : u[i] # q[k] /\ \E j \in 1..Len(q) : u[i] = q[j]
  BY <1>3 DEF Distinct
<1>8. ASSUME NEW j \in 1..Len(q), j # k
      PROVE  \E i \in 1..(Len(q) - 1) : u[i] = q[j]
  <2>1. CASE j < k
    BY <1>3, <2>1
  <2>2. CASE j > k
    <3>1. j - 1 \in 1..(Len(q) - 1) /\ u[j - 1] = q[j]
      BY <1>3, <2>2
    <3> QED  BY <3>1
  <2> QED  BY <1>8, <1>3, <2>1, <2>2
<1> QED  BY <1>2, <1>5, <1>6, <1>7, <1>8

LEMMA InitIInv == Init => IInv
<1> SUFFICES ASSUME Init PROVE IInv
  OBVIOUS
<1>0. queue \in Seq(Locks)
  BY DEF Init
<1>1. TypeOK
  BY <1>0 DEF Init, TypeOK, Phases
<1>2. Len(queue) = 0 /\ \A l \in Locks : phase[l] = "Gone"
  BY DEF Init
<1>3. QueueInv /\ WakerInv /\ GrantAnnounced
  BY <1>2 DEF QueueInv, WakerInv, Distinct, GrantAnnounced
<1>4. MutualExclusion /\ GrantAccounted
  BY <1>2 DEF Init, MutualExclusion, GrantAccounted, Owns
<1> QED  BY <1>1, <1>3, <1>4 DEF IInv

\* Steps that leave the queue and the grants alone.
LEMMA QuietSteps ==
    ASSUME IInv, NEW l \in Locks, NEW t \in Tasks, Lock(l, t) \/ Move(l, t)
    PROVE  IInv'
<1> USE DEF IInv, QueueInv, WakerInv, Distinct, MutualExclusion,
            GrantAccounted, GrantAnnounced, Owns, Queued, Phases
<1>1. CASE Lock(l, t)
  <2>1. TypeOK'
    BY <1>1, NoTaskAssumption DEF Lock, TypeOK
  <2>2. QueueInv' /\ WakerInv'
    BY <1>1 DEF Lock, TypeOK
  <2>3. \A m \in Locks : Owns(m)' <=> Owns(m)
    BY <1>1 DEF Lock, TypeOK
  <2>4. MutualExclusion' /\ GrantAccounted' /\ GrantAnnounced'
    BY <1>1, <2>3 DEF Lock, TypeOK
  <2> QED  BY <2>1, <2>2, <2>4
<1>2. CASE Move(l, t)
  BY <1>2 DEF Move, TypeOK
<1> QED  BY <1>1, <1>2

\* Delivery of a taken waker.
LEMMA WakeStep ==
    ASSUME IInv, NEW t \in Tasks, Wake(t)
    PROVE  IInv'
  BY DEF Wake, TypeOK, IInv, QueueInv, WakerInv, Distinct, MutualExclusion,
         GrantAccounted, GrantAnnounced, Owns, Queued, Phases

\* MutexLock::poll.
LEMMA PollSteps ==
    ASSUME IInv, NEW l \in Locks, PollReady(l) \/ PollPending(l)
    PROVE  IInv'
<1> USE DEF IInv, QueueInv, WakerInv, Distinct, MutualExclusion,
            GrantAccounted, GrantAnnounced, Owns, Queued, Phases
<1>1. CASE PollReady(l)
  <2>1. TypeOK'
    BY <1>1 DEF PollReady, TypeOK
  <2>2. QueueInv' /\ WakerInv'
    BY <1>1 DEF PollReady, TypeOK
  <2>3. MutualExclusion' /\ GrantAccounted' /\ GrantAnnounced'
    BY <1>1 DEF PollReady, TypeOK
  <2> QED  BY <2>1, <2>2, <2>3
<1>2. CASE PollPending(l)
  <2>1. TypeOK'
    BY <1>2 DEF PollPending, TypeOK
  <2>2. QueueInv' /\ WakerInv'
    <3>1. CASE Queued(l)
      BY <1>2, <3>1 DEF PollPending, TypeOK
    <3>2. CASE ~Queued(l)
      <4>1. queue' = Append(queue, l) /\ Len(queue') = Len(queue) + 1
        BY <1>2, <3>2 DEF PollPending, TypeOK
      <4>2. \A i \in 1..Len(queue) : queue'[i] = queue[i]
        BY <4>1 DEF TypeOK
      <4>3. queue'[Len(queue) + 1] = l
        BY <4>1 DEF TypeOK
      <4> QED  BY <1>2, <3>2, <4>1, <4>2, <4>3 DEF PollPending, TypeOK
    <3> QED  BY <3>1, <3>2
  <2>3. MutualExclusion' /\ GrantAccounted' /\ GrantAnnounced'
    BY <1>2 DEF PollPending, TypeOK
  <2> QED  BY <2>1, <2>2, <2>3
<1> QED  BY <1>1, <1>2

\* What Queue::release does to a queue q whose waiters are all pending: nobody
\* owns the lock when it starts (the future l is giving it up).
LEMMA ReleaseStep ==
    ASSUME IInv, NEW l \in Locks, NEW q \in Seq(Locks), Distinct(q),
           Owns(l),
           phase' = [phase EXCEPT ![l] = "Gone"],
           due' \in [Locks -> BOOLEAN],
           \A m \in Locks : m # l => due'[m] = due[m],
           UNCHANGED owner,
           NEW w \in [Locks -> Tasks \cup {NoTask}],
           \A m \in Locks : m # l => w[m] = waker[m],
           \A i \in 1..Len(q) : Queued(q[i]) /\ q[i] # l,
           \A m \in Locks : m # l /\ Queued(m) => \E i \in 1..Len(q) : q[i] = m,
           Release(q, granted, w)
    PROVE  IInv'
<1> USE DEF IInv, QueueInv
<1>0. /\ \A m \in Locks : m # l => ~Owns(m)
      /\ locked = TRUE
      /\ \A m \in Locks : m # l => phase'[m] = phase[m]
      /\ phase'[l] = "Gone"
      /\ phase' \in [Locks -> Phases]
  BY DEF MutualExclusion, GrantAccounted, TypeOK, Phases
<1>1. CASE q = <<>>
  <2>1. /\ locked' = FALSE /\ queue' = <<>> /\ granted' = granted
        /\ waker' = w /\ wakes' = wakes /\ Len(queue') = 0
    BY <1>1 DEF Release
  <2>2. \A m \in Locks : ~Owns(m)'
    BY <1>0, <2>1 DEF Owns
  <2>3. \A m \in Locks : m # l => ~Queued(m)
    BY <1>1
  <2>4. TypeOK'
    <3>1. queue' \in Seq(Locks)
      BY <2>1
    <3> QED  BY <1>0, <2>1, <3>1 DEF TypeOK
  <2>5. QueueInv' /\ WakerInv'
    BY <1>0, <2>1, <2>3 DEF WakerInv, Distinct, Owns
  <2>6. MutualExclusion' /\ GrantAccounted' /\ GrantAnnounced'
    BY <2>1, <2>2 DEF MutualExclusion, GrantAccounted, GrantAnnounced, Owns
  <2> QED  BY <2>4, <2>5, <2>6
<1>2. CASE q # <<>>
  <2> DEFINE h == Head(q)
  <2>1. h = q[1] /\ 1 \in 1..Len(q) /\ h \in Locks /\ h # l /\ Queued(h)
    BY <1>2
  <2>2. /\ queue' = Unlink(q, q[1])
        /\ granted' = [granted EXCEPT ![h] = TRUE]
        /\ waker' = [w EXCEPT ![h] = NoTask]
        /\ wakes' = wakes \cup ({w[h]} \ {NoTask})
        /\ locked' = TRUE
    BY <1>0, <1>2, <2>1 DEF Release
  <2>3. /\ queue' \in Seq(Locks) /\ Len(queue') = Len(q) - 1 /\ Distinct(queue')
        /\ \A i \in 1..Len(queue') : /\ queue'[i] # h
                                     /\ \E j \in 1..Len(q) : queue'[i] = q[j]
        /\ \A j \in 1..Len(q) : j # 1 => \E i \in 1..Len(queue') : queue'[i] = q[j]
    <3> DEFINE u == Unlink(q, q[1])
    <3>1. /\ u \in Seq(Locks) /\ Len(u) = Len(q) - 1 /\ Distinct(u)
          /\ \A i \in 1..(Len(q) - 1) : u[i] # q[1] /\ \E j \in 1..Len(q) : u[i] = q[j]
          /\ \A j \in 1..Len(q) : j # 1 => \E i \in 1..(Len(q) - 1) : u[i] = q[j]
      <4>1. 1 \in 1..Len(q)
        BY <2>1
      <4>2. PICK k \in 1..Len(q) : k = 1
        BY <4>1
      <4>3. /\ Unlink(q, q[k]) \in Seq(Locks) /\ Len(Unlink(q, q[k])) = Len(q) - 1
            /\ Distinct(Unlink(q, q[k]))
            /\ \A i \in 1..(Len(q) - 1) :
                  /\ Unlink(q, q[k])[i] # q[k]
                  /\ \E j \in 1..Len(q) : Unlink(q, q[k])[i] = q[j]
            /\ \A j \in 1..Len(q) : j # k =>
                  \E i \in 1..(Len(q) - 1) : Unlink(q, q[k])[i] = q[j]
        BY UnlinkFacts
      <4> QED  BY <4>2, <4>3
    <3> HIDE DEF u
    <3> QED  BY <2>1, <2>2, <3>1 DEF u, Distinct
  <2>4. /\ phase[h] = "Pending" /\ ~granted[h] /\ phase'[h] = "Pending"
        /\ granted'[h] = TRUE
        /\ due[h] \/ w[h] = owner[h]
        /\ due'[h] = due[h] /\ owner'[h] \in Tasks
    BY <1>0, <2>1, <2>2 DEF Queued, WakerInv, TypeOK
  <2>5. \A m \in Locks : m # h => granted'[m] = granted[m] /\ waker'[m] = w[m]
    BY <2>2 DEF TypeOK
  <2>6. TypeOK'
    <3>1. wakes' \subseteq Tasks
      BY <2>1, <2>2 DEF TypeOK
    <3>2. waker' \in [Locks -> Tasks \cup {NoTask}] /\ granted' \in [Locks -> BOOLEAN]
      BY <2>1, <2>2 DEF TypeOK
    <3> QED  BY <1>0, <2>2, <2>3, <3>1, <3>2 DEF TypeOK
  <2>7. \A i \in 1..Len(queue') :
           /\ queue'[i] \in Locks /\ queue'[i] # h /\ queue'[i] # l
           /\ \E k \in 1..Len(queue) : queue[k] = queue'[i]
    <3> TAKE i \in 1..Len(queue')
    <3>1. PICK j \in 1..Len(q) : queue'[i] = q[j]
      BY <2>3
    <3>2. Queued(q[j]) /\ q[j] # l /\ q[j] \in Locks
      OBVIOUS
    <3> QED  BY <2>3, <3>1, <3>2 DEF Queued
  <2>8. ASSUME NEW m \in Locks, m # l, m # h, Queued(m)
        PROVE  \E i \in 1..Len(queue') : queue'[i] = m
    <3>1. PICK j \in 1..Len(q) : q[j] = m
      BY <2>8
    <3> QED  BY <2>1, <2>3, <2>8, <3>1
  <2>9. QueueInv'
    <3>1. \A i \in 1..Len(queue') :
             phase'[queue'[i]] = "Pending" /\ ~granted'[queue'[i]]
      BY <1>0, <2>5, <2>7
    <3>2. \A m \in Locks : phase'[m] = "Pending" => granted'[m] \/ Queued(m)'
      BY <1>0, <2>4, <2>5, <2>8 DEF Queued
    <3>3. \A m \in Locks : phase'[m] = "New" => ~granted'[m]
      BY <1>0, <2>4, <2>5
    <3> QED  BY <2>3, <3>1, <3>2, <3>3
  <2>10. WakerInv'
    BY <2>5, <2>7 DEF WakerInv
  <2>11. \A m \in Locks : Owns(m)' <=> m = h
    BY <1>0, <2>1, <2>4, <2>5 DEF Owns
  <2>12. MutualExclusion' /\ GrantAccounted'
    BY <2>1, <2>2, <2>11 DEF MutualExclusion, GrantAccounted
  <2>13. due'[h] \/ owner'[h] \in wakes'
    BY <2>2, <2>4, NoTaskAssumption DEF TypeOK
  <2>14. GrantAnnounced'
    BY <2>1, <2>11, <2>13 DEF GrantAnnounced, Owns
  <2> QED  BY <2>6, <2>9, <2>10, <2>12, <2>14
<1> QED  BY <1>1, <1>2

\* ~MutexGuard and ~MutexLock.
LEMMA DropSteps ==
    ASSUME IInv, NEW l \in Locks, DropGuard(l) \/ DropLock(l)
    PROVE  IInv'
<1> USE DEF IInv, QueueInv
<1>1. queue \in Seq(Locks) /\ Distinct(queue) /\ waker \in [Locks -> Tasks \cup {NoTask}]
  BY DEF TypeOK
<1>2. CASE DropGuard(l)
  <2>1. phase[l] = "Held" /\ Owns(l) /\ ~Queued(l)
    BY <1>2 DEF DropGuard, Owns, Queued
  <2>2. \A i \in 1..Len(queue) : Queued(queue[i]) /\ queue[i] # l
    BY <2>1 DEF Queued
  <2>3. \A m \in Locks : m # l /\ Queued(m) => \E i \in 1..Len(queue) : queue[i] = m
    BY DEF Queued
  <2>4. due' \in [Locks -> BOOLEAN] /\ UNCHANGED <<due, owner>>
    BY <1>2 DEF DropGuard, TypeOK
  <2> QED
    BY <1>1, <1>2, <2>1, <2>2, <2>3, <2>4, ReleaseStep DEF DropGuard
<1>3. CASE DropLock(l)
  <2> DEFINE q == IF Queued(l) THEN Unlink(queue, l) ELSE queue
             w == [waker EXCEPT ![l] = NoTask]
  <2>1. phase[l] \in {"New", "Pending"} /\ phase'[l] = "Gone"
    BY <1>3 DEF DropLock, TypeOK
  <2>2. /\ due' \in [Locks -> BOOLEAN] /\ \A m \in Locks : m # l => due'[m] = due[m]
        /\ UNCHANGED owner
        /\ phase' = [phase EXCEPT ![l] = "Gone"]
    BY <1>3 DEF DropLock, TypeOK
  <2>3. w \in [Locks -> Tasks \cup {NoTask}] /\ \A m \in Locks : m # l => w[m] = waker[m]
    BY <1>1
  <2>4. /\ q \in Seq(Locks) /\ Distinct(q)
        /\ \A i \in 1..Len(q) : q[i] # l /\ \E k \in 1..Len(queue) : queue[k] = q[i]
        /\ \A m \in Locks : m # l /\ Queued(m) => \E i \in 1..Len(q) : q[i] = m
    <3>1. CASE Queued(l)
      <4>1. PICK k \in 1..Len(queue) : queue[k] = l
        BY <3>1 DEF Queued
      <4>2. q = Unlink(queue, queue[k])
        BY <3>1, <4>1
      <4> HIDE DEF q
      <4> DEFINE u == Unlink(queue, queue[k])
      <4>3. /\ u \in Seq(Locks) /\ Len(u) = Len(queue) - 1 /\ Distinct(u)
            /\ \A i \in 1..(Len(queue) - 1) :
                  u[i] # queue[k] /\ \E j \in 1..Len(queue) : u[i] = queue[j]
            /\ \A j \in 1..Len(queue) : j # k =>
                  \E i \in 1..(Len(queue) - 1) : u[i] = queue[j]
        BY <1>1, UnlinkFacts, Zenon
      <4> HIDE DEF u
      <4>4. q = u
        BY <4>2 DEF u
      <4>5. \A m \in Locks : m # l /\ Queued(m) => \E i \in 1..Len(u) : u[i] = m
        <5> SUFFICES ASSUME NEW m \in Locks, m # l, Queued(m)
                     PROVE  \E i \in 1..Len(u) : u[i] = m
          OBVIOUS
        <5>1. PICK j \in 1..Len(queue) : queue[j] = m
          BY DEF Queued
        <5> QED  BY <4>1, <4>3, <5>1
      <4>6. \A i \in 1..Len(u) : u[i] # l /\ \E j \in 1..Len(queue) : queue[j] = u[i]
        BY <4>1, <4>3
      <4> QED  BY <4>3, <4>4, <4>5, <4>6
    <3>2. CASE ~Queued(l)
      BY <1>1, <3>2 DEF Queued
    <3> QED  BY <3>1, <3>2
  <2>5. CASE granted[l]
    <3>1. Release(q, granted, w)
      BY <1>3, <2>5 DEF DropLock
    <3>2. Owns(l)
      BY <2>1, <2>5 DEF Owns
    <3>3. \A i \in 1..Len(q) : Queued(q[i]) /\ q[i] # l
      BY <2>4 DEF Queued
    <3> HIDE DEF q, w, IInv, QueueInv
    <3> QED  BY <2>2, <2>3, <2>4, <3>1, <3>2, <3>3, ReleaseStep, Zenon
  <2>6. CASE ~granted[l]
    <3>1. queue' = q /\ waker' = w /\ UNCHANGED <<locked, granted, wakes>>
      BY <1>3, <2>6 DEF DropLock
    <3> HIDE DEF q, w
    <3>2. \A m \in Locks : m # l => phase'[m] = phase[m]
      BY <2>2 DEF TypeOK
    <3>3. TypeOK'
      BY <2>2, <2>3, <2>4, <3>1 DEF TypeOK, Phases
    <3>4. QueueInv'
      <4>1. Distinct(queue')
        BY <2>4, <3>1
      <4>2. \A i \in 1..Len(q) : phase'[q[i]] = "Pending" /\ ~granted[q[i]]
        BY <2>4, <3>2
      <4>3. \A m \in Locks : phase'[m] = "Pending" => granted[m] \/ \E i \in 1..Len(q) : q[i] = m
        BY <2>1, <2>4, <3>2
      <4>4. \A m \in Locks : phase'[m] = "New" => ~granted[m]
        BY <2>1, <3>2
      <4> QED  BY <3>1, <4>1, <4>2, <4>3, <4>4 DEF Queued
    <3>5. \A i \in 1..Len(q) : due'[q[i]] \/ w[q[i]] = owner[q[i]]
      BY <2>2, <2>3, <2>4 DEF WakerInv
    <3>6. \A m \in Locks : Owns(m)' <=> Owns(m)
      BY <2>1, <2>6, <3>1, <3>2 DEF Owns
    <3>7. ~locked' => queue' = <<>>
      <4>1. CASE locked
        BY <3>1, <4>1
      <4>2. CASE ~locked
        <5>1. queue = <<>>
          BY <4>2 DEF GrantAccounted
        <5>2. Len(q) = 0
          BY <5>1, <2>4
        <5> QED  BY <3>1, <5>2, <2>4
      <4> QED  BY <4>1, <4>2
    <3>8. WakerInv' /\ MutualExclusion' /\ GrantAccounted' /\ GrantAnnounced'
      BY <2>1, <2>2, <3>1, <3>2, <3>5, <3>6, <3>7
      DEF WakerInv, MutualExclusion, GrantAccounted, GrantAnnounced
    <3> QED  BY <3>3, <3>4, <3>8
  <2> QED  BY <2>5, <2>6
<1> QED  BY <1>2, <1>3

LEMMA InductiveIInv == IInv /\ [Next]_vars => IInv'
<1> SUFFICES ASSUME IInv, [Next]_vars PROVE IInv'
  OBVIOUS
<1>1. CASE UNCHANGED vars
  BY <1>1 DEF vars, IInv, TypeOK, QueueInv, WakerInv, Distinct, MutualExclusion,
              GrantAccounted, GrantAnnounced, Owns, Queued
<1>2. ASSUME NEW l \in Locks, NEW t \in Tasks, Lock(l, t) \/ Move(l, t) PROVE IInv'
  BY <1>2, QuietSteps
<1>3. ASSUME NEW l \in Locks, PollReady(l) \/ PollPending(l) PROVE IInv'
  BY <1>3, PollSteps
<1>4. ASSUME NEW l \in Locks, DropGuard(l) \/ DropLock(l) PROVE IInv'
  BY <1>4, DropSteps
<1>5. ASSUME NEW t \in Tasks, Wake(t) PROVE IInv'
  BY <1>5, WakeStep
<1> QED  BY <1>1, <1>2, <1>3, <1>4, <1>5 DEF Next

\* The inductive invariant holds in every reachable state.
THEOREM Invariance == Spec => []IInv
  BY InitIInv, InductiveIInv, PTL DEF Spec

\* async::Mutex excludes: two guards, or a guard and a reserved grant, never
\* coexist, for any number of lock futures, tasks, moves and cancellations.
THEOREM MutexExcludes == Spec => []MutualExclusion
<1>1. IInv => MutualExclusion
  BY DEF IInv
<1> QED  BY <1>1, Invariance, PTL

\* No cancellation or hand-off loses the lock, and no waiter is left queued on a
\* free mutex.
THEOREM GrantsAreAccounted == Spec => []GrantAccounted
<1>1. IInv => GrantAccounted
  BY DEF IInv
<1> QED  BY <1>1, Invariance, PTL

\* Every waiter that release() hands the lock to is polled or about to be woken.
THEOREM GrantsAreAnnounced == Spec => []GrantAnnounced
<1>1. IInv => GrantAnnounced
  BY DEF IInv
<1> QED  BY <1>1, Invariance, PTL

=============================================================================
