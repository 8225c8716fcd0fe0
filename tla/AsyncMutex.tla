----------------------------- MODULE AsyncMutex -----------------------------
(***************************************************************************)
(* async::Mutex (src/std/src/async/mutex.cppm): a lock whose waiters are    *)
(* futures.  A MutexLock future queues itself on its first pending poll,    *)
(* a release hands the lock straight to the oldest waiter, and dropping a   *)
(* MutexLock withdraws its place in the queue or gives a reserved grant     *)
(* back.                                                                    *)
(*                                                                          *)
(* Every method runs under the queue's sync::Mutex and is one step.  The    *)
(* waker a release takes out of the queue is invoked after that mutex is    *)
(* dropped, so its delivery is a step of its own: `wakes' holds the wakers  *)
(* taken and not yet invoked.                                               *)
(***************************************************************************)
EXTENDS Naturals, Sequences

CONSTANTS Locks,    \* the MutexLock futures (and the guards they become)
          Tasks,    \* the tasks that poll them
          NoTask    \* an empty Option<task::Waker>

ASSUME NoTaskAssumption == NoTask \notin Tasks

VARIABLES locked,   \* Queue::locked
          queue,    \* the intrusive list from Queue::head to Queue::tail
          granted,  \* MutexWaiter::granted
          waker,    \* MutexWaiter::waker
          phase,    \* what the future is: never polled, pending, guard, gone
          owner,    \* the task that holds the future
          due,      \* the owner is going to poll the future
          wakes     \* tasks whose waker was taken and is not yet invoked

vars == <<locked, queue, granted, waker, phase, owner, due, wakes>>

Phases == {"New", "Pending", "Held", "Gone"}

Init ==
    /\ locked = FALSE
    /\ queue = <<>>
    /\ granted = [l \in Locks |-> FALSE]
    /\ waker = [l \in Locks |-> NoTask]
    /\ phase = [l \in Locks |-> "Gone"]
    /\ owner \in [Locks -> Tasks]
    /\ due = [l \in Locks |-> FALSE]
    /\ wakes = {}

Queued(l) == \E i \in 1..Len(queue) : queue[i] = l

\* Queue::unlink
Unlink(q, l) ==
    LET i == CHOOSE j \in 1..Len(q) : q[j] = l
    IN  [j \in 1..(Len(q) - 1) |-> IF j < i THEN q[j] ELSE q[j + 1]]

\* Mutant: release() serves the newest waiter.
ReleaseLifo(q, g, w) ==
    IF q = <<>>
    THEN locked' = FALSE /\ queue' = q /\ granted' = g /\ waker' = w /\ UNCHANGED wakes
    ELSE LET l == q[Len(q)]
         IN  /\ queue' = Unlink(q, l)
             /\ granted' = [g EXCEPT ![l] = TRUE]
             /\ waker' = [w EXCEPT ![l] = NoTask]
             /\ wakes' = wakes \cup ({w[l]} \ {NoTask})
             /\ UNCHANGED locked

\* Queue::release on the list q, for the waiter flags g and w: the next state
\* of the queue, and the waker to invoke once the lock is dropped.
Release(q, g, w) ==
    IF q = <<>>
    THEN /\ locked' = FALSE
         /\ queue' = q
         /\ granted' = g
         /\ waker' = w
         /\ UNCHANGED wakes
    ELSE /\ queue' = Unlink(q, Head(q))
         /\ granted' = [g EXCEPT ![Head(q)] = TRUE]
         /\ waker' = [w EXCEPT ![Head(q)] = NoTask]
         /\ wakes' = wakes \cup ({w[Head(q)]} \ {NoTask})
         /\ UNCHANGED locked

-----------------------------------------------------------------------------
\* Mutex::lock: a fresh future, which its owner is about to poll.
Lock(l, t) ==
    /\ phase[l] = "Gone"
    /\ phase' = [phase EXCEPT ![l] = "New"]
    /\ granted' = [granted EXCEPT ![l] = FALSE]
    /\ waker' = [waker EXCEPT ![l] = NoTask]
    /\ owner' = [owner EXCEPT ![l] = t]
    /\ due' = [due EXCEPT ![l] = TRUE]
    /\ UNCHANGED <<locked, queue, wakes>>

\* Mutant: acquire() takes the lock for a waiter that has no grant.
PollReadyBarges(l) ==
    /\ phase[l] \in {"New", "Pending"}
    /\ due[l]
    /\ locked' = TRUE
    /\ granted' = [granted EXCEPT ![l] = TRUE]
    /\ phase' = [phase EXCEPT ![l] = "Held"]
    /\ due' = [due EXCEPT ![l] = FALSE]
    /\ queue' = IF Queued(l) THEN Unlink(queue, l) ELSE queue
    /\ UNCHANGED <<waker, owner, wakes>>

\* MutexLock::poll when MutexState::acquire succeeds: the future becomes a guard.
PollReady(l) ==
    /\ phase[l] \in {"New", "Pending"}
    /\ due[l]
    /\ granted[l] \/ ~locked
    /\ locked' = TRUE
    /\ granted' = [granted EXCEPT ![l] = TRUE]
    /\ phase' = [phase EXCEPT ![l] = "Held"]
    /\ due' = [due EXCEPT ![l] = FALSE]
    /\ UNCHANGED <<queue, waker, owner, wakes>>

\* Mutant: acquire() keeps the first waker although another task polls now.
PollPendingKeepsWaker(l) ==
    /\ phase[l] \in {"New", "Pending"}
    /\ due[l]
    /\ ~granted[l] /\ locked
    /\ waker' = [waker EXCEPT ![l] = IF @ = NoTask THEN owner[l] ELSE @]
    /\ queue' = IF Queued(l) THEN queue ELSE Append(queue, l)
    /\ phase' = [phase EXCEPT ![l] = "Pending"]
    /\ due' = [due EXCEPT ![l] = FALSE]
    /\ UNCHANGED <<locked, granted, owner, wakes>>

\* Mutant: acquire() keeps the waker and does not link the waiter.
PollPendingUnlinked(l) ==
    /\ phase[l] \in {"New", "Pending"}
    /\ due[l]
    /\ ~granted[l] /\ locked
    /\ waker' = [waker EXCEPT ![l] = owner[l]]
    /\ phase' = [phase EXCEPT ![l] = "Pending"]
    /\ due' = [due EXCEPT ![l] = FALSE]
    /\ UNCHANGED <<locked, queue, granted, owner, wakes>>

\* MutexLock::poll when the lock is taken: keep the poller's waker (will_wake
\* replaces a stale one) and join the queue once.
PollPending(l) ==
    /\ phase[l] \in {"New", "Pending"}
    /\ due[l]
    /\ ~granted[l] /\ locked
    /\ waker' = [waker EXCEPT ![l] = owner[l]]
    /\ queue' = IF Queued(l) THEN queue ELSE Append(queue, l)
    /\ phase' = [phase EXCEPT ![l] = "Pending"]
    /\ due' = [due EXCEPT ![l] = FALSE]
    /\ UNCHANGED <<locked, granted, owner, wakes>>

\* ~MutexGuard: MutexState::release.
DropGuard(l) ==
    /\ phase[l] = "Held"
    /\ phase' = [phase EXCEPT ![l] = "Gone"]
    /\ Release(queue, granted, waker)
    /\ UNCHANGED <<owner, due>>

\* Mutant: cancel() only unlinks and forgets a grant already made.
DropLockKeepsGrant(l) ==
    /\ phase[l] \in {"New", "Pending"}
    /\ phase' = [phase EXCEPT ![l] = "Gone"]
    /\ due' = [due EXCEPT ![l] = FALSE]
    /\ queue' = IF Queued(l) THEN Unlink(queue, l) ELSE queue
    /\ waker' = [waker EXCEPT ![l] = NoTask]
    /\ UNCHANGED <<locked, granted, owner, wakes>>

\* ~MutexLock: MutexState::cancel.
DropLock(l) ==
    /\ phase[l] \in {"New", "Pending"}
    /\ phase' = [phase EXCEPT ![l] = "Gone"]
    /\ due' = [due EXCEPT ![l] = FALSE]
    /\ LET q == IF Queued(l) THEN Unlink(queue, l) ELSE queue
           w == [waker EXCEPT ![l] = NoTask]
       IN  IF granted[l]
           THEN Release(q, granted, w)
           ELSE /\ queue' = q
                /\ waker' = w
                /\ UNCHANGED <<locked, granted, wakes>>
    /\ UNCHANGED owner

\* The future is moved into another task, which polls it with its own waker.
Move(l, t) ==
    /\ phase[l] \in {"New", "Pending"}
    /\ owner[l] # t
    /\ owner' = [owner EXCEPT ![l] = t]
    /\ due' = [due EXCEPT ![l] = TRUE]
    /\ UNCHANGED <<locked, queue, granted, waker, phase, wakes>>

\* Waker::wake, after the queue's mutex is dropped: the task polls what it holds.
Wake(t) ==
    /\ t \in wakes
    /\ wakes' = wakes \ {t}
    /\ due' = [l \in Locks |->
                  due[l] \/ (owner[l] = t /\ phase[l] \in {"New", "Pending"})]
    /\ UNCHANGED <<locked, queue, granted, waker, phase, owner>>

Next ==
    \/ \E l \in Locks, t \in Tasks : Lock(l, t) \/ Move(l, t)
    \/ \E l \in Locks :
          PollReady(l) \/ PollPending(l) \/ DropGuard(l) \/ DropLock(l)
    \/ \E t \in Tasks : Wake(t)

Spec == Init /\ [][Next]_vars

\* Tasks poll what they are due to poll, wakers that were taken are invoked,
\* and a guard is dropped at the end of its scope.
Fairness ==
    /\ \A l \in Locks : WF_vars(PollReady(l) \/ PollPending(l))
    /\ \A l \in Locks : WF_vars(DropGuard(l))
    /\ \A t \in Tasks : WF_vars(Wake(t))

LiveSpec == Spec /\ Fairness

-----------------------------------------------------------------------------
\* The queue, the waiters' flags and wakers, and the phases have their types.
TypeOK ==
    /\ locked \in BOOLEAN
    /\ queue \in Seq(Locks)
    /\ granted \in [Locks -> BOOLEAN]
    /\ waker \in [Locks -> Tasks \cup {NoTask}]
    /\ phase \in [Locks -> Phases]
    /\ owner \in [Locks -> Tasks]
    /\ due \in [Locks -> BOOLEAN]
    /\ wakes \subseteq Tasks

\* A future owns the lock when it is a guard or holds a reserved grant.
Owns(l) == \/ phase[l] = "Held"
           \/ phase[l] = "Pending" /\ granted[l]

QueuedBefore(a, b) ==
    \E i, j \in 1..Len(queue) : i < j /\ queue[i] = a /\ queue[j] = b

\* At most one future holds the lock or a reservation of it, however acquires,
\* hand-offs by release() and cancellations of granted waiters interleave.
MutualExclusion == \A a, b \in Locks : Owns(a) /\ Owns(b) => a = b

\* No grant is lost and no waiter is stranded: Queue::locked is set exactly when
\* some future owns the lock (cancel() of a granted waiter passes the grant on),
\* and an unlocked mutex has nobody queued.
GrantAccounted ==
    /\ locked <=> \E l \in Locks : Owns(l)
    /\ ~locked => queue = <<>>

\* A waiter that was handed the lock is going to be polled: its owner is due, or
\* the waker taken by release() belongs to that owner and is about to be invoked.
\* acquire() must have kept the waker of the task that polled last.
GrantAnnounced ==
    \A l \in Locks :
        phase[l] = "Pending" /\ granted[l] => due[l] \/ owner[l] \in wakes

\* "FIFO by first poll": while a waiter stays queued, no waiter that queued
\* behind it and no newcomer gets the lock.
FifoByFirstPoll ==
    [][\A a \in Locks : Queued(a) /\ Queued(a)' =>
          \A b \in Locks :
             phase[b] = "New" \/ QueuedBefore(a, b) => ~Owns(b)']_vars

\* Every pending lock() is granted or dropped, given that guards are dropped.
PendingEnds == \A l \in Locks : phase[l] = "Pending" ~> phase[l] # "Pending"

=============================================================================
