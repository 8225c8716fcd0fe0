# Verification of rstd's concurrent core

`rstd` is a C++-modules port of Rust's standard library: the vocabulary types of
`core`, the containers of `alloc`, and in `std` threads, synchronisation,
channels, I/O and an async runtime, over one platform layer per operating system.
This directory holds TLA+ models of the parts of it that interleave, the TLC
configurations that check them on small instances, and proofs, checked by TLAPS,
that the most important properties hold for every instance.

Paths below are relative to `src/std/src/` unless they begin with another library.

## 1. Inventory

The repository has no design documents: what the code promises is said in its
comments and in the tests under `tests/main/`. Sizes are lines of source.

| Library | Lines | What it is | Here |
|---|---|---|---|
| `std` | 46,415 | see below | the subject of this project |
| `core` | 22,059 | options, results, iterators, numerics, formatting, Unicode | sequential, not modelled |
| `alloc` | 10,360 | vectors, strings, boxes, collections, `Rc`/`Arc`, arenas | `Arc` planned, the rest sequential |
| `runtime` | 7,770 | vendored dlmalloc, compiler builtins, libc replacements | not modelled |
| `bench`, `test` | 6,473 | harnesses | not modelled |
| `json`, `toml`, `serde`, `serde-macro`, `parse`, `argparse` | 15,301 | parsers and serialisers | sequential, not modelled |
| `basic`, `cppstd`, `log`, `nostd`, `dlopn` | 5,355 | glue and logging | not modelled |

Within `std`:

| Part | Lines | State and operations | Modules |
|---|---|---|---|
| `async/runtime_core` | part of 16,353 | task control blocks, worker inboxes and ready queues, facilities, shutdown | `TaskRuntime`, `TaskControl` |
| `async/executor` | | hand-off of a coroutine to a foreign executor and back | `TaskRuntime` |
| `async/sleep`, `timer` | | registrations that fire, complete or are cancelled | `TaskRuntime` |
| `async/mutex` | | FIFO lock whose waiters are futures | `AsyncMutex` |
| `async/notify`, `oneshot`, `atomic_waker`, completion queues | | wake-up protocols | planned |
| `async/blocking_pool` | | worker threads that come and go, a job queue | planned |
| `async` reactor, epoll/kqueue/IOCP/io_uring back ends | | registrations with the kernel | seen from outside, as completions |
| `async/debug` | | recorder and server behind a feature flag | not modelled |
| `sync/mutex`, `condvar`, `once`, `once_lock`, `lazy_lock` | part of 3,188 | guards and wrappers over `sys/sync` | `FutexMutex`, `FutexCondvar`, `OnceSpec` |
| `sync/spsc` | | one producer, one consumer, a lock-free ring | `Spsc` |
| `sync/mpmc` bounded | | lock-free ring, queues of blocked threads, counted handles | `ArrayChannel` |
| `sync/mpmc` unbounded, rendezvous | | linked blocks; hand-over in stack frames | planned |
| `sys/sync` | 1,101 | mutex, condition variable, once, parker; per platform | `FutexMutex`, `FutexCondvar`, `FutexOnce`, `QueueOnce`, `FutexParker`, `DarwinParker`, `PthreadParker` |
| `sys/pal/*/futex` | | `futex_wait`, `futex_wake`, `futex_wake_all` | inside the modules above |
| `thread` | 1,726 | spawn, join, scopes, thread pool, task group | planned; `park`/`unpark` modelled |
| `alloc` | 721 | budgets, shared arenas | planned |
| `io`, `net`, `process`, `fs`, `os`, `time`, `ffi`, `signal` | about 9,800 | wrappers of system calls | not modelled |

`PROJECT.json` lists every part with its files, its status and the reason when it
is not modelled, and every hazard at the line where it bites.

How the parts interact: `sync` wraps `sys::sync`, which on Linux and Windows
stands on futexes and on Apple's systems on dispatch semaphores and a queue of
parked threads. Channels and the queue once block by `thread::park`. The async
runtime guards each task's control block by a `sync::Mutex`, sends commands to
workers through inboxes, and is woken by wakers that `async::Mutex`, timers,
executors and I/O completions hold.

| Platform | mutex, condvar | once | parker |
|---|---|---|---|
| Linux, Windows | futex | futex | futex |
| Apple | pthread | queue | darwin (dispatch semaphore) |
| other unix | pthread | queue | pthread |

## 2. Modelling conventions

- **Grain.** Code that runs under a lock is one step, and what a thread does
  between two locked sections is a step of its own. Lock-free code is one atomic
  access, or one access to the memory it protects, per step. The places where the
  code reads something, lets go and acts on it later (`is_stopping()` before the
  control lock, `spin()`'s load, the wakers taken out of a queue) are separate
  steps, so that everything else can happen in between.
- **Memory order.** Steps of different threads happen in one order. The code
  publishes by release stores and acquire loads or by SeqCst accesses and fences;
  its relaxed loads are either validated by the compare-exchange that follows, only
  hints to spin, or made under a lock. Behaviours that only a weaker reading of
  those orders would allow are outside these models.
- **Weak compare-exchange** may fail without a reason; **futex waits** may be
  interrupted or woken by a call meant for an earlier wait; a **timeout** may expire
  at any moment.
- **External code** is the kernel's futex queue, the dispatch semaphore, pthread's
  mutex and condition variable and what a user does inside a coroutine. It is
  modelled from how the code uses it and is marked external in the map.
- **Data** is reduced to what the properties tell apart. A message in a ring is
  named by its order or by the stamp that publishes it; a coroutine is what it
  awaits; a waker is the task it wakes.
- A definition preceded by "Mutant:" is a plausible mistake in the definition it
  stands next to. No specification uses it. Replacing the one by the other must
  break the property listed with it in `PROJECT.json`.

## 3. Modules

### The async runtime

**`TaskRuntime`** models `async/runtime_core.{cppm,cpp}`. Its variables are the
fields of `TaskControl` (`ctl`, `owner`, `cancellation`, `event`), the coroutine
(`frame`, `await`, `fired`), its `JoinState` (`join`), the registrations of timers
and I/O, each at the worker that holds it (`timer`), posted executor jobs (`jobs`), the workers' `inbox`, `ready`
queue, wake handle and place in `run()`, and the runtime's `rt` and `registry`.
`todo[th]` is the call a thread is about to make once it has dropped a lock: it
holds the `TaskAction` to apply, the generation it carries and the value of
`is_stopping()` read before. `Scenarios` is a set of bounds, one of which the
initial state picks: the workers and tasks, what a task may await, how often each
task awaits, the stray wakes, aborts and refusals, and whether the runtime shuts
down. `allowed` is what is left of them.

| Actions | Code |
|---|---|
| `Activate`, `Schedule`, `Abort`, `TryBeginRuntime`, `EndRuntimeExecution`, `CompleteFacility`, `BeginFacilityExecution`, `CancelFacilityHandoff`, `EndFacilityExecution`, `InstallCompletionCancellation` | the locked sections of `TaskStateBase` |
| `ApplySchedule`, `Deliver`, `ApplySubmitCompletion`, `ApplySubmitFacility`, `ApplyCompleteAbort`, `ReleaseFrame`, `PublishJoin`, `Retire` | `TaskStateBase::apply`, `DriverTaskState::complete_*`, `RuntimeInner::retire` |
| `TakeCompletionEvent`, `Resume`, `EndDrive`, `ExecutorClosed` | one drive of the coroutine |
| `PopCommand`, `InboxDrained`, `ReadyDrained`, `PollBackend`, `DispatchEvent`, `CompleteRemote` | `RuntimeWorker::run`, `FacilityCompletionToken::complete` |
| `RunJob`, `CancelJob`, `Spawn`, `StrayWake`, `JoinHandleAbort`, `Signal` | threads outside |
| `BeginShutdown`, `CollectTasks`, `AbortTask`, `AwaitRegistry`, `ClearInbox`, `RequestStop`, `FinishShutdown` | `Runtime::shutdown` |

A sleep is armed at the task's own worker. An I/O operation is registered with the
worker its source is bound to (`SubmitIoOperation`); when that is another one, the
registration goes through its inbox, and its event comes back as a
`FacilityComplete` command in the owner's. `FacilityBatch` commands exist in the
code and nothing sends one.

The three panics this code can raise (overlapping event, unmatched event, a
submission for a released coroutine) end the process: `panicked`.

**`TaskControl`** is what one control block promises, whatever its surroundings
do: every section that checks a ticket or a token may be entered at any time with
any generation ever issued. `TaskRuntime` is checked to implement it for each task
(`ImplementsTaskControl`), so what is proved of `TaskControl` for every number of
wakes, aborts and deliveries is not an accident of the runtime's queues.

**`AsyncMutex`** models `async/mutex.cppm`. Its actions are the polls of a
`MutexLock`, the drop of a guard or of a pending future, the move of a future from
one task to another, and the delivery of a waker after the queue's lock is dropped.

### Blocking primitives

| Module | Code | Promise |
|---|---|---|
| `LockSpec` | a lock: one owner at a time | abstract |
| `FutexMutex` | `sys/sync/mutex/futex.cpp`, `sys/pal/*/futex.cpp` | implements `LockSpec` |
| `FutexCondvar` | `sys/sync/condvar/futex.cpp`, `sync/condvar.cppm`, over `LockSpec` | no lost notification |
| `ParkSpec` | `park`, `park_timeout`, `unpark`: one token | abstract |
| `FutexParker`, `DarwinParker` | `sys/sync/thread_parking/{futex,darwin}.cpp` | implement `ParkSpec` |
| `PthreadParker` | `sys/sync/thread_parking/pthread.cpp` | does not return a second time, section 6 |
| `OnceSpec` | a once: one initializer, nobody returns before it is done | abstract |
| `FutexOnce`, `QueueOnce` | `sys/sync/once/{futex,queue}.cpp` | implement `OnceSpec` |

`Rechecks` tells the unix `futex_wait`, which compares the word again after a
wake, from the Windows one, which returns. `FutexCondvar` uses `LockSpec` instead
of the word-level mutex, which `FutexMutex` justifies. A timed wait has one deadline
(`Elapse`, the set `over`): woken before it, it waits again for the time that
remains; after it, it gives up once it has looked at the condition.

### Channels

**`Spsc`** models `sync/spsc.cppm`: `next_cursor` and `slot_index` as they are, the
producer's and the consumer's accesses one by one, both closes and the release by
the last endpoint.

**`ArrayChannel`** models `sync/mpmc/{array,waker,context,counter}.cppm`: stamps
and laps of the ring, reservation by compare-exchange, the queues of blocked
threads, `Context::wait_until` with deadlines and park tokens, the disconnection by
the last handle of a side, the discarding of messages and the deletion of the
channel by whoever comes second. `Groups` says how many slots the channel has,
which threads hold a handle, and the calls each makes at most: how long a call is
willing to wait (`Patience`), in order.

## 4. Runs

Every passing run explores all of its states; no state constraint or view is
used, and symmetry only in `task_runtime`, over threads that play the same part. A run
with several scenarios or groups explores the sum of their state spaces.

| Run | Instance | Properties |
|---|---|---|
| `task_runtime` | 1 task, 2 outside threads; (a) 1 worker, up to 2 awaits of any kind, 1 stray wake, 1 abort, 1 refusal; (b) 1 worker, 1 await, 1 stray wake, 1 refusal, a shutdown at any point; (c) 2 workers, 2 sleeps or I/O operations, 1 refusal, a shutdown | `TypeOK`, `ExclusiveFrame`, `TicketAccounted`, `HandoffAccounted`, `EventsMatch`, `ExecutorResumes`, `ImplementsTaskControl` |
| `task_liveness` | 1 task, 1 outside thread; futures and executors, 1 stray wake, 1 refusal, a shutdown at any point | `WaitAccounted`, `ShutdownQuiesces`, `TasksComplete`, `ShutdownTerminates` |
| `task_timers` | sleeps and I/O, no stray wake: 2 tasks on one worker; 1 task with 2 awaits on two; 2 tasks with 1 I/O each on two | `WaitAccounted`, `TasksComplete` |
| `task_control` | generations up to 5 | `ExclusiveDrive`, `SingleTerminal`, `CancelWins`, `LeaseIsCurrent` |
| `async_mutex` | 3 lock futures, 2 tasks | `MutualExclusion`, `GrantAccounted`, `GrantAnnounced`, `FifoByFirstPoll`, `PendingEnds` |
| `sys_sync` | every blocking primitive in turn: 3 threads on a mutex, 2 producers (one that calls `notify_all`) and 2 consumers (one timed) on either platform's futex, 3 unparkers, 2 callers and a waiter of a once | `AllTyped`, `SleepersCovered`, `SleepersWoken`, `NoLostNotify`, `NodesLive`, `ImplementsLock`, `LockProgress`, `ImplementsPark`, `UnparkWakes`, `ImplementsOnce`, `AllReturn` |
| `spsc` | 3 slots, 8 pushes | `InOrder`, `DrainedFirst`, `FreedEmpty`, `StorageFreed` |
| `array_channel` | 1 slot, a sender and 2 receivers (one timed); 2 slots with 2 senders and a receiver, a sender and 2 receivers, or one of each with 3 calls | `MessageOwned`, `AnswersTrue`, `Finishes` |
| `abort_before_submit` | 1 task that sleeps once, a shutdown | `FrameLiveAtSubmit` is violated |
| `stray_wake_loses_sleep` | 1 task that sleeps once, 1 stray wake | `TasksComplete` is violated |
| `late_remote_event` | 1 task on two workers; I/O and futures, 1 stray wake | `EventsMatch` is violated |
| `pthread_parker` | an owner and 2 unparkers | `UnparkWakes` is violated |

Each property is stated in words next to its definition. Their common theme is
*accounting*: wherever the code hands something over (a schedule ticket, a
hand-off, a grant, a wake-up, a message, a node on another thread's stack) there is
an invariant that says where it can be, so that losing or duplicating it is a
violation in the state where it happens and not only a hang much later.

`MCSysSync` checks the blocking primitives in one run: `part` picks a primitive in
the initial state and only that one takes steps. They do not interact, so the run
explores the sum of their state spaces.

**Why the bounds are enough to be interesting.** One task is enough for
`task_runtime`, since tasks share nothing but queues, and the accounting is per
task; two awaits let tokens and tickets of the first arrive during the second;
a budget of one poll makes every drain end with the budget used up. The second
scenario reaches what only a shutdown does: cleared inboxes, pushes to a worker that
has stopped, the `is_stopping()` branches. The third has events and tickets that
cross from one worker to the other, also while the runtime stops. `task_timers`
has the two tasks that compete for one worker. Three threads on the mutex are one
that holds, one that sleeps and one that overtakes. Three unparkers let a late
`futex_wake` hit the second park. A ring of three slots has six cursor values,
which eight pushes wrap. Two slots and three threads are enough for a full ring, a
blocked sender, one that overtakes it and a disconnection in the middle. One slot
with a blocking and a timed receiver is the smallest channel in which a timed-out
waiter that swallowed its selection would leave another asleep.

**Deadlock** is checked in `task_runtime`, `abort_before_submit` and `async_mutex`.
In the others the system may stop: the bounded calls are over, or a task waits for
an event that never has to come. There the liveness properties say who must not be
left behind.

## 5. Fairness

- Threads and workers are scheduled (weak fairness of what a thread does next).
- Guards are dropped, endpoints and handles are closed: they are scoped objects.
  Closing an endpoint of `Spsc` has strong fairness, since it is enabled only
  between two calls.
- A weak compare-exchange that could succeed over and over does (strong fairness
  of the exchange in the onces and of the reservation in `ArrayChannel`).
- A deadline passes, a future's condition comes true, and an executor runs or drops
  each job it accepted, which `async/executor.cppm` asks of executors.
- On the condition variable time passes, and interrupts do not go on for ever: on
  Windows each one takes the mutex again, and no mutex of this code is fair.
- Nothing else is assumed of interrupts, and nothing of spurious failures, stray wakes, aborts, spawns,
  refusals or the start of a shutdown.
- In `PthreadParker` the platform's mutex is fair (strong fairness of `Lock`), which
  only makes the violation found there stronger.

`LockProgress` says that somebody gets the mutex, not everybody: the code lets
threads overtake, and does not promise more.

## 6. Disagreements found

1. **An abort can release a coroutine that a worker is about to use**
   (`abort_before_submit`, `async/runtime_core.cpp:378`). `end_runtime_execution`
   makes the task `Waiting` and drops the control lock; a shutdown or
   `JoinHandle::abort` may then complete the task and release its frame before the
   worker runs `apply(SubmitCompletion)`, which dereferences it. The tests expect
   an aborted join.
2. **A stray wake can lose a sleep** (`stray_wake_loses_sleep`,
   `async/runtime_core.cpp:499`). A wake through a retained waker that comes after
   the task became `Waiting` and before its cancellation is installed makes
   `install_completion_cancellation` cancel the timer that was just armed; the
   sleep counts as submitted and is never completed. A wake after the install has a
   second route to the same end: `schedule` re-queues the task and leaves
   `completion_cancellation` set (`:455`), and the install of the task's next sleep
   finds it (`:502`) and cancels the new timer. This is why `task_timers` has no
   stray wakes and `task_liveness` no sleeps: what they show of sleeps is for tasks
   that nothing else wakes.
3. **A remote completion can reach the wrong await** (`late_remote_event`,
   `async/io_operation.cppm:580`). `publish_io_operation_event` makes the operation
   `Ready` and completes its token afterwards. When the source is bound to another
   worker, a stray wake in between lets the owner poll the task, which sees `Ready`
   and goes on to a future, with the same facility generation. The late
   `FacilityComplete` passes the check of the token, and the next poll panics:
   `async/spawn.cppm:353`, "async facility event has no matching await operation".
   `task_runtime` shows that this does not happen on one worker, nor on two without
   stray wakes.
4. **The pthread parker returns with its lock held** (`pthread_parker`,
   `sys/sync/thread_parking/pthread.cpp:18`). `park` and `park_timeout` never
   unlock, so the thread's next `park` blocks whatever `unpark` does.

## 7. What is proved

The theorems hold for every value of the constants: any number of threads, futures,
tasks and unparkers, any capacity, unbounded generations and pushes. The only
assumptions are those named in the modules (`NoTaskAssumption`: an empty waker is
not a task; `SpscAssumption`: the capacity is positive). Each proof has
the form `Init => IInv`, `IInv /\ [Next]_vars => IInv'`, `IInv => Inv`, with one step
per action.

| Module | Theorems | Inductive invariant, and why it is needed |
|---|---|---|
| `TaskControlProofs` | `DriveIsExclusive`, `TerminalIsSingle`, `LeasesAreCurrent`, `CancellationWins`, `TerminalIsFinal`, `ControlTyped` | `LeaseInv`: the leases out are exactly those the lifecycle says, so no second one is given and the lifecycle cannot move away under one. `TerminalInv`: the stages of a terminal. `CancelInv`: a value is decided only without a cancellation |
| `AsyncMutexProofs` | `MutexExcludes`, `GrantsAreAccounted`, `GrantsAreAnnounced` | `QueueInv`: the queue holds each pending future without a grant once. `WakerInv`: a queued future holds the waker of the task that owns it, or is about to be polled; without it a release could announce a grant to the wrong task |
| `FutexMutexProofs` | `MutexExclusion`, `SleepersAreCovered`, `MutexImplementsLock`, `MutexTyped` | `HeldIsLocked`: while a thread holds the mutex the word is not `UNLOCKED`. The refinement maps the owner to the set of threads at `Held` |
| `FutexParkerProofs` | `ParkerImplementsPark`, `SleepersAreWoken`, `ParkerTyped` | `ShapeOK`: the word is `PARKED` only inside `park` and never `EMPTY` there, so the decrement stays in range |
| `SpscProofs` | `RingInOrder`, `RingDrainedFirst`, `RingFreedEmpty`, `RingTyped` | `CountInv` and `SlotInv`: the slots between the cursors hold the values not taken yet, in order. `CloseInv`, `DropInv`: who has closed, who destroys. `ToldInv`: the second look of `try_front` comes after the close |

For `Spsc` the arithmetic is in a few lemmas about `next_cursor` and `slot_index`:
how the distance between the cursors and the offset of a slot change when a cursor
advances, at the wrap included. Every step is then either one of the five that move
a cursor or touch a value, or a quiet one that leaves the ring alone.

`TaskControl` has no bound on generations; `LeaseIsCurrent` shows that the early
returns of `end_runtime_execution` and `end_facility_execution` are dead code under
the leases.

**Only model-checked:** all liveness (`TasksComplete`, `ShutdownTerminates`,
`PendingEnds`, `LockProgress`, `UnparkWakes`, `AllReturn`,
`StorageFreed`, `Finishes`), which is beyond this prover; that `TaskRuntime`
implements `TaskControl`; the ticket, hand-off and wait accounting of
`TaskRuntime`; the FIFO property of `AsyncMutex`; the condition variable, the
onces, the darwin parker and the bounded channel.

## 8. What is not modelled

- Within `TaskRuntime`: worker start-up, `block_on` of the current-thread runtime,
  how a `TaskRef` detaches, the join of the blocking pool in `shutdown`, `Sleep` polled as a plain future, `Timeout` and
  `Interval`, the reactor's own registrations and the release of completion sources.
- Within the others: `OnceLock::take` and destructors, which need exclusive access;
  the panics on a misused `ReadGuard`; observers and `len()` of the channel, which
  hold no protocol; a channel handle cloned while the channel is in use; the wrap of
  the condition variable's counter after 2^32 notifications within one wait.
- Sequential code (containers, formatting, parsers) and wrappers of system calls,
  for which unit tests are the better tool.
- Weak memory beyond what section 2 says.

## 9. Plan

Models, in this order:

1. `async::Notify`, oneshot, `AtomicWaker` and the completion queue, in one run
   with `AsyncMutex`: dropped waiters pass notifications on, a wake during a
   registration is not lost.
2. The blocking pool, the thread pool and the task group over `LockSpec` and an
   abstract condition variable: every accepted job is run or cancelled once, a
   worker that cannot be spawned strands nobody, `join` returns.
3. The unbounded and the rendezvous channel, with the wakers and contexts of
   `ArrayChannel` moved to a module of their own, and one abstract channel that the
   three flavours implement.
4. `Arc` and `Weak`: a count of zero never comes back, the value is dropped before
   the memory is freed, once.
5. Thread lifecycles and scopes, `OnceBox`, and the allocation budget.

Proofs, in this order:

1. `FutexOnce` and `QueueOnce` implement `OnceSpec`; `DarwinParker` implements
   `ParkSpec`; `NoLostNotify` of the condition variable.
2. `MessageOwned` and `AnswersTrue` of `ArrayChannel`: stamps decide who may touch a
   slot.
3. `ExclusiveFrame` and `TicketAccounted` of `TaskRuntime`, from the proved
   `TaskControl` and the places a ticket can be.
4. The counting protocol of `Arc`.

## 10. How to run

From this directory, with the TLA+ tools, the community modules and TLAPS:

    tlc -workers 2 -config MCSpsc.cfg Spsc
    tlapm SpscProofs.tla

`PROJECT.json` names the module and the configuration of every run. The longest,
`array_channel`, `task_runtime`, `task_liveness` and `task_timers`, take one to three minutes
each, the others less than one.
