----------------------------- MODULE TaskRuntime -----------------------------
(***************************************************************************)
(* The async runtime's core (src/std/src/async/runtime_core.{cppm,cpp}):    *)
(* TaskStateBase's lifecycle under its control lock, the actions that are   *)
(* applied after that lock is dropped, the workers' inboxes, ready queues   *)
(* and polls, the two kinds of facility a coroutine can await (a completion *)
(* delivered to the owner worker, a segment run on an external executor),   *)
(* abort from any thread, and Runtime::shutdown.                            *)
(*                                                                          *)
(* A locked section is one step.  What a thread does between two locked     *)
(* sections is its pending call `todo[th]': the call it is about to make,   *)
(* with the values it read before (`stop' is the is_stopping() read that    *)
(* precedes the lock).  Workers, outside callers and the thread that shuts  *)
(* the runtime down interleave at this grain.                               *)
(***************************************************************************)
EXTENDS Naturals, Sequences, FiniteSets

CONSTANTS Tasks,
          Threads,       \* wakers, aborters and executor threads
          Main,          \* the thread that runs Runtime::shutdown
          CooperativeBudget, \* polls per drain_ready (64 in the code)
          Scenarios      \* the runtimes and bounds explored, one per behaviour

\* A future polled with the task's waker, async::sleep, an IoOperation, and an
\* ExecutorAwaitOperation.
Awaits == {"future", "sleep", "io", "exec"}

\* Every worker of some scenario.
AllWorkers == UNION {s.workers : s \in Scenarios}

\* A scenario fixes the runtime's workers, the tasks spawned, what their coroutines may
\* await and whether Runtime::shutdown may be called, and bounds the awaits of a
\* coroutine, the wake-ups through a retained waker, the JoinHandle::abort calls and
\* the refused submissions.
ASSUME ConstantsAssumption ==
    /\ CooperativeBudget \in Nat \ {0}
    /\ AllWorkers \cap Threads = {} /\ Main \notin AllWorkers \cup Threads
    /\ \A s \in Scenarios :
          /\ s.workers # {} /\ s.tasks \subseteq Tasks /\ s.kinds \subseteq Awaits
          /\ s.shutdown \in BOOLEAN
          /\ {s.awaits, s.wakes, s.aborts, s.refusals} \subseteq Nat

VARIABLES
    rt,           \* RuntimeSharedState::m_lifecycle
    registry,     \* RuntimeSharedState::m_registry
    ctl,          \* TaskControl: life, sgen, fgen, wake, cancel
    owner,        \* TaskControl::owner_worker
    cancellation, \* completion_cancellation: its facility generation, 0 = None
    event,        \* completion_event
    frame,        \* the coroutine frame held by RuntimeCoroDriver
    join,         \* JoinState's terminal
    await,        \* the operation the coroutine is suspended in
    fired,        \* that operation's own condition holds (deadline, signal)
    timer,        \* the completion facility's registration and its token: state,
                  \* generation, and the worker at whose backend it is made
    jobs,         \* executor jobs posted and neither run nor cancelled
    inbox, ready, \* WorkerFields::m_inbox, RuntimeWorker::m_ready
    notified,     \* the poll's wake handle is set
    worker,       \* life (WorkerLifecycle), pc (place in run()), left, batch
    todo,         \* the pending call of every thread
    shutdown,     \* place in Runtime::shutdown, and the tasks left to abort
    allowed,      \* what the scenario still allows, and the tasks not yet spawned
    panicked      \* the panic that ended the process, or "No"

control == <<ctl, owner, cancellation, event>>
coroutine == <<frame, join, await, fired, timer, jobs>>
workers == <<inbox, ready, notified, worker>>
vars == <<rt, registry, control, coroutine, workers, todo, shutdown, allowed, panicked>>

Call(op, t, gen, stop, arg) ==
    [op |-> op, task |-> t, gen |-> gen, stop |-> stop, arg |-> arg]

Idle == [op |-> "Idle"]

Then(th, call) == todo' = [todo EXCEPT ![th] = call]

\* th is at op, in a process that has not panicked.
Doing(th, op) == panicked = "No" /\ todo[th].op = op

Stopping == rt # "Running"

\* The workers of this runtime, and every thread.
Workers == DOMAIN worker
AllThreads == DOMAIN todo

Init ==
    /\ rt = "Running"
    /\ registry = {}
    /\ ctl = [t \in Tasks |-> [life |-> "Created", sgen |-> 0, fgen |-> 0,
                               wake |-> FALSE, cancel |-> FALSE]]
    /\ cancellation = [t \in Tasks |-> 0]
    /\ event = [t \in Tasks |-> "None"]
    /\ frame = [t \in Tasks |-> "Live"]
    /\ join = [t \in Tasks |-> "Pending"]
    /\ await = [t \in Tasks |-> [kind |-> "start", submitted |-> FALSE, result |-> "None"]]
    /\ fired = [t \in Tasks |-> FALSE]
    /\ jobs = {}
    /\ shutdown = [at |-> "No", victims |-> {}]
    /\ \E s \in Scenarios :
          /\ owner \in [Tasks -> s.workers]
          /\ inbox = [w \in s.workers |-> <<>>]
          /\ ready = [w \in s.workers |-> <<>>]
          /\ notified = [w \in s.workers |-> FALSE]
          /\ worker = [w \in s.workers |-> [life |-> "Running", pc |-> "inbox",
                                            left |-> CooperativeBudget, batch |-> {}]]
          /\ todo = [th \in s.workers \cup Threads \cup {Main} |-> Idle]
          /\ allowed = [kinds |-> s.kinds, awaits |-> [t \in Tasks |-> s.awaits],
                       wakes |-> s.wakes, aborts |-> s.aborts, refusals |-> s.refusals,
                       shutdown |-> s.shutdown, spawns |-> s.tasks]
    /\ timer = [t \in Tasks |-> [st |-> "None", gen |-> 0, at |-> owner[t]]]
    /\ panicked = "No"

-----------------------------------------------------------------------------
(* Transitions of TaskControl, made with the control lock held.             *)

\* Mutant: the terminal transition leaves the lifecycle alone.
CompleteKeepsLifecycle(c) == [c EXCEPT !.sgen = @ + 1, !.fgen = @ + 1, !.wake = FALSE]

\* TaskStateBase::complete_locked
CompleteLocked(c) ==
    [c EXCEPT !.life = "Completed", !.sgen = @ + 1, !.fgen = @ + 1, !.wake = FALSE]

\* TaskStateBase::make_schedule_action: the ticket is applied by th afterwards.
MakeScheduleAction(th, t, c) ==
    /\ ctl' = [ctl EXCEPT ![t] = [c EXCEPT !.life = "Queued", !.sgen = @ + 1]]
    /\ Then(th, Call("Schedule", t, c.sgen + 1, FALSE, "None"))
    /\ UNCHANGED cancellation

\* cancel_requested = true, complete_locked and TaskAction::complete_abort with
\* the completion's cancellation, as every terminal branch does it.
CompleteAbortAction(th, t) ==
    /\ ctl' = [ctl EXCEPT ![t] = [CompleteLocked(@) EXCEPT !.cancel = TRUE]]
    /\ cancellation' = [cancellation EXCEPT ![t] = 0]
    /\ Then(th, Call("CompleteAbort", t, cancellation[t], FALSE, "None"))

\* Mutant: a section that schedules nothing forgets wake_requested.
ReturnClearsWake(th, t, c) ==
    /\ ctl' = [ctl EXCEPT ![t] = [c EXCEPT !.wake = FALSE]]
    /\ Then(th, Idle)
    /\ UNCHANGED cancellation

\* A locked section that changes the control block and returns TaskAction::none.
Return(th, t, c) ==
    /\ ctl' = [ctl EXCEPT ![t] = c]
    /\ Then(th, Idle)
    /\ UNCHANGED cancellation

\* Mutant: the token is made before ++facility_generation.
SubmitsOldGeneration(th, t, life, op) ==
    /\ ctl' = [ctl EXCEPT ![t] = [@ EXCEPT !.fgen = @ + 1, !.life = life, !.wake = FALSE]]
    /\ Then(th, Call(op, t, ctl[t].fgen, FALSE, "None"))
    /\ UNCHANGED cancellation

\* ++facility_generation and the hand-over to a facility.
SubmitAction(th, t, life, op) ==
    LET c == ctl[t]
    IN  /\ ctl' = [ctl EXCEPT ![t] = [c EXCEPT !.fgen = @ + 1, !.life = life,
                                               !.wake = FALSE]]
        /\ Then(th, Call(op, t, c.fgen + 1, FALSE, "None"))
        /\ UNCHANGED cancellation

\* The task, control block and generation check of the call th is making.
Task(th) == todo[th].task
Ctl(th) == ctl[Task(th)]
Dying(th) == Ctl(th).cancel \/ todo[th].stop

\* A locked section of TaskStateBase touches only these.
LockedOnly ==
    UNCHANGED <<rt, registry, owner, event, coroutine, workers, shutdown, allowed, panicked>>

\* TaskStateBase::activate
Activate(th) ==
    /\ Doing(th, "activate")
    /\ IF Ctl(th).life # "Created" \/ Ctl(th).cancel
       THEN Return(th, Task(th), Ctl(th))
       ELSE MakeScheduleAction(th, Task(th), Ctl(th))
    /\ LockedOnly

\* TaskStateBase::schedule, after its is_stopping() read.
Schedule(th) ==
    LET t == Task(th)
        c == ctl[t]
        stop == todo[th].stop
    IN  /\ Doing(th, "schedule")
        /\ \/ /\ c.life \in {"Completed", "Queued"}
              /\ Return(th, t, c)
           \/ /\ c.life \in {"Created", "Waiting"} /\ stop
              /\ CompleteAbortAction(th, t)
           \/ /\ c.life = "Waiting" /\ ~stop
              /\ MakeScheduleAction(th, t, c)
           \/ /\ c.life \in {"RunningRuntime", "FacilityQueued", "FacilityRunning"} /\ stop
              /\ Return(th, t, [c EXCEPT !.cancel = TRUE])
           \/ /\ c.life \in {"Created", "RunningRuntime", "FacilityQueued", "FacilityRunning"}
              /\ ~stop
              /\ Return(th, t, [c EXCEPT !.wake = TRUE])
        /\ LockedOnly

\* Mutant: abort also completes a task that is being driven.
AbortsRunning(th) ==
    /\ Doing(th, "abort")
    /\ IF Ctl(th).life = "Completed" THEN Return(th, Task(th), Ctl(th))
       ELSE CompleteAbortAction(th, Task(th))
    /\ LockedOnly

\* TaskStateBase::abort
Abort(th) ==
    LET t == Task(th)
        c == ctl[t]
    IN  /\ Doing(th, "abort")
        /\ \/ /\ c.life = "Completed"
              /\ Return(th, t, c)
           \/ /\ c.life \in {"Created", "Queued", "Waiting", "FacilityQueued"}
              /\ CompleteAbortAction(th, t)
           \/ /\ c.life \in {"RunningRuntime", "FacilityRunning"}
              /\ Return(th, t, [c EXCEPT !.cancel = TRUE])
        /\ LockedOnly

\* TaskStateBase::end_runtime_execution, after its is_stopping() read: the poll
\* ended with outcome todo[th].arg.
EndRuntimeExecution(th) ==
    LET t == Task(th)
        c == ctl[t]
        out == todo[th].arg
        mine == c.life = "RunningRuntime" /\ c.sgen = todo[th].gen
    IN  /\ Doing(th, "end_runtime")
        /\ \/ /\ ~mine
              /\ Return(th, t, c)
           \/ /\ mine /\ Dying(th)
              /\ CompleteAbortAction(th, t)
           \/ /\ mine /\ ~Dying(th) /\ out = "Complete"
              /\ ctl' = [ctl EXCEPT ![t] = CompleteLocked(c)]
              /\ Then(th, Call("Release", t, 0, FALSE, "Value"))
              /\ UNCHANGED cancellation
           \/ /\ mine /\ ~Dying(th) /\ out = "SubmitCompletion"
              /\ SubmitAction(th, t, "Waiting", "SubmitCompletion")
           \/ /\ mine /\ ~Dying(th) /\ out = "SubmitFacility"
              /\ SubmitAction(th, t, "FacilityQueued", "SubmitFacility")
           \/ /\ mine /\ ~Dying(th) /\ out = "None" /\ c.wake
              /\ MakeScheduleAction(th, t, [c EXCEPT !.wake = FALSE])
           \/ /\ mine /\ ~Dying(th) /\ out = "None" /\ ~c.wake
              /\ Return(th, t, [c EXCEPT !.life = "Waiting"])
        /\ LockedOnly

\* The token of a facility call names the task's current facility episode.
Current(th, life) == Ctl(th).life = life /\ Ctl(th).fgen = todo[th].gen

\* TaskStateBase::complete_facility, after its is_stopping() read.  An event for
\* a task that is not waiting for it is dropped; an accepted one disarms the
\* cancellation and is delivered once the lock is dropped.
CompleteFacility(th) ==
    LET t == Task(th)
        c == ctl[t]
    IN  /\ Doing(th, "complete_facility")
        /\ \/ /\ ~Current(th, "Waiting")
              /\ Return(th, t, c)
           \/ /\ Current(th, "Waiting") /\ Dying(th)
              /\ CompleteAbortAction(th, t)
           \/ /\ Current(th, "Waiting") /\ ~Dying(th)
              /\ ctl' = [ctl EXCEPT ![t] = [c EXCEPT !.life = "Queued", !.sgen = @ + 1]]
              /\ cancellation' = [cancellation EXCEPT ![t] = 0]
              /\ Then(th, Call("Deliver", t, c.sgen + 1, FALSE, todo[th].arg))
        /\ LockedOnly

\* TaskStateBase::begin_facility_execution, after its is_stopping() read.
BeginFacilityExecution(th) ==
    LET t == Task(th)
    IN  /\ Doing(th, "begin_facility")
        /\ \/ /\ ~Current(th, "FacilityQueued")
              /\ Return(th, t, ctl[t])
           \/ /\ Current(th, "FacilityQueued") /\ Dying(th)
              /\ CompleteAbortAction(th, t)
           \/ /\ Current(th, "FacilityQueued") /\ ~Dying(th)
              /\ ctl' = [ctl EXCEPT ![t].life = "FacilityRunning"]
              /\ Then(th, Call("segment", t, todo[th].gen, FALSE, "None"))
              /\ UNCHANGED cancellation
        /\ LockedOnly

\* TaskStateBase::cancel_facility_handoff, after its is_stopping() read.
CancelFacilityHandoff(th) ==
    LET t == Task(th)
    IN  /\ Doing(th, "cancel_handoff")
        /\ \/ /\ ~Current(th, "FacilityQueued")
              /\ Return(th, t, ctl[t])
           \/ /\ Current(th, "FacilityQueued") /\ Dying(th)
              /\ CompleteAbortAction(th, t)
           \/ /\ Current(th, "FacilityQueued") /\ ~Dying(th)
              /\ MakeScheduleAction(th, t, [ctl[t] EXCEPT !.wake = FALSE])
        /\ LockedOnly

\* TaskStateBase::end_facility_execution, after its is_stopping() read.
EndFacilityExecution(th) ==
    LET t == Task(th)
        mine == Current(th, "FacilityRunning")
    IN  /\ Doing(th, "end_facility")
        /\ \/ /\ ~mine
              /\ Return(th, t, ctl[t])
           \/ /\ mine /\ Dying(th)
              /\ CompleteAbortAction(th, t)
           \/ /\ mine /\ ~Dying(th) /\ todo[th].arg = "SubmitFacility"
              /\ SubmitAction(th, t, "FacilityQueued", "SubmitFacility")
           \/ /\ mine /\ ~Dying(th) /\ todo[th].arg = "None"
              /\ MakeScheduleAction(th, t, [ctl[t] EXCEPT !.wake = FALSE])
        /\ LockedOnly

\* TaskStateBase::try_begin_runtime, from RuntimeWorker::drain_ready: a current
\* ticket starts a poll, after which the worker drains its inbox; a stale one is
\* skipped.  Both use up the cooperative budget.
TryBeginRuntime(w) ==
    LET ticket == Head(ready[w])
        t == ticket.task
        current == ctl[t].life = "Queued" /\ ~ctl[t].cancel /\ ctl[t].sgen = ticket.gen
    IN  /\ Doing(w, "Idle")
        /\ worker[w].pc = "ready" /\ worker[w].left > 0 /\ ready[w] # <<>>
        /\ ready' = [ready EXCEPT ![w] = Tail(@)]
        /\ \/ /\ current
              /\ ctl' = [ctl EXCEPT ![t].life = "RunningRuntime"]
              /\ Then(w, Call("poll", t, ticket.gen, FALSE, "None"))
              /\ worker' = [worker EXCEPT ![w].left = @ - 1, ![w].pc = "inbox"]
           \/ /\ ~current
              /\ worker' = [worker EXCEPT ![w].left = @ - 1]
              /\ UNCHANGED <<ctl, todo>>
        /\ UNCHANGED <<rt, registry, owner, cancellation, event, coroutine, inbox,
                       notified, shutdown, allowed, panicked>>

-----------------------------------------------------------------------------
(* TaskStateBase::apply: what a thread does once the control lock is free.  *)

\* WorkerHandle: push a command and notify, when the worker is Running.
Push(w, command) ==
    /\ inbox' = [inbox EXCEPT ![w] = Append(@, command)]
    /\ notified' = [notified EXCEPT ![w] = TRUE]

Command(kind, t, gen) == [kind |-> kind, task |-> t, gen |-> gen]

\* cancel_timer_facility: the registration is dead and its worker is told.  An I/O
\* operation's cancellation only asks the kernel to end it sooner.
CancelTimer(t, gen) ==
    IF timer[t].gen = gen /\ timer[t].st \in {"Arming", "Armed"} /\ await[t].kind = "sleep"
    THEN /\ timer' = [timer EXCEPT ![t].st = "Dead"]
         /\ IF worker[timer[t].at].life = "Running"
            THEN Push(timer[t].at, Command("Cancel", t, gen))
            ELSE UNCHANGED <<inbox, notified>>
    ELSE UNCHANGED <<timer, inbox, notified>>

Panic(what) == panicked' = what

\* RuntimeInner::schedule: the owner worker's own ready queue, another worker's
\* inbox, or, when the worker no longer runs, TaskRef::abort on the rejection.
ApplySchedule(th) ==
    LET t == Task(th)
        w == owner[t]
        ticket == Command("Schedule", t, todo[th].gen)
    IN  /\ Doing(th, "Schedule")
        /\ \/ /\ worker[w].life # "Running"
              /\ Then(th, Call("abort", t, 0, FALSE, "None"))
              /\ UNCHANGED <<ready, inbox, notified>>
           \/ /\ worker[w].life = "Running" /\ th = w
              /\ ready' = [ready EXCEPT ![w] = Append(@, ticket)]
              /\ Then(th, Idle)
              /\ UNCHANGED <<inbox, notified>>
           \/ /\ worker[w].life = "Running" /\ th # w
              /\ Push(w, ticket)
              /\ Then(th, Idle)
              /\ UNCHANGED ready
        /\ UNCHANGED <<rt, registry, control, coroutine, worker, shutdown, allowed, panicked>>

\* complete_facility's delivery into completion_event, before apply().
Deliver(th) ==
    LET t == Task(th)
    IN  /\ Doing(th, "Deliver")
        /\ \/ /\ event[t] # "None"
              /\ Panic("overlapping event")
              /\ UNCHANGED <<event, todo>>
           \/ /\ event[t] = "None"
              /\ event' = [event EXCEPT ![t] = todo[th].arg]
              /\ Then(th, Call("Schedule", t, todo[th].gen, FALSE, "None"))
              /\ UNCHANGED panicked
        /\ UNCHANGED <<rt, registry, ctl, owner, cancellation, coroutine, workers,
                       shutdown, allowed>>

\* A registration of token generation gen at the backend of worker w.
Registration(st, gen, w) == [st |-> st, gen |-> gen, at |-> w]

\* Sleep::submit_completion: the timer is armed through the inbox of this worker.
SubmitSleep(t, gen) ==
    /\ timer' = [timer EXCEPT ![t] = Registration("Arming", gen, owner[t])]
    /\ Push(owner[t], Command("Arm", t, gen))

\* IoOperation::submit_completion: the operation is registered with the worker that its
\* source is bound to: this one, directly, or another, through that one's inbox.  (All
\* workers run as long as a task is registered.)
SubmitIoOperation(t, gen) ==
    \E w \in Workers :
        IF w = owner[t]
        THEN /\ timer' = [timer EXCEPT ![t] = Registration("Armed", gen, w)]
             /\ UNCHANGED <<inbox, notified>>
        ELSE /\ timer' = [timer EXCEPT ![t] = Registration("Arming", gen, w)]
             /\ Push(w, Command("Arm", t, gen))

\* RuntimeCoroDriver::submit_completion dereferences the coroutine; the operation is
\* submitted, or it is refused and completes with an Error event.
ApplySubmitCompletion(th) ==
    LET t == Task(th)
        gen == todo[th].gen
    IN  /\ Doing(th, "SubmitCompletion")
        /\ \/ /\ frame[t] = "Released"
              /\ Panic("released frame")
              /\ UNCHANGED <<timer, inbox, notified, todo, allowed>>
           \/ /\ frame[t] = "Live"
              /\ \/ await[t].kind = "sleep" /\ SubmitSleep(t, gen)
                 \/ await[t].kind = "io" /\ SubmitIoOperation(t, gen)
              /\ Then(th, Call("Install", t, gen, FALSE, "None"))
              /\ UNCHANGED <<panicked, allowed>>
           \/ /\ frame[t] = "Live" /\ await[t].kind = "io"
              /\ allowed.refusals > 0
              /\ allowed' = [allowed EXCEPT !.refusals = @ - 1]
              /\ Then(th, Call("complete_facility", t, gen, Stopping, "Error"))
              /\ UNCHANGED <<timer, inbox, notified, panicked>>
        /\ UNCHANGED <<rt, registry, control, frame, join, await, fired, jobs, ready,
                       worker, shutdown>>

\* TaskStateBase::install_completion_cancellation
InstallCompletionCancellation(th) ==
    LET t == Task(th)
        gen == todo[th].gen
    IN  /\ Doing(th, "Install")
        /\ \/ /\ Current(th, "Waiting") /\ cancellation[t] = 0
              /\ cancellation' = [cancellation EXCEPT ![t] = gen]
              /\ UNCHANGED <<timer, inbox, notified>>
           \/ /\ ~(Current(th, "Waiting") /\ cancellation[t] = 0)
              /\ CancelTimer(t, gen)
              /\ UNCHANGED cancellation
        /\ Then(th, Idle)
        /\ UNCHANGED <<rt, registry, ctl, owner, event, frame, join, await, fired, jobs,
                       ready, worker, shutdown, allowed, panicked>>

\* Mutant: a rejected job is dropped without cancelling the hand-off.
RejectedJobForgotten(th) ==
    /\ Doing(th, "SubmitFacility")
    /\ \/ /\ jobs' = jobs \cup {[task |-> Task(th), gen |-> todo[th].gen]}
          /\ UNCHANGED allowed
       \/ /\ allowed.refusals > 0
          /\ allowed' = [allowed EXCEPT !.refusals = @ - 1]
          /\ UNCHANGED jobs
    /\ Then(th, Idle)
    /\ UNCHANGED <<rt, registry, control, frame, join, await, fired, timer, workers,
                   shutdown, panicked>>

\* executor_endpoint_submit: the executor takes the job, or the rejected job is
\* cancelled, which stores the await's result and cancels the hand-off.
ApplySubmitFacility(th) ==
    LET t == Task(th)
    IN  /\ Doing(th, "SubmitFacility")
        /\ \/ /\ jobs' = jobs \cup {[task |-> t, gen |-> todo[th].gen]}
              /\ Then(th, Idle)
              /\ UNCHANGED <<await, allowed>>
           \/ /\ allowed.refusals > 0
              /\ allowed' = [allowed EXCEPT !.refusals = @ - 1]
              /\ await' = [await EXCEPT ![t].result = "Closed"]
              /\ Then(th, Call("cancel_handoff", t, todo[th].gen, Stopping, "None"))
              /\ UNCHANGED jobs
        /\ UNCHANGED <<rt, registry, control, frame, join, fired, timer, workers,
                       shutdown, panicked>>

\* TaskActionKind::CompleteAbort: cancel the pending completion, if it was installed.
ApplyCompleteAbort(th) ==
    /\ Doing(th, "CompleteAbort")
    /\ CancelTimer(Task(th), todo[th].gen)
    /\ Then(th, Call("Release", Task(th), 0, FALSE, "Aborted"))
    /\ UNCHANGED <<rt, registry, control, frame, join, await, fired, jobs, ready, worker,
                   shutdown, allowed, panicked>>

\* DriverTaskState::complete_value and complete_abort, first half: release_frame()
\* destroys the coroutine and the operation it awaits.
ReleaseFrame(th) ==
    /\ Doing(th, "Release")
    /\ frame' = [frame EXCEPT ![Task(th)] = "Released"]
    /\ CancelTimer(Task(th), timer[Task(th)].gen)
    /\ Then(th, Call("Publish", Task(th), 0, FALSE, todo[th].arg))
    /\ UNCHANGED <<rt, registry, control, join, await, fired, jobs, ready, worker,
                   shutdown, allowed, panicked>>

\* Second half: the JoinState's terminal.
PublishJoin(th) ==
    /\ Doing(th, "Publish")
    /\ join' = [join EXCEPT ![Task(th)] = todo[th].arg]
    /\ Then(th, Call("Retire", Task(th), 0, FALSE, "None"))
    /\ UNCHANGED <<rt, registry, control, frame, await, fired, timer, jobs, workers,
                   shutdown, allowed, panicked>>

\* Mutant: a finished task stays registered.
RetireKeepsTask(th) ==
    /\ Doing(th, "Retire")
    /\ Then(th, Idle)
    /\ UNCHANGED <<rt, registry, control, coroutine, workers, shutdown, allowed, panicked>>

\* RuntimeInner::retire
Retire(th) ==
    /\ Doing(th, "Retire")
    /\ registry' = registry \ {Task(th)}
    /\ Then(th, Idle)
    /\ UNCHANGED <<rt, control, coroutine, workers, shutdown, allowed, panicked>>

-----------------------------------------------------------------------------
(* The coroutine, driven by a worker (op "poll") or, after an executor       *)
(* await, by an executor thread (op "segment").                              *)

Driving(th) == Doing(th, "poll") \/ Doing(th, "segment")

External(th) == Doing(th, "segment")

\* DriverTaskState::poll hands a delivered event to the operation awaited.
TakeCompletionEvent(th) ==
    LET t == Task(th)
        matches == await[t].kind \in {"sleep", "io"} /\ await[t].submitted
                   /\ await[t].result = "None"
    IN  /\ Doing(th, "poll") /\ event[t] # "None"
        /\ event' = [event EXCEPT ![t] = "None"]
        /\ \/ /\ matches
              /\ await' = [await EXCEPT ![t].result = event[t]]
              /\ UNCHANGED panicked
           \/ /\ ~matches
              /\ Panic("unmatched event")
              /\ UNCHANGED await
        /\ UNCHANGED <<rt, registry, ctl, owner, cancellation, frame, join, fired, timer,
                       jobs, workers, todo, shutdown, allowed>>

\* Mutant: poll drives the coroutine before it takes the event.
AdvancesFirst(th) == Driving(th)

\* The driver advances the awaited operation once no event is pending.
Advancing(th) == Driving(th) /\ (Doing(th, "poll") => event[Task(th)] = "None")

\* advance() says continue_(): a future is ready; a sleep was completed or finds
\* its deadline passed; an I/O operation was completed; an executor await has its
\* answer (a refusal is only consumed back on the owner worker).
Finished(th) ==
    LET a == await[Task(th)]
    IN  \/ a.kind = "start"
        \/ a.kind = "future" /\ fired[Task(th)]
        \/ a.kind \in {"sleep", "io"} /\ ~External(th)
           /\ (a.result # "None" \/ fired[Task(th)])
        \/ a.kind = "exec" /\ a.result = "Open"
        \/ a.kind = "exec" /\ a.result = "Closed" /\ ~External(th)

\* handle.resume(): the coroutine leaves the await, whose operation is destroyed,
\* and reaches its next one or its end.
Resume(th) ==
    LET t == Task(th)
    IN  /\ Advancing(th) /\ Finished(th)
        /\ \E kind \in allowed.kinds \cup {"final"} :
              /\ kind = "final" \/ allowed.awaits[t] > 0
              /\ await' = [await EXCEPT ![t] = [kind |-> kind, submitted |-> FALSE,
                                                result |-> "None"]]
              /\ allowed' = [allowed EXCEPT !.awaits[t] = IF kind = "final" THEN @ ELSE @ - 1]
        /\ fired' = [fired EXCEPT ![t] = FALSE]
        /\ CancelTimer(t, timer[t].gen)
        /\ UNCHANGED <<rt, registry, control, frame, join, jobs, ready, worker, todo,
                       shutdown, panicked>>

\* What the drive ends with when the await is not finished.
Outcome(th) ==
    LET a == await[Task(th)]
    IN  CASE a.kind = "final" /\ ~External(th) -> "Complete"
          [] a.kind \in {"sleep", "io"} /\ ~External(th) /\ ~a.submitted -> "SubmitCompletion"
          [] a.kind = "exec" /\ a.result = "None" -> "SubmitFacility"
          [] OTHER -> "None"

\* The drive ends; is_stopping() is read before the control lock is taken.  A
\* pending future has registered the waker, a sleep or I/O operation is submitted,
\* an executor await has answered true.
EndDrive(th) ==
    LET t == Task(th)
        out == Outcome(th)
    IN  /\ Advancing(th) /\ ~Finished(th)
        /\ await' = [await EXCEPT ![t].submitted = @ \/ out = "SubmitCompletion"
                                                     \/ await[t].kind = "future",
                                  ![t].result = IF out = "SubmitFacility" THEN "Open" ELSE @]
        /\ Then(th, Call(IF External(th) THEN "end_facility" ELSE "end_runtime",
                         t, todo[th].gen, Stopping, out))
        /\ UNCHANGED <<rt, registry, control, frame, join, fired, timer, jobs, workers,
                       shutdown, allowed, panicked>>

\* ExecutorAwaitOperation::advance finds the executor closed.
ExecutorClosed(th) ==
    LET t == Task(th)
    IN  /\ Advancing(th) /\ await[t].kind = "exec" /\ await[t].result = "None"
        /\ allowed.refusals > 0
        /\ allowed' = [allowed EXCEPT !.refusals = @ - 1]
        /\ await' = [await EXCEPT ![t].result = "Closed"]
        /\ UNCHANGED <<rt, registry, control, frame, join, fired, timer, jobs, workers,
                       todo, shutdown, panicked>>

\* A sleep's deadline passes.
DeadlinePasses(t) ==
    /\ await[t].kind = "sleep" /\ ~fired[t] /\ frame[t] = "Live"
    /\ fired' = [fired EXCEPT ![t] = TRUE]
    /\ UNCHANGED <<rt, registry, control, frame, join, await, timer, jobs, workers, todo,
                   shutdown, allowed, panicked>>

-----------------------------------------------------------------------------
(* Threads outside the runtime: spawners, wakers, aborters, executors.       *)

Quiet == UNCHANGED <<rt, control, workers, shutdown, panicked>>

\* RuntimeInner::spawn: registered while the runtime runs, aborted otherwise.
Spawn(th, t) ==
    /\ Doing(th, "Idle") /\ t \in allowed.spawns
    /\ allowed' = [allowed EXCEPT !.spawns = @ \ {t}]
    /\ \/ /\ rt = "Running"
          /\ registry' = registry \cup {t}
          /\ Then(th, Call("activate", t, 0, FALSE, "None"))
       \/ /\ rt # "Running"
          /\ Then(th, Call("abort", t, 0, FALSE, "None"))
          /\ UNCHANGED registry
    /\ UNCHANGED coroutine /\ Quiet

\* A waker retained from an earlier poll is woken.
StrayWake(th, t) ==
    /\ Doing(th, "Idle") /\ await[t].kind # "start" /\ allowed.wakes > 0
    /\ allowed' = [allowed EXCEPT !.wakes = @ - 1]
    /\ Then(th, Call("wake", t, 0, FALSE, "None"))
    /\ UNCHANGED <<registry, coroutine>> /\ Quiet

\* The condition of a pending future comes true and its waker is woken.
Signal(th, t) ==
    /\ Doing(th, "Idle") /\ await[t].kind = "future" /\ ~fired[t] /\ frame[t] = "Live"
    /\ fired' = [fired EXCEPT ![t] = TRUE]
    /\ IF await[t].submitted THEN Then(th, Call("wake", t, 0, FALSE, "None"))
                             ELSE UNCHANGED todo
    /\ UNCHANGED <<registry, frame, join, await, timer, jobs, allowed>> /\ Quiet

\* TaskStateBase::schedule up to its control lock.
WakeReadsStopping(th) ==
    /\ Doing(th, "wake")
    /\ Then(th, Call("schedule", Task(th), 0, Stopping, "None"))
    /\ UNCHANGED <<registry, coroutine, allowed>> /\ Quiet

\* JoinHandle::abort
JoinHandleAbort(th, t) ==
    /\ Doing(th, "Idle") /\ t \notin allowed.spawns /\ allowed.aborts > 0
    /\ allowed' = [allowed EXCEPT !.aborts = @ - 1]
    /\ Then(th, Call("abort", t, 0, FALSE, "None"))
    /\ UNCHANGED <<registry, coroutine>> /\ Quiet

\* An executor thread runs a job: FacilityJob::run, up to the control lock.
RunJob(th, job) ==
    /\ Doing(th, "Idle")
    /\ jobs' = jobs \ {job}
    /\ Then(th, Call("begin_facility", job.task, job.gen, Stopping, "None"))
    /\ UNCHANGED <<registry, frame, join, await, fired, timer, allowed>> /\ Quiet

\* Mutant: a dropped job does not store the await's refusal.
CancelKeepsResult(th, job) ==
    /\ Doing(th, "Idle") /\ allowed.refusals > 0
    /\ allowed' = [allowed EXCEPT !.refusals = @ - 1]
    /\ jobs' = jobs \ {job}
    /\ Then(th, Call("cancel_handoff", job.task, job.gen, Stopping, "None"))
    /\ UNCHANGED <<registry, frame, join, await, fired, timer>> /\ Quiet

\* An executor drops a job it had accepted: ExecutorJob::cancel.
CancelJob(th, job) ==
    /\ Doing(th, "Idle") /\ allowed.refusals > 0
    /\ allowed' = [allowed EXCEPT !.refusals = @ - 1]
    /\ jobs' = jobs \ {job}
    /\ await' = [await EXCEPT ![job.task].result = "Closed"]
    /\ Then(th, Call("cancel_handoff", job.task, job.gen, Stopping, "None"))
    /\ UNCHANGED <<registry, frame, join, fired, timer>> /\ Quiet

-----------------------------------------------------------------------------
(* RuntimeWorker::run: drain the inbox, poll ready tasks, poll the backend.  *)

Loop(w, pc) == Doing(w, "Idle") /\ worker[w].life # "Stopped" /\ worker[w].pc = pc

WorkerOnly == UNCHANGED <<rt, registry, control, frame, join, await, jobs, shutdown,
                          allowed, panicked>>

\* drain_inbox: one command.  A completion another worker's backend reported is taken
\* to complete_facility.  Stop ends the drain; before the first poll of a drain_ready
\* it also drops the ready queue.  (Nothing calls complete_facility_batch, so no
\* FacilityBatch is ever queued.)
PopCommand(w) ==
    LET command == Head(inbox[w])
        t == command.task
    IN  /\ Loop(w, "inbox") /\ inbox[w] # <<>>
        /\ inbox' = [inbox EXCEPT ![w] = Tail(@)]
        /\ \/ /\ command.kind = "Schedule"
              /\ ready' = [ready EXCEPT ![w] = Append(@, command)]
              /\ UNCHANGED <<timer, worker, todo>>
           \/ /\ command.kind = "Arm"
              /\ timer' = IF timer[t] = Registration("Arming", command.gen, w)
                          THEN [timer EXCEPT ![t].st = "Armed"] ELSE timer
              /\ UNCHANGED <<ready, worker, todo>>
           \/ /\ command.kind = "Cancel"
              /\ UNCHANGED <<timer, ready, worker, todo>>
           \/ /\ command.kind = "FacilityComplete"
              /\ Then(w, Call("complete_facility", t, command.gen, Stopping, "Ready"))
              /\ UNCHANGED <<timer, ready, worker>>
           \/ /\ command.kind = "Stop"
              /\ worker' = [worker EXCEPT ![w].life = "Draining", ![w].pc = "ready"]
              /\ ready' = IF worker[w].left = CooperativeBudget
                          THEN [ready EXCEPT ![w] = <<>>] ELSE ready
              /\ UNCHANGED <<timer, todo>>
        /\ UNCHANGED <<fired, notified>> /\ WorkerOnly

InboxDrained(w) ==
    /\ Loop(w, "inbox") /\ inbox[w] = <<>>
    /\ worker' = [worker EXCEPT ![w].pc = "ready"]
    /\ UNCHANGED <<fired, timer, inbox, ready, notified, todo>> /\ WorkerOnly

\* Mutant: an exhausted budget drops the tickets that are left.
BudgetDropsTickets(w) ==
    /\ Loop(w, "ready")
    /\ ready[w] = <<>> \/ worker[w].left = 0
    /\ worker' = [worker EXCEPT ![w].pc = "backend", ![w].left = CooperativeBudget]
    /\ ready' = [ready EXCEPT ![w] = <<>>]
    /\ UNCHANGED <<fired, timer, inbox, notified, todo>> /\ WorkerOnly

\* Mutant: the budget is added up instead of reset.
BudgetAccumulates(w) ==
    /\ Loop(w, "ready")
    /\ ready[w] = <<>> \/ worker[w].left = 0
    /\ worker' = [worker EXCEPT ![w].pc = "backend", ![w].left = @ + CooperativeBudget]
    /\ UNCHANGED <<fired, timer, inbox, ready, notified, todo>> /\ WorkerOnly

\* drain_ready returns: the worker stops, or polls its backend.
ReadyDrained(w) ==
    /\ Loop(w, "ready")
    /\ ready[w] = <<>> \/ worker[w].left = 0
    /\ worker' = [worker EXCEPT ![w] =
          IF @.life = "Draining" THEN [@ EXCEPT !.life = "Stopped"]
          ELSE [@ EXCEPT !.pc = "backend", !.left = CooperativeBudget]]
    /\ UNCHANGED <<fired, timer, inbox, ready, notified, todo>> /\ WorkerOnly

\* Registrations at w whose event the backend can report.
Expired(w) ==
    {[task |-> t, gen |-> timer[t].gen] :
        t \in {u \in Tasks : timer[u].at = w /\ timer[u].st = "Armed"
                             /\ (fired[u] \/ await[u].kind = "io")}}

\* Mutant: the poll blocks although tasks are ready.
PollIgnoresReady(w) ==
    /\ Loop(w, "backend")
    /\ \E batch \in SUBSET Expired(w) :
          /\ notified[w] \/ batch # {}
          /\ worker' = [worker EXCEPT ![w].batch = batch, ![w].pc = "dispatch"]
    /\ notified' = [notified EXCEPT ![w] = FALSE]
    /\ UNCHANGED <<fired, timer, inbox, ready, todo>> /\ WorkerOnly

\* poll_backend: blocks until a wake or an event, unless tasks are ready.  Every
\* timer whose deadline has passed is collected.
PollBackend(w) ==
    /\ Loop(w, "backend")
    /\ \E batch \in SUBSET Expired(w) :
          /\ \A e \in Expired(w) : fired[e.task] => e \in batch
          /\ notified[w] \/ ready[w] # <<>> \/ batch # {}
          /\ worker' = [worker EXCEPT ![w].batch = batch, ![w].pc = "dispatch"]
    /\ notified' = [notified EXCEPT ![w] = FALSE]
    /\ UNCHANGED <<fired, timer, inbox, ready, todo>> /\ WorkerOnly

\* The operation is Ready before its token is completed: a poll of the task sees it.
PublishEvent(t) ==
    /\ timer' = [timer EXCEPT ![t].st = "Dead"]
    /\ fired' = [fired EXCEPT ![t] = TRUE]

\* dispatch_poll_batch: an event whose registration is still active publishes the
\* operation and takes its token to complete_facility, here when the task's owner is
\* this worker, in the owner's inbox otherwise.
DispatchEvent(w, e) ==
    /\ Loop(w, "dispatch")
    /\ worker' = [worker EXCEPT ![w].batch = @ \ {e}]
    /\ \/ /\ timer[e.task] = Registration("Armed", e.gen, w)
          /\ PublishEvent(e.task)
          /\ Then(w, IF owner[e.task] = w
                     THEN Call("complete_facility", e.task, e.gen, Stopping, "Ready")
                     ELSE Call("complete_remote", e.task, e.gen, FALSE, "Ready"))
       \/ /\ timer[e.task] # Registration("Armed", e.gen, w)
          /\ UNCHANGED <<timer, fired, todo>>
    /\ UNCHANGED <<inbox, ready, notified>> /\ WorkerOnly

\* FacilityCompletionToken::complete, when the owner is another worker: the event is
\* queued for the owner, or, when that no longer runs, the task is aborted.
CompleteRemote(th) ==
    LET t == Task(th)
    IN  /\ Doing(th, "complete_remote")
        /\ \/ /\ worker[owner[t]].life = "Running"
              /\ Push(owner[t], Command("FacilityComplete", t, todo[th].gen))
              /\ Then(th, Idle)
           \/ /\ worker[owner[t]].life # "Running"
              /\ Then(th, Call("abort", t, 0, FALSE, "None"))
              /\ UNCHANGED <<inbox, notified>>
        /\ UNCHANGED <<fired, timer, ready, worker>> /\ WorkerOnly

Dispatched(w) ==
    /\ Loop(w, "dispatch") /\ worker[w].batch = {}
    /\ worker' = [worker EXCEPT ![w].pc = "inbox"]
    /\ UNCHANGED <<fired, timer, inbox, ready, notified, todo>> /\ WorkerOnly

-----------------------------------------------------------------------------
(* Runtime::shutdown, run by Main.                                           *)

ShutdownOnly == UNCHANGED <<registry, control, coroutine, ready, worker, allowed, panicked>>

\* begin_shutdown
BeginShutdown ==
    /\ Doing(Main, "Idle") /\ allowed.shutdown /\ shutdown.at = "No"
    /\ rt' = "Stopping"
    /\ shutdown' = [shutdown EXCEPT !.at = "collect"]
    /\ UNCHANGED <<inbox, notified, todo>> /\ ShutdownOnly

\* abort_all_tasks: clone the registry, abort each task, wait until it is empty,
\* clear the workers' inboxes.
CollectTasks ==
    /\ Doing(Main, "Idle") /\ shutdown.at = "collect"
    /\ shutdown' = [at |-> "abort", victims |-> registry]
    /\ UNCHANGED <<rt, inbox, notified, todo>> /\ ShutdownOnly

AbortTask(t) ==
    /\ Doing(Main, "Idle") /\ shutdown.at = "abort"
    /\ shutdown' = [shutdown EXCEPT !.victims = @ \ {t}]
    /\ Then(Main, Call("abort", t, 0, FALSE, "None"))
    /\ UNCHANGED <<rt, inbox, notified>> /\ ShutdownOnly

\* Mutant: shutdown does not wait for the registry to empty.
AwaitsNobody ==
    /\ Doing(Main, "Idle") /\ shutdown.at = "abort" /\ shutdown.victims = {}
    /\ shutdown' = [at |-> "clear", victims |-> Workers]
    /\ UNCHANGED <<rt, inbox, notified, todo>> /\ ShutdownOnly

AwaitRegistry ==
    /\ Doing(Main, "Idle") /\ shutdown.at = "abort" /\ shutdown.victims = {}
    /\ registry = {}
    /\ shutdown' = [at |-> "clear", victims |-> Workers]
    /\ UNCHANGED <<rt, inbox, notified, todo>> /\ ShutdownOnly

ClearInbox(w) ==
    /\ Doing(Main, "Idle") /\ shutdown.at = "clear"
    /\ inbox' = [inbox EXCEPT ![w] = <<>>]
    /\ shutdown' = IF shutdown.victims = {w} THEN [at |-> "stop", victims |-> Workers]
                   ELSE [shutdown EXCEPT !.victims = @ \ {w}]
    /\ UNCHANGED <<rt, notified, todo>> /\ ShutdownOnly

\* stop_workers: WorkerHandle::request_stop for each.
RequestStop(w) ==
    /\ Doing(Main, "Idle") /\ shutdown.at = "stop"
    /\ Push(w, [kind |-> "Stop", task |-> Main, gen |-> 0])
    /\ shutdown' = [shutdown EXCEPT !.victims = @ \ {w}]
    /\ UNCHANGED <<rt, todo>> /\ ShutdownOnly

\* Join the worker threads, finish_shutdown.
FinishShutdown ==
    /\ Doing(Main, "Idle") /\ shutdown.at = "stop" /\ shutdown.victims = {}
    /\ \A w \in Workers : worker[w].life = "Stopped"
    /\ rt' = "Stopped"
    /\ shutdown' = [shutdown EXCEPT !.at = "done"]
    /\ UNCHANGED <<inbox, notified, todo>> /\ ShutdownOnly

-----------------------------------------------------------------------------
\* The next step of the call a thread is in.
LockedStep(th) ==
    \/ Activate(th) \/ Schedule(th) \/ Abort(th) \/ EndRuntimeExecution(th)
    \/ CompleteFacility(th) \/ BeginFacilityExecution(th) \/ CancelFacilityHandoff(th)
    \/ EndFacilityExecution(th)

ApplyStep(th) ==
    \/ ApplySchedule(th) \/ Deliver(th) \/ ApplySubmitCompletion(th)
    \/ InstallCompletionCancellation(th) \/ ApplySubmitFacility(th)
    \/ ApplyCompleteAbort(th) \/ ReleaseFrame(th) \/ PublishJoin(th) \/ Retire(th)
    \/ WakeReadsStopping(th) \/ CompleteRemote(th)

DriveStep(th) ==
    \/ TakeCompletionEvent(th) \/ Resume(th) \/ EndDrive(th) \/ ExecutorClosed(th)

ThreadStep(th) == LockedStep(th) \/ ApplyStep(th) \/ DriveStep(th)

WorkerStep(w) ==
    \/ TryBeginRuntime(w) \/ PopCommand(w) \/ InboxDrained(w) \/ ReadyDrained(w)
    \/ PollBackend(w) \/ Dispatched(w)
    \/ \E e \in worker[w].batch : DispatchEvent(w, e)

JobStep(th) == \E job \in jobs : RunJob(th, job) \/ CancelJob(th, job)

OutsideStep(th) ==
    \E t \in Tasks : Spawn(th, t) \/ StrayWake(th, t) \/ JoinHandleAbort(th, t)

ShutdownStep ==
    \/ CollectTasks \/ AwaitRegistry \/ FinishShutdown
    \/ \E t \in shutdown.victims \cap Tasks : AbortTask(t)
    \/ \E w \in shutdown.victims \cap Workers : ClearInbox(w) \/ RequestStop(w)

\* Nothing is left to do, or the process has panicked.
Terminated ==
    \/ panicked # "No"
    \/ /\ rt = "Stopped" \/ ~allowed.shutdown
       /\ allowed.spawns = {} /\ registry = {}
       /\ \A th \in AllThreads : Doing(th, "Idle")

Next ==
    \/ \E th \in AllThreads : ThreadStep(th)
    \/ \E w \in Workers : WorkerStep(w)
    \/ \E th \in Threads : JobStep(th) \/ OutsideStep(th) \/ \E t \in Tasks : Signal(th, t)
    \/ \E t \in Tasks : DeadlinePasses(t)
    \/ BeginShutdown \/ ShutdownStep
    \/ Terminated /\ UNCHANGED vars

Spec == Init /\ [][Next]_vars

\* Threads are scheduled; time passes; a future's condition eventually holds; an
\* executor runs or drops the jobs it accepted (executor.cppm says it must).
\* Spawns, stray wakes, aborts and the start of a shutdown may never happen.
Fairness ==
    /\ \A th \in AllWorkers \cup Threads \cup {Main} :
          WF_vars(th \in AllThreads /\ ThreadStep(th))
    /\ \A w \in AllWorkers : WF_vars(w \in Workers /\ WorkerStep(w))
    /\ \A t \in Tasks : WF_vars(DeadlinePasses(t))
    /\ \A t \in Tasks : WF_vars(\E th \in Threads : Signal(th, t))
    /\ WF_vars(\E th \in Threads : JobStep(th))
    /\ WF_vars(ShutdownStep)

LiveSpec == Spec /\ Fairness

-----------------------------------------------------------------------------
(* Properties.                                                               *)

\* Every variable keeps its type: lifecycles and generations of TaskControl, the
\* commands of an inbox, the place of every thread and worker.
TypeOK ==
    /\ rt \in {"Running", "Stopping", "Stopped"}
    /\ registry \subseteq Tasks
    /\ ctl \in [Tasks -> [life : {"Created", "Queued", "RunningRuntime", "Waiting",
                                  "FacilityQueued", "FacilityRunning", "Completed"},
                          sgen : Nat, fgen : Nat, wake : BOOLEAN, cancel : BOOLEAN]]
    /\ owner \in [Tasks -> Workers]
    /\ cancellation \in [Tasks -> Nat]
    /\ event \in [Tasks -> {"None", "Ready", "Error"}]
    /\ frame \in [Tasks -> {"Live", "Released"}]
    /\ join \in [Tasks -> {"Pending", "Value", "Aborted"}]
    /\ await \in [Tasks -> [kind : Awaits \cup {"start", "final"}, submitted : BOOLEAN,
                            result : {"None", "Ready", "Error", "Open", "Closed"}]]
    /\ fired \in [Tasks -> BOOLEAN]
    /\ timer \in [Tasks -> [st : {"None", "Arming", "Armed", "Dead"}, gen : Nat, at : Workers]]
    /\ jobs \subseteq [task : Tasks, gen : Nat]
    /\ \A w \in Workers :
          /\ \A i \in DOMAIN inbox[w] :
                inbox[w][i].kind \in {"Schedule", "Arm", "Cancel", "FacilityComplete", "Stop"}
          /\ \A i \in DOMAIN ready[w] : ready[w][i].kind = "Schedule"
          /\ worker[w].life \in {"Running", "Draining", "Stopped"}
          /\ worker[w].pc \in {"inbox", "ready", "backend", "dispatch"}
          /\ worker[w].left \in 0..CooperativeBudget
          /\ worker[w].batch \subseteq [task : Tasks, gen : Nat]
    /\ notified \in [Workers -> BOOLEAN]
    /\ \A th \in AllThreads : todo[th] = Idle \/ todo[th].task \in Tasks
    /\ panicked \in {"No", "overlapping event", "unmatched event", "released frame"}

\* The threads in one of the calls ops for task t.
ThreadsIn(t, ops) == {th \in AllThreads : todo[th].op \in ops /\ todo[th].task = t}

\* One thread at a time drives a coroutine: the owner worker's poll and an executor
\* segment never overlap, whatever tokens and tickets are still in flight, and the
\* frame is not released under the thread that drives it.
ExclusiveFrame ==
    \A t \in Tasks :
        LET drivers == ThreadsIn(t, {"poll", "segment"})
        IN  /\ Cardinality(drivers) <= 1
            /\ drivers # {} => frame[t] = "Live"
                               /\ ThreadsIn(t, {"CompleteAbort", "Release"}) = {}

\* Places where t's current schedule ticket can be.
Tickets(t) ==
    LET ticket == Command("Schedule", t, ctl[t].sgen)
        In(q) == Cardinality({i \in DOMAIN q : q[i] = ticket})
        held == {th \in ThreadsIn(t, {"Schedule", "Deliver"}) : todo[th].gen = ctl[t].sgen}
    IN  In(inbox[owner[t]]) + In(ready[owner[t]]) + Cardinality(held)

\* A Queued task has exactly one current ticket, in its owner's inbox or ready
\* queue or in the hands of a thread about to put it there; in any other state it
\* has none.  No ticket is dropped by the budget, by a stale-ticket skip, by the
\* inbox clearing of a shutdown or by a rejected push, and none is duplicated.
TicketAccounted ==
    panicked = "No" =>
        \A t \in Tasks : Tickets(t) = IF ctl[t].life = "Queued" THEN 1 ELSE 0

\* A task waiting for an executor has exactly one current hand-off: being
\* submitted, posted, or in the hands of a thread about to run or cancel it.
HandoffAccounted ==
    \A t \in Tasks :
        LET held == {th \in ThreadsIn(t, {"SubmitFacility", "begin_facility", "cancel_handoff"}) :
                        todo[th].gen = ctl[t].fgen}
            posted == {j \in jobs : j.task = t /\ j.gen = ctl[t].fgen}
        IN  ctl[t].life = "FacilityQueued" <=> Cardinality(held) + Cardinality(posted) = 1

\* No wake-up is lost: a task Waiting on a future whose condition holds has a thread
\* about to schedule it, and a task Waiting on a submitted sleep or I/O operation has
\* a live registration, or a thread about to make it or to deliver its event, or its
\* event in the owner worker's inbox.
WaitAccounted ==
    panicked = "No" =>
    \A t \in Tasks : ctl[t].life = "Waiting" =>
        /\ await[t].kind = "future" /\ fired[t] => ThreadsIn(t, {"wake", "schedule"}) # {}
        /\ await[t].kind \in {"sleep", "io"} =>
              \/ timer[t].st \in {"Arming", "Armed"} /\ timer[t].gen = ctl[t].fgen
              \/ \E th \in ThreadsIn(t, {"SubmitCompletion", "complete_facility",
                                          "complete_remote"}) :
                    todo[th].gen = ctl[t].fgen
              \/ \E i \in DOMAIN inbox[owner[t]] :
                    inbox[owner[t]][i] = Command("FacilityComplete", t, ctl[t].fgen)

\* completion_event never overlaps and always finds the await it belongs to: neither
\* protocol panic (complete_facility's, DriverTaskState::poll's) is reached.  It holds
\* when every completion is reported by the owner worker's own backend, whatever else
\* wakes the task, and when a remote backend reports some but nothing wakes the task
\* before its event; with both a remote backend and a stray wake it does not.
EventsMatch == panicked \notin {"overlapping event", "unmatched event"}

\* An executor await that answered true is only left on the executor: a step that
\* resumes the coroutine past it, to another executor await as well, is made while a
\* thread runs a segment of it.
ExecutorResumes ==
    [][\A t \in Tasks :
          /\ await[t].kind = "exec" /\ await[t].result = "Open"
          /\ await'[t].kind # "exec" \/ await'[t].result = "None"
          => ThreadsIn(t, {"segment"}) # {}]_vars

\* When shutdown has returned, every task that was ever activated has published its
\* terminal and no thread drives a coroutine.
ShutdownQuiesces ==
    rt = "Stopped" =>
        \A t \in Tasks :
            /\ ThreadsIn(t, {"poll", "segment"}) = {}
            /\ join[t] = "Pending" => \/ ctl[t].life = "Created"
                                      \/ ctl[t].life = "Completed" /\ ctl[t].sgen = 1

\* apply(SubmitCompletion) finds the coroutine it submits for: the Option that
\* RuntimeCoroDriver::submit_completion dereferences is Some.
FrameLiveAtSubmit == panicked # "released frame"

\* Every registered task reaches its terminal.
TasksComplete == \A t \in Tasks : t \in registry ~> join[t] # "Pending"

\* Runtime::shutdown returns, whatever the tasks are doing when it is called.
ShutdownTerminates == rt = "Stopping" ~> rt = "Stopped"

-----------------------------------------------------------------------------
\* The verdict a thread is carrying to t's JoinState, or the one published there.
Verdict(t) ==
    LET carried == ThreadsIn(t, {"Release", "Publish"})
    IN  CASE join[t] # "Pending" -> join[t]
          [] join[t] = "Pending" /\ carried # {} -> todo[CHOOSE th \in carried : TRUE].arg
          [] join[t] = "Pending" /\ carried = {} /\ ThreadsIn(t, {"CompleteAbort"}) # {} -> "Aborted"
          [] OTHER -> "None"

Generations(t, ops) == {todo[th].gen : th \in ThreadsIn(t, ops)}

Control(t) == INSTANCE TaskControl WITH
    life <- ctl[t].life, sgen <- ctl[t].sgen, fgen <- ctl[t].fgen,
    wake <- ctl[t].wake, cancel <- ctl[t].cancel,
    polls <- Generations(t, {"poll", "end_runtime"}),
    segments <- Generations(t, {"segment", "end_facility"}),
    verdict <- Verdict(t),
    closing <- Cardinality(ThreadsIn(t, {"CompleteAbort", "Release"})),
    publishing <- Cardinality(ThreadsIn(t, {"Publish"})),
    frame <- frame[t], outcome <- join[t]

\* The runtime implements TaskControl for every task: each step of a worker, an
\* executor, a waker, an aborter or the shutdown is a step of the task's control
\* block or leaves it alone.
ImplementsTaskControl ==
    /\ \A t \in Tasks : Control(t)!Init
    /\ [][\A t \in Tasks : Control(t)!Next \/ UNCHANGED Control(t)!vars]_vars
=============================================================================
