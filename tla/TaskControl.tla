----------------------------- MODULE TaskControl -----------------------------
(***************************************************************************)
(* What TaskStateBase promises about one task, whatever queues, workers,    *)
(* executors and timers do with its tickets and tokens: the TaskControl     *)
(* block (src/std/src/async/runtime_core.cppm), the locked sections of      *)
(* TaskStateBase, and the leases under which the coroutine is driven.       *)
(*                                                                          *)
(* Tickets and tokens are not tracked: a locked section that checks one may *)
(* be entered at any time with any generation the block has ever issued, so *)
(* late, lost, repeated and reordered deliveries are all allowed.  `stop'   *)
(* is the value of is_stopping() read before the lock, any value here.      *)
(***************************************************************************)
EXTENDS Naturals

VARIABLES
    life,      \* TaskControl::lifecycle
    sgen,      \* schedule_generation
    fgen,      \* facility_generation
    wake,      \* wake_requested
    cancel,    \* cancel_requested
    polls,     \* generations of the live RuntimeExecutionLeases
    segments,  \* generations of the live FacilityExecutionLeases
    verdict,   \* the terminal decided: "None", "Value" or "Aborted"
    closing,   \* terminal actions that have not released the frame yet
    publishing,\* terminal actions that released it and have not published
    frame,     \* the coroutine frame
    outcome    \* what the JoinHandle can observe

vars == <<life, sgen, fgen, wake, cancel, polls, segments, verdict, closing,
          publishing, frame, outcome>>

Lifecycles == {"Created", "Queued", "RunningRuntime", "Waiting", "FacilityQueued",
               "FacilityRunning", "Completed"}

Init ==
    /\ life = "Created" /\ sgen = 0 /\ fgen = 0 /\ wake = FALSE /\ cancel = FALSE
    /\ polls = {} /\ segments = {}
    /\ verdict = "None" /\ closing = 0 /\ publishing = 0
    /\ frame = "Live" /\ outcome = "Pending"

\* Mutant: the terminal transition is left to whoever applies it.
CompleteLater(result) ==
    /\ sgen' = sgen + 1 /\ fgen' = fgen + 1 /\ wake' = FALSE
    /\ verdict' = result /\ closing' = closing + 1
    /\ UNCHANGED <<life, publishing, frame, outcome>>

\* complete_locked, and the terminal action handed to the caller.
Complete(result) ==
    /\ life' = "Completed"
    /\ sgen' = sgen + 1 /\ fgen' = fgen + 1 /\ wake' = FALSE
    /\ verdict' = result /\ closing' = closing + 1
    /\ UNCHANGED <<publishing, frame, outcome>>

\* A section that ends in another lifecycle, with these generations and wake flag.
Become(to, s, f, w) ==
    /\ life' = to /\ sgen' = s /\ fgen' = f /\ wake' = w
    /\ UNCHANGED <<cancel, verdict, closing, publishing, frame, outcome>>

\* make_schedule_action
Requeue(w) == Become("Queued", sgen + 1, fgen, w)

\* cancel_requested is set and the task is completed as aborted.
CompleteAborted == cancel' = TRUE /\ Complete("Aborted")

\* A flag is set and nothing else happens.
Flag(c, w) ==
    /\ cancel' = c /\ wake' = w
    /\ UNCHANGED <<life, sgen, fgen, verdict, closing, publishing, frame, outcome>>

Leases == UNCHANGED <<polls, segments>>

\* TaskStateBase::activate
Activate ==
    /\ life = "Created" /\ ~cancel
    /\ Requeue(wake)
    /\ Leases

\* Mutant: a wake re-queues a task that is being polled.
ScheduleRunning(stop) ==
    /\ \/ life \in {"Created", "Waiting"} /\ stop /\ CompleteAborted
       \/ life \in {"Waiting", "RunningRuntime"} /\ ~stop /\ Requeue(wake)
    /\ Leases

\* TaskStateBase::schedule
Schedule(stop) ==
    /\ \/ life \in {"Created", "Waiting"} /\ stop /\ CompleteAborted
       \/ life = "Waiting" /\ ~stop /\ Requeue(wake)
       \/ /\ life \in {"Created", "RunningRuntime", "FacilityQueued", "FacilityRunning"}
          /\ ~stop /\ Flag(cancel, TRUE)
       \/ /\ life \in {"RunningRuntime", "FacilityQueued", "FacilityRunning"}
          /\ stop /\ Flag(TRUE, wake)
    /\ Leases

\* Mutant: abort completes a task that is being driven.
AbortAnything == life # "Completed" /\ CompleteAborted /\ Leases

\* TaskStateBase::abort
Abort ==
    /\ \/ life \in {"Created", "Queued", "Waiting", "FacilityQueued"} /\ CompleteAborted
       \/ life \in {"RunningRuntime", "FacilityRunning"} /\ Flag(TRUE, wake)
    /\ Leases

\* TaskStateBase::try_begin_runtime with a ticket of generation g
BeginPoll(g) ==
    /\ life = "Queued" /\ ~cancel /\ g = sgen
    /\ Become("RunningRuntime", sgen, fgen, wake)
    /\ polls' = polls \cup {g}
    /\ UNCHANGED segments

\* Mutant: a value wins over a requested cancellation.
EndPollIgnoresCancel(g, stop, out) ==
    /\ polls' = polls \ {g} /\ UNCHANGED segments
    /\ \/ life = "RunningRuntime" /\ sgen = g /\ out = "Complete"
          /\ Complete("Value") /\ UNCHANGED cancel
       \/ life = "RunningRuntime" /\ sgen = g /\ out # "Complete" /\ Requeue(FALSE)

\* TaskStateBase::end_runtime_execution of lease g with outcome out
EndPoll(g, stop, out) ==
    LET mine == life = "RunningRuntime" /\ sgen = g
        dying == cancel \/ stop
    IN  /\ polls' = polls \ {g} /\ UNCHANGED segments
        /\ \/ ~mine /\ Flag(cancel, wake)
           \/ mine /\ dying /\ CompleteAborted
           \/ mine /\ ~dying /\ out = "Complete" /\ Complete("Value") /\ UNCHANGED cancel
           \/ /\ mine /\ ~dying /\ out = "SubmitCompletion"
              /\ Become("Waiting", sgen, fgen + 1, FALSE)
           \/ /\ mine /\ ~dying /\ out = "SubmitFacility"
              /\ Become("FacilityQueued", sgen, fgen + 1, FALSE)
           \/ mine /\ ~dying /\ out = "None" /\ wake /\ Requeue(FALSE)
           \/ mine /\ ~dying /\ out = "None" /\ ~wake /\ Become("Waiting", sgen, fgen, wake)

\* TaskStateBase::complete_facility with a token of generation g
CompleteFacility(g, stop) ==
    /\ life = "Waiting" /\ fgen = g
    /\ IF cancel \/ stop THEN CompleteAborted ELSE Requeue(wake)
    /\ Leases

\* TaskStateBase::begin_facility_execution with a token of generation g
BeginSegment(g, stop) ==
    /\ life = "FacilityQueued" /\ fgen = g
    /\ \/ (cancel \/ stop) /\ CompleteAborted /\ UNCHANGED segments
       \/ /\ ~(cancel \/ stop)
          /\ Become("FacilityRunning", sgen, fgen, wake)
          /\ segments' = segments \cup {g}
    /\ UNCHANGED polls

\* TaskStateBase::cancel_facility_handoff with a token of generation g
CancelHandoff(g, stop) ==
    /\ life = "FacilityQueued" /\ fgen = g
    /\ IF cancel \/ stop THEN CompleteAborted ELSE Requeue(FALSE)
    /\ Leases

\* TaskStateBase::end_facility_execution of lease g
EndSegment(g, stop, again) ==
    LET mine == life = "FacilityRunning" /\ fgen = g
    IN  /\ segments' = segments \ {g} /\ UNCHANGED polls
        /\ \/ ~mine /\ Flag(cancel, wake)
           \/ mine /\ (cancel \/ stop) /\ CompleteAborted
           \/ /\ mine /\ ~(cancel \/ stop) /\ again
              /\ Become("FacilityQueued", sgen, fgen + 1, FALSE)
           \/ mine /\ ~(cancel \/ stop) /\ ~again /\ Requeue(FALSE)

\* complete_value, complete_abort: release_frame(), then the JoinState's terminal.
Release ==
    /\ closing > 0
    /\ closing' = closing - 1 /\ publishing' = publishing + 1
    /\ frame' = "Released"
    /\ UNCHANGED <<life, sgen, fgen, wake, cancel, polls, segments, verdict, outcome>>

\* Mutant: the terminal is visible before the frame is released.
PublishEarly ==
    /\ closing > 0
    /\ outcome' = verdict
    /\ UNCHANGED <<life, sgen, fgen, wake, cancel, polls, segments, verdict, closing,
                   publishing, frame>>

Publish ==
    /\ publishing > 0
    /\ publishing' = publishing - 1
    /\ outcome' = verdict
    /\ UNCHANGED <<life, sgen, fgen, wake, cancel, polls, segments, verdict, closing, frame>>

Outcomes == {"Complete", "SubmitCompletion", "SubmitFacility", "None"}

Next ==
    \/ Activate \/ Abort \/ Release \/ Publish
    \/ \E g \in 0..sgen : BeginPoll(g)
    \/ \E stop \in BOOLEAN :
          \/ Schedule(stop)
          \/ \E g \in polls, out \in Outcomes : EndPoll(g, stop, out)
          \/ \E g \in 0..fgen :
                CompleteFacility(g, stop) \/ BeginSegment(g, stop) \/ CancelHandoff(g, stop)
          \/ \E g \in segments, again \in BOOLEAN : EndSegment(g, stop, again)

Spec == Init /\ [][Next]_vars

-----------------------------------------------------------------------------
\* Every part of the control block and of the terminal has its type.
TypeOK ==
    /\ life \in Lifecycles
    /\ sgen \in Nat /\ fgen \in Nat
    /\ wake \in BOOLEAN /\ cancel \in BOOLEAN
    /\ polls \subseteq Nat /\ segments \subseteq Nat
    /\ verdict \in {"None", "Value", "Aborted"}
    /\ closing \in Nat /\ publishing \in Nat
    /\ frame \in {"Live", "Released"}
    /\ outcome \in {"Pending", "Value", "Aborted"}

\* The coroutine is driven under at most one lease, a worker's or an executor's, and
\* the frame is live and nobody is about to release it while it is driven, although
\* abort, wakes and facility completions for the task may run at the same time.
ExclusiveDrive ==
    /\ \A g, h \in polls : g = h
    /\ \A g, h \in segments : g = h
    /\ polls = {} \/ segments = {}
    /\ polls # {} \/ segments # {} => frame = "Live" /\ closing = 0

\* The terminal is reached once: of all the sections that may complete the task one
\* does, it releases the frame and publishes once, and the JoinHandle observes the
\* terminal only after the frame is gone.
SingleTerminal ==
    /\ closing + publishing <= 1
    /\ closing + publishing = 1 => life = "Completed" /\ outcome = "Pending"
    /\ outcome # "Pending" => life = "Completed" /\ frame = "Released" /\ outcome = verdict

\* A cancellation that was accepted wins: once cancel_requested is set, the task can
\* only be published as aborted.
CancelWins == cancel => verdict # "Value" /\ outcome # "Value"

\* A completed task stays completed and its published outcome never changes; no
\* late ticket, token, wake or abort revives it.
TerminalFinal ==
    [][/\ life = "Completed" => life' = "Completed" /\ verdict' = verdict /\ cancel' = cancel
       /\ outcome # "Pending" => outcome' = outcome]_vars

\* A lease that ends finds the task still in the state it was taken in: the early
\* returns of end_runtime_execution and end_facility_execution are never taken.
LeaseIsCurrent ==
    /\ \A g \in polls : life = "RunningRuntime" /\ g = sgen
    /\ \A g \in segments : life = "FacilityRunning" /\ g = fgen
=============================================================================
