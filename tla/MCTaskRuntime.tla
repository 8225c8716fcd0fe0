---------------------------- MODULE MCTaskRuntime ----------------------------
(* Instances of the runtime core for TLC. *)
EXTENDS TaskRuntime, TLC

CONSTANTS w1, w2, t1, t2

\* Outside threads are interchangeable: no action or invariant tells them apart.
ThreadSymmetry == Permutations(Threads)

\* A scenario, with its bounds in the order awaits, wakes, aborts, refusals.
Scenario(pool, spawned, kinds, bounds, shuts) ==
    [workers |-> pool, tasks |-> spawned, kinds |-> kinds, awaits |-> bounds[1],
     wakes |-> bounds[2], aborts |-> bounds[3], refusals |-> bounds[4], shutdown |-> shuts]

\* task_runtime: everything a coroutine can await on one worker, with an abort or with
\* a shutdown; and the completion facilities on two workers, with a shutdown.
SafetyScenarios ==
    {Scenario({w1}, {t1}, Awaits, <<2, 1, 1, 1>>, FALSE),
     Scenario({w1}, {t1}, Awaits, <<1, 1, 0, 1>>, TRUE),
     Scenario({w1, w2}, {t1}, {"sleep", "io"}, <<2, 0, 0, 1>>, TRUE)}

\* task_liveness: futures and executor segments, a stray wake, and a shutdown.
LivenessScenarios == {Scenario({w1}, {t1}, {"future", "exec"}, <<2, 1, 0, 1>>, TRUE)}

\* task_timers: two tasks on one worker; one task, and then two, on two workers.
TimerScenarios ==
    {Scenario({w1}, {t1, t2}, {"sleep", "io"}, <<2, 0, 0, 1>>, FALSE),
     Scenario({w1, w2}, {t1}, {"sleep", "io"}, <<2, 0, 0, 1>>, FALSE),
     Scenario({w1, w2}, {t1, t2}, {"io"}, <<1, 0, 0, 0>>, FALSE)}

\* late_remote_event: I/O on two workers and one stray wake.
RemoteScenarios == {Scenario({w1, w2}, {t1}, {"future", "io"}, <<2, 1, 0, 0>>, FALSE)}

\* abort_before_submit: one sleep and a shutdown.
AbortScenarios == {Scenario({w1}, {t1}, {"sleep"}, <<1, 0, 0, 0>>, TRUE)}

\* stray_wake_loses_sleep: one sleep and one stray wake.
StrayScenarios == {Scenario({w1}, {t1}, {"sleep"}, <<1, 1, 0, 0>>, FALSE)}
=============================================================================
