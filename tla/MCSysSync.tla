------------------------------ MODULE MCSysSync ------------------------------
(***************************************************************************)
(* The primitives of sys::sync on the platforms that have them: the futex   *)
(* mutex, condition variable, parker and once of Linux and Windows, whose   *)
(* futex_wait differs, and the semaphore parker and queue once of Apple's   *)
(* systems.  `part' picks one and never changes; only that one takes steps. *)
(***************************************************************************)
EXTENDS FutexMutex, Integers, Sequences

CONSTANTS
    Producers, Consumers, \* threads that use the condition variable
    Timed, NotifyAll,     \* those that wait with a timeout, and that call notify_all
    Unparkers,            \* threads that unpark the one that parks
    Callers, Waiters,     \* threads that call a Once, and that wait for it
    Nobody

VARIABLES
    part,
    owner, job, cv, expected, dozing, items, over,                \* condition variable
    pstate, timed, ppc, waking, permits,                          \* parkers
    oword, ocur, qstate, qtop, qcur, qnext, qsignaled, qlive,     \* onces
    qtoken, qcursor, opc

condvarVars == <<owner, job, cv, expected, dozing, items, over>>
parkerVars == <<pstate, timed, ppc, waking, permits>>
queueVars == <<qstate, qtop, qcur, qnext, qsignaled, qlive, qtoken, qcursor>>
onceVars == <<oword, ocur, queueVars, opc>>
vars == <<part, mutexVars, condvarVars, parkerVars, onceVars>>

WindowsMutex == INSTANCE FutexMutex WITH Rechecks <- FALSE
LinuxCondvar == INSTANCE FutexCondvar WITH Rechecks <- TRUE, CvModulus <- 4
WindowsCondvar == INSTANCE FutexCondvar WITH Rechecks <- FALSE, CvModulus <- 4
LinuxParker == INSTANCE FutexParker WITH Rechecks <- TRUE, state <- pstate, pc <- ppc
WindowsParker == INSTANCE FutexParker WITH Rechecks <- FALSE, state <- pstate, pc <- ppc
AppleParker == INSTANCE DarwinParker WITH state <- pstate, pc <- ppc, signaling <- waking
LinuxOnce == INSTANCE FutexOnce WITH word <- oword, cur <- ocur, pc <- opc
AppleOnce == INSTANCE QueueOnce WITH state <- qstate, top <- qtop, cur <- qcur,
                next <- qnext, signaled <- qsignaled, live <- qlive, token <- qtoken,
                cursor <- qcursor, pc <- opc

MCInit ==
    /\ part \in {"mutex", "windows mutex", "condvar", "windows condvar", "parker",
                 "windows parker", "apple parker", "once", "apple once"}
    /\ Init /\ LinuxCondvar!Init
    /\ LinuxParker!Init /\ AppleParker!Init
    /\ LinuxOnce!Init /\ AppleOnce!Init

Mutex(A) == A /\ UNCHANGED <<part, condvarVars, parkerVars, onceVars>>

Condvar(A) == A /\ UNCHANGED <<part, mutexVars, parkerVars, onceVars>>

Parker(A) == A /\ UNCHANGED <<part, mutexVars, condvarVars, onceVars>>

Once(A) == A /\ UNCHANGED <<part, mutexVars, condvarVars, parkerVars>>

\* The next-state relations of the primitives.
MCNext ==
    \/ part = "mutex" /\ Mutex(Next)
    \/ part = "windows mutex" /\ Mutex(WindowsMutex!Next)
    \/ part = "condvar" /\ Condvar(LinuxCondvar!Next)
    \/ part = "windows condvar" /\ Condvar(WindowsCondvar!Next)
    \/ part = "parker" /\ Parker(LinuxParker!Next) /\ UNCHANGED permits
    \/ part = "windows parker" /\ Parker(WindowsParker!Next) /\ UNCHANGED permits
    \/ part = "apple parker" /\ Parker(AppleParker!Next)
    \/ part = "once" /\ Once(LinuxOnce!Next) /\ UNCHANGED queueVars
    \/ part = "apple once" /\ Once(AppleOnce!Next) /\ UNCHANGED <<oword, ocur>>

\* What each primitive's fairness asks of its threads.
MutexRuns(t) ==
    \/ part = "mutex" /\ Mutex(Run(t))
    \/ part = "windows mutex" /\ Mutex(WindowsMutex!Run(t))

CondvarRuns(t) ==
    \/ part = "condvar" /\ Condvar(LinuxCondvar!Run(t))
    \/ part = "windows condvar" /\ Condvar(WindowsCondvar!Run(t))

\* EINTR, or the spurious return that WaitOnAddress may make.
WaitInterrupted(t) ==
    \/ part = "condvar" /\ Condvar(LinuxCondvar!Interrupt(t))
    \/ part = "windows condvar" /\ Condvar(WindowsCondvar!Interrupt(t))

TimePasses(t) == part \in {"condvar", "windows condvar"} /\ Condvar(LinuxCondvar!Elapse(t))

WaitExpires(t) == part \in {"condvar", "windows condvar"} /\ Condvar(LinuxCondvar!Expire(t))

ParkerRuns ==
    \/ part = "parker" /\ Parker(LinuxParker!Run) /\ UNCHANGED permits
    \/ part = "windows parker" /\ Parker(WindowsParker!Run) /\ UNCHANGED permits
    \/ part = "apple parker" /\ Parker(AppleParker!Run)

UnparkEnds(u) ==
    \/ part = "parker" /\ Parker(LinuxParker!Wake(u)) /\ UNCHANGED permits
    \/ part = "windows parker" /\ Parker(WindowsParker!Wake(u)) /\ UNCHANGED permits
    \/ part = "apple parker" /\ Parker(AppleParker!Signal(u))

OnceRuns(t) ==
    \/ part = "once" /\ Once(LinuxOnce!Run(t)) /\ UNCHANGED queueVars
    \/ part = "apple once" /\ Once(AppleOnce!Run(t)) /\ UNCHANGED <<oword, ocur>>

OnceExchanges(t) ==
    \/ part = "once" /\ Once(LinuxOnce!Exchange(t)) /\ UNCHANGED queueVars
    \/ part = "apple once" /\ Once(AppleOnce!Exchange(t)) /\ UNCHANGED <<oword, ocur>>

MCSpec ==
    /\ MCInit /\ [][MCNext]_vars
    /\ \A t \in Threads : WF_vars(MutexRuns(t))
    /\ \A t \in Producers \cup Consumers :
          WF_vars(CondvarRuns(t)) /\ WF_vars(TimePasses(t)) /\ WF_vars(WaitExpires(t))
    /\ <>[][\A t \in Consumers : ~WaitInterrupted(t)]_vars
    /\ WF_vars(ParkerRuns) /\ \A u \in Unparkers : WF_vars(UnparkEnds(u))
    /\ \A t \in Callers \cup Waiters : WF_vars(OnceRuns(t)) /\ SF_vars(OnceExchanges(t))

-----------------------------------------------------------------------------
\* The words, queues and program counters of every primitive have their types.
AllTyped ==
    /\ TypeOK /\ LinuxCondvar!TypeOK
    /\ IF part = "apple parker" THEN AppleParker!TypeOK ELSE LinuxParker!TypeOK
    /\ IF part = "apple once" THEN AppleOnce!TypeOK ELSE LinuxOnce!TypeOK

\* A thread asleep is never forgotten: a parked thread with a token is due a wake-up,
\* and so are the threads queued on a once; the semaphore's signals and the parks
\* they are meant for pair up.
SleepersWoken ==
    /\ IF part = "apple parker" THEN AppleParker!PermitsAccounted ELSE LinuxParker!SleeperWoken
    /\ LinuxOnce!SleepersAnnounced

\* A notification, of one or of all, that comes between wait()'s unlock and its sleep
\* is not lost, whichever futex_wait the platform has.
NoLostNotify == LinuxCondvar!NoLostNotify

Park == INSTANCE ParkSpec WITH
            phase <- IF part = "apple parker" THEN AppleParker!Phase ELSE LinuxParker!Phase,
            token <- (pstate = 1)

\* All three parkers keep the promise of thread::park and unpark: one token at most,
\* consumed by exactly one park, and no wake-up taken for a token.
ImplementsPark == Park!Spec

\* A parked thread whose token is available returns, whatever races its timeout.
UnparkWakes ==
    /\ part # "apple parker" => LinuxParker!UnparkWakes
    /\ part = "apple parker" => AppleParker!UnparkWakes

AbstractOnce == INSTANCE OnceSpec WITH
            Threads <- Callers \cup Waiters,
            phase <- IF part = "apple once" THEN qstate ELSE LinuxOnce!Phase,
            back <- {t \in Callers \cup Waiters : opc[t] = "Done"}

\* Both onces run one initializer and return to nobody before it is done.
ImplementsOnce == AbstractOnce!Spec

\* The completer of a queue once touches only nodes of threads that still wait.
NodesLive == AppleOnce!NodesLive

\* Nobody is left asleep: every consumer of the condition variable is served or has
\* timed out, and everybody that calls a once or waits for it returns.
AllReturn ==
    /\ part \in {"condvar", "windows condvar"} => LinuxCondvar!AllServed
    /\ part = "once" => LinuxOnce!AllReturn
    /\ part = "apple once" => AppleOnce!AllReturn
==============================================================================
