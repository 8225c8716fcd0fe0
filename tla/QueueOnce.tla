----------------------------- MODULE QueueOnce -----------------------------
(***************************************************************************)
(* sys::sync::once::queue::Once (src/std/src/sys/sync/once/queue.cpp), used *)
(* where there is no futex: a state and a stack of Waiter nodes in one      *)
(* word.  A node lives in the frame of the thread that waits; the thread's  *)
(* park token is ParkSpec's.                                                *)
(***************************************************************************)
EXTENDS Naturals, Sequences

CONSTANTS Callers, Waiters, Nobody

VARIABLES
    state,     \* the state bits of state_and_queue
    top,       \* its queue: the last node pushed, or Nobody
    cur,       \* each thread's local `current': <<state, top>>
    next,      \* Waiter::next
    signaled,  \* Waiter::signaled
    live,      \* threads whose Waiter is in scope
    token,     \* threads with an unpark token
    cursor,    \* the completer's `queue', and the next it read
    pc

vars == <<state, top, cur, next, signaled, live, token, cursor, pc>>

Users == Callers \cup Waiters

Init ==
    /\ state = "Incomplete" /\ top = Nobody
    /\ cur = [t \in Users |-> <<"Incomplete", Nobody>>]
    /\ next = [t \in Users |-> Nobody]
    /\ signaled = {} /\ live = {} /\ token = {}
    /\ cursor = <<Nobody, Nobody>>
    /\ pc = [t \in Users |-> "Load"]

Go(t, from, to) == pc[t] = from /\ pc' = [pc EXCEPT ![t] = to]

Word == <<state, top>>

\* The load before the loops, and the one wait() returns.
Load(t) ==
    /\ Go(t, "Load", "Look")
    /\ cur' = [cur EXCEPT ![t] = Word]
    /\ UNCHANGED <<state, top, next, signaled, live, token, cursor>>

\* Mutant: a call returns when somebody else runs the initializer.
ReturnEarly(t) ==
    /\ cur[t][1] # "Incomplete"
    /\ Go(t, "Look", "Done")
    /\ live' = live \ {t}
    /\ UNCHANGED <<state, top, cur, next, signaled, token, cursor>>

\* state_of(current) == COMPLETE
Return(t) ==
    /\ cur[t][1] = "Complete"
    /\ Go(t, "Look", "Done")
    /\ live' = live \ {t}
    /\ UNCHANGED <<state, top, cur, next, signaled, token, cursor>>

\* compare_exchange_weak(cur, <<s, q>>)
Cas(t, s, q, to) ==
    \/ /\ Word = cur[t] /\ state' = s /\ top' = q
       /\ Go(t, "Look", to) /\ UNCHANGED cur
    \/ /\ cur' = [cur EXCEPT ![t] = Word] /\ Go(t, "Look", "Look")
       /\ UNCHANGED <<state, top>>

\* A caller that finds INCOMPLETE keeps the queue and runs.
Start(t) ==
    /\ t \in Callers /\ cur[t][1] = "Incomplete"
    /\ Cas(t, "Running", cur[t][2], "Running")
    /\ UNCHANGED <<next, signaled, live, token, cursor>>

\* queue::wait pushes a node in front of the queue it read.
Push(t) ==
    /\ cur[t][1] # "Complete" /\ ~(t \in Callers /\ cur[t][1] = "Incomplete")
    /\ next' = [next EXCEPT ![t] = cur[t][2]]
    /\ signaled' = signaled \ {t}
    /\ live' = live \cup {t}
    /\ Cas(t, cur[t][1], t, "Queued")
    /\ UNCHANGED <<token, cursor>>

\* Mutant: the waiter leaves whenever it is unparked.
ParkOnce(t) ==
    /\ Go(t, "Parked", "Load") /\ t \in token
    /\ token' = token \ {t} /\ live' = live \ {t}
    /\ UNCHANGED <<state, top, cur, next, signaled, cursor>>

\* park() returns when it finds a token, and consumes it.
Park(t) ==
    /\ Go(t, "Parked", "Queued") /\ t \in token
    /\ token' = token \ {t}
    /\ UNCHANGED <<state, top, cur, next, signaled, live, cursor>>

\* while (! signaled): the node goes out of scope when it is signaled.
Test(t) ==
    /\ \/ t \in signaled /\ Go(t, "Queued", "Load") /\ live' = live \ {t}
       \/ t \notin signaled /\ Go(t, "Queued", "Parked") /\ UNCHANGED live
    /\ UNCHANGED <<state, top, cur, next, signaled, token, cursor>>

\* Somebody else unparks the thread, for reasons of its own.
StrayUnpark(t) ==
    /\ pc[t] = "Parked" /\ t \notin token
    /\ token' = token \cup {t}
    /\ UNCHANGED <<state, top, cur, next, signaled, live, cursor, pc>>

\* The callback has returned: exchange(COMPLETE) and take the queue.
Finish(t) ==
    /\ Go(t, "Running", "Walk")
    /\ state' = "Complete" /\ top' = Nobody
    /\ cursor' = <<top, Nobody>>
    /\ UNCHANGED <<cur, next, signaled, live, token>>

\* The node's next and thread are read while the node must still be in scope.
ReadNode(t) ==
    LET node == cursor[1]
    IN  /\ \/ node = Nobody /\ Go(t, "Walk", "Done") /\ UNCHANGED cursor
           \/ node # Nobody /\ Go(t, "Walk", "Signal") /\ cursor' = <<node, next[node]>>
        /\ UNCHANGED <<state, top, cur, next, signaled, live, token>>

\* signaled.store(true): from here on the node may be gone.
Signal(t) ==
    /\ Go(t, "Signal", "Unpark")
    /\ signaled' = signaled \cup {cursor[1]}
    /\ UNCHANGED <<state, top, cur, next, live, token, cursor>>

\* unpark through the cloned Thread, and on to the next node.
Unpark(t) ==
    /\ Go(t, "Unpark", "Walk")
    /\ token' = token \cup {cursor[1]}
    /\ cursor' = <<cursor[2], Nobody>>
    /\ UNCHANGED <<state, top, cur, next, signaled, live>>

Run(t) ==
    \/ Load(t) \/ Return(t) \/ Start(t) \/ Push(t) \/ Park(t) \/ Test(t)
    \/ Finish(t) \/ ReadNode(t) \/ Signal(t) \/ Unpark(t)

Next == \E t \in Users : Run(t) \/ StrayUnpark(t)

Spec == Init /\ [][Next]_vars

\* A compare_exchange_weak that succeeds.
Exchange(t) == (Start(t) \/ Push(t)) /\ pc'[t] # "Look"

\* Users run, initializers return, and a weak exchange does not fail for ever.
LiveSpec ==
    /\ Spec
    /\ \A t \in Users :
          /\ WF_vars(Run(t))
          /\ SF_vars(Exchange(t))

-----------------------------------------------------------------------------
\* The parts of the word, the nodes and the completer's cursor have their types.
TypeOK ==
    /\ state \in {"Incomplete", "Running", "Complete"}
    /\ top \in Users \cup {Nobody}
    /\ cur \in [Users -> {"Incomplete", "Running", "Complete"} \X (Users \cup {Nobody})]
    /\ next \in [Users -> Users \cup {Nobody}]
    /\ signaled \subseteq Users /\ live \subseteq Users /\ token \subseteq Users
    /\ cursor \in (Users \cup {Nobody}) \X (Users \cup {Nobody})
    /\ pc \in [Users -> {"Load", "Look", "Running", "Queued", "Parked", "Walk", "Signal", "Unpark", "Done"}]
    /\ state = "Complete" => top = Nobody

Abstract == INSTANCE OnceSpec WITH Threads <- Users, phase <- state, back <- {t \in Users : pc[t] = "Done"}

\* One initializer runs, and only completion lets anybody return.
ImplementsOnce == Abstract!Spec

\* Whatever the completer still has to touch, a node or its signaled flag, is in the
\* frame of a thread that has not left wait().
NodesLive ==
    \A t \in Users :
        /\ pc[t] = "Walk" /\ cursor[1] # Nobody => cursor[1] \in live /\ cursor[1] \notin signaled
        /\ pc[t] = "Signal" => cursor[1] \in live
        /\ pc[t] \in {"Signal", "Unpark"} /\ cursor[2] # Nobody => cursor[2] \in live

\* If anybody calls, everybody that calls or waits returns.
AllReturn == <>(\A t \in Users : pc[t] = "Done")
=============================================================================
