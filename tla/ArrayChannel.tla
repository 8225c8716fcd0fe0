---------------------------- MODULE ArrayChannel ----------------------------
(***************************************************************************)
(* The bounded flavour of sync::mpmc: the lock-free ring of array.cppm, the *)
(* queues of blocked threads (waker.cppm), the selection of a blocked       *)
(* operation (context.cppm) and the count of handles that disconnects and   *)
(* frees the channel (counter.cppm).                                        *)
(*                                                                          *)
(* A step is one atomic access, one access to a slot's message, or one      *)
(* critical section of a SyncWaker's mutex: inside one, the notifier only   *)
(* moves an entry out of Waiting, and a selected thread needs the same      *)
(* mutex before it can wait again.  Relaxed loads are validated by the      *)
(* compare-exchange or follow a SeqCst fence, so the steps are taken to     *)
(* happen in one order.                                                     *)
(*                                                                          *)
(* A message is named by the stamp that publishes it, so the model sees     *)
(* which send a receiver's slot was written by.                             *)
(***************************************************************************)
EXTENDS Naturals, Sequences, FiniteSets

CONSTANTS
    Senders, Receivers,  \* the threads, each with at most one handle
    Groups               \* channels: the capacity, and who holds a handle at first with the
                         \* calls it may make, each with a patience

\* A call may be try_send or try_recv, block, or have a deadline; "any" leaves it open.
Patience == {"any", "block", "timed"}

ASSUME ArrayAssumption ==
    /\ Senders \cap Receivers = {}
    /\ \A g \in Groups :
         /\ g.cap \in Nat \ {0}
         /\ DOMAIN g.calls \subseteq Senders \cup Receivers
         /\ DOMAIN g.calls \cap Senders # {} /\ DOMAIN g.calls \cap Receivers # {}
         /\ \A t \in DOMAIN g.calls : g.calls[t] \in Seq(Patience)

Threads == Senders \cup Receivers

VARIABLES
    tail, mark,      \* Channel::tail without and with its mark_bit
    head,            \* Channel::head
    stamp, msg,      \* the slots: stamp, and the message in it or 0
    selectors,       \* Waker::selectors of either side: blocked threads
    is_empty_,       \* SyncWaker::is_empty_
    handles,         \* Counter::senders and receivers
    destroy, freed,  \* Counter::destroy; the counter was deleted
    pc, mode, left,  \* of each thread: where it is, how patient the call is that it makes
                     \* or makes next, and the calls after that
    pos,             \* its tail_val or head_val, 0 when it has none
    select, token    \* its Context::select, and its park token

ring == <<tail, mark, head, stamp, msg>>
blocking == <<selectors, is_empty_, select, token>>
counts == <<handles, destroy, freed>>
calls == <<mode, left>>
vars == <<ring, blocking, counts, calls, pc, pos>>

Sides == {"senders", "receivers"}
Side(t) == IF t \in Senders THEN "senders" ELSE "receivers"
Other(t) == IF t \in Senders THEN "receivers" ELSE "senders"
-----------------------------------------------------------------------------
\* (cap + 1).next_power_of_two()
MarkBit == [c \in {g.cap : g \in Groups} |->
               2 ^ (CHOOSE k \in 0..c + 1 : 2 ^ k >= c + 1 /\ \A j \in 0..k : 2 ^ j >= c + 1 => j = k)]

\* Positions: the index of a slot below mark_bit, laps in multiples of one_lap.
cap == Cardinality(DOMAIN stamp)

mark_bit == MarkBit[cap]

one_lap == 2 * mark_bit

index(p) == p % mark_bit

lap(p) == p - (p % one_lap)

After(p) == IF index(p) + 1 < cap THEN p + 1 ELSE lap(p) + one_lap

\* The patience of the first call of a plan, and the calls that follow it.
NextCall(plan) == IF plan = <<>> THEN "none" ELSE Head(plan)
LaterCalls(plan) == IF plan = <<>> THEN <<>> ELSE Tail(plan)

\* Channel::with_capacity; the handles were cloned before their threads were started.
Init ==
    /\ tail = 0 /\ mark = FALSE /\ head = 0
    /\ selectors = [s \in Sides |-> <<>>] /\ is_empty_ = [s \in Sides |-> TRUE]
    /\ \E g \in Groups :
         LET holders == DOMAIN g.calls IN
         /\ stamp = [i \in 0..g.cap - 1 |-> i] /\ msg = [i \in 0..g.cap - 1 |-> 0]
         /\ handles = [s \in Sides |->
                          Cardinality(holders \cap IF s = "senders" THEN Senders ELSE Receivers)]
         /\ pc = [t \in Threads |-> IF t \in holders THEN "Idle" ELSE "Gone"]
         /\ mode = [t \in Threads |-> IF t \in holders THEN NextCall(g.calls[t]) ELSE "none"]
         /\ left = [t \in Threads |-> IF t \in holders THEN LaterCalls(g.calls[t]) ELSE <<>>]
    /\ destroy = FALSE /\ freed = FALSE
    /\ pos = [t \in Threads |-> 0]
    /\ select = [t \in Threads |-> "Waiting"] /\ token = [t \in Threads |-> FALSE]

Goto(t, l) == pc' = [pc EXCEPT ![t] = l]

\* t has no position any more, and goes to l.
Leave(t, l) == Goto(t, l) /\ pos' = [pos EXCEPT ![t] = 0]

Return(t) ==
    /\ Leave(t, "Idle")
    /\ mode' = [mode EXCEPT ![t] = NextCall(left[t])]
    /\ left' = [left EXCEPT ![t] = LaterCalls(@)]

-----------------------------------------------------------------------------
\* start_send and start_recv: load the own end of the ring.  A sender sees the mark
\* at once and returns Disconnected.
Load(t) ==
    IF t \in Senders /\ mark
    THEN Return(t)
    ELSE /\ Goto(t, "Stamp") /\ UNCHANGED calls
         /\ pos' = [pos EXCEPT ![t] = IF t \in Senders THEN tail ELSE head]

\* try_send, send, try_recv and recv begin alike.
Start(t) ==
    /\ pc[t] = "Idle" /\ mode[t] # "none"
    /\ Load(t)
    /\ UNCHANGED <<ring, blocking, counts>>

Reload(t) == pc[t] = "Load" /\ Load(t) /\ UNCHANGED <<ring, blocking, counts>>

\* Mutant: the slot's stamp alone is taken for a full channel.
SendStampTrusts(s) ==
    /\ pc[s] = "Stamp"
    /\ LET st == stamp[index(pos[s])] IN
       Goto(s, IF st = pos[s] THEN "Reserve"
               ELSE IF st + one_lap = pos[s] + 1 THEN "Register" ELSE "Load")
    /\ UNCHANGED <<ring, blocking, counts, calls, pos>>

\* start_send: the slot is free, holds the message of a lap before, or is behind.
SendStamp(s) ==
    /\ pc[s] = "Stamp"
    /\ LET st == stamp[index(pos[s])] IN
       Goto(s, IF st = pos[s] THEN "Reserve"
               ELSE IF st + one_lap = pos[s] + 1 THEN "Confirm" ELSE "Load")
    /\ UNCHANGED <<ring, blocking, counts, calls, pos>>

\* start_recv: the slot holds a message, is empty, or is behind.
RecvStamp(r) ==
    /\ pc[r] = "Stamp"
    /\ LET st == stamp[index(pos[r])] IN
       Goto(r, IF st = pos[r] + 1 THEN "Reserve"
               ELSE IF st = pos[r] THEN "Confirm" ELSE "Load")
    /\ UNCHANGED <<ring, blocking, counts, calls, pos>>

\* The compare-exchange that takes the slot...
SendReserve(s) ==
    /\ pc[s] = "Reserve" /\ tail = pos[s] /\ ~mark
    /\ tail' = After(tail)
    /\ Goto(s, "Access")
    /\ UNCHANGED <<mark, head, stamp, msg, blocking, counts, calls, pos>>

RecvReserve(r) ==
    /\ pc[r] = "Reserve" /\ head = pos[r]
    /\ head' = After(head)
    /\ Goto(r, "Access")
    /\ UNCHANGED <<tail, mark, stamp, msg, blocking, counts, calls, pos>>

\* ...may also fail, spuriously when it is weak.
ReserveFails(t) ==
    /\ pc[t] = "Reserve" /\ Leave(t, "Load")
    /\ UNCHANGED <<ring, blocking, counts, calls>>

\* Full or empty: try_send and try_recv return, and so does a call whose deadline has
\* passed; the others block.
NotReady(t) ==
    \/ mode[t] # "block" /\ Return(t)
    \/ mode[t] # "late" /\ Leave(t, "Register")
       /\ \E m \in {"block", "timed"} : mode[t] \in {"any", m} /\ mode' = [mode EXCEPT ![t] = m]
       /\ UNCHANGED left

SendConfirm(s) ==
    /\ pc[s] = "Confirm"
    /\ IF head + one_lap = pos[s] THEN NotReady(s) ELSE Leave(s, "Load") /\ UNCHANGED calls
    /\ UNCHANGED <<ring, blocking, counts>>

RecvConfirm(r) ==
    /\ pc[r] = "Confirm"
    /\ IF tail # pos[r] THEN Leave(r, "Load") /\ UNCHANGED calls
       ELSE IF mark THEN Return(r) ELSE NotReady(r)
    /\ UNCHANGED <<ring, blocking, counts>>

\* write and read: the message...
Access(t) ==
    /\ pc[t] = "Access"
    /\ msg' = [msg EXCEPT ![index(pos[t])] = IF t \in Senders THEN pos[t] + 1 ELSE 0]
    /\ Goto(t, "Publish")
    /\ UNCHANGED <<tail, mark, head, stamp, blocking, counts, calls, pos>>

\* ...and the stamp that hands the slot to the other side.
Publish(t) ==
    /\ pc[t] = "Publish"
    /\ stamp' = [stamp EXCEPT ![index(pos[t])] =
                    IF t \in Senders THEN pos[t] + 1 ELSE pos[t] + one_lap]
    /\ Leave(t, "Notify")
    /\ UNCHANGED <<tail, mark, head, msg, blocking, counts, calls>>

-----------------------------------------------------------------------------
\* SyncWaker: the threads of a side in line, under the mutex.
SetQueue(s, q) ==
    /\ selectors' = [selectors EXCEPT ![s] = q]
    /\ is_empty_' = [is_empty_ EXCEPT ![s] = q = <<>>]

Without(q, t) == SelectSeq(q, LAMBDA u : u # t)

\* Context::try_select and unpark of every thread of us.
SelectAll(us, s) ==
    /\ select' = [u \in Threads |-> IF u \in us THEN s ELSE select[u]]
    /\ token' = [u \in Threads |-> u \in us \/ token[u]]

\* SyncWaker::notify looks before it takes the mutex...
Notify(t) ==
    /\ pc[t] = "Notify"
    /\ IF is_empty_[Other(t)] THEN Return(t) ELSE Goto(t, "Select") /\ UNCHANGED <<calls, pos>>
    /\ UNCHANGED <<ring, blocking, counts>>

WaitingOf(s) == SelectSeq(selectors[s], LAMBDA u : select[u] = "Waiting")

\* ...and selects, wakes and removes the first thread that still waits.
TrySelect(t) ==
    /\ pc[t] = "Select" /\ Return(t)
    /\ LET w == WaitingOf(Other(t)) IN
       IF w = <<>>
       THEN UNCHANGED blocking
       ELSE /\ SelectAll({Head(w)}, "Op")
            /\ SetQueue(Other(t), Without(selectors[Other(t)], Head(w)))
    /\ UNCHANGED <<ring, counts>>

\* Context::with resets the context, and register_op puts it in line.
Register(t) ==
    /\ pc[t] = "Register" /\ Goto(t, "Check")
    /\ select' = [select EXCEPT ![t] = "Waiting"]
    /\ SetQueue(Side(t), Append(selectors[Side(t)], t))
    /\ UNCHANGED <<ring, counts, calls, pos, token>>

\* is_full and is_empty after the registration: the own end first...
Check(t) ==
    /\ pc[t] = "Check" /\ Goto(t, "CheckOther")
    /\ pos' = [pos EXCEPT ![t] = IF t \in Senders THEN tail ELSE head]
    /\ UNCHANGED <<ring, blocking, counts, calls>>

\* ...then the other...
CheckOther(t) ==
    /\ pc[t] = "CheckOther"
    /\ Leave(t, IF (IF t \in Senders THEN head + one_lap ELSE tail) = pos[t]
                THEN "CheckMark" ELSE "Abort")
    /\ UNCHANGED <<ring, blocking, counts, calls>>

\* ...and is_disconnected.
CheckMark(t) ==
    /\ pc[t] = "CheckMark" /\ Goto(t, IF mark THEN "Abort" ELSE "Wait")
    /\ UNCHANGED <<ring, blocking, counts, calls, pos>>

\* try_select(Aborted), unless somebody was faster.
Aborted(t) == select' = [select EXCEPT ![t] = IF @ = "Waiting" THEN "Aborted" ELSE @]

Abort(t) ==
    /\ pc[t] = "Abort" /\ Goto(t, "Wait") /\ Aborted(t)
    /\ UNCHANGED <<ring, selectors, is_empty_, token, counts, calls, pos>>

\* Mutant: a call that was selected and whose deadline passes returns at once.
WaitSwallows(t) ==
    /\ pc[t] = "Wait"
    /\ IF select[t] = "Op" /\ mode[t] = "late" THEN Return(t)
       ELSE /\ Goto(t, CASE select[t] = "Waiting" -> "Park"
                         [] select[t] = "Op" -> "Load"
                         [] OTHER -> "Unregister")
            /\ UNCHANGED <<calls, pos>>
    /\ select' = [select EXCEPT ![t] = IF @ = "Op" THEN "Waiting" ELSE @]
    /\ UNCHANGED <<ring, selectors, is_empty_, token, counts>>

\* Context::wait_until: was it selected?  (An Op is not looked at again.)
Wait(t) ==
    /\ pc[t] = "Wait"
    /\ Goto(t, CASE select[t] = "Waiting" -> "Park"
                 [] select[t] = "Op" -> "Load"
                 [] OTHER -> "Unregister")
    /\ select' = [select EXCEPT ![t] = IF @ = "Op" THEN "Waiting" ELSE @]
    /\ UNCHANGED <<ring, selectors, is_empty_, token, counts, calls, pos>>

\* park consumes the token, perhaps one that was meant for an earlier call...
Park(t) ==
    /\ pc[t] = "Park" /\ token[t] /\ Goto(t, "Wait")
    /\ token' = [token EXCEPT ![t] = FALSE]
    /\ UNCHANGED <<ring, selectors, is_empty_, select, counts, calls, pos>>

\* ...or the deadline passes.
Expire(t) ==
    /\ pc[t] = "Park" /\ mode[t] = "timed" /\ Goto(t, "Wait")
    /\ mode' = [mode EXCEPT ![t] = "late"]
    /\ token' = [token EXCEPT ![t] = FALSE]
    /\ Aborted(t)
    /\ UNCHANGED <<ring, selectors, is_empty_, counts, left, pos>>

Unregister(t) ==
    /\ pc[t] = "Unregister" /\ Goto(t, "Load")
    /\ SetQueue(Side(t), Without(selectors[Side(t)], t))
    /\ select' = [select EXCEPT ![t] = "Waiting"]
    /\ UNCHANGED <<ring, token, counts, calls, pos>>

-----------------------------------------------------------------------------
\* Sender::release and Receiver::release: the last handle of a side disconnects.  The
\* thread parks here no more.
Release(t) ==
    /\ pc[t] = "Idle"
    /\ handles' = [handles EXCEPT ![Side(t)] = @ - 1]
    /\ Goto(t, IF handles[Side(t)] = 1 THEN "Mark" ELSE "Gone")
    /\ token' = [token EXCEPT ![t] = FALSE]
    /\ UNCHANGED <<ring, selectors, is_empty_, select, destroy, freed, calls, pos>>

\* What follows a disconnect: the last receiver discards what is left.
Cleanup(t) == IF t \in Senders THEN "Destroy" ELSE "Discard"

\* tail->fetch_or(mark_bit).  discard_all_messages starts at head, which no receiver
\* is left to move.
Mark(t) ==
    /\ pc[t] = "Mark" /\ mark' = TRUE
    /\ Goto(t, IF mark THEN Cleanup(t) ELSE "Disconnect")
    /\ pos' = [pos EXCEPT ![t] = head]
    /\ UNCHANGED <<tail, head, stamp, msg, blocking, counts, calls>>

\* Waker::disconnect wakes all who wait and leaves them in line.
Disconnect(t) ==
    /\ pc[t] = "Disconnect" /\ Goto(t, Cleanup(t))
    /\ LET w == WaitingOf(Other(t)) IN SelectAll({w[i] : i \in 1..Len(w)}, "Disconnected")
    /\ UNCHANGED <<ring, selectors, is_empty_, counts, calls, pos>>

\* Mutant: a slot that is reserved and not written yet is passed over.
DiscardEndsEarly(t) ==
    /\ pc[t] = "Discard"
    /\ IF stamp[index(pos[t])] = pos[t] + 1
       THEN /\ msg' = [msg EXCEPT ![index(pos[t])] = 0]
            /\ pos' = [pos EXCEPT ![t] = After(@)] /\ UNCHANGED pc
       ELSE Goto(t, "Destroy") /\ UNCHANGED <<msg, pos>>
    /\ UNCHANGED <<tail, mark, head, stamp, blocking, counts, calls>>

\* discard_all_messages: drop a message, end at the tail, or spin until a sender that
\* reserved its slot has written it.
Discard(t) ==
    /\ pc[t] = "Discard"
    /\ IF stamp[index(pos[t])] = pos[t] + 1
       THEN /\ msg' = [msg EXCEPT ![index(pos[t])] = 0]
            /\ pos' = [pos EXCEPT ![t] = After(@)] /\ UNCHANGED pc
       ELSE tail = pos[t] /\ Goto(t, "Destroy") /\ UNCHANGED <<msg, pos>>
    /\ UNCHANGED <<tail, mark, head, stamp, blocking, counts, calls>>

\* The second side to finish deletes the channel.
Destroy(t) ==
    /\ pc[t] = "Destroy" /\ Goto(t, "Gone")
    /\ destroy' = TRUE /\ freed' = destroy
    /\ UNCHANGED <<ring, blocking, handles, calls, pos>>

-----------------------------------------------------------------------------
Reserved(t) ==
    \/ t \in Senders /\ SendReserve(t)
    \/ t \in Receivers /\ RecvReserve(t)

Step(t) ==
    \/ Start(t) \/ Reload(t) \/ Reserved(t) \/ ReserveFails(t) \/ Access(t) \/ Publish(t)
    \/ t \in Senders /\ (SendStamp(t) \/ SendConfirm(t))
    \/ t \in Receivers /\ (RecvStamp(t) \/ RecvConfirm(t))
    \/ Notify(t) \/ TrySelect(t)
    \/ Register(t) \/ Check(t) \/ CheckOther(t) \/ CheckMark(t) \/ Abort(t)
    \/ Wait(t) \/ Park(t) \/ Expire(t) \/ Unregister(t)
    \/ Release(t) \/ Mark(t) \/ Disconnect(t) \/ Discard(t) \/ Destroy(t)

Next == \E t \in Threads : Step(t)

\* Threads run and drop their handles in the end, and a weak compare-exchange does not
\* fail for ever where it could succeed.
Spec == Init /\ [][Next]_vars /\ \A t \in Threads : WF_vars(Step(t)) /\ SF_vars(Reserved(t))

-----------------------------------------------------------------------------
\* Positions, slots, queues and counts have their types, and is_empty_ is kept in step
\* with the queue it is about.
TypeOK ==
    /\ tail \in Nat /\ head \in Nat /\ mark \in BOOLEAN
    /\ stamp \in [0..cap - 1 -> Nat] /\ msg \in [0..cap - 1 -> Nat]
    /\ \A s \in Sides : selectors[s] \in Seq(Threads) /\ is_empty_[s] = (selectors[s] = <<>>)
    /\ handles \in [Sides -> Nat] /\ pos \in [Threads -> Nat] /\ left \in [Threads -> Seq(Patience)]
    /\ mode \in [Threads -> Patience \cup {"late", "none"}]
    /\ select \in [Threads -> {"Waiting", "Aborted", "Disconnected", "Op"}]

\* A slot is used by one thread at a time: write finds no message in the slot it has
\* reserved, read and discard_all_messages find the message of their own position, and
\* the channel is deleted once, when nobody uses it, nobody is in line and no message
\* is left.
MessageOwned ==
    /\ \A s \in Senders : pc[s] = "Access" => msg[index(pos[s])] = 0
    /\ \A r \in Receivers :
         \/ pc[r] = "Access"
         \/ pc[r] = "Discard" /\ stamp[index(pos[r])] = pos[r] + 1
         => msg[index(pos[r])] = pos[r] + 1
    /\ freed =>
         /\ \A t \in Threads : pc[t] = "Gone"
         /\ \A s \in Sides : selectors[s] = <<>>
         /\ \A i \in 0..cap - 1 : msg[i] = 0

\* The answers are true when they are given, although the two ends of the ring are
\* loaded one after the other: Full, and the decision to block, only of a full channel,
\* Empty only of an empty one, and a receiver hears Disconnected only when it is drained.
AnswersTrue ==
    [][\A t \in Threads :
         pc[t] \in {"Stamp", "Confirm"} /\ pc'[t] \in {"Idle", "Register"} =>
            IF t \in Senders THEN tail = head + one_lap ELSE tail = head]_vars

\* Nobody is left behind: every call returns, whoever blocked, was selected, timed out
\* or raced the disconnection, and the channel is freed.
Finishes == <>freed
=============================================================================
