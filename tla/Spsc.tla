-------------------------------- MODULE Spsc --------------------------------
(***************************************************************************)
(* sync::spsc (src/std/src/sync/spsc.cppm): a bounded ring shared by one    *)
(* Producer and one Consumer without locks.  Cursors run over twice the     *)
(* capacity, so that full and empty differ; the endpoint that closes second *)
(* drops what is left and frees the storage.                                *)
(*                                                                          *)
(* The n-th value pushed is n.  One atomic access or one access to a slot   *)
(* is a step; the release stores and acquire loads make these steps appear  *)
(* in one order.                                                            *)
(***************************************************************************)
EXTENDS Naturals

CONSTANTS
    Capacity,
    MaxPushes   \* bound on the pushes of a behaviour

ASSUME SpscAssumption == Capacity \in Nat \ {0} /\ MaxPushes \in Nat

VARIABLES
    read, write,        \* Storage::read, write
    slots,              \* Storage::slots: the value constructed in a slot, 0 if there is none
    open,               \* endpoints whose producer_open or consumer_open is set
    released,           \* Storage::released
    ppc, cpc,           \* where the producer and the consumer are
    pushed, popped,     \* how many values were published, and consumed in order
    dropped,            \* how many the final release dropped
    freed,              \* the storage was deallocated
    told                \* the consumer was told Disconnected

vars == <<read, write, slots, open, released, ppc, cpc, pushed, popped, dropped, freed, told>>

next_cursor(cursor) == IF cursor + 1 = 2 * Capacity THEN 0 ELSE cursor + 1

slot_index(cursor) == IF cursor < Capacity THEN cursor ELSE cursor - Capacity

opposite_cursor(cursor) == IF cursor < Capacity THEN cursor + Capacity ELSE cursor - Capacity

\* RingBuffer::make
Init ==
    /\ read = 0 /\ write = 0
    /\ slots = [i \in 0..Capacity - 1 |-> 0]
    /\ open = {"producer", "consumer"} /\ released = FALSE
    /\ ppc = "Idle" /\ cpc = "Idle"
    /\ pushed = 0 /\ popped = 0 /\ dropped = 0
    /\ freed = FALSE /\ told = FALSE

-----------------------------------------------------------------------------
\* Producer::try_push: is_disconnected.
Push ==
    /\ ppc = "Idle" /\ pushed < MaxPushes
    /\ ppc' = IF "consumer" \in open THEN "Check" ELSE "Idle"
    /\ UNCHANGED <<read, write, slots, open, released, cpc, pushed, popped, dropped, freed, told>>

\* Mutant: one slot more is taken for free.
CheckFullLate ==
    /\ ppc = "Check"
    /\ ppc' = IF opposite_cursor(write) = next_cursor(read) THEN "Idle" ELSE "Write"
    /\ UNCHANGED <<read, write, slots, open, released, cpc, pushed, popped, dropped, freed, told>>

\* ...is it full, by the consumer's cursor of this moment...
CheckFull ==
    /\ ppc = "Check"
    /\ ppc' = IF opposite_cursor(write) = read THEN "Idle" ELSE "Write"
    /\ UNCHANGED <<read, write, slots, open, released, cpc, pushed, popped, dropped, freed, told>>

\* ...construct the value...
Write ==
    /\ ppc = "Write" /\ ppc' = "Publish"
    /\ slots' = [slots EXCEPT ![slot_index(write)] = pushed + 1]
    /\ UNCHANGED <<read, write, open, released, cpc, pushed, popped, dropped, freed, told>>

\* ...and publish it.
Publish ==
    /\ ppc = "Publish" /\ ppc' = "Idle"
    /\ write' = next_cursor(write)
    /\ pushed' = pushed + 1
    /\ UNCHANGED <<read, slots, open, released, cpc, popped, dropped, freed, told>>

-----------------------------------------------------------------------------
\* Consumer::try_front, which try_pop begins with: the first is_empty.
Front ==
    /\ cpc = "Idle"
    /\ cpc' = IF read = write THEN "Open" ELSE "Guard"
    /\ UNCHANGED <<read, write, slots, open, released, ppc, pushed, popped, dropped, freed, told>>

\* Mutant: an empty ring of a closed producer is reported without another look.
CheckOpenOnce ==
    /\ cpc = "Open" /\ cpc' = "Idle"
    /\ told' = (told \/ "producer" \notin open)
    /\ UNCHANGED <<read, write, slots, open, released, ppc, pushed, popped, dropped, freed>>

\* Empty is returned while the producer is open.
CheckOpen ==
    /\ cpc = "Open"
    /\ cpc' = IF "producer" \in open THEN "Idle" ELSE "Again"
    /\ UNCHANGED <<read, write, slots, open, released, ppc, pushed, popped, dropped, freed, told>>

\* The producer closed: its last pushes may have come after the first is_empty.
FrontAgain ==
    /\ cpc = "Again"
    /\ \/ read = write /\ cpc' = "Idle" /\ told' = TRUE
       \/ read # write /\ cpc' = "Guard" /\ UNCHANGED told
    /\ UNCHANGED <<read, write, slots, open, released, ppc, pushed, popped, dropped, freed>>

\* A guard that was only looked at is dropped.
DropGuard ==
    /\ cpc = "Guard" /\ cpc' = "Idle"
    /\ UNCHANGED <<read, write, slots, open, released, ppc, pushed, popped, dropped, freed, told>>

\* ReadGuard::consume destroys the value in its slot...
Consume ==
    /\ cpc = "Guard" /\ cpc' = "Advance"
    /\ slots' = [slots EXCEPT ![slot_index(read)] = 0]
    /\ UNCHANGED <<read, write, open, released, ppc, pushed, popped, dropped, freed, told>>

\* ...and gives the slot back.
Advance ==
    /\ cpc = "Advance" /\ cpc' = "Idle"
    /\ read' = next_cursor(read)
    /\ popped' = popped + 1
    /\ UNCHANGED <<write, slots, open, released, ppc, pushed, dropped, freed, told>>

-----------------------------------------------------------------------------
\* Producer::close and Consumer::close, which refuses while a guard is out.
CloseProducer ==
    /\ ppc = "Idle" /\ ppc' = "Release"
    /\ open' = open \ {"producer"}
    /\ UNCHANGED <<read, write, slots, released, cpc, pushed, popped, dropped, freed, told>>

CloseConsumer ==
    /\ cpc = "Idle" /\ cpc' = "Release"
    /\ open' = open \ {"consumer"}
    /\ UNCHANGED <<read, write, slots, released, ppc, pushed, popped, dropped, freed, told>>

\* Mutants: every endpoint destroys the storage, or none.
LastAlways == "Destroy"
LastNever == "Gone"

\* Where an endpoint goes after released.exchange(true): only the second one destroys.
Last == IF released THEN "Destroy" ELSE "Gone"

ReleaseProducer ==
    /\ ppc = "Release" /\ ppc' = Last
    /\ released' = TRUE
    /\ UNCHANGED <<read, write, slots, open, cpc, pushed, popped, dropped, freed, told>>

ReleaseConsumer ==
    /\ cpc = "Release" /\ cpc' = Last
    /\ released' = TRUE
    /\ UNCHANGED <<read, write, slots, open, ppc, pushed, popped, dropped, freed, told>>

\* Storage::release of the second endpoint drops one value after the other (its cursor
\* starts at read, which nobody looks at any more)...
DropValue ==
    /\ "Destroy" \in {ppc, cpc} /\ read # write
    /\ slots' = [slots EXCEPT ![slot_index(read)] = 0]
    /\ read' = next_cursor(read)
    /\ dropped' = dropped + 1
    /\ UNCHANGED <<write, open, released, ppc, cpc, pushed, popped, freed, told>>

\* ...and frees the storage.
Free ==
    /\ "Destroy" \in {ppc, cpc} /\ read = write
    /\ ppc' = IF ppc = "Destroy" THEN "Gone" ELSE ppc
    /\ cpc' = IF cpc = "Destroy" THEN "Gone" ELSE cpc
    /\ freed' = TRUE
    /\ UNCHANGED <<read, write, slots, open, released, pushed, popped, dropped, told>>

ProducerNext == Push \/ CheckFull \/ Write \/ Publish \/ CloseProducer \/ ReleaseProducer

ConsumerNext ==
    \/ Front \/ CheckOpen \/ FrontAgain \/ DropGuard \/ Consume \/ Advance
    \/ CloseConsumer \/ ReleaseConsumer

Next == ProducerNext \/ ConsumerNext \/ DropValue \/ Free

Spec == Init /\ [][Next]_vars

\* Threads run and endpoints are closed in the end, by their destructors.
LiveSpec ==
    /\ Spec
    /\ WF_vars(ProducerNext) /\ WF_vars(ConsumerNext) /\ WF_vars(DropValue \/ Free)
    /\ SF_vars(CloseProducer) /\ SF_vars(CloseConsumer)

-----------------------------------------------------------------------------
\* Cursors stay below twice the capacity, and a slot holds one value or none.
TypeOK ==
    /\ read \in 0..2 * Capacity - 1 /\ write \in 0..2 * Capacity - 1
    /\ slots \in [0..Capacity - 1 -> Nat]
    /\ open \subseteq {"producer", "consumer"} /\ released \in BOOLEAN
    /\ ppc \in {"Idle", "Check", "Write", "Publish", "Release", "Destroy", "Gone"}
    /\ cpc \in {"Idle", "Open", "Again", "Guard", "Advance", "Release", "Destroy", "Gone"}
    /\ pushed \in Nat /\ popped \in Nat /\ dropped \in Nat
    /\ freed \in BOOLEAN /\ told \in BOOLEAN

\* First in, first out through the wrap of the cursors: what a guard shows, and what
\* the final release drops, is the oldest value not taken yet, and a value is only
\* constructed in a slot that holds none.
InOrder ==
    /\ cpc = "Guard" => slots[slot_index(read)] = popped + 1
    /\ "Destroy" \in {ppc, cpc} /\ read # write => slots[slot_index(read)] = popped + dropped + 1
    /\ ppc = "Write" => slots[slot_index(write)] = 0

\* The consumer hears Disconnected only when every value that was pushed was consumed,
\* although the producer may push and close between the tests of try_front.
DrainedFirst == told => popped = pushed /\ "producer" \notin open

\* Every value is consumed or dropped once: the storage goes when both endpoints are
\* gone, by the hand of one of them, and holds no value.
FreedEmpty ==
    freed =>
        /\ ppc = "Gone" /\ cpc = "Gone"
        /\ pushed = popped + dropped
        /\ \A i \in 0..Capacity - 1 : slots[i] = 0

\* Once both endpoints are closed the storage is freed.
StorageFreed == (open = {}) ~> freed
=============================================================================
