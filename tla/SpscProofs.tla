----------------------------- MODULE SpscProofs -----------------------------
(***************************************************************************)
(* For every capacity and any number of pushes, the ring of sync::spsc is   *)
(* first in, first out, never overwrites a value, reports Disconnected only *)
(* when it is drained, and is freed once and empty.                         *)
(*                                                                          *)
(* The strengthening says what every slot holds: Off(i) is how far slot i   *)
(* lies behind the read cursor's slot, and the slots nearer than the        *)
(* distance between the cursors hold the values not taken yet, in order.    *)
(***************************************************************************)
EXTENDS Spsc, TLAPS

Cursors == 0..2 * Capacity - 1

\* How far cursor b is ahead of cursor a.
Dist(a, b) == IF b >= a THEN b - a ELSE b + 2 * Capacity - a

Used == Dist(read, write)

Off(r, i) == IF i >= slot_index(r) THEN i - slot_index(r) ELSE i + Capacity - slot_index(r)

\* What is in slot i.
Content(i) ==
    IF Off(read, i) < Used
    THEN IF Off(read, i) = 0 /\ cpc = "Advance" THEN 0 ELSE popped + dropped + 1 + Off(read, i)
    ELSE IF Off(read, i) = Used /\ ppc = "Publish" THEN pushed + 1 ELSE 0

\* No value is missing between the cursors, and there are no more than fit.
CountInv == pushed = popped + dropped + Used /\ Used <= Capacity

\* Every slot holds what its place in the queue says.
SlotInv == \A i \in 0..Capacity - 1 : slots[i] = Content(i)

\* What the endpoints know where they are.
PlaceInv ==
    /\ ppc \in {"Write", "Publish"} => Used < Capacity
    /\ cpc \in {"Guard", "Advance"} => read # write

\* Who has closed, who has released, and who destroys.
CloseInv ==
    /\ "producer" \in open <=> ppc \in {"Idle", "Check", "Write", "Publish"}
    /\ "consumer" \in open <=> cpc \in {"Idle", "Open", "Again", "Guard", "Advance"}
    /\ released <=> ppc \in {"Destroy", "Gone"} \/ cpc \in {"Destroy", "Gone"}
    /\ ppc = "Destroy" => cpc = "Gone"
    /\ cpc = "Destroy" => ppc = "Gone"
    /\ freed <=> ppc = "Gone" /\ cpc = "Gone"

\* Only the last endpoint drops values, and it frees the storage when none is left.
DropInv ==
    /\ dropped # 0 => freed \/ ppc = "Destroy" \/ cpc = "Destroy"
    /\ freed => read = write

\* The consumer looks again only after the producer has closed.
ToldInv ==
    /\ cpc = "Again" => "producer" \notin open
    /\ told => pushed = popped /\ "producer" \notin open

IInv == TypeOK /\ CountInv /\ SlotInv /\ PlaceInv /\ CloseInv /\ DropInv /\ ToldInv
-----------------------------------------------------------------------------
USE SpscAssumption

\* The cursor functions stay in their ranges.
LEMMA CursorRange ==
  ASSUME NEW c \in Cursors
  PROVE  /\ next_cursor(c) \in Cursors
         /\ slot_index(c) \in 0..Capacity - 1
         /\ opposite_cursor(c) \in Cursors
BY DEF Cursors, next_cursor, slot_index, opposite_cursor

\* The distance is below the double capacity, and zero only between equal cursors.
LEMMA DistRange ==
  ASSUME NEW a \in Cursors, NEW b \in Cursors
  PROVE  /\ Dist(a, b) \in 0..2 * Capacity - 1
         /\ Dist(a, b) = 0 <=> a = b
BY DEF Cursors, Dist

\* is_full's comparison of cursors says that the distance is the capacity.
LEMMA FullTest ==
  ASSUME NEW a \in Cursors, NEW b \in Cursors
  PROVE  opposite_cursor(b) = a <=> Dist(a, b) = Capacity
BY DEF Cursors, Dist, opposite_cursor

\* Publishing a value makes the distance one longer, while it is below the capacity.
LEMMA DistPublish ==
  ASSUME NEW a \in Cursors, NEW b \in Cursors, Dist(a, b) < Capacity
  PROVE  Dist(a, next_cursor(b)) = Dist(a, b) + 1
BY DEF Cursors, Dist, next_cursor

\* Taking a value makes it one shorter.
LEMMA DistTake ==
  ASSUME NEW a \in Cursors, NEW b \in Cursors, a # b
  PROVE  Dist(next_cursor(a), b) = Dist(a, b) - 1
BY DEF Cursors, Dist, next_cursor

\* The offset of a slot is below the capacity, and tells slots apart.
LEMMA OffRange ==
  ASSUME NEW a \in Cursors, NEW i \in 0..Capacity - 1, NEW j \in 0..Capacity - 1
  PROVE  /\ Off(a, i) \in 0..Capacity - 1
         /\ Off(a, i) = Off(a, j) => i = j
BY CursorRange DEF Off

\* The slot of the write cursor is the first behind the values.
LEMMA OffWrite ==
  ASSUME NEW a \in Cursors, NEW b \in Cursors, Dist(a, b) < Capacity
  PROVE  Off(a, slot_index(b)) = Dist(a, b)
BY DEF Off, Cursors, Dist, slot_index

\* The slot of the read cursor is the first, and when the cursor moves on the others
\* come one nearer.
LEMMA OffTake ==
  ASSUME NEW a \in Cursors, NEW i \in 0..Capacity - 1
  PROVE  /\ Off(a, slot_index(a)) = 0
         /\ Off(next_cursor(a), i) = IF Off(a, i) = 0 THEN Capacity - 1 ELSE Off(a, i) - 1
BY DEF Off, Cursors, next_cursor, slot_index

-----------------------------------------------------------------------------
\* RingBuffer::make establishes the strengthened invariant.
LEMMA InitHolds == Init => IInv
<1> SUFFICES ASSUME Init PROVE IInv  OBVIOUS
<1>1. TypeOK
  <2>1. released \in BOOLEAN /\ freed \in BOOLEAN /\ told \in BOOLEAN
    BY Zenon DEF Init
  <2>2. 0 \in 0..2 * Capacity - 1
    OBVIOUS
  <2>3. slots \in [0..Capacity - 1 -> Nat]
    BY DEF Init
  <2> QED
    BY <2>1, <2>2, <2>3 DEF Init, TypeOK
<1>2. Used = 0
  BY DEF Init, Used, Dist
<1>3. CountInv
  BY <1>2 DEF Init, CountInv
<1>4. SlotInv
  <2> SUFFICES ASSUME NEW i \in 0..Capacity - 1 PROVE slots[i] = Content(i)
    BY DEF SlotInv
  <2>1. Off(read, i) \in 0..Capacity - 1
    BY OffRange DEF Init, Cursors
  <2> QED
    BY <1>2, <2>1 DEF Init, Content
<1>5. PlaceInv /\ CloseInv /\ DropInv /\ ToldInv
  BY DEF Init, PlaceInv, CloseInv, DropInv, ToldInv
<1> QED
  BY <1>1, <1>3, <1>4, <1>5 DEF IInv

\* Every step keeps the types.
LEMMA TypeStep == TypeOK /\ [Next]_vars => TypeOK'
<1> SUFFICES ASSUME TypeOK, [Next]_vars PROVE TypeOK'  OBVIOUS
<1> USE DEF TypeOK
<1>1. read \in Cursors /\ write \in Cursors
  BY DEF Cursors
<1>2. next_cursor(read) \in Cursors /\ next_cursor(write) \in Cursors
  BY <1>1, CursorRange
<1>3. read' \in Cursors /\ write' \in Cursors
  <2>1. read' \in {read, next_cursor(read)} /\ write' \in {write, next_cursor(write)}
    BY DEF Next, ProducerNext, ConsumerNext, Push, CheckFull, Write, Publish, Front, CheckOpen,
           FrontAgain, DropGuard, Consume, Advance, CloseProducer, CloseConsumer,
           ReleaseProducer, ReleaseConsumer, DropValue, Free, vars
  <2> QED BY <1>1, <1>2, <2>1
<1>4. pushed' \in Nat /\ popped' \in Nat /\ dropped' \in Nat
  BY DEF Next, ProducerNext, ConsumerNext, Push, CheckFull, Write, Publish, Front, CheckOpen,
         FrontAgain, DropGuard, Consume, Advance, CloseProducer, CloseConsumer,
         ReleaseProducer, ReleaseConsumer, DropValue, Free, vars
<1>5. slots' \in [0..Capacity - 1 -> Nat]
  <2> HIDE DEF TypeOK
  <2>0. slots \in [0..Capacity - 1 -> Nat] /\ pushed + 1 \in Nat
    BY DEF TypeOK
  <2>1. CASE Write
    BY <2>0, <2>1 DEF Write
  <2>2. CASE Consume \/ DropValue
    BY <2>0, <2>2 DEF Consume, DropValue
  <2>3. CASE slots' = slots
    BY <2>0, <2>3
  <2> QED
    BY <2>1, <2>2, <2>3
    DEF Next, ProducerNext, ConsumerNext, Push, CheckFull, Publish, Front, CheckOpen,
        FrontAgain, DropGuard, Advance, CloseProducer, CloseConsumer,
        ReleaseProducer, ReleaseConsumer, Free, vars
<1>6. /\ ppc' \in {"Idle", "Check", "Write", "Publish", "Release", "Destroy", "Gone"}
      /\ cpc' \in {"Idle", "Open", "Again", "Guard", "Advance", "Release", "Destroy", "Gone"}
      /\ open' \subseteq {"producer", "consumer"}
  BY DEF Next, ProducerNext, ConsumerNext, Push, CheckFull, Write, Publish, Front, CheckOpen,
         FrontAgain, DropGuard, Consume, Advance, CloseProducer, CloseConsumer,
         ReleaseProducer, ReleaseConsumer, DropValue, Free, vars, Last
<1>7. released' \in BOOLEAN /\ freed' \in BOOLEAN /\ told' \in BOOLEAN
  BY DEF Next, ProducerNext, ConsumerNext, Push, CheckFull, Write, Publish, Front, CheckOpen,
         FrontAgain, DropGuard, Consume, Advance, CloseProducer, CloseConsumer,
         ReleaseProducer, ReleaseConsumer, DropValue, Free, vars
<1> QED
  BY <1>3, <1>4, <1>5, <1>6, <1>7 DEF Cursors

\* The steps that move a cursor or construct or destroy a value.
Moving == Write \/ Publish \/ Consume \/ Advance \/ DropValue

\* All other steps leave the ring alone, and neither enter nor leave a place where a
\* slot is half published or half consumed.
LEMMA QuietStep ==
  ASSUME TypeOK, [Next]_vars, ~Moving
  PROVE  /\ UNCHANGED <<read, write, slots, pushed, popped, dropped>>
         /\ ppc' = "Publish" <=> ppc = "Publish"
         /\ cpc' = "Advance" <=> cpc = "Advance"
BY DEF Moving, Next, ProducerNext, ConsumerNext, Push, CheckFull, Front, CheckOpen, FrontAgain,
       DropGuard, CloseProducer, CloseConsumer, ReleaseProducer, ReleaseConsumer, Free, vars, Last

\* Every step keeps the count: only publishing, consuming and dropping move a cursor.
LEMMA CountStep ==
  ASSUME TypeOK, CountInv, PlaceInv, [Next]_vars
  PROVE  CountInv'
<1> USE DEF TypeOK
<1>0. read \in Cursors /\ write \in Cursors
  BY DEF Cursors
<1>1. CASE ~Moving
  BY <1>1, QuietStep DEF CountInv, Used
<1>2. CASE Write \/ Consume
  BY <1>2 DEF Write, Consume, CountInv, Used
<1>3. CASE Publish
  <2>1. Used' = Used + 1
    BY <1>0, <1>3, DistPublish DEF Publish, PlaceInv, Used
  <2>2. Used \in Nat
    BY <1>0, DistRange DEF Used
  <2> QED
    BY <1>3, <2>1, <2>2 DEF Publish, PlaceInv, CountInv
<1>4. CASE Advance \/ DropValue
  <2>1. Used' = Used - 1
    BY <1>0, <1>4, DistTake DEF Advance, DropValue, PlaceInv, Used
  <2>2. Used \in Nat
    BY <1>0, DistRange DEF Used
  <2> QED
    BY <1>4, <2>1, <2>2 DEF Advance, DropValue, CountInv
<1> QED
  BY <1>1, <1>2, <1>3, <1>4 DEF Moving

\* Every step keeps what the slots hold.
LEMMA SlotStep ==
  ASSUME TypeOK, CountInv, SlotInv, PlaceInv, CloseInv, [Next]_vars
  PROVE  SlotInv'
<1> SUFFICES ASSUME NEW i \in 0..Capacity - 1 PROVE slots'[i] = Content(i)'
  BY DEF SlotInv
<1>0. read \in Cursors /\ write \in Cursors
  BY DEF Cursors, TypeOK
<1>t. pushed \in Nat /\ popped \in Nat /\ dropped \in Nat /\ slots \in [0..Capacity - 1 -> Nat]
  BY DEF TypeOK
<1>a. Off(read, i) \in 0..Capacity - 1
  BY <1>0, OffRange
<1>b. Used \in 0..2 * Capacity - 1
  BY <1>0, DistRange DEF Used
<1>c. slots[i] = Content(i)
  BY DEF SlotInv
<1>1. CASE ~Moving
  BY <1>1, <1>c, QuietStep DEF Content, Used
<1>2. CASE Write
  <2>1. Off(read, slot_index(write)) = Used /\ slot_index(write) \in 0..Capacity - 1
    BY <1>0, <1>2, OffWrite, CursorRange DEF Write, PlaceInv, Used
  <2>2. Off(read, i) = Used <=> i = slot_index(write)
    BY <1>0, <2>1, OffRange
  <2>3. slots'[i] = IF i = slot_index(write) THEN pushed + 1 ELSE slots[i]
    BY <1>t, <1>2, <2>1 DEF Write
  <2>4. read' = read /\ Used' = Used /\ ppc' = "Publish" /\ ppc = "Write"
        /\ UNCHANGED <<cpc, pushed, popped, dropped>>
    BY <1>2 DEF Write, Used
  <2> QED
    BY <1>t, <1>a, <1>b, <1>c, <2>2, <2>3, <2>4 DEF Content
<1>3. CASE Publish
  <2>1. Used' = Used + 1
    BY <1>0, <1>3, DistPublish DEF Publish, PlaceInv, Used
  <2>2. read' = read /\ slots' = slots /\ ppc' = "Idle" /\ ppc = "Publish"
        /\ UNCHANGED <<cpc, popped, dropped>>
    BY <1>3 DEF Publish
  <2>3. Used = 0 => cpc # "Advance"
    BY <1>0, DistRange DEF PlaceInv, Used
  <2>4. Content(i)' = IF Off(read, i) < Used + 1
                      THEN IF Off(read, i) = 0 /\ cpc = "Advance" THEN 0
                           ELSE popped + dropped + 1 + Off(read, i)
                      ELSE 0
    BY <2>1, <2>2 DEF Content
  <2>5. CASE Off(read, i) < Used
    BY <1>t, <1>a, <1>b, <1>c, <2>2, <2>4, <2>5 DEF Content
  <2>6. CASE Off(read, i) = Used
    BY <1>t, <1>a, <1>b, <1>c, <2>2, <2>3, <2>4, <2>6 DEF Content, CountInv
  <2>7. CASE Off(read, i) > Used
    BY <1>t, <1>a, <1>b, <1>c, <2>2, <2>4, <2>7 DEF Content
  <2> QED
    BY <1>a, <1>b, <2>5, <2>6, <2>7
<1>4. CASE Consume
  <2>1. Off(read, slot_index(read)) = 0 /\ slot_index(read) \in 0..Capacity - 1
    BY <1>0, OffTake, CursorRange
  <2>2. Off(read, i) = 0 <=> i = slot_index(read)
    BY <1>0, <2>1, OffRange
  <2>3. slots'[i] = IF i = slot_index(read) THEN 0 ELSE slots[i]
    BY <1>t, <1>4, <2>1 DEF Consume
  <2>4. Used' = Used /\ cpc' = "Advance" /\ cpc = "Guard"
        /\ UNCHANGED <<read, ppc, pushed, popped, dropped>>
    BY <1>4 DEF Consume, Used
  <2>5. Used # 0
    BY <1>0, <1>4, DistRange DEF Consume, PlaceInv, Used
  <2> QED
    BY <1>t, <1>a, <1>b, <1>c, <2>2, <2>3, <2>4, <2>5 DEF Content
<1>5. CASE Advance
  <2>1. Used' = Used - 1 /\ Used # 0
    BY <1>0, <1>5, DistTake, DistRange DEF Advance, PlaceInv, Used
  <2>2. Off(read', i) = IF Off(read, i) = 0 THEN Capacity - 1 ELSE Off(read, i) - 1
    BY <1>0, <1>5, OffTake DEF Advance
  <2>3. slots' = slots /\ cpc' = "Idle" /\ cpc = "Advance" /\ popped' = popped + 1
        /\ UNCHANGED <<ppc, pushed, dropped>>
    BY <1>5 DEF Advance
  <2>4. ppc = "Publish" => Used < Capacity
    BY DEF PlaceInv
  <2>5. CASE Off(read, i) = 0
    <3>1. Off(read', i) = Capacity - 1
      BY <2>2, <2>5
    <3>2. Content(i)' = 0
      BY <1>t, <1>b, <2>1, <2>3, <2>4, <3>1 DEF Content, CountInv
    <3> QED
      BY <1>c, <1>b, <2>1, <2>3, <2>5, <3>2 DEF Content
  <2>6. CASE Off(read, i) # 0
    <3>1. Off(read', i) = Off(read, i) - 1
      BY <2>2, <2>6
    <3>2. Content(i)' = IF Off(read, i) - 1 < Used - 1
                        THEN popped + 1 + dropped + 1 + (Off(read, i) - 1)
                        ELSE IF Off(read, i) - 1 = Used - 1 /\ ppc = "Publish" THEN pushed + 1 ELSE 0
      BY <2>1, <2>3, <3>1 DEF Content
    <3>3. Content(i) = IF Off(read, i) < Used THEN popped + dropped + 1 + Off(read, i)
                       ELSE IF Off(read, i) = Used /\ ppc = "Publish" THEN pushed + 1 ELSE 0
      BY <2>6 DEF Content
    <3>4. slots'[i] = slots[i]
      BY <2>3
    <3>5. popped + dropped + 1 + Off(read, i) = popped + 1 + dropped + 1 + (Off(read, i) - 1)
      BY <1>t, <1>a
    <3>6. Off(read, i) < Used <=> Off(read, i) - 1 < Used - 1
      BY <1>a, <1>b
    <3>7. Off(read, i) = Used <=> Off(read, i) - 1 = Used - 1
      BY <1>a, <1>b
    <3> QED
      BY <1>c, <3>2, <3>3, <3>4, <3>5, <3>6, <3>7
  <2> QED
    BY <2>5, <2>6
<1>6. CASE DropValue
  <2>1. Used' = Used - 1 /\ Used # 0
    BY <1>0, <1>6, DistTake, DistRange DEF DropValue, Used
  <2>2. Off(read', i) = IF Off(read, i) = 0 THEN Capacity - 1 ELSE Off(read, i) - 1
    BY <1>0, <1>6, OffTake DEF DropValue
  <2>3. Off(read, slot_index(read)) = 0 /\ slot_index(read) \in 0..Capacity - 1
    BY <1>0, OffTake, CursorRange
  <2>4. Off(read, i) = 0 <=> i = slot_index(read)
    BY <1>0, <2>3, OffRange
  <2>5. slots'[i] = IF i = slot_index(read) THEN 0 ELSE slots[i]
    BY <1>t, <1>6, <2>3 DEF DropValue
  <2>6. ppc # "Publish" /\ cpc # "Advance"
    BY <1>6 DEF DropValue, CloseInv
  <2>7. dropped' = dropped + 1 /\ UNCHANGED <<ppc, cpc, pushed, popped>>
    BY <1>6 DEF DropValue
  <2> QED
    BY <1>t, <1>a, <1>b, <1>c, <2>1, <2>2, <2>4, <2>5, <2>6, <2>7 DEF Content, CountInv
<1> QED
  BY <1>1, <1>2, <1>3, <1>4, <1>5, <1>6 DEF Moving

\* The other endpoint cannot take away what a test established: the producer only
\* adds values and the consumer only adds room.
LEMMA PlaceStep ==
  ASSUME TypeOK, CountInv, PlaceInv, CloseInv, [Next]_vars
  PROVE  PlaceInv'
<1>0. read \in Cursors /\ write \in Cursors
  BY DEF Cursors, TypeOK
<1>b. Used \in Nat /\ Used <= Capacity
  BY <1>0, DistRange DEF Used, CountInv
<1>1. CASE ~Moving
  <2>1. CASE CheckFull
    <3>1. ppc' = "Write" => Used # Capacity
      BY <1>0, <2>1, FullTest DEF CheckFull, Used
    <3> QED
      BY <1>b, <2>1, <3>1 DEF CheckFull, PlaceInv, Used
  <2>2. CASE ~CheckFull
    <3>1. UNCHANGED <<read, write>> /\ Used' = Used
      BY <1>1, QuietStep DEF Used
    <3>2. ppc' \in {"Write", "Publish"} => ppc \in {"Write", "Publish"}
      BY <1>1, <2>2
      DEF Moving, Next, ProducerNext, ConsumerNext, Push, Front, CheckOpen, FrontAgain,
          DropGuard, CloseProducer, CloseConsumer, ReleaseProducer, ReleaseConsumer, Free, vars, Last
    <3>3. cpc' \in {"Guard", "Advance"} => read # write \/ cpc \in {"Guard", "Advance"}
      BY <1>1, <2>2
      DEF Moving, Next, ProducerNext, ConsumerNext, Push, Front, CheckOpen, FrontAgain,
          DropGuard, CloseProducer, CloseConsumer, ReleaseProducer, ReleaseConsumer, Free, vars, Last
    <3> QED
      BY <3>1, <3>2, <3>3 DEF PlaceInv
  <2> QED
    BY <2>1, <2>2
<1>2. CASE Write
  BY <1>2 DEF Write, PlaceInv, Used
<1>3. CASE Publish
  <2>1. Used' = Used + 1 /\ read' = read
    BY <1>0, <1>3, DistPublish DEF Publish, PlaceInv, Used
  <2>2. read' \in Cursors /\ write' \in Cursors
    BY <1>0, <1>3, CursorRange DEF Publish
  <2>3. read' # write'
    BY <1>b, <2>1, <2>2, DistRange DEF Used
  <2> QED
    BY <1>3, <2>3 DEF Publish, PlaceInv
<1>4. CASE Consume
  BY <1>4 DEF Consume, PlaceInv, Used
<1>5. CASE Advance
  <2>1. Used' = Used - 1
    BY <1>0, <1>5, DistTake DEF Advance, PlaceInv, Used
  <2> QED
    BY <1>5, <1>b, <2>1 DEF Advance, PlaceInv
<1>6. CASE DropValue
  <2>1. ppc' = ppc /\ cpc' = cpc
    BY <1>6 DEF DropValue
  <2>2. ppc \notin {"Write", "Publish"} /\ cpc \notin {"Guard", "Advance"}
    BY <1>6 DEF DropValue, CloseInv
  <2> QED
    BY <2>1, <2>2 DEF PlaceInv
<1> QED
  BY <1>1, <1>2, <1>3, <1>4, <1>5, <1>6 DEF Moving

\* Every step keeps the account of who has closed and released.
LEMMA CloseStep ==
  ASSUME TypeOK, CloseInv, [Next]_vars
  PROVE  CloseInv'
<1> USE DEF CloseInv
<1>1. CASE Push \/ CheckFull \/ Write \/ Publish
  BY <1>1 DEF Push, CheckFull, Write, Publish
<1>2. CASE Front \/ CheckOpen \/ FrontAgain \/ DropGuard \/ Consume \/ Advance
  BY <1>2 DEF Front, CheckOpen, FrontAgain, DropGuard, Consume, Advance
<1>3. CASE CloseProducer
  BY <1>3 DEF CloseProducer, TypeOK
<1>4. CASE CloseConsumer
  BY <1>4 DEF CloseConsumer, TypeOK
<1>5. CASE ReleaseProducer
  BY <1>5 DEF ReleaseProducer, Last
<1>6. CASE ReleaseConsumer
  BY <1>6 DEF ReleaseConsumer, Last
<1>7. CASE DropValue
  BY <1>7 DEF DropValue
<1>8. CASE Free
  BY <1>8 DEF Free
<1>9. CASE UNCHANGED vars
  BY <1>9 DEF vars
<1> QED
  BY <1>1, <1>2, <1>3, <1>4, <1>5, <1>6, <1>7, <1>8, <1>9 DEF Next, ProducerNext, ConsumerNext

\* Only the last endpoint drops values.
LEMMA DropStep ==
  ASSUME TypeOK, CountInv, PlaceInv, CloseInv, DropInv, [Next]_vars
  PROVE  DropInv'
<1> USE DEF DropInv
<1>1. CASE Push \/ CheckFull \/ Write \/ Publish
  BY <1>1 DEF Push, CheckFull, Write, Publish, CloseInv
<1>2. CASE Front \/ CheckOpen \/ FrontAgain \/ DropGuard \/ Consume \/ Advance
  BY <1>2 DEF Front, CheckOpen, FrontAgain, DropGuard, Consume, Advance, CloseInv
<1>3. CASE CloseProducer
  BY <1>3 DEF CloseProducer
<1>4. CASE CloseConsumer
  BY <1>4 DEF CloseConsumer
<1>5. CASE ReleaseProducer
  BY <1>5 DEF ReleaseProducer, Last, CloseInv
<1>6. CASE ReleaseConsumer
  BY <1>6 DEF ReleaseConsumer, Last, CloseInv
<1>7. CASE DropValue
  BY <1>7 DEF DropValue, CloseInv
<1>8. CASE Free
  BY <1>8 DEF Free
<1>9. CASE UNCHANGED vars
  BY <1>9 DEF vars
<1> QED
  BY <1>1, <1>2, <1>3, <1>4, <1>5, <1>6, <1>7, <1>8, <1>9 DEF Next, ProducerNext, ConsumerNext

\* After the producer has closed, an empty ring stays empty.
LEMMA ToldStep ==
  ASSUME TypeOK, CountInv, PlaceInv, CloseInv, DropInv, ToldInv, [Next]_vars
  PROVE  ToldInv'
<1> USE DEF ToldInv
<1>0. read \in Cursors /\ write \in Cursors
  BY DEF Cursors, TypeOK
<1>b. Used \in Nat /\ (Used = 0 <=> read = write)
  BY <1>0, DistRange DEF Used
<1>t. pushed \in Nat /\ popped \in Nat /\ dropped \in Nat /\ pushed = popped + dropped + Used
  BY DEF TypeOK, CountInv
<1>1. CASE Push \/ CheckFull \/ Write
  BY <1>1 DEF Push, CheckFull, Write
<1>2. CASE Publish
  BY <1>2 DEF Publish, CloseInv
<1>3. CASE Front \/ CheckOpen \/ DropGuard \/ Consume
  BY <1>3 DEF Front, CheckOpen, DropGuard, Consume
<1>4. CASE FrontAgain
  <2>1. dropped = 0
    BY <1>4 DEF FrontAgain, DropInv, CloseInv
  <2>2. CASE read = write
    BY <1>b, <1>t, <1>4, <2>1, <2>2 DEF FrontAgain
  <2>3. CASE read # write
    BY <1>4, <2>3 DEF FrontAgain
  <2> QED
    BY <2>2, <2>3
<1>5. CASE Advance
  <2>1. ~told
    BY <1>5, <1>b, <1>t DEF Advance, PlaceInv
  <2> QED
    BY <1>5, <2>1 DEF Advance
<1>6. CASE CloseProducer \/ CloseConsumer
  BY <1>6 DEF CloseProducer, CloseConsumer
<1>7. CASE ReleaseProducer \/ ReleaseConsumer
  BY <1>7 DEF ReleaseProducer, ReleaseConsumer, Last
<1>8. CASE DropValue
  BY <1>8 DEF DropValue
<1>9. CASE Free
  BY <1>9 DEF Free
<1>10. CASE UNCHANGED vars
  BY <1>10 DEF vars
<1> QED
  BY <1>1, <1>2, <1>3, <1>4, <1>5, <1>6, <1>7, <1>8, <1>9, <1>10
  DEF Next, ProducerNext, ConsumerNext

\* The strengthened invariant is inductive.
THEOREM Invariance == Spec => []IInv
<1>1. IInv /\ [Next]_vars => IInv'
  BY TypeStep, CountStep, SlotStep, PlaceStep, CloseStep, DropStep, ToldStep DEF IInv
<1> QED
  BY InitHolds, <1>1, PTL DEF Spec

\* The cursors, slots and endpoints are well-typed: next_cursor wraps in time.
THEOREM RingTyped == Spec => []TypeOK
BY Invariance, PTL DEF IInv

\* For every capacity the ring is first in, first out, and try_push constructs a value
\* only in a slot that holds none.
THEOREM RingInOrder == Spec => []InOrder
<1>1. IInv => InOrder
  <2> SUFFICES ASSUME IInv PROVE InOrder  OBVIOUS
  <2>0. read \in Cursors /\ write \in Cursors
    BY DEF Cursors, IInv, TypeOK
  <2>t. Used \in Nat /\ (Used = 0 <=> read = write)
    BY <2>0, DistRange DEF Used
  <2>1. Off(read, slot_index(read)) = 0 /\ slot_index(read) \in 0..Capacity - 1
    BY <2>0, OffTake, CursorRange
  <2>2. slots[slot_index(read)] = Content(slot_index(read))
    BY <2>1 DEF IInv, SlotInv
  <2>n. pushed \in Nat /\ popped \in Nat /\ dropped \in Nat
    BY DEF IInv, TypeOK
  <2>3. ASSUME read # write, cpc # "Advance"
        PROVE  slots[slot_index(read)] = popped + dropped + 1
    BY <2>t, <2>1, <2>2, <2>3, <2>n DEF Content
  <2>4. ASSUME cpc = "Guard" PROVE slots[slot_index(read)] = popped + 1
    <3>1. read # write
      BY <2>4 DEF IInv, PlaceInv
    <3>2. dropped = 0
      BY <2>4 DEF IInv, DropInv, CloseInv
    <3> QED
      BY <2>3, <2>4, <2>n, <3>1, <3>2
  <2>5. ASSUME "Destroy" \in {ppc, cpc}, read # write
        PROVE  slots[slot_index(read)] = popped + dropped + 1
    BY <2>3, <2>5 DEF IInv, CloseInv
  <2>6. ASSUME ppc = "Write" PROVE slots[slot_index(write)] = 0
    <3>1. Used < Capacity
      BY <2>6 DEF IInv, PlaceInv
    <3>2. Off(read, slot_index(write)) = Used /\ slot_index(write) \in 0..Capacity - 1
      BY <2>0, <3>1, OffWrite, CursorRange DEF Used
    <3>3. slots[slot_index(write)] = Content(slot_index(write))
      BY <3>2 DEF IInv, SlotInv
    <3> QED
      BY <2>6, <2>t, <3>2, <3>3 DEF Content
  <2> QED
    BY <2>4, <2>5, <2>6 DEF InOrder
<1> QED
  BY <1>1, Invariance, PTL

\* try_front reports Disconnected only when the producer closed and all was consumed.
THEOREM RingDrainedFirst == Spec => []DrainedFirst
<1>1. IInv => DrainedFirst
  BY DEF IInv, ToldInv, DrainedFirst
<1> QED
  BY <1>1, Invariance, PTL

\* release() frees the storage after both endpoints let go, with every value accounted for.
THEOREM RingFreedEmpty == Spec => []FreedEmpty
<1>1. IInv => FreedEmpty
  <2> SUFFICES ASSUME IInv, freed PROVE FreedEmpty
    BY DEF FreedEmpty
  <2>0. read \in Cursors /\ write \in Cursors
    BY DEF Cursors, IInv, TypeOK
  <2>1. ppc = "Gone" /\ cpc = "Gone" /\ read = write
    BY DEF IInv, CloseInv, DropInv
  <2>2. Used = 0
    BY <2>0, <2>1, DistRange DEF Used
  <2>3. pushed = popped + dropped
    BY <2>2 DEF IInv, CountInv, TypeOK
  <2>4. ASSUME NEW i \in 0..Capacity - 1 PROVE slots[i] = 0
    <3>1. Off(read, i) \in 0..Capacity - 1
      BY <2>0, OffRange
    <3> QED
      BY <2>1, <2>2, <3>1 DEF IInv, SlotInv, Content
  <2> QED
    BY <2>1, <2>3, <2>4 DEF FreedEmpty
<1> QED
  BY <1>1, Invariance, PTL
=============================================================================
