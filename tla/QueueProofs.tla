---------------------------- MODULE QueueProofs ----------------------------
(***************************************************************************)
(* Proofs about the queues that MCQueues explores, for every value of the  *)
(* constants: SPSCQueue's ring is never overfull, a claimed slot is        *)
(* overwritten only by the message that fills the ring, and the ring       *)
(* implements RingQueue; moodycamel's free list of blocks hands a node to  *)
(* one thread at a time and loses none; the consumers of one of its        *)
(* sub-queues never claim an element behind the tail, they read those they *)
(* claim in the sub-queue of an implicit producer, and its blocks are free *)
(* or in use, but never both.                                              *)
(***************************************************************************)
EXTENDS MCQueues, NumberFacts, SequenceTheorems, FiniteSetTheorems

-----------------------------------------------------------------------------
(* Index arithmetic.                                                       *)

LEMMA IndexFacts ==
    /\ Capacity \in Nat \ {0}
    /\ IndexMod \in Nat \ {0}
    /\ Capacity + 1 < IndexMod
  BY CapacityAssumption DEF ValidCapacity

LEMMA CapacityDivides == \E k \in Int : IndexMod = k * Capacity
  BY CapacityAssumption DEF ValidCapacity

\* An increment wraps to zero only at the end of the index range.
LEMMA SuccValue ==
    ASSUME NEW a \in Indices
    PROVE  /\ Succ(a) \in Indices
           /\ Succ(a) = IF a = IndexMod - 1 THEN 0 ELSE a + 1
  BY IndexFacts DEF Succ, Indices

\* Unsigned subtraction, by cases.
LEMMA DistValue ==
    ASSUME NEW a \in Indices, NEW b \in Indices
    PROVE  /\ Dist(a, b) \in Indices
           /\ Dist(a, b) = IF a >= b THEN a - b ELSE a - b + IndexMod
<1>1. CASE a >= b
  BY <1>1, IndexFacts DEF Dist, Indices
<1>2. CASE a < b
  BY <1>2, IndexFacts DEF Dist, Indices
<1> QED
  BY <1>1, <1>2 DEF Indices

\* The distance is zero exactly between equal indices.
LEMMA DistZero ==
    ASSUME NEW a \in Indices, NEW b \in Indices
    PROVE  Dist(a, b) = 0 <=> a = b
<1>1. Dist(a, b) = IF a >= b THEN a - b ELSE a - b + IndexMod
  BY DistValue
<1> QED
  BY <1>1, IndexFacts DEF Indices

\* Advancing the front of a distance that has not reached the full range.
LEMMA DistSuccLeft ==
    ASSUME NEW a \in Indices, NEW b \in Indices, Dist(a, b) < IndexMod - 1
    PROVE  Dist(Succ(a), b) = Dist(a, b) + 1
<1>1. Dist(a, b) = IF a >= b THEN a - b ELSE a - b + IndexMod
  BY DistValue
<1>2. /\ Succ(a) \in Indices
      /\ Succ(a) = IF a = IndexMod - 1 THEN 0 ELSE a + 1
  BY SuccValue
<1>3. Dist(Succ(a), b) = IF Succ(a) >= b THEN Succ(a) - b ELSE Succ(a) - b + IndexMod
  BY <1>2, DistValue
<1> QED
  BY <1>1, <1>2, <1>3, IndexFacts DEF Indices

\* Advancing the back of a distance that is not zero.
LEMMA DistSuccRight ==
    ASSUME NEW a \in Indices, NEW b \in Indices, a # b
    PROVE  Dist(a, Succ(b)) = Dist(a, b) - 1
<1>1. Dist(a, b) = IF a >= b THEN a - b ELSE a - b + IndexMod
  BY DistValue
<1>2. /\ Succ(b) \in Indices
      /\ Succ(b) = IF b = IndexMod - 1 THEN 0 ELSE b + 1
  BY SuccValue
<1>3. Dist(a, Succ(b)) = IF a >= Succ(b) THEN a - Succ(b) ELSE a - Succ(b) + IndexMod
  BY <1>2, DistValue
<1> QED
  BY <1>1, <1>2, <1>3, IndexFacts DEF Indices

\* Indices less than a lap apart, wrapped or not, use different slots.
LEMMA NearSlotsDiffer ==
    ASSUME NEW a \in Indices, NEW b \in Indices, a # b, Dist(a, b) < Capacity
    PROVE  Slot(a) # Slot(b)
<1>1. CASE a >= b
  BY <1>1, DistValue, IndexFacts, SlotsDiffer DEF Slot, Indices
<1>2. CASE a < b
  <2>1. PICK k \in Int : IndexMod = k * Capacity
    BY CapacityDivides
  <2>i. a \in Int /\ b \in Int /\ a + IndexMod \in Int
    BY IndexFacts DEF Indices
  <2>2. (a + k * Capacity) % Capacity = a % Capacity
    BY <2>i, IndexFacts, SlotPeriodic
  <2>3. b < a + IndexMod /\ a + IndexMod < b + Capacity
    BY <1>2, DistValue, IndexFacts DEF Indices
  <2>4. b % Capacity # (a + IndexMod) % Capacity
    <3> DEFINE c == a + IndexMod
    <3>1. c \in Int /\ b < c /\ c < b + Capacity
      BY <2>i, <2>3
    <3> HIDE DEF c
    <3>2. b % Capacity # c % Capacity
      BY <2>i, <3>1, IndexFacts, SlotsDiffer
    <3> QED
      BY <3>2 DEF c
  <2> QED
    BY <2>1, <2>2, <2>4 DEF Slot
<1> QED
  BY <1>1, <1>2 DEF Indices

\* A slot number is an index of the buffer.
LEMMA SlotRange ==
    ASSUME NEW a \in Indices
    PROVE  Slot(a) \in Slots
  BY IndexFacts DEF Slot, Slots, Indices

-----------------------------------------------------------------------------
(* Types.                                                                  *)

LEMMA TypeInit == Init => TypeOK
  BY IndexFacts DEF Init, TypeOK, Indices

LEMMA TypeStep == TypeOK /\ [Next]_vars => TypeOK'
<1> SUFFICES ASSUME TypeOK, [Next]_vars PROVE TypeOK'
  OBVIOUS
<1> USE DEF TypeOK
<1>1. ASSUME NEW m \in Msgs, CallEnqueue(m) PROVE TypeOK'
  BY <1>1 DEF CallEnqueue
<1>2. CASE CheckFull
  BY <1>2 DEF CheckFull
<1>3. CASE WriteSlot
  BY <1>3 DEF WriteSlot
<1>4. CASE PublishTail
  BY <1>4, SuccValue DEF PublishTail
<1>5. CASE FoundEmpty
  BY <1>5 DEF FoundEmpty
<1>6. CASE FoundMessage
  BY <1>6 DEF FoundMessage
<1>7. CASE TakeHead
  BY <1>7, SuccValue, SlotRange DEF TakeHead
<1>8. CASE ReadSlot
  BY <1>8, SlotRange DEF ReadSlot
<1>9. CASE UNCHANGED vars
  BY <1>9 DEF vars
<1> QED
  BY <1>1, <1>2, <1>3, <1>4, <1>5, <1>6, <1>7, <1>8, <1>9
  DEF Next, Producer, Consumer

\* The indices stay in the range of size_t and the slots hold what was
\* enqueued, for every capacity and index width.
THEOREM TypeCorrect == Spec => []TypeOK
  BY TypeInit, TypeStep, PTL DEF Spec

-----------------------------------------------------------------------------
(* The inductive invariant.  The room that enqueue saw is still there when *)
(* it writes and publishes, because only the producer advances tail_; the  *)
(* message that dequeue saw is still there when it advances head_, because *)
(* only the consumer does that.                                            *)

Bounded == Dist(tail, head) <= Capacity

RoomKept == ppc \in {"write", "publish"} => Dist(tail, head) < Capacity

MessageKept == cpc = "take" => head # tail

ClaimBehindHead == cpc = "read" => head = Succ(chead)

Inv ==
    /\ TypeOK
    /\ Bounded
    /\ RoomKept
    /\ MessageKept
    /\ ClaimBehindHead
    /\ OverwrittenOnlyWhenFull

LEMMA InvInit == Init => Inv
  BY TypeInit, DistZero, IndexFacts
  DEF Init, Inv, TypeOK, Bounded, RoomKept, MessageKept, ClaimBehindHead,
      OverwrittenOnlyWhenFull, Indices

LEMMA InvStep == Inv /\ [Next]_vars => Inv'
<1> SUFFICES ASSUME Inv, [Next]_vars PROVE Inv'
  OBVIOUS
<1>t. TypeOK /\ TypeOK'
  BY TypeStep DEF Inv
<1>i. head \in Indices /\ tail \in Indices /\ chead \in Indices
  BY <1>t DEF TypeOK
<1>d. Dist(tail, head) \in 0..Capacity
  BY <1>i, DistValue, IndexFacts DEF Inv, Bounded, Indices
<1>1. ASSUME NEW m \in Msgs, CallEnqueue(m) PROVE Inv'
  BY <1>1, <1>t
  DEF CallEnqueue, Inv, Bounded, RoomKept, MessageKept, ClaimBehindHead,
      OverwrittenOnlyWhenFull, WrittenTail
<1>2. CASE CheckFull
  <2>1. Room => Dist(tail, head) < Capacity
    BY <1>i, <1>d, DistSuccLeft, IndexFacts DEF Room
  <2> QED
    BY <1>2, <1>t, <2>1
    DEF CheckFull, Inv, Bounded, RoomKept, MessageKept, ClaimBehindHead,
        OverwrittenOnlyWhenFull, WrittenTail
<1>3. CASE WriteSlot
  <2> USE <1>3 DEF WriteSlot
  <2>1. Bounded' /\ RoomKept' /\ MessageKept' /\ ClaimBehindHead'
    BY DEF Inv, Bounded, RoomKept, MessageKept, ClaimBehindHead
  <2>2. Dist(tail, head) < Capacity
    BY DEF Inv, RoomKept
  <2>3. WrittenTail = tail /\ WrittenTail' = Succ(tail)
    BY DEF WrittenTail
  <2>4. Dist(Succ(tail), head) = Dist(tail, head) + 1
    BY <1>i, <1>d, <2>2, DistSuccLeft, IndexFacts
  <2>5. ASSUME cpc = "read", Dist(tail, head) # Capacity - 1
        PROVE  buffer'[Slot(chead)] = buffer[Slot(chead)]
    <3>1. head = Succ(chead)
      BY <2>5 DEF Inv, ClaimBehindHead
    <3>2. tail # chead
      <4>1. ASSUME tail = chead PROVE Dist(tail, head) = IndexMod - 1
        <5>1. Dist(tail, head) = IF tail >= head THEN tail - head
                                 ELSE tail - head + IndexMod
          BY <1>i, DistValue
        <5>2. head = IF tail = IndexMod - 1 THEN 0 ELSE tail + 1
          BY <1>i, <3>1, <4>1, SuccValue
        <5> QED
          BY <1>i, <5>1, <5>2, IndexFacts DEF Indices
      <4> QED
        BY <1>d, <2>2, <4>1, IndexFacts
    <3>3. Dist(tail, chead) = Dist(tail, head) + 1
      BY <1>i, <1>d, <3>1, <3>2, DistSuccRight, DistValue, IndexFacts DEF Indices
    <3>4. Slot(tail) # Slot(chead)
      BY <1>i, <1>d, <2>2, <2>5, <3>2, <3>3, NearSlotsDiffer, IndexFacts
    <3> QED
      BY <1>i, <1>t, <3>4, SlotRange DEF TypeOK
  <2>6. OverwrittenOnlyWhenFull'
    <3>1. CASE Dist(tail, head) = Capacity - 1
      BY <2>3, <2>4, <3>1, IndexFacts DEF OverwrittenOnlyWhenFull
    <3>2. CASE Dist(tail, head) # Capacity - 1
      BY <1>d, <2>2, <2>3, <2>5, <3>2, IndexFacts DEF Inv, OverwrittenOnlyWhenFull
    <3> QED
      BY <3>1, <3>2
  <2> QED
    BY <1>t, <2>1, <2>6 DEF Inv
<1>4. CASE PublishTail
  <2> USE <1>4 DEF PublishTail
  <2>1. Dist(tail, head) < Capacity
    BY DEF Inv, RoomKept
  <2>2. Dist(Succ(tail), head) = Dist(tail, head) + 1
    BY <1>i, <1>d, <2>1, DistSuccLeft, IndexFacts
  <2>3. Bounded' /\ RoomKept'
    BY <1>d, <2>1, <2>2, IndexFacts DEF Bounded, RoomKept
  <2>4. MessageKept'
    <3>1. Dist(Succ(tail), head) # 0
      BY <1>d, <2>2
    <3>2. Succ(tail) # head
      BY <1>i, <3>1, DistZero, SuccValue
    <3> QED
      BY <3>2 DEF MessageKept
  <2>5. ClaimBehindHead'
    BY DEF Inv, ClaimBehindHead
  <2>6. OverwrittenOnlyWhenFull'
    BY DEF Inv, OverwrittenOnlyWhenFull, WrittenTail
  <2> QED
    BY <1>t, <2>3, <2>4, <2>5, <2>6 DEF Inv
<1>5. CASE FoundEmpty
  BY <1>5, <1>t
  DEF FoundEmpty, Inv, Bounded, RoomKept, MessageKept, ClaimBehindHead,
      OverwrittenOnlyWhenFull, WrittenTail
<1>6. CASE FoundMessage
  BY <1>6, <1>t
  DEF FoundMessage, Inv, Bounded, RoomKept, MessageKept, ClaimBehindHead,
      OverwrittenOnlyWhenFull, WrittenTail
<1>7. CASE TakeHead
  <2> USE <1>7 DEF TakeHead
  <2>1. Dist(tail, Succ(head)) = Dist(tail, head) - 1
    BY <1>i, DistSuccRight DEF Inv, MessageKept
  <2>2. Bounded' /\ RoomKept'
    BY <1>d, <2>1, IndexFacts DEF Inv, Bounded, RoomKept
  <2>3. MessageKept' /\ ClaimBehindHead'
    BY DEF MessageKept, ClaimBehindHead
  <2>4. OverwrittenOnlyWhenFull'
    BY DEF OverwrittenOnlyWhenFull
  <2> QED
    BY <1>t, <2>2, <2>3, <2>4 DEF Inv
<1>8. CASE ReadSlot
  BY <1>8, <1>t
  DEF ReadSlot, Inv, Bounded, RoomKept, MessageKept, ClaimBehindHead,
      OverwrittenOnlyWhenFull, WrittenTail
<1>9. CASE UNCHANGED vars
  BY <1>9, <1>t
  DEF vars, Inv, Bounded, RoomKept, MessageKept, ClaimBehindHead,
      OverwrittenOnlyWhenFull, WrittenTail
<1> QED
  BY <1>1, <1>2, <1>3, <1>4, <1>5, <1>6, <1>7, <1>8, <1>9
  DEF Next, Producer, Consumer

LEMMA InvCorrect == Spec => []Inv
  BY InvInit, InvStep, PTL DEF Spec

\* enqueue's unsigned test never admits a message too many, also when the
\* indices have wrapped around.
THEOREM RingNeverOverfull == Spec => []NeverOverfull
<1>1. Inv => NeverOverfull
  <2> SUFFICES ASSUME Inv PROVE NeverOverfull
    OBVIOUS
  <2>1. head \in Indices /\ tail \in Indices
    BY DEF Inv, TypeOK
  <2>2. CASE ppc = "publish"
    <3>1. Dist(tail, head) \in 0..(Capacity - 1)
      BY <2>1, <2>2, DistValue, IndexFacts DEF Inv, RoomKept, Indices
    <3>2. Dist(Succ(tail), head) = Dist(tail, head) + 1
      BY <2>1, <3>1, DistSuccLeft, IndexFacts
    <3> QED
      BY <2>2, <3>1, <3>2, IndexFacts DEF NeverOverfull, WrittenTail
  <2>3. CASE ppc # "publish"
    BY <2>3 DEF Inv, Bounded, NeverOverfull, WrittenTail
  <2> QED
    BY <2>2, <2>3
<1> QED
  BY <1>1, InvCorrect, PTL

\* The producer overwrites the slot that dequeue has claimed and not read yet
\* only with the message that fills the ring.
THEOREM ClaimSafeUnlessFull == Spec => []OverwrittenOnlyWhenFull
<1>1. Inv => OverwrittenOnlyWhenFull
  BY DEF Inv
<1> QED
  BY <1>1, InvCorrect, PTL

-----------------------------------------------------------------------------
(* SPSCQueue implements RingQueue.  What the ring holds is read off the    *)
(* slots between head_ and the written end, and no claim is empty.         *)

\* The position of the i-th message of a ring that starts at h.
Place(h, i) == (h + i - 1) % IndexMod

\* How many messages are written and not claimed.
Front == Dist(WrittenTail, head)

Items == [i \in 1..Dist(WrittenTail, head) |-> buffer[Slot((head + i - 1) % IndexMod)]]

Claimed == IF cpc = "read" THEN buffer[Slot(chead)] ELSE NULL

Filled ==
    /\ \A i \in 1..Front : buffer[Slot(Place(head, i))] \in Msgs
    /\ cpc = "read" => buffer[Slot(chead)] \in Msgs

LEMMA PlaceValue ==
    ASSUME NEW h \in Indices, NEW i \in 1..IndexMod
    PROVE  /\ Place(h, i) \in Indices
           /\ Place(h, i) = IF h + i - 1 < IndexMod THEN h + i - 1 ELSE h + i - 1 - IndexMod
<1>1. CASE h + i - 1 < IndexMod
  <2>1. h + i - 1 \in 0..(IndexMod - 1)
    BY <1>1, IndexFacts DEF Indices
  <2>2. (h + i - 1) % IndexMod = h + i - 1
    BY <2>1, IndexFacts, SmallRemainder
  <2> QED
    BY <1>1, <2>1, <2>2 DEF Place, Indices
<1>2. CASE h + i - 1 >= IndexMod
  <2> DEFINE r == h + i - 1 - IndexMod
  <2>1. r \in 0..(IndexMod - 1) /\ r \in Int /\ 1 \in Int /\ IndexMod \in Nat \ {0}
    BY <1>2, IndexFacts DEF Indices
  <2>2. r + 1 * IndexMod = h + i - 1
    BY IndexFacts DEF Indices
  <2> HIDE DEF r
  <2>3. (r + 1 * IndexMod) % IndexMod = r % IndexMod
    BY <2>1, SlotPeriodic, Zenon
  <2>4. r % IndexMod = r
    BY <2>1, SmallRemainder
  <2>5. Place(h, i) = r
    BY <2>2, <2>3, <2>4 DEF Place
  <2> QED
    BY <1>2, <2>1, <2>5, IndexFacts DEF Indices, r
<1> QED
  BY <1>1, <1>2, IndexFacts DEF Indices

\* The first message is at h, the end of the ring is one place behind its last
\* message, and a ring that starts one index later has the same places.
LEMMA PlaceFacts ==
    ASSUME NEW h \in Indices, NEW t \in Indices, Dist(t, h) < IndexMod
    PROVE  /\ Place(h, 1) = h
           /\ Place(h, Dist(t, h) + 1) = t
           /\ \A i \in 1..(IndexMod - 1) : Place(Succ(h), i) = Place(h, i + 1)
<1> USE IndexFacts
<1>1. Place(h, 1) = h
  BY PlaceValue DEF Indices
<1>2. Place(h, Dist(t, h) + 1) = t
  <2>1. Dist(t, h) \in Indices /\ Dist(t, h) = IF t >= h THEN t - h ELSE t - h + IndexMod
    BY DistValue
  <2>2. Dist(t, h) + 1 \in 1..IndexMod
    BY <2>1 DEF Indices
  <2> QED
    BY <2>1, <2>2, PlaceValue DEF Indices
<1>3. ASSUME NEW i \in 1..(IndexMod - 1) PROVE Place(Succ(h), i) = Place(h, i + 1)
  <2>1. Succ(h) \in Indices /\ Succ(h) = IF h = IndexMod - 1 THEN 0 ELSE h + 1
    BY SuccValue
  <2>2. i \in 1..IndexMod /\ i + 1 \in 1..IndexMod
    BY <1>3
  <2>3. Place(Succ(h), i) = IF Succ(h) + i - 1 < IndexMod THEN Succ(h) + i - 1 ELSE Succ(h) + i - 1 - IndexMod
    BY <2>1, <2>2, PlaceValue
  <2>4. Place(h, i + 1) = IF h + (i + 1) - 1 < IndexMod THEN h + (i + 1) - 1 ELSE h + (i + 1) - 1 - IndexMod
    BY <2>2, PlaceValue
  <2> QED
    BY <2>1, <2>3, <2>4 DEF Indices
<1> QED
  BY <1>1, <1>2, <1>3

\* The messages of a ring that is not full are in other slots than its end.
LEMMA EndSlotFree ==
    ASSUME NEW h \in Indices, NEW t \in Indices, Dist(t, h) < Capacity, NEW i \in 1..Dist(t, h)
    PROVE  Slot(Place(h, i)) # Slot(t) /\ Place(h, i) \in Indices
<1> USE IndexFacts
<1>1. Dist(t, h) \in Indices /\ Dist(t, h) = IF t >= h THEN t - h ELSE t - h + IndexMod
  BY DistValue
<1>2. i \in 1..IndexMod
  BY <1>1 DEF Indices
<1> DEFINE q == Place(h, i)
<1>3. q \in Indices /\ q = IF h + i - 1 < IndexMod THEN h + i - 1 ELSE h + i - 1 - IndexMod
  BY <1>2, PlaceValue
<1> HIDE DEF q
<1>4. Dist(t, q) = IF t >= q THEN t - q ELSE t - q + IndexMod
  BY <1>3, DistValue
<1>5. t # q /\ Dist(t, q) < Capacity
  BY <1>1, <1>3, <1>4 DEF Indices
<1> QED
  BY <1>3, <1>5, NearSlotsDiffer DEF q

\* Indices a whole lap apart, wrapped or not, use the same slot.
LEMMA LapSameSlot ==
    ASSUME NEW a \in Indices, NEW b \in Indices, Dist(a, b) = Capacity
    PROVE  Slot(a) = Slot(b)
<1>1. PICK k \in Int : IndexMod = k * Capacity
  BY CapacityDivides
<1>2. a \in Int /\ b \in Int /\ Capacity \in Nat \ {0} /\ 1 \in Int /\ IndexMod \in Nat
  BY IndexFacts DEF Indices
<1>3. Dist(a, b) = IF a >= b THEN a - b ELSE a - b + IndexMod
  BY DistValue
<1>4. (b + 1 * Capacity) % Capacity = b % Capacity
  BY <1>2, SlotPeriodic, Zenon
<1>5. CASE a >= b
  <2>1. b + 1 * Capacity = a
    BY <1>2, <1>3, <1>5
  <2> QED
    BY <1>4, <2>1 DEF Slot
<1>6. CASE a < b
  <2>1. a + k * Capacity = b + 1 * Capacity
    BY <1>1, <1>2, <1>3, <1>6
  <2>2. (a + k * Capacity) % Capacity = a % Capacity
    BY <1>1, <1>2, SlotPeriodic, Zenon
  <2> QED
    BY <1>4, <2>1, <2>2 DEF Slot
<1> QED
  BY <1>2, <1>5, <1>6

\* What the write of a slot does: the message comes behind the others, and
\* replaces the claimed one exactly when it fills the ring.
LEMMA WriteEffect ==
    ASSUME Inv, WriteSlot
    PROVE  /\ Front \in Nat /\ Front < Capacity /\ Front' = Front + 1
           /\ \A i \in 1..Front : buffer'[Slot(Place(head, i))] = buffer[Slot(Place(head, i))]
           /\ buffer'[Slot(Place(head, Front + 1))] = pmsg
           /\ cpc = "read" => buffer'[Slot(chead)] =
                                 IF Front = Capacity - 1 THEN pmsg ELSE buffer[Slot(chead)]
<1> USE IndexFacts
<1>i. head \in Indices /\ tail \in Indices /\ chead \in Indices /\ buffer \in [Slots -> Msgs \cup {NULL}]
  BY DEF Inv, TypeOK
<1>w. /\ ppc = "write" /\ ppc' = "publish" /\ UNCHANGED <<head, tail, cpc, chead>>
      /\ buffer' = [buffer EXCEPT ![Slot(tail)] = pmsg]
  BY DEF WriteSlot
<1>1. Front = Dist(tail, head) /\ Front' = Dist(Succ(tail), head)
  BY <1>w DEF Front, WrittenTail
<1>2. Dist(tail, head) < Capacity
  BY <1>w DEF Inv, RoomKept
<1>3. Dist(tail, head) \in Nat
  BY <1>i, DistValue DEF Indices
<1>4. Dist(Succ(tail), head) = Dist(tail, head) + 1
  BY <1>i, <1>2, <1>3, DistSuccLeft
<1>5. Slot(tail) \in Slots /\ buffer'[Slot(tail)] = pmsg /\ \A x \in Slots : x # Slot(tail) => buffer'[x] = buffer[x]
  BY <1>i, <1>w, SlotRange
<1>6. ASSUME NEW i \in 1..Front PROVE buffer'[Slot(Place(head, i))] = buffer[Slot(Place(head, i))]
  <2>1. i \in 1..Dist(tail, head)
    BY <1>1, <1>6
  <2>2. Slot(Place(head, i)) # Slot(tail) /\ Place(head, i) \in Indices
    BY <1>i, <1>2, <2>1, EndSlotFree
  <2> QED
    BY <1>5, <2>2, SlotRange
<1>7. buffer'[Slot(Place(head, Front + 1))] = pmsg
  <2>1. Place(head, Dist(tail, head) + 1) = tail
    BY <1>i, <1>2, <1>3, PlaceFacts
  <2> QED
    BY <1>1, <1>5, <2>1
<1>8. ASSUME cpc = "read"
      PROVE  buffer'[Slot(chead)] = IF Front = Capacity - 1 THEN pmsg ELSE buffer[Slot(chead)]
  <2>1. head = Succ(chead)
    BY <1>8 DEF Inv, ClaimBehindHead
  <2>2. Dist(tail, head) = IF tail >= head THEN tail - head ELSE tail - head + IndexMod
    BY <1>i, DistValue
  <2>3. head = IF chead = IndexMod - 1 THEN 0 ELSE chead + 1
    BY <1>i, <2>1, SuccValue
  <2>4. Dist(tail, chead) = IF tail >= chead THEN tail - chead ELSE tail - chead + IndexMod
    BY <1>i, DistValue
  <2>5. tail # chead /\ Dist(tail, chead) = Dist(tail, head) + 1
    BY <1>i, <1>2, <2>2, <2>3, <2>4 DEF Indices
  <2>6. CASE Front = Capacity - 1
    <3>1. Slot(tail) = Slot(chead)
      BY <1>i, <1>1, <2>5, <2>6, LapSameSlot
    <3> QED
      BY <1>5, <2>6, <3>1
  <2>7. CASE Front # Capacity - 1
    <3>1. Dist(tail, chead) < Capacity
      BY <1>1, <1>2, <1>3, <2>5, <2>7
    <3>2. Slot(tail) # Slot(chead)
      BY <1>i, <2>5, <3>1, NearSlotsDiffer
    <3> QED
      BY <1>i, <1>5, <2>7, <3>2, SlotRange
  <2> QED
    BY <2>6, <2>7
<1> QED
  BY <1>1, <1>2, <1>3, <1>4, <1>6, <1>7, <1>8

\* What the advance of head_ does: the first message leaves the ring.
LEMMA TakeEffect ==
    ASSUME Inv, TakeHead
    PROVE  /\ Front \in 1..Capacity /\ Front' = Front - 1
           /\ Place(head, 1) = head
           /\ \A i \in 1..(Front - 1) : Place(head', i) = Place(head, i + 1)
<1> USE IndexFacts
<1>i. head \in Indices /\ tail \in Indices
  BY DEF Inv, TypeOK
<1>w. cpc = "take" /\ head' = Succ(head) /\ UNCHANGED <<tail, ppc>>
  BY DEF TakeHead
<1>1. WrittenTail \in Indices /\ WrittenTail' = WrittenTail
  BY <1>i, <1>w, SuccValue DEF WrittenTail
<1>2. head # tail
  BY <1>w DEF Inv, MessageKept
<1>3. Dist(tail, head) \in 0..Capacity /\ Dist(tail, head) # 0
  BY <1>i, <1>2, DistValue, DistZero DEF Inv, Bounded, Indices
<1>4. Front \in 1..Capacity
  <2>1. CASE ppc = "publish"
    <3>1. Dist(tail, head) < Capacity
      BY <2>1 DEF Inv, RoomKept
    <3>2. Dist(Succ(tail), head) = Dist(tail, head) + 1
      BY <1>i, <1>3, <3>1, DistSuccLeft
    <3> QED
      BY <1>3, <2>1, <3>1, <3>2 DEF Front, WrittenTail
  <2>2. CASE ppc # "publish"
    BY <1>3, <2>2 DEF Front, WrittenTail
  <2> QED
    BY <2>1, <2>2
<1>5. WrittenTail # head
  BY <1>i, <1>1, <1>4, DistZero DEF Front
<1>6. Dist(WrittenTail, Succ(head)) = Dist(WrittenTail, head) - 1
  BY <1>i, <1>1, <1>5, DistSuccRight
<1>7. Front' = Front - 1
  BY <1>w, <1>1, <1>6 DEF Front
<1>8. Place(head, 1) = head /\ \A i \in 1..(IndexMod - 1) : Place(Succ(head), i) = Place(head, i + 1)
  BY <1>i, <1>3, PlaceFacts
<1> QED
  BY <1>w, <1>4, <1>7, <1>8

\* The steps that move neither the ring nor the claim.
LEMMA OtherEffect ==
    ASSUME Inv, Next, ~WriteSlot, ~TakeHead
    PROVE  Front' = Front /\ UNCHANGED <<head, buffer>>
  BY DEF Next, Producer, Consumer, CallEnqueue, CheckFull, PublishTail, FoundEmpty,
         FoundMessage, ReadSlot, Front, WrittenTail

LEMMA FilledInit == Init => Filled
<1> SUFFICES ASSUME Init PROVE Filled
  OBVIOUS
<1>1. Dist(0, 0) = 0
  BY DistZero, IndexFacts DEF Indices
<1> QED
  BY <1>1 DEF Init, Filled, Front, WrittenTail

LEMMA FilledStep == Inv /\ Filled /\ [Next]_vars => Filled'
<1> SUFFICES ASSUME Inv, Filled, [Next]_vars PROVE Filled'
  OBVIOUS
<1>1. CASE WriteSlot
  <2>1. pmsg \in Msgs /\ UNCHANGED <<head, cpc, chead>>
    BY <1>1 DEF Inv, TypeOK, WriteSlot
  <2>2. /\ Front \in Nat /\ Front < Capacity /\ Front' = Front + 1
        /\ \A i \in 1..Front : buffer'[Slot(Place(head, i))] = buffer[Slot(Place(head, i))]
        /\ buffer'[Slot(Place(head, Front + 1))] = pmsg
        /\ cpc = "read" => buffer'[Slot(chead)] =
                              IF Front = Capacity - 1 THEN pmsg ELSE buffer[Slot(chead)]
    BY <1>1, WriteEffect
  <2>3. ASSUME NEW i \in 1..(Front + 1) PROVE buffer'[Slot(Place(head, i))] \in Msgs
    <3>1. CASE i \in 1..Front
      BY <2>2, <3>1 DEF Filled
    <3>2. CASE i = Front + 1
      BY <2>1, <2>2, <3>2
    <3> QED
      BY <2>2, <3>1, <3>2
  <2> QED
    BY <2>1, <2>2, <2>3 DEF Filled, Slot, Place
<1>2. CASE TakeHead
  <2>1. cpc' = "read" /\ chead' = head /\ UNCHANGED buffer
    BY <1>2 DEF TakeHead
  <2>2. /\ Front \in 1..Capacity /\ Front' = Front - 1
        /\ Place(head, 1) = head
        /\ \A i \in 1..(Front - 1) : Place(head', i) = Place(head, i + 1)
    BY <1>2, TakeEffect
  <2>3. buffer[Slot(head)] \in Msgs
    <3>1. 1 \in 1..Front
      BY <2>2, IndexFacts
    <3> QED
      BY <2>2, <3>1 DEF Filled
  <2>4. ASSUME NEW i \in 1..(Front - 1) PROVE buffer[Slot(Place(head', i))] \in Msgs
    <3>1. i + 1 \in 1..Front
      BY <2>2, IndexFacts
    <3> QED
      BY <2>2, <3>1 DEF Filled
  <2> QED
    BY <2>1, <2>2, <2>3, <2>4 DEF Filled, Slot, Place
<1>3. CASE Next /\ ~WriteSlot /\ ~TakeHead
  <2>1. Front' = Front /\ UNCHANGED <<head, buffer>>
    BY <1>3, OtherEffect
  <2>2. cpc' = "read" => cpc = "read" /\ chead' = chead
    BY <1>3 DEF Next, Producer, Consumer, CallEnqueue, CheckFull, PublishTail, FoundEmpty,
                FoundMessage, ReadSlot
  <2> QED
    BY <2>1, <2>2 DEF Filled, Slot, Place
<1>4. CASE UNCHANGED vars
  BY <1>4 DEF vars, Filled, Front, WrittenTail, Slot, Place
<1> QED
  BY <1>1, <1>2, <1>3, <1>4

ItemsListed ==
    /\ Items \in Seq(Msgs) /\ Len(Items) = Front /\ Front \in Nat
    /\ \A i \in 1..Front : Items[i] = buffer[Slot(Place(head, i))]

\* The ring's content is a sequence of messages.
LEMMA ItemsSeq == Inv /\ Filled => ItemsListed
<1> SUFFICES ASSUME Inv, Filled PROVE ItemsListed
  OBVIOUS
<1>1. Front \in Nat
  <2>1. WrittenTail \in Indices /\ head \in Indices
    BY SuccValue DEF Inv, TypeOK, WrittenTail
  <2> QED
    BY <2>1, DistValue, IndexFacts DEF Front, Indices
<1>2. Items = [i \in 1..Front |-> buffer[Slot(Place(head, i))]]
  BY DEF Items, Front, Place
<1>3. Items \in [1..Front -> Msgs]
  BY <1>2 DEF Filled
<1>4. Items \in Seq(Msgs)
  BY <1>1, <1>3, SeqDef, Zenon
<1>5. Len(Items) = Front
  BY <1>1, <1>2, <1>4, LenProperties
<1> QED
  BY <1>1, <1>2, <1>4, <1>5 DEF ItemsListed

\* The ring of CustomSPSCLockFreeQueue is the FIFO of RingQueue: messages leave
\* in the order in which they came, and at most the claimed one is replaced,
\* by the message that fills the ring.
THEOREM RefinesRingQueue == Spec => ImplementsRingQueue
<1>1. Init => Ring!Init
  <2> SUFFICES ASSUME Init PROVE Ring!Init
    OBVIOUS
  <2>1. Inv /\ Filled
    BY InvInit, FilledInit
  <2>2. Front = 0
    BY DistZero, IndexFacts DEF Init, Front, WrittenTail, Indices
  <2>3. Items = <<>>
    BY <2>1, <2>2, ItemsSeq, EmptySeq DEF ItemsListed
  <2> QED
    BY <2>3 DEF Init, Ring!Init, Items
<1>2. Inv /\ Inv' /\ Filled /\ Filled' /\ [Next]_vars => [Ring!Next]_Ring!qvars
  <2> SUFFICES ASSUME Inv, Inv', Filled, Filled', [Next]_vars PROVE [Ring!Next]_Ring!qvars
    OBVIOUS
  <2>s. /\ Items \in Seq(Msgs) /\ Len(Items) = Front /\ Front \in Nat
        /\ \A i \in 1..Front : Items[i] = buffer[Slot(Place(head, i))]
    BY ItemsSeq DEF ItemsListed
  <2>t. /\ Items' \in Seq(Msgs) /\ Len(Items') = Front' /\ Front' \in Nat
        /\ \A i \in 1..Front' : Items'[i] = buffer'[Slot(Place(head', i))]
    <3>1. ItemsListed'
      BY ItemsSeq, PTL
    <3> QED
      BY <3>1 DEF ItemsListed, Place, Slot
  <2>1. CASE WriteSlot
    <3>1. pmsg \in Msgs /\ UNCHANGED <<head, cpc, chead, got>>
      BY <2>1 DEF Inv, TypeOK, WriteSlot
    <3>2. /\ Front < Capacity /\ Front' = Front + 1
          /\ \A i \in 1..Front : buffer'[Slot(Place(head, i))] = buffer[Slot(Place(head, i))]
          /\ buffer'[Slot(Place(head, Front + 1))] = pmsg
          /\ cpc = "read" => buffer'[Slot(chead)] =
                                IF Front = Capacity - 1 THEN pmsg ELSE buffer[Slot(chead)]
      BY <2>1, WriteEffect
    <3>3. Items' = Append(Items, pmsg)
      <4>1. /\ Append(Items, pmsg) \in Seq(Msgs) /\ Len(Append(Items, pmsg)) = Front + 1
            /\ \A i \in 1..Front : Append(Items, pmsg)[i] = Items[i]
            /\ Append(Items, pmsg)[Front + 1] = pmsg
        BY <2>s, <3>1, AppendProperties
      <4>2. \A i \in 1..(Front + 1) : Items'[i] = Append(Items, pmsg)[i]
        <5> SUFFICES ASSUME NEW i \in 1..(Front + 1) PROVE Items'[i] = Append(Items, pmsg)[i]
          OBVIOUS
        <5>1. Items'[i] = buffer'[Slot(Place(head, i))]
          BY <2>t, <3>1, <3>2
        <5>2. CASE i \in 1..Front
          BY <2>s, <3>2, <4>1, <5>1, <5>2
        <5>3. CASE i = Front + 1
          BY <3>2, <4>1, <5>1, <5>3
        <5> QED
          BY <2>s, <5>2, <5>3
      <4> QED
        BY <2>s, <2>t, <3>2, <4>1, <4>2, SeqEqual
    <3>4. Claimed' = IF Claimed # NULL /\ Len(Items) = Capacity - 1 THEN pmsg ELSE Claimed
      <4>1. cpc = "read" => buffer[Slot(chead)] # NULL
        BY NullAssumption DEF Filled
      <4> QED
        BY <2>s, <3>1, <3>2, <4>1 DEF Claimed, Slot
    <3>5. Ring!Enqueue(pmsg)
      BY <2>s, <3>1, <3>2, <3>3, <3>4 DEF Ring!Enqueue, Items, Claimed
    <3> QED
      BY <3>1, <3>5 DEF Ring!Next
  <2>2. CASE TakeHead
    <3>1. cpc = "take" /\ cpc' = "read" /\ chead' = head /\ UNCHANGED <<buffer, got>>
      BY <2>2 DEF TakeHead
    <3>2. /\ Front \in 1..Capacity /\ Front' = Front - 1
          /\ Place(head, 1) = head
          /\ \A i \in 1..(Front - 1) : Place(head', i) = Place(head, i + 1)
      BY <2>2, TakeEffect
    <3>3. Items # <<>> /\ Head(Items) = buffer[Slot(head)]
      BY <2>s, <3>2, IndexFacts
    <3>4. Items' = Tail(Items)
      <4>1. /\ Tail(Items) \in Seq(Msgs) /\ Len(Tail(Items)) = Front - 1
            /\ \A i \in 1..(Front - 1) : Tail(Items)[i] = Items[i + 1]
        BY <2>s, <3>3, HeadTailProperties
      <4>2. \A i \in 1..(Front - 1) : Items'[i] = Tail(Items)[i]
        <5> SUFFICES ASSUME NEW i \in 1..(Front - 1) PROVE Items'[i] = Tail(Items)[i]
          OBVIOUS
        <5>1. i + 1 \in 1..Front
          BY <3>2, IndexFacts
        <5>2. Items'[i] = buffer[Slot(Place(head, i + 1))]
          BY <2>t, <3>1, <3>2
        <5> QED
          BY <2>s, <4>1, <5>1, <5>2
      <4> QED
        BY <2>s, <2>t, <3>2, <4>1, <4>2, SeqEqual
    <3>5. Claimed = NULL /\ Claimed' = buffer[Slot(head)]
      BY <3>1 DEF Claimed, Slot
    <3>6. Ring!Claim
      BY <3>1, <3>3, <3>4, <3>5 DEF Ring!Claim, Items, Claimed
    <3> QED
      BY <3>6 DEF Ring!Next
  <2>3. CASE ReadSlot
    <3>1. Front' = Front /\ UNCHANGED <<head, buffer>>
      BY <2>3 DEF ReadSlot, Front, WrittenTail
    <3>2. Items' = Items
      BY <3>1 DEF Items, Front, Slot
    <3>3. Claimed # NULL /\ got' = Claimed /\ Claimed' = NULL
      BY <2>3, NullAssumption DEF ReadSlot, Claimed, Filled
    <3>4. Ring!Deliver
      BY <3>2, <3>3 DEF Ring!Deliver, Items, Claimed
    <3> QED
      BY <3>4 DEF Ring!Next
  <2>4. CASE FoundEmpty
    <3>1. Front' = Front /\ UNCHANGED <<head, buffer>>
      BY <2>4 DEF FoundEmpty, Front, WrittenTail
    <3>2. Items' = Items
      BY <3>1 DEF Items, Front, Slot
    <3>3. Claimed = NULL /\ Claimed' = NULL /\ got' = NULL
      BY <2>4 DEF FoundEmpty, Claimed
    <3>4. Ring!Miss
      BY <3>2, <3>3 DEF Ring!Miss, Items, Claimed
    <3> QED
      BY <3>4 DEF Ring!Next
  <2>5. CASE \/ (\E m \in Msgs : CallEnqueue(m)) \/ CheckFull \/ PublishTail \/ FoundMessage
             \/ UNCHANGED vars
    <3>1. Front' = Front /\ UNCHANGED <<head, buffer, got>>
      BY <2>5 DEF CallEnqueue, CheckFull, PublishTail, FoundMessage, vars, Front, WrittenTail
    <3>2. Items' = Items
      BY <3>1 DEF Items, Front, Slot
    <3>3. Claimed' = Claimed
      BY <2>5 DEF CallEnqueue, CheckFull, PublishTail, FoundMessage, vars, Claimed, Slot
    <3> QED
      BY <3>1, <3>2, <3>3 DEF Ring!qvars, Items, Claimed
  <2> QED
    BY <2>1, <2>2, <2>3, <2>4, <2>5 DEF Next, Producer, Consumer
<1>3. Spec => []Filled
  BY InvCorrect, FilledInit, FilledStep, PTL DEF Spec
<1> QED
  BY <1>1, <1>2, <1>3, InvCorrect, PTL DEF Spec, ImplementsRingQueue, Ring!Spec

-----------------------------------------------------------------------------
(* The free list: where every node is.                                     *)

Bit == SHOULD_BE_ON_FREELIST

Ends == Nodes \cup {NULL}

\* Where a thread that puts a node back goes on.
Backs == {FreeList!Idle} \cup [pc : {"refs"}, node : Nodes]

Local ==
    {FreeList!Idle} \cup [pc : {"again"}]
    \cup [pc : {"load"}, node : Nodes, back : Backs]
    \cup [pc : {"link", "push", "undo"}, node : Nodes, back : Backs, head : Ends]
    \cup [pc : {"refs", "next", "taken"}, node : Nodes]
    \cup [pc : {"hold"}, node : Nodes, refs : Nat]
    \cup [pc : {"pop"}, node : Nodes, next : Ends]
    \cup [pc : {"release"}, node : Nodes, back : Backs]

HoldPcs == {"next", "pop", "taken", "release"}
OwnPcs == {"load", "link", "push", "undo", "taken"}

\* The threads whose reference is counted, and the one thread that carries a
\* node onto the list or away from it.
Holders(loc, n) == {t \in ListThreads : loc[t].pc \in HoldPcs /\ loc[t].node = n}
Owners(loc, n) == {t \in ListThreads : loc[t].pc \in OwnPcs /\ loc[t].node = n}

Role(r) == IF r.pc \in {"load", "link"} THEN "linking"
           ELSE IF r.pc = "taken" THEN "taken" ELSE "pushing"

\* A node is out, on the list, waiting for its last reader to put it there,
\* or in the hands of one thread.
Places == {"out", "list", "wait", "linking", "pushing", "taken"}

\* The part of the count that is not a thread's.
Base(s) == IF s = "out" THEN 0 ELSE IF s \in {"linking", "wait"} THEN Bit ELSE 1

\* Node n, with count r, is at s.
NodeOK(loc, n, s, r, isOut) ==
    /\ s \in Places
    /\ (s = "out") <=> (isOut = TRUE)
    /\ r = Cardinality(Holders(loc, n)) + Base(s)
    /\ s = "linking" => Holders(loc, n) = {}
    /\ s = "wait" => Holders(loc, n) # {}
    /\ s \in {"out", "list", "wait"} => Owners(loc, n) = {}
    /\ s \in {"linking", "pushing", "taken"} =>
            \E t \in ListThreads : Owners(loc, n) = {t} /\ Role(loc[t]) = s

\* The list from the head has L nodes, no node twice, and ends.
Chain(f, L, h, nx) ==
    /\ f \in [Nat -> Ends] /\ L \in Nat
    /\ f[0] = h
    /\ \A k \in Nat : (f[k] = NULL) <=> (k >= L)
    /\ \A k \in Nat : k < L => f[k + 1] = nx[f[k]]
    /\ \A j, k \in Nat : j < L /\ f[j] = f[k] => j = k

FLTypes ==
    /\ lister \in [ListThreads -> Local]
    /\ freeListRefs \in [Nodes -> Nat]
    /\ freeListNext \in [Nodes -> Ends]
    /\ out \subseteq Nodes
    /\ freeListHead \in Ends

\* What a thread has read and still relies on.
SeenOK(r, nx) ==
    /\ r.pc = "hold" => r.refs % Bit # 0
    /\ r.pc = "pop" => r.next = nx[r.node]
    /\ r.pc = "push" => r.head = nx[r.node]

OnChain(f, L, n) == \E k \in Nat : k < L /\ f[k] = n

FLShape(f, L, st) ==
    /\ Chain(f, L, freeListHead, freeListNext)
    /\ st \in [Nodes -> Places]
    /\ \A n \in Nodes : (st[n] = "list") <=> OnChain(f, L, n)
    /\ \A n \in Nodes : NodeOK(lister, n, st[n], freeListRefs[n], n \in out)

FLSeen == \A t \in ListThreads : SeenOK(lister[t], freeListNext)

FLInv == FLTypes /\ FLSeen /\ \E f, L, st : FLShape(f, L, st)

LEMMA HoldersFinite ==
    ASSUME NEW loc, NEW n
    PROVE  /\ IsFiniteSet(Holders(loc, n))
           /\ Cardinality(Holders(loc, n)) \in Nat
           /\ Cardinality(Holders(loc, n)) <= Cardinality(ListThreads)
           /\ Cardinality(Holders(loc, n)) = 0 <=> Holders(loc, n) = {}
  <1>1. Holders(loc, n) \subseteq ListThreads
    BY DEF Holders
  <1>2. IsFiniteSet(Holders(loc, n))
        /\ Cardinality(Holders(loc, n)) <= Cardinality(ListThreads)
    BY <1>1, FreeListAssumption, FS_Subset
  <1> QED BY <1>2, FS_CardinalityType, FS_EmptySet

\* A count reaches the bit only when the bit is set, and the bit alone is a
\* multiple of it.
LEMMA CountFacts ==
    ASSUME NEW loc, NEW n, NEW s, NEW r, NEW o, NodeOK(loc, n, s, r, o)
    PROVE  /\ Bit \in Nat /\ Bit > 1 /\ r \in Nat
           /\ r < Bit <=> s \notin {"linking", "wait"}
           /\ s = "linking" => r % Bit = 0
  <1> DEFINE h == Cardinality(Holders(loc, n))
  <1>1. h \in Nat /\ h <= Cardinality(ListThreads) /\ (h = 0 <=> Holders(loc, n) = {})
    BY HoldersFinite
  <1>2. Bit \in Nat /\ Cardinality(ListThreads) \in Nat /\ Bit > Cardinality(ListThreads) + 1
    BY FreeListAssumption, FS_CardinalityType DEF Bit
  <1>3. r = h + Base(s) /\ s \in Places /\ (s = "linking" => Holders(loc, n) = {})
    BY DEF NodeOK
  <1>4. Base(s) \in {0, 1, Bit} /\ (Base(s) = Bit <=> s \in {"linking", "wait"})
    BY <1>2, <1>3 DEF Base, Places
  <1>5. s = "linking" => r = Bit
    BY <1>1, <1>2, <1>3, <1>4
  <1>6. Bit % Bit = 0
    BY <1>2
  <1> QED
    <2> HIDE DEF h
    <2>1. r \in Nat /\ (r < Bit <=> s \notin {"linking", "wait"})
      BY <1>1, <1>2, <1>3, <1>4
    <2> QED BY <2>1, <1>1, <1>2, <1>5, <1>6

-----------------------------------------------------------------------------
(* What a step of one thread does to the nodes.                            *)

Touches(r, n) == r.pc \in HoldPcs \cup OwnPcs /\ r.node = n

\* Nothing changes for a node that the thread had no part in and takes none in.
LEMMA Elsewhere ==
    ASSUME NEW loc, DOMAIN loc = ListThreads, NEW t \in ListThreads, NEW r,
           NEW n, ~Touches(loc[t], n), ~Touches(r, n),
           NEW s, NEW c, NEW o, NodeOK(loc, n, s, c, o)
    PROVE  NodeOK([loc EXCEPT ![t] = r], n, s, c, o)
  <1> DEFINE loc2 == [loc EXCEPT ![t] = r]
  <1>1. loc2[t] = r /\ \A u \in ListThreads : u # t => loc2[u] = loc[u]
    OBVIOUS
  <1> HIDE DEF loc2
  <1>2. Holders(loc2, n) = Holders(loc, n)
    BY <1>1 DEF Holders, Touches
  <1>3. Owners(loc2, n) = Owners(loc, n)
    BY <1>1 DEF Owners, Touches
  <1>4. t \notin Owners(loc, n)
    BY DEF Owners, Touches
  <1>5. \A u \in ListThreads : Owners(loc, n) = {u} => loc2[u] = loc[u]
    BY <1>1, <1>4
  <1>6. NodeOK(loc2, n, s, c, o)
    BY <1>2, <1>3, <1>5 DEF NodeOK
  <1> QED BY <1>6 DEF loc2

\* What the thread's own node gains or loses.
Effect(loc, loc2, t, r, n) ==
    /\ loc2[t] = r
    /\ \A u \in ListThreads : u # t => loc2[u] = loc[u]
    /\ r.pc \in HoldPcs /\ r.node = n => Holders(loc2, n) = Holders(loc, n) \cup {t}
    /\ r.pc \notin HoldPcs => Holders(loc2, n) = Holders(loc, n) \ {t}
    /\ loc[t].pc \in HoldPcs /\ loc[t].node = n => t \in Holders(loc, n)
    /\ loc[t].pc \notin HoldPcs => t \notin Holders(loc, n)
    /\ r.pc \in OwnPcs /\ r.node = n => Owners(loc2, n) = Owners(loc, n) \cup {t}
    /\ r.pc \notin OwnPcs => Owners(loc2, n) = Owners(loc, n) \ {t}
    /\ loc[t].pc \in OwnPcs /\ loc[t].node = n => t \in Owners(loc, n)
    /\ loc[t].pc \notin OwnPcs => t \notin Owners(loc, n)

LEMMA RightHere ==
    ASSUME NEW loc, DOMAIN loc = ListThreads, NEW t \in ListThreads, NEW r, NEW n,
           NEW loc2, loc2 = [loc EXCEPT ![t] = r]
    PROVE  Effect(loc, loc2, t, r, n)
  <1>1. loc2[t] = r /\ \A u \in ListThreads : u # t => loc2[u] = loc[u]
    OBVIOUS
  <1> QED BY <1>1 DEF Effect, Holders, Owners

LEMMA OneMore ==
    ASSUME NEW t, NEW loc, NEW n
    PROVE  /\ t \notin Holders(loc, n) =>
                Cardinality(Holders(loc, n) \cup {t}) = Cardinality(Holders(loc, n)) + 1
           /\ t \in Holders(loc, n) =>
                Cardinality(Holders(loc, n) \ {t}) = Cardinality(Holders(loc, n)) - 1
  BY HoldersFinite, FS_AddElement, FS_RemoveElement

\* What a thread's record holds, by where the thread is.
LEMMA Shapes ==
    ASSUME NEW r \in Local
    PROVE  /\ r.pc \in {"idle", "again", "load", "link", "push", "undo", "refs", "next",
                        "taken", "hold", "pop", "release"}
           /\ r.pc = "idle" => r = FreeList!Idle
           /\ r.pc = "again" => r = [pc |-> "again"]
           /\ r.pc = "load" => /\ r.node \in Nodes /\ r.back \in Backs
                               /\ r = [pc |-> "load", node |-> r.node, back |-> r.back]
           /\ r.pc \in {"link", "push", "undo"} =>
                  /\ r.node \in Nodes /\ r.back \in Backs /\ r.head \in Ends
                  /\ r = [pc |-> r.pc, node |-> r.node, back |-> r.back, head |-> r.head]
           /\ r.pc \in {"refs", "next", "taken"} =>
                  r.node \in Nodes /\ r = [pc |-> r.pc, node |-> r.node]
           /\ r.pc = "hold" => /\ r.node \in Nodes /\ r.refs \in Nat
                               /\ r = [pc |-> "hold", node |-> r.node, refs |-> r.refs]
           /\ r.pc = "pop" => /\ r.node \in Nodes /\ r.next \in Ends
                              /\ r = [pc |-> "pop", node |-> r.node, next |-> r.next]
           /\ r.pc = "release" => /\ r.node \in Nodes /\ r.back \in Backs
                                  /\ r = [pc |-> "release", node |-> r.node, back |-> r.back]
  <1>1. CASE r \in {FreeList!Idle}
    BY <1>1 DEF FreeList!Idle
  <1>2. CASE r \in [pc : {"again"}]
    BY <1>2
  <1>3. CASE r \in [pc : {"load"}, node : Nodes, back : Backs]
    BY <1>3
  <1>4. CASE r \in [pc : {"link", "push", "undo"}, node : Nodes, back : Backs, head : Ends]
    BY <1>4
  <1>5. CASE r \in [pc : {"refs", "next", "taken"}, node : Nodes]
    BY <1>5
  <1>6. CASE r \in [pc : {"hold"}, node : Nodes, refs : Nat]
    BY <1>6
  <1>7. CASE r \in [pc : {"pop"}, node : Nodes, next : Ends]
    BY <1>7
  <1>8. CASE r \in [pc : {"release"}, node : Nodes, back : Backs]
    BY <1>8
  <1> QED BY <1>1, <1>2, <1>3, <1>4, <1>5, <1>6, <1>7, <1>8 DEF Local

\* The records a thread can go back to say nothing about a node.
LEMMA BackFacts ==
    ASSUME NEW b \in Backs
    PROVE  /\ b \in Local
           /\ b.pc \in {"idle", "refs"}
           /\ \A n : ~Touches(b, n)
           /\ \A nx : SeenOK(b, nx)
  <1>1. b.pc \in {"idle", "refs"}
    BY DEF Backs, FreeList!Idle
  <1>2. b \in Local
    BY DEF Backs, Local
  <1> QED BY <1>1, <1>2 DEF Touches, SeenOK, HoldPcs, OwnPcs

LEMMA TryFromFacts ==
    ASSUME NEW n \in Ends
    PROVE  FreeList!TryFrom(n) \in Backs
  BY DEF FreeList!TryFrom, Backs, Ends

\* Thread t moves to r, node m to place s; no other node is concerned.
Moves(t, r, m, s) ==
    /\ t \in ListThreads /\ r \in Local /\ m \in Nodes
    /\ lister' = [lister EXCEPT ![t] = r]
    /\ FLTypes'
    /\ \A n \in Nodes \ {m} : /\ ~Touches(lister[t], n) /\ ~Touches(r, n)
                              /\ freeListRefs'[n] = freeListRefs[n]
                              /\ n \in out' <=> n \in out
                              /\ freeListNext'[n] = freeListNext[n]
    /\ NodeOK(lister', m, s, freeListRefs'[m], m \in out')
    /\ SeenOK(r, freeListNext')

\* One node changes its place, the chain stays.
LEMMA Kept ==
    ASSUME FLTypes, FLSeen, NEW f, NEW L, NEW st, FLShape(f, L, st),
           NEW t, NEW r, NEW m, NEW s, Moves(t, r, m, s),
           freeListHead' = freeListHead,
           freeListNext'[m] # freeListNext[m] =>
                Holders(lister, m) = {} /\ Owners(lister, m) = {t} /\ st[m] # "list",
           s = "list" <=> st[m] = "list"
    PROVE  FLInv'
  <1> USE DEF Moves
  <1> DEFINE st2 == [st EXCEPT ![m] = s]
  <1>1. /\ st \in [Nodes -> Places] /\ DOMAIN lister = ListThreads
        /\ \A u \in ListThreads : lister[u] \in Local
    BY DEF FLShape, FLTypes
  <1>2. s \in Places /\ st2 \in [Nodes -> Places]
    BY <1>1 DEF NodeOK
  <1>3. \A n \in Nodes : NodeOK(lister', n, st2[n], freeListRefs'[n], n \in out')
    <2> SUFFICES ASSUME NEW n \in Nodes
                 PROVE  NodeOK(lister', n, st2[n], freeListRefs'[n], n \in out')
      OBVIOUS
    <2>1. CASE n = m
      BY <2>1, <1>1
    <2>2. CASE n # m
      <3>1. ~Touches(lister[t], n) /\ ~Touches(r, n)
        BY <2>2
      <3>2. NodeOK(lister, n, st[n], freeListRefs[n], n \in out)
        BY DEF FLShape
      <3>3. NodeOK([lister EXCEPT ![t] = r], n, st[n], freeListRefs[n], n \in out)
        BY <1>1, <3>1, <3>2, Elsewhere
      <3>4. st2[n] = st[n] /\ freeListRefs'[n] = freeListRefs[n] /\ (n \in out' <=> n \in out)
        BY <2>2, <1>1
      <3>5. NodeOK(lister', n, st[n], freeListRefs[n], n \in out')
        <4>1. NodeOK(lister', n, st[n], freeListRefs[n], n \in out)
          BY <3>3
        <4> QED BY <4>1, <3>4, Zenon DEF NodeOK
      <3> QED BY <3>4, <3>5
    <2> QED BY <2>1, <2>2
  <1>4. \A k \in Nat : k < L => f[k] \in Nodes /\ f[k] \in Ends /\ OnChain(f, L, f[k])
    BY FreeListAssumption DEF FLShape, Chain, Ends, OnChain
  <1>5. \A k \in Nat : k < L => freeListNext'[f[k]] = freeListNext[f[k]]
    <2> SUFFICES ASSUME NEW k \in Nat, k < L PROVE freeListNext'[f[k]] = freeListNext[f[k]]
      OBVIOUS
    <2>1. f[k] \in Nodes /\ st[f[k]] = "list"
      BY <1>4 DEF FLShape
    <2> QED BY <2>1
  <1>6. Chain(f, L, freeListHead', freeListNext')
    BY <1>5 DEF FLShape, Chain
  <1>7. \A n \in Nodes : (st2[n] = "list") <=> OnChain(f, L, n)
    BY <1>1, Zenon DEF FLShape
  <1>8. \A u \in ListThreads : SeenOK(lister'[u], freeListNext')
    <2> SUFFICES ASSUME NEW u \in ListThreads PROVE SeenOK(lister'[u], freeListNext')
      OBVIOUS
    <2>1. CASE u = t
      BY <2>1, <1>1
    <2>2. CASE u # t
      <3>1. lister'[u] = lister[u] /\ SeenOK(lister[u], freeListNext)
        BY <2>2, <1>1 DEF FLSeen
      <3>2. lister[u].pc = "pop" => lister[u].node \in Nodes /\ u \in Holders(lister, lister[u].node)
        BY <1>1, Shapes DEF Holders, HoldPcs
      <3>3. lister[u].pc = "pop" => freeListNext'[lister[u].node] = freeListNext[lister[u].node]
        BY <3>2
      <3>4. lister[u].pc = "push" => lister[u].node \in Nodes /\ u \in Owners(lister, lister[u].node)
        BY <1>1, Shapes DEF Owners, OwnPcs
      <3>5. lister[u].pc = "push" => freeListNext'[lister[u].node] = freeListNext[lister[u].node]
        BY <2>2, <3>4
      <3> QED BY <3>1, <3>3, <3>5 DEF SeenOK
    <2> QED BY <2>1, <2>2
  <1> HIDE DEF st2
  <1>9. FLShape(f, L, st2)'
    BY <1>2, <1>3, <1>6, <1>7 DEF FLShape
  <1>10. FLSeen'
    BY <1>8 DEF FLSeen
  <1> QED BY <1>9, <1>10 DEF FLInv

\* A step that only reads.
LEMMA Still ==
    ASSUME FLInv, NEW t \in ListThreads, NEW r \in Local,
           lister' = [lister EXCEPT ![t] = r],
           UNCHANGED <<freeListHead, freeListRefs, freeListNext, out>>,
           \A n : ~Touches(lister[t], n) /\ ~Touches(r, n),
           SeenOK(r, freeListNext)
    PROVE  FLInv'
  <1>1. PICK f, L, st : FLShape(f, L, st)
    BY DEF FLInv
  <1>2. FLTypes /\ FLSeen /\ DOMAIN lister = ListThreads
    BY DEF FLInv, FLTypes
  <1>3. FLTypes'
    BY <1>2 DEF FLTypes
  <1>4. \A n \in Nodes : NodeOK(lister', n, st[n], freeListRefs[n], n \in out)
    BY <1>1, <1>2, Elsewhere DEF FLShape
  <1>5. FLShape(f, L, st)'
    BY <1>1, <1>4 DEF FLShape
  <1>6. FLSeen'
    BY <1>2 DEF FLSeen, FLTypes
  <1> QED BY <1>3, <1>5, <1>6 DEF FLInv

-----------------------------------------------------------------------------
(* The steps.                                                              *)

\* What is known of thread t's node n.
LEMMA NodeFacts ==
    ASSUME FLTypes, NEW f, NEW L, NEW st, FLShape(f, L, st), NEW n \in Nodes
    PROVE  /\ NodeOK(lister, n, st[n], freeListRefs[n], n \in out)
           /\ st[n] \in Places
           /\ freeListRefs[n] \in Nat /\ Bit \in Nat /\ Bit > 1
           /\ freeListRefs[n] < Bit <=> st[n] \notin {"linking", "wait"}
           /\ st[n] = "linking" => freeListRefs[n] % Bit = 0
           /\ \A t \in ListThreads : lister[t].pc \in OwnPcs /\ lister[t].node = n =>
                  Owners(lister, n) = {t} /\ st[n] = Role(lister[t])
  <1>1. NodeOK(lister, n, st[n], freeListRefs[n], n \in out)
    BY DEF FLShape
  <1>2. st[n] \in Places
    BY <1>1 DEF NodeOK
  <1>3. \A t \in ListThreads : lister[t].pc \in OwnPcs /\ lister[t].node = n =>
            t \in Owners(lister, n)
    BY DEF Owners
  <1>4. \A t \in ListThreads : t \in Owners(lister, n) =>
                  Owners(lister, n) = {t} /\ st[n] = Role(lister[t])
    BY <1>1, <1>2 DEF NodeOK, Places
  <1>5. /\ freeListRefs[n] \in Nat /\ Bit \in Nat /\ Bit > 1
        /\ freeListRefs[n] < Bit <=> st[n] \notin {"linking", "wait"}
        /\ st[n] = "linking" => freeListRefs[n] % Bit = 0
    BY <1>1, CountFacts
  <1> QED BY <1>1, <1>2, <1>3, <1>4, <1>5

\* add, whether the thread goes on to link the node or leaves it to a reader.
LEMMA StepAdd ==
    ASSUME FLInv, NEW t \in ListThreads, NEW m \in Nodes, FreeList!Add(t, m)
    PROVE  FLInv'
  <1>1. PICK f, L, st : FLShape(f, L, st)
    BY DEF FLInv
  <1>2. FLTypes /\ FLSeen /\ DOMAIN lister = ListThreads
    BY DEF FLInv, FLTypes
  <1>3. PICK r : /\ r = IF freeListRefs[m] = 0
                        THEN [pc |-> "load", node |-> m, back |-> FreeList!Idle]
                        ELSE FreeList!Idle
                 /\ lister' = [lister EXCEPT ![t] = r]
    BY DEF FreeList!Add, FreeList!Go
  <1>4. /\ lister[t] = FreeList!Idle /\ m \in out
        /\ freeListRefs' = [freeListRefs EXCEPT ![m] = @ + Bit]
        /\ out' = out \ {m}
        /\ UNCHANGED <<freeListHead, freeListNext>>
    BY DEF FreeList!Add, FreeList!AddRefs, Bit
  <1>5. /\ freeListRefs[m] = 0 => /\ r.pc = "load" /\ r.node = m
                                  /\ r = [pc |-> "load", node |-> m, back |-> FreeList!Idle]
        /\ freeListRefs[m] # 0 => r.pc = "idle" /\ r = FreeList!Idle
    BY <1>3 DEF FreeList!Idle
  <1>6. r \in Local /\ r.pc \in {"idle", "load"} /\ lister[t].pc = "idle"
    <2>1. FreeList!Idle \in Local /\ FreeList!Idle \in Backs /\ FreeList!Idle.pc = "idle"
      BY DEF FreeList!Idle, Local, Backs
    <2>2. [pc |-> "load", node |-> m, back |-> FreeList!Idle] \in Local
      BY <2>1 DEF Local
    <2> QED BY <1>4, <1>5, <2>1, <2>2
  <1>7. freeListRefs[m] \in Nat /\ Bit \in Nat /\ Bit > 1
        /\ NodeOK(lister, m, st[m], freeListRefs[m], m \in out)
    BY <1>1, <1>2, NodeFacts
  <1>8. FLTypes'
    BY <1>2, <1>4, <1>3, <1>6, <1>7 DEF FLTypes
  <1>9. st[m] = "out" /\ Owners(lister, m) = {}
    BY <1>4, <1>7 DEF NodeOK
  <1>10. freeListRefs[m] = Cardinality(Holders(lister, m))
    BY <1>7, <1>9, HoldersFinite DEF NodeOK, Base
  <1>11. /\ lister'[t] = r
         /\ Holders(lister', m) = Holders(lister, m)
         /\ Owners(lister', m) = IF freeListRefs[m] = 0 THEN {t} ELSE {}
    <2>1. Effect(lister, lister', t, r, m)
      BY <1>2, <1>3, RightHere
    <2> QED BY <2>1, <1>5, <1>6, <1>9 DEF Effect, HoldPcs, OwnPcs
  <1>12. freeListRefs'[m] = freeListRefs[m] + Bit /\ m \notin out'
    BY <1>2, <1>4 DEF FLTypes
  <1>13. PICK s \in {"linking", "wait"} : s = "linking" <=> freeListRefs[m] = 0
    OBVIOUS
  <1>14. NodeOK(lister', m, s, freeListRefs'[m], m \in out')
    <2>1. freeListRefs[m] = 0 <=> Holders(lister, m) = {}
      BY <1>10, HoldersFinite
    <2>2. s \in Places /\ s # "out" /\ s # "list" /\ Base(s) = Bit
      BY DEF Places, Base
    <2>3. s = "linking" => Role(lister'[t]) = s
      BY <1>5, <1>11, <1>13 DEF Role
    <2> QED BY <1>10, <1>11, <1>12, <1>13, <2>1, <2>2, <2>3 DEF NodeOK
  <1>15. \A n \in Nodes \ {m} : /\ ~Touches(lister[t], n) /\ ~Touches(r, n)
                                /\ freeListRefs'[n] = freeListRefs[n]
                                /\ n \in out' <=> n \in out
                                /\ freeListNext'[n] = freeListNext[n]
    BY <1>2, <1>4, <1>5, <1>6 DEF FLTypes, Touches, HoldPcs, OwnPcs
  <1>16. SeenOK(r, freeListNext')
    BY <1>6 DEF SeenOK
  <1>17. s = "list" <=> st[m] = "list"
    BY <1>9
  <1>18. freeListNext'[m] = freeListNext[m] /\ freeListHead' = freeListHead
    BY <1>4
  <1>19. Moves(t, r, m, s)
    BY <1>3, <1>6, <1>8, <1>14, <1>15, <1>16 DEF Moves
  <1> QED BY <1>1, <1>2, <1>17, <1>18, <1>19, Kept

LEMMA StepLoadHead ==
    ASSUME FLInv, NEW t \in ListThreads, FreeList!LoadHead(t)
    PROVE  FLInv'
  <1>1. PICK f, L, st : FLShape(f, L, st)
    BY DEF FLInv
  <1>2. FLTypes /\ FLSeen /\ DOMAIN lister = ListThreads /\ lister[t] \in Local
    BY DEF FLInv, FLTypes
  <1>3. PICK m : m = lister[t].node
    OBVIOUS
  <1>4. lister[t].pc = "load" /\ m \in Nodes /\ lister[t].back \in Backs
    BY <1>2, <1>3, Shapes DEF FreeList!LoadHead
  <1>5. PICK r : /\ r = [pc |-> "link", node |-> m, back |-> lister[t].back,
                         head |-> freeListHead]
                 /\ lister' = [lister EXCEPT ![t] = r]
    BY <1>3 DEF FreeList!LoadHead, FreeList!Go
  <1>6. UNCHANGED <<freeListHead, freeListRefs, freeListNext, out>>
    BY DEF FreeList!LoadHead
  <1>7. r \in Local /\ r.pc = "link" /\ r.node = m
    BY <1>2, <1>4, <1>5 DEF Local, FLTypes
  <1>8. FLTypes'
    BY <1>2, <1>5, <1>6, <1>7 DEF FLTypes
  <1>9. /\ NodeOK(lister, m, st[m], freeListRefs[m], m \in out)
        /\ Owners(lister, m) = {t} /\ st[m] = "linking"
    <2>1. lister[t].pc \in OwnPcs /\ Role(lister[t]) = "linking"
      BY <1>4 DEF OwnPcs, Role
    <2> QED BY <1>1, <1>2, <1>3, <1>4, <2>1, NodeFacts
  <1>10. Holders(lister', m) = Holders(lister, m) /\ Owners(lister', m) = {t} /\ lister'[t] = r
    <2>1. Effect(lister, lister', t, r, m)
      BY <1>2, <1>5, RightHere
    <2> QED BY <2>1, <1>4, <1>7, <1>9 DEF Effect, HoldPcs, OwnPcs
  <1>11. NodeOK(lister', m, "linking", freeListRefs'[m], m \in out')
    <2>1. Role(r) = "linking"
      BY <1>7 DEF Role
    <2> QED BY <1>6, <1>9, <1>10, <2>1 DEF NodeOK
  <1>12. \A n \in Nodes \ {m} : /\ ~Touches(lister[t], n) /\ ~Touches(r, n)
                                /\ freeListRefs'[n] = freeListRefs[n]
                                /\ n \in out' <=> n \in out
                                /\ freeListNext'[n] = freeListNext[n]
    BY <1>3, <1>6, <1>7 DEF Touches
  <1>13. SeenOK(r, freeListNext')
    BY <1>7 DEF SeenOK
  <1>14. freeListNext'[m] = freeListNext[m] /\ freeListHead' = freeListHead
    BY <1>6
  <1>15. Moves(t, r, m, "linking")
    BY <1>4, <1>5, <1>7, <1>8, <1>11, <1>12, <1>13 DEF Moves
  <1> QED BY <1>1, <1>2, <1>9, <1>14, <1>15, Kept

LEMMA StepLink ==
    ASSUME FLInv, NEW t \in ListThreads, FreeList!Link(t)
    PROVE  FLInv'
  <1>1. PICK f, L, st : FLShape(f, L, st)
    BY DEF FLInv
  <1>2. FLTypes /\ FLSeen /\ DOMAIN lister = ListThreads /\ lister[t] \in Local
    BY DEF FLInv, FLTypes
  <1>3. PICK m : m = lister[t].node
    OBVIOUS
  <1>4. PICK r : r = [lister[t] EXCEPT !.pc = "push"] /\ lister' = [lister EXCEPT ![t] = r]
    BY DEF FreeList!Link, FreeList!Go
  <1>5. /\ lister[t].pc = "link"
        /\ freeListNext' = [freeListNext EXCEPT ![m] = lister[t].head]
        /\ freeListRefs' = [freeListRefs EXCEPT ![m] = 1]
        /\ UNCHANGED <<freeListHead, out>>
    BY <1>3 DEF FreeList!Link
  <1>6. /\ m \in Nodes /\ lister[t].head \in Ends
        /\ r \in Local /\ r.pc = "push" /\ r.node = m /\ r.head = lister[t].head
    <2>1. /\ m \in Nodes /\ lister[t].head \in Ends /\ lister[t].back \in Backs
          /\ lister[t] = [pc |-> "link", node |-> m, back |-> lister[t].back,
                          head |-> lister[t].head]
      BY <1>2, <1>3, <1>5, Shapes
    <2>2. r = [pc |-> "push", node |-> m, back |-> lister[t].back, head |-> lister[t].head]
      BY <1>4, <2>1
    <2> QED BY <2>1, <2>2 DEF Local
  <1>7. FLTypes'
    BY <1>2, <1>4, <1>5, <1>6 DEF FLTypes
  <1>8. /\ NodeOK(lister, m, st[m], freeListRefs[m], m \in out)
        /\ Owners(lister, m) = {t} /\ st[m] = "linking"
    <2>1. lister[t].pc \in OwnPcs /\ Role(lister[t]) = "linking"
      BY <1>5 DEF OwnPcs, Role
    <2> QED BY <1>1, <1>2, <1>3, <1>6, <2>1, NodeFacts
  <1>9. Holders(lister, m) = {}
    BY <1>8 DEF NodeOK
  <1>10. Holders(lister', m) = {} /\ Owners(lister', m) = {t} /\ lister'[t] = r
    <2>1. Effect(lister, lister', t, r, m)
      BY <1>2, <1>4, RightHere
    <2> QED BY <2>1, <1>5, <1>6, <1>8, <1>9 DEF Effect, HoldPcs, OwnPcs
  <1>11. freeListRefs'[m] = 1 /\ m \notin out'
    BY <1>2, <1>5, <1>6, <1>8 DEF FLTypes, NodeOK
  <1>12. NodeOK(lister', m, "pushing", freeListRefs'[m], m \in out')
    <2>1. Role(r) = "pushing" /\ Base("pushing") = 1 /\ "pushing" \in Places
      BY <1>6 DEF Role, Base, Places
    <2>2. Cardinality(Holders(lister', m)) = 0
      BY <1>10, HoldersFinite
    <2> QED BY <1>10, <1>11, <2>1, <2>2 DEF NodeOK
  <1>13. \A n \in Nodes \ {m} : /\ ~Touches(lister[t], n) /\ ~Touches(r, n)
                                /\ freeListRefs'[n] = freeListRefs[n]
                                /\ n \in out' <=> n \in out
                                /\ freeListNext'[n] = freeListNext[n]
    BY <1>2, <1>3, <1>5, <1>6 DEF FLTypes, Touches
  <1>14. Moves(t, r, m, "pushing")
    <2>1. freeListNext'[m] = lister[t].head
      BY <1>2, <1>5, <1>6 DEF FLTypes
    <2> QED BY <1>4, <1>6, <1>7, <1>12, <1>13, <2>1 DEF Moves, SeenOK
  <1> QED BY <1>1, <1>2, <1>5, <1>8, <1>9, <1>14, Kept

\* A node that could not be pushed is linked again by its thread when nobody
\* refers to it, and left to its readers otherwise.
LEMMA StepUndo ==
    ASSUME FLInv, NEW t \in ListThreads, FreeList!Undo(t)
    PROVE  FLInv'
  <1>1. PICK f, L, st : FLShape(f, L, st)
    BY DEF FLInv
  <1>2. FLTypes /\ FLSeen /\ DOMAIN lister = ListThreads /\ lister[t] \in Local
    BY DEF FLInv, FLTypes
  <1>3. PICK m : m = lister[t].node
    OBVIOUS
  <1>4. PICK r : /\ r = IF freeListRefs[m] = 1 THEN [lister[t] EXCEPT !.pc = "link"]
                        ELSE lister[t].back
                 /\ lister' = [lister EXCEPT ![t] = r]
    BY <1>3 DEF FreeList!Undo, FreeList!Go
  <1>5. /\ lister[t].pc = "undo"
        /\ freeListRefs' = [freeListRefs EXCEPT ![m] = @ + (Bit - 1)]
        /\ UNCHANGED <<freeListHead, freeListNext, out>>
    BY <1>3 DEF FreeList!Undo, FreeList!AddRefs, Bit
  <1>6. /\ m \in Nodes /\ r \in Local
        /\ freeListRefs[m] = 1 => r.pc = "link" /\ r.node = m
        /\ freeListRefs[m] # 1 => r.pc \in {"idle", "refs"} /\ \A n : ~Touches(r, n)
    <2>1. /\ m \in Nodes /\ lister[t].head \in Ends /\ lister[t].back \in Backs
          /\ lister[t] = [pc |-> "undo", node |-> m, back |-> lister[t].back,
                          head |-> lister[t].head]
      BY <1>2, <1>3, <1>5, Shapes
    <2>2. freeListRefs[m] = 1 =>
             r = [pc |-> "link", node |-> m, back |-> lister[t].back, head |-> lister[t].head]
      BY <1>4, <2>1
    <2>3. [pc |-> "link", node |-> m, back |-> lister[t].back, head |-> lister[t].head] \in Local
      BY <2>1 DEF Local
    <2>4. CASE freeListRefs[m] = 1
      BY <2>1, <2>2, <2>3, <2>4
    <2>5. CASE freeListRefs[m] # 1
      <3>1. r \in Backs
        BY <1>4, <2>1, <2>5
      <3> QED BY <2>1, <2>5, <3>1, BackFacts
    <2> QED BY <2>4, <2>5
  <1>7. /\ NodeOK(lister, m, st[m], freeListRefs[m], m \in out)
        /\ Owners(lister, m) = {t} /\ st[m] = "pushing"
        /\ freeListRefs[m] \in Nat /\ Bit \in Nat /\ Bit > 1
    <2>1. lister[t].pc \in OwnPcs /\ Role(lister[t]) = "pushing"
      BY <1>5 DEF OwnPcs, Role
    <2> QED BY <1>1, <1>2, <1>3, <1>6, <2>1, NodeFacts
  <1>8. FLTypes'
    BY <1>2, <1>4, <1>5, <1>6, <1>7 DEF FLTypes
  <1>9. freeListRefs[m] = Cardinality(Holders(lister, m)) + 1
    BY <1>7 DEF NodeOK, Base
  <1>10. /\ Holders(lister', m) = Holders(lister, m) /\ lister'[t] = r
         /\ Owners(lister', m) = IF freeListRefs[m] = 1 THEN {t} ELSE {}
    <2>1. Effect(lister, lister', t, r, m)
      BY <1>2, <1>4, RightHere
    <2> QED BY <2>1, <1>5, <1>6, <1>7 DEF Effect, HoldPcs, OwnPcs
  <1>11. PICK s \in {"linking", "wait"} : s = "linking" <=> freeListRefs[m] = 1
    OBVIOUS
  <1>12. freeListRefs'[m] = freeListRefs[m] + (Bit - 1) /\ m \notin out'
    BY <1>2, <1>5, <1>6, <1>7 DEF FLTypes, NodeOK
  <1>13. NodeOK(lister', m, s, freeListRefs'[m], m \in out')
    <2>1. s \in Places /\ Base(s) = Bit /\ (s = "linking" => Role(r) = s)
      BY <1>6, <1>11 DEF Places, Base, Role
    <2>2. /\ Holders(lister', m) = {} <=> freeListRefs[m] = 1
          /\ Cardinality(Holders(lister', m)) \in Nat
      BY <1>9, <1>10, HoldersFinite
    <2>3. freeListRefs'[m] = Cardinality(Holders(lister', m)) + Bit
      BY <1>7, <1>9, <1>10, <1>12, <2>2
    <2> QED BY <1>10, <1>11, <1>12, <2>1, <2>2, <2>3 DEF NodeOK
  <1>14. \A n \in Nodes \ {m} : /\ ~Touches(lister[t], n) /\ ~Touches(r, n)
                                /\ freeListRefs'[n] = freeListRefs[n]
                                /\ n \in out' <=> n \in out
                                /\ freeListNext'[n] = freeListNext[n]
    BY <1>2, <1>3, <1>5, <1>6 DEF FLTypes, Touches
  <1>15. Moves(t, r, m, s)
    BY <1>4, <1>6, <1>8, <1>13, <1>14 DEF Moves, SeenOK
  <1> QED BY <1>1, <1>2, <1>5, <1>7, <1>15, Kept

LEMMA StepTryGet ==
    ASSUME FLInv, NEW t \in ListThreads, FreeList!TryGet(t)
    PROVE  FLInv'
  <1>1. PICK r : r = FreeList!TryFrom(freeListHead) /\ lister' = [lister EXCEPT ![t] = r]
    BY DEF FreeList!TryGet, FreeList!Go
  <1>2. UNCHANGED <<freeListHead, freeListRefs, freeListNext, out>>
        /\ lister[t].pc \in {"idle", "again"}
    BY DEF FreeList!TryGet, FreeList!Idle
  <1>3. r \in Backs
    BY <1>1, TryFromFacts DEF FLInv, FLTypes
  <1>4. r \in Local /\ (\A n : ~Touches(r, n)) /\ SeenOK(r, freeListNext)
    BY <1>3, BackFacts
  <1>5. \A n : ~Touches(lister[t], n)
    BY <1>2 DEF Touches, HoldPcs, OwnPcs
  <1> QED BY <1>1, <1>2, <1>4, <1>5, Still

\* A count seen at a multiple of the bit is no use to a reader.
LEMMA StepLoadRefs ==
    ASSUME FLInv, NEW t \in ListThreads, FreeList!LoadRefs(t)
    PROVE  FLInv'
  <1>1. FLTypes /\ lister[t] \in Local
    BY DEF FLInv, FLTypes
  <1>2. PICK c : c = freeListRefs[lister[t].node]
    OBVIOUS
  <1>3. PICK r : /\ r = IF c % Bit = 0 THEN [pc |-> "again"]
                        ELSE [pc |-> "hold", node |-> lister[t].node, refs |-> c]
                 /\ lister' = [lister EXCEPT ![t] = r]
    BY <1>2 DEF FreeList!LoadRefs, FreeList!Go, Bit
  <1>4. UNCHANGED <<freeListHead, freeListRefs, freeListNext, out>>
        /\ lister[t].pc = "refs"
    BY DEF FreeList!LoadRefs
  <1>5. lister[t].node \in Nodes /\ c \in Nat
    BY <1>1, <1>2, <1>4, Shapes DEF FLTypes
  <1>6. r \in Local /\ r.pc \in {"again", "hold"} /\ SeenOK(r, freeListNext)
    <2>1. CASE c % Bit = 0
      BY <1>3, <2>1 DEF Local, SeenOK
    <2>2. CASE c % Bit # 0
      BY <1>3, <1>5, <2>2 DEF Local, SeenOK
    <2> QED BY <2>1, <2>2
  <1>7. \A n : ~Touches(lister[t], n) /\ ~Touches(r, n)
    BY <1>4, <1>6 DEF Touches, HoldPcs, OwnPcs
  <1> QED BY <1>3, <1>4, <1>6, <1>7, Still

LEMMA StepHold ==
    ASSUME FLInv, NEW t \in ListThreads, FreeList!Hold(t)
    PROVE  FLInv'
  <1>1. PICK f, L, st : FLShape(f, L, st)
    BY DEF FLInv
  <1>2. FLTypes /\ FLSeen /\ DOMAIN lister = ListThreads /\ lister[t] \in Local
    BY DEF FLInv, FLTypes
  <1>3. PICK m : m = lister[t].node
    OBVIOUS
  <1>4. /\ lister[t].pc = "hold" /\ m \in Nodes
        /\ UNCHANGED <<freeListHead, freeListNext, out>>
    BY <1>2, <1>3, Shapes DEF FreeList!Hold
  <1>5. CASE freeListRefs[m] # lister[t].refs
    <2>1. lister' = [lister EXCEPT ![t] = [pc |-> "again"]] /\ UNCHANGED freeListRefs
      BY <1>3, <1>5 DEF FreeList!Hold, FreeList!Go
    <2>2. [pc |-> "again"] \in Local /\ SeenOK([pc |-> "again"], freeListNext)
      BY DEF Local, SeenOK
    <2>3. \A n : ~Touches(lister[t], n) /\ ~Touches([pc |-> "again"], n)
      BY <1>4 DEF Touches, HoldPcs, OwnPcs
    <2> QED BY <1>4, <2>1, <2>2, <2>3, Still
  <1>6. CASE freeListRefs[m] = lister[t].refs
    <2>1. PICK r : r = [pc |-> "next", node |-> m] /\ lister' = [lister EXCEPT ![t] = r]
      BY <1>3, <1>6 DEF FreeList!Hold, FreeList!Go
    <2>2. freeListRefs' = [freeListRefs EXCEPT ![m] = @ + 1]
      BY <1>3, <1>6 DEF FreeList!Hold, FreeList!AddRefs
    <2>3. r \in Local /\ r.pc = "next" /\ r.node = m
      BY <1>4, <2>1 DEF Local
    <2>4. /\ NodeOK(lister, m, st[m], freeListRefs[m], m \in out)
          /\ freeListRefs[m] \in Nat
          /\ st[m] = "linking" => freeListRefs[m] % Bit = 0
      BY <1>1, <1>2, <1>4, NodeFacts
    <2>5. st[m] # "linking"
      BY <1>4, <1>6, <1>2, <2>4 DEF FLSeen, SeenOK
    <2>6. FLTypes'
      BY <1>2, <1>4, <2>1, <2>2, <2>3, <2>4 DEF FLTypes
    <2>7. /\ t \notin Holders(lister, m) /\ Holders(lister', m) = Holders(lister, m) \cup {t}
          /\ Owners(lister', m) = Owners(lister, m) /\ t \notin Owners(lister, m)
          /\ \A u \in ListThreads : u # t => lister'[u] = lister[u]
      <3>1. Effect(lister, lister', t, r, m)
        BY <1>2, <2>1, RightHere
      <3> QED BY <3>1, <1>4, <2>3 DEF Effect, HoldPcs, OwnPcs
    <2>8. Cardinality(Holders(lister', m)) = Cardinality(Holders(lister, m)) + 1
      BY <2>7, OneMore
    <2>9. freeListRefs'[m] = freeListRefs[m] + 1
      BY <1>2, <1>4, <2>2 DEF FLTypes
    <2>10. NodeOK(lister', m, st[m], freeListRefs'[m], m \in out')
      <3>1. freeListRefs'[m] = Cardinality(Holders(lister', m)) + Base(st[m])
        <4>1. freeListRefs[m] = Cardinality(Holders(lister, m)) + Base(st[m])
              /\ Base(st[m]) \in {0, 1, Bit}
          BY <2>4 DEF NodeOK, Base
        <4> QED BY <4>1, <2>8, <2>9, HoldersFinite, FreeListAssumption DEF Bit
      <3>2. \A u \in ListThreads : Owners(lister, m) = {u} => lister'[u] = lister[u]
        BY <2>7
      <3> QED BY <1>4, <2>4, <2>5, <2>7, <3>1, <3>2 DEF NodeOK
    <2>11. \A n \in Nodes \ {m} : /\ ~Touches(lister[t], n) /\ ~Touches(r, n)
                                  /\ freeListRefs'[n] = freeListRefs[n]
                                  /\ n \in out' <=> n \in out
                                  /\ freeListNext'[n] = freeListNext[n]
      BY <1>2, <1>3, <1>4, <2>2, <2>3 DEF FLTypes, Touches
    <2>12. Moves(t, r, m, st[m])
      BY <1>4, <2>1, <2>3, <2>6, <2>10, <2>11 DEF Moves, SeenOK
    <2> QED BY <1>1, <1>2, <1>4, <2>12, Kept
  <1> QED BY <1>5, <1>6

\* While a reader holds a node, its next is not written.
LEMMA StepReadNext ==
    ASSUME FLInv, NEW t \in ListThreads, FreeList!ReadNext(t)
    PROVE  FLInv'
  <1>1. PICK f, L, st : FLShape(f, L, st)
    BY DEF FLInv
  <1>2. FLTypes /\ FLSeen /\ DOMAIN lister = ListThreads /\ lister[t] \in Local
    BY DEF FLInv, FLTypes
  <1>3. PICK m : m = lister[t].node
    OBVIOUS
  <1>4. /\ lister[t].pc = "next" /\ m \in Nodes
        /\ UNCHANGED <<freeListHead, freeListRefs, freeListNext, out>>
    BY <1>2, <1>3, Shapes DEF FreeList!ReadNext
  <1>5. PICK r : /\ r = [pc |-> "pop", node |-> m, next |-> freeListNext[m]]
                 /\ lister' = [lister EXCEPT ![t] = r]
    BY <1>3 DEF FreeList!ReadNext, FreeList!Go
  <1>6. r \in Local /\ r.pc = "pop" /\ r.node = m /\ r.next = freeListNext[m]
    BY <1>2, <1>4, <1>5 DEF Local, FLTypes
  <1>7. NodeOK(lister, m, st[m], freeListRefs[m], m \in out)
    BY <1>1, <1>2, <1>4, NodeFacts
  <1>8. FLTypes'
    BY <1>2, <1>4, <1>5, <1>6 DEF FLTypes
  <1>9. /\ Holders(lister', m) = Holders(lister, m)
        /\ Owners(lister', m) = Owners(lister, m) /\ t \notin Owners(lister, m)
        /\ \A u \in ListThreads : u # t => lister'[u] = lister[u]
    <2>1. Effect(lister, lister', t, r, m)
      BY <1>2, <1>5, RightHere
    <2> QED BY <2>1, <1>3, <1>4, <1>6 DEF Effect, HoldPcs, OwnPcs
  <1>10. NodeOK(lister', m, st[m], freeListRefs'[m], m \in out')
    <2>1. \A u \in ListThreads : Owners(lister, m) = {u} => lister'[u] = lister[u]
      BY <1>9
    <2> QED BY <1>4, <1>7, <1>9, <2>1 DEF NodeOK
  <1>11. \A n \in Nodes \ {m} : /\ ~Touches(lister[t], n) /\ ~Touches(r, n)
                                /\ freeListRefs'[n] = freeListRefs[n]
                                /\ n \in out' <=> n \in out
                                /\ freeListNext'[n] = freeListNext[n]
    BY <1>3, <1>4, <1>6 DEF Touches
  <1>12. Moves(t, r, m, st[m])
    BY <1>4, <1>5, <1>6, <1>8, <1>10, <1>11 DEF Moves, SeenOK
  <1> QED BY <1>1, <1>2, <1>4, <1>12, Kept

LEMMA StepReturn ==
    ASSUME FLInv, NEW t \in ListThreads, FreeList!Return(t)
    PROVE  FLInv'
  <1>1. PICK f, L, st : FLShape(f, L, st)
    BY DEF FLInv
  <1>2. FLTypes /\ FLSeen /\ DOMAIN lister = ListThreads /\ lister[t] \in Local
    BY DEF FLInv, FLTypes
  <1>3. PICK m : m = lister[t].node
    OBVIOUS
  <1>4. PICK r : r = FreeList!Idle /\ lister' = [lister EXCEPT ![t] = r]
    BY DEF FreeList!Return, FreeList!Go
  <1>5. /\ lister[t].pc = "taken" /\ m \in Nodes
        /\ freeListRefs' = [freeListRefs EXCEPT ![m] = @ + -2]
        /\ out' = out \cup {m}
        /\ UNCHANGED <<freeListHead, freeListNext>>
    BY <1>2, <1>3, Shapes DEF FreeList!Return, FreeList!AddRefs
  <1>6. r \in Local /\ r.pc = "idle"
    BY <1>4 DEF Local, FreeList!Idle
  <1>7. /\ NodeOK(lister, m, st[m], freeListRefs[m], m \in out)
        /\ Owners(lister, m) = {t} /\ st[m] = "taken" /\ freeListRefs[m] \in Nat
    <2>1. lister[t].pc \in OwnPcs /\ Role(lister[t]) = "taken"
      BY <1>5 DEF OwnPcs, Role
    <2> QED BY <1>1, <1>2, <1>3, <1>5, <2>1, NodeFacts
  <1>8. /\ t \in Holders(lister, m) /\ Holders(lister', m) = Holders(lister, m) \ {t}
        /\ Owners(lister', m) = {}
    <2>1. Effect(lister, lister', t, r, m)
      BY <1>2, <1>4, RightHere
    <2> QED BY <2>1, <1>3, <1>5, <1>6, <1>7 DEF Effect, HoldPcs, OwnPcs
  <1>9. freeListRefs'[m] = freeListRefs[m] - 2 /\ m \in out'
    BY <1>2, <1>5, <1>7 DEF FLTypes
  <1>10. freeListRefs'[m] = Cardinality(Holders(lister', m))
         /\ freeListRefs'[m] \in Nat
    <2>1. freeListRefs[m] = Cardinality(Holders(lister, m)) + 1
      BY <1>7 DEF NodeOK, Base
    <2>2. Cardinality(Holders(lister', m)) = Cardinality(Holders(lister, m)) - 1
      BY <1>8, OneMore
    <2>3. Cardinality(Holders(lister', m)) \in Nat /\ Cardinality(Holders(lister, m)) \in Nat
      BY HoldersFinite
    <2> QED BY <1>9, <2>1, <2>2, <2>3
  <1>11. FLTypes'
    BY <1>2, <1>4, <1>5, <1>6, <1>9, <1>10 DEF FLTypes
  <1>12. NodeOK(lister', m, "out", freeListRefs'[m], m \in out')
    <2>1. "out" \in Places /\ Base("out") = 0
      BY DEF Places, Base
    <2> QED BY <1>8, <1>9, <1>10, <2>1 DEF NodeOK
  <1>13. \A n \in Nodes \ {m} : /\ ~Touches(lister[t], n) /\ ~Touches(r, n)
                                /\ freeListRefs'[n] = freeListRefs[n]
                                /\ n \in out' <=> n \in out
                                /\ freeListNext'[n] = freeListNext[n]
    BY <1>2, <1>3, <1>5, <1>6 DEF FLTypes, Touches, HoldPcs, OwnPcs
  <1>14. Moves(t, r, m, "out")
    BY <1>4, <1>5, <1>6, <1>11, <1>12, <1>13 DEF Moves, SeenOK
  <1> QED BY <1>1, <1>2, <1>5, <1>7, <1>14, Kept

\* Whoever drops the last reference to a node that should be on the list is
\* the one to put it there, and nobody else is.
LEMMA StepRelease ==
    ASSUME FLInv, NEW t \in ListThreads, FreeList!Release(t)
    PROVE  FLInv'
  <1>1. PICK f, L, st : FLShape(f, L, st)
    BY DEF FLInv
  <1>2. FLTypes /\ FLSeen /\ DOMAIN lister = ListThreads /\ lister[t] \in Local
    BY DEF FLInv, FLTypes
  <1>3. PICK m : m = lister[t].node
    OBVIOUS
  <1>4. PICK r : /\ r = IF freeListRefs[m] = Bit + 1
                        THEN [pc |-> "load", node |-> m, back |-> lister[t].back]
                        ELSE lister[t].back
                 /\ lister' = [lister EXCEPT ![t] = r]
    BY <1>3 DEF FreeList!Release, FreeList!Go, Bit
  <1>5. /\ lister[t].pc = "release" /\ m \in Nodes /\ lister[t].back \in Backs
        /\ freeListRefs' = [freeListRefs EXCEPT ![m] = @ + -1]
        /\ UNCHANGED <<freeListHead, freeListNext, out>>
    BY <1>2, <1>3, Shapes DEF FreeList!Release, FreeList!AddRefs
  <1>6. /\ r \in Local
        /\ freeListRefs[m] = Bit + 1 => r.pc = "load" /\ r.node = m
        /\ freeListRefs[m] # Bit + 1 => r.pc \in {"idle", "refs"} /\ \A n : ~Touches(r, n)
    <2>1. CASE freeListRefs[m] = Bit + 1
      BY <1>4, <1>5, <2>1 DEF Local
    <2>2. CASE freeListRefs[m] # Bit + 1
      <3>1. r \in Backs
        BY <1>4, <1>5, <2>2
      <3> QED BY <2>2, <3>1, BackFacts
    <2> QED BY <2>1, <2>2
  <1>7. /\ NodeOK(lister, m, st[m], freeListRefs[m], m \in out)
        /\ freeListRefs[m] \in Nat /\ Bit \in Nat /\ Bit > 1
        /\ freeListRefs[m] < Bit <=> st[m] \notin {"linking", "wait"}
    BY <1>1, <1>2, <1>5, NodeFacts
  <1>8. /\ t \in Holders(lister, m) /\ Holders(lister', m) = Holders(lister, m) \ {t}
        /\ t \notin Owners(lister, m) /\ lister'[t] = r
        /\ \A u \in ListThreads : u # t => lister'[u] = lister[u]
        /\ Owners(lister', m) = IF freeListRefs[m] = Bit + 1
                                THEN Owners(lister, m) \cup {t} ELSE Owners(lister, m)
    <2>1. Effect(lister, lister', t, r, m)
      BY <1>2, <1>4, RightHere
    <2> QED BY <2>1, <1>3, <1>5, <1>6 DEF Effect, HoldPcs, OwnPcs
  <1>9. st[m] # "linking"
    BY <1>7, <1>8 DEF NodeOK
  <1>10. PICK h : h = Cardinality(Holders(lister, m))
    OBVIOUS
  <1>11. /\ h \in Nat /\ h > 0 /\ Cardinality(Holders(lister', m)) = h - 1
         /\ h <= Cardinality(ListThreads) /\ h - 1 \in Nat
         /\ h - 1 = 0 <=> Holders(lister', m) = {}
    <2>1. h \in Nat /\ h # 0 /\ h <= Cardinality(ListThreads)
      BY <1>8, <1>10, HoldersFinite
    <2>2. Cardinality(Holders(lister', m)) = h - 1
      BY <1>8, <1>10, OneMore
    <2>3. Cardinality(Holders(lister', m)) = 0 <=> Holders(lister', m) = {}
      BY HoldersFinite
    <2> QED BY <2>1, <2>2, <2>3
  <1>12. /\ freeListRefs[m] = h + Base(st[m]) /\ st[m] \in Places
         /\ Base(st[m]) \in {0, 1, Bit} /\ (Base(st[m]) = Bit <=> st[m] = "wait")
    BY <1>7, <1>9, <1>10 DEF NodeOK, Base, Places
  <1>13. freeListRefs'[m] = freeListRefs[m] - 1
    BY <1>2, <1>5, <1>7 DEF FLTypes
  <1>14. freeListRefs'[m] = (h - 1) + Base(st[m]) /\ freeListRefs'[m] \in Nat
    BY <1>7, <1>11, <1>12, <1>13
  <1>15. FLTypes'
    BY <1>2, <1>4, <1>5, <1>6, <1>13, <1>14 DEF FLTypes
  <1>16. freeListRefs[m] = Bit + 1 <=> st[m] = "wait" /\ h = 1
    <2>1. Cardinality(ListThreads) \in Nat /\ Bit > Cardinality(ListThreads) + 1
      BY FreeListAssumption, FS_CardinalityType DEF Bit
    <2>2. h < Bit
      BY <1>7, <1>11, <2>1
    <2>3. CASE st[m] = "wait"
      BY <1>7, <1>11, <1>12, <2>3
    <2>4. CASE st[m] # "wait"
      BY <1>7, <1>11, <1>12, <2>2, <2>4
    <2> QED BY <2>3, <2>4
  <1>17. \A n \in Nodes \ {m} : /\ ~Touches(lister[t], n) /\ ~Touches(r, n)
                                /\ freeListRefs'[n] = freeListRefs[n]
                                /\ n \in out' <=> n \in out
                                /\ freeListNext'[n] = freeListNext[n]
    BY <1>2, <1>3, <1>5, <1>6 DEF FLTypes, Touches
  <1>18. CASE freeListRefs[m] = Bit + 1
    <2>1. st[m] = "wait" /\ h - 1 = 0 /\ Owners(lister', m) = {t}
      BY <1>7, <1>8, <1>16, <1>18 DEF NodeOK
    <2>2. "linking" \in Places /\ Base("linking") = Bit /\ Role(r) = "linking"
          /\ Base("wait") = Bit
      BY <1>6, <1>18 DEF Places, Base, Role
    <2>3. freeListRefs'[m] = Cardinality(Holders(lister', m)) + Bit
      BY <1>11, <1>14, <2>1, <2>2
    <2>4. NodeOK(lister', m, "linking", freeListRefs'[m], m \in out')
      BY <1>5, <1>7, <1>8, <1>11, <2>1, <2>2, <2>3 DEF NodeOK
    <2>5. Moves(t, r, m, "linking")
      BY <1>4, <1>5, <1>6, <1>15, <1>17, <1>18, <2>4 DEF Moves, SeenOK
    <2> QED BY <1>1, <1>2, <1>5, <2>1, <2>5, Kept
  <1>19. CASE freeListRefs[m] # Bit + 1
    <2>1. st[m] = "wait" => Holders(lister', m) # {}
      BY <1>11, <1>16, <1>19
    <2>2. \A u \in ListThreads : Owners(lister, m) = {u} => lister'[u] = lister[u]
      BY <1>8
    <2>3. freeListRefs'[m] = Cardinality(Holders(lister', m)) + Base(st[m])
      BY <1>11, <1>14
    <2>4. NodeOK(lister', m, st[m], freeListRefs'[m], m \in out')
      BY <1>5, <1>7, <1>8, <1>9, <1>19, <2>1, <2>2, <2>3 DEF NodeOK
    <2>5. Moves(t, r, m, st[m])
      BY <1>4, <1>5, <1>6, <1>15, <1>17, <1>19, <2>4 DEF Moves, SeenOK
    <2> QED BY <1>1, <1>2, <1>5, <2>5, Kept
  <1> QED BY <1>18, <1>19

-----------------------------------------------------------------------------
(* The chain, when it grows or shrinks.                                    *)

\* One node changes its place, and the chain with it.
LEMMA Rechained ==
    ASSUME FLTypes, FLSeen, NEW f, NEW L, NEW st, FLShape(f, L, st),
           NEW t, NEW r, NEW m, NEW s, Moves(t, r, m, s),
           UNCHANGED freeListNext,
           NEW g, NEW K, Chain(g, K, freeListHead', freeListNext),
           OnChain(g, K, m) <=> s = "list",
           \A n \in Nodes \ {m} : OnChain(g, K, n) <=> OnChain(f, L, n)
    PROVE  FLInv'
  <1> USE DEF Moves
  <1> DEFINE st2 == [st EXCEPT ![m] = s]
  <1>1. /\ st \in [Nodes -> Places] /\ DOMAIN lister = ListThreads
        /\ \A u \in ListThreads : lister[u] \in Local
    BY DEF FLShape, FLTypes
  <1>2. s \in Places /\ st2 \in [Nodes -> Places]
    BY <1>1 DEF NodeOK
  <1>3. \A n \in Nodes : NodeOK(lister', n, st2[n], freeListRefs'[n], n \in out')
    <2> SUFFICES ASSUME NEW n \in Nodes
                 PROVE  NodeOK(lister', n, st2[n], freeListRefs'[n], n \in out')
      OBVIOUS
    <2>1. CASE n = m
      BY <2>1, <1>1
    <2>2. CASE n # m
      <3>1. ~Touches(lister[t], n) /\ ~Touches(r, n)
        BY <2>2
      <3>2. NodeOK(lister, n, st[n], freeListRefs[n], n \in out)
        BY DEF FLShape
      <3>3. NodeOK([lister EXCEPT ![t] = r], n, st[n], freeListRefs[n], n \in out)
        BY <1>1, <3>1, <3>2, Elsewhere
      <3>4. st2[n] = st[n] /\ freeListRefs'[n] = freeListRefs[n] /\ (n \in out' <=> n \in out)
        BY <2>2, <1>1
      <3>5. NodeOK(lister', n, st[n], freeListRefs[n], n \in out')
        <4>1. NodeOK(lister', n, st[n], freeListRefs[n], n \in out)
          BY <3>3
        <4> QED BY <4>1, <3>4, Zenon DEF NodeOK
      <3> QED BY <3>4, <3>5
    <2> QED BY <2>1, <2>2
  <1>4. \A n \in Nodes : (st2[n] = "list") <=> OnChain(g, K, n)
    <2> SUFFICES ASSUME NEW n \in Nodes PROVE (st2[n] = "list") <=> OnChain(g, K, n)
      OBVIOUS
    <2>1. CASE n = m
      BY <2>1, <1>1
    <2>2. CASE n # m
      <3>1. (st[n] = "list") <=> OnChain(f, L, n)
        BY DEF FLShape
      <3> QED BY <2>2, <3>1, <1>1
    <2> QED BY <2>1, <2>2
  <1>5. FLSeen'
    <2>1. \A u \in ListThreads : u # t => lister'[u] = lister[u]
      BY <1>1
    <2>2. lister'[t] = r
      BY <1>1
    <2> QED BY <2>1, <2>2 DEF FLSeen
  <1> HIDE DEF st2
  <1>6. Chain(g, K, freeListHead, freeListNext)'
    OBVIOUS
  <1>7. FLShape(g, K, st2)'
    BY <1>2, <1>3, <1>4, <1>6 DEF FLShape
  <1> QED BY <1>5, <1>7 DEF FLInv

\* A node in front of the chain.
LEMMA ChainGrows ==
    ASSUME NEW f, NEW L, NEW h, NEW nx, Chain(f, L, h, nx),
           NEW m \in Nodes, ~OnChain(f, L, m), nx[m] = h
    PROVE  \E g, K : /\ Chain(g, K, m, nx)
                     /\ \A n : OnChain(g, K, n) <=> n = m \/ OnChain(f, L, n)
  <1> DEFINE g == [k \in Nat |-> IF k = 0 THEN m ELSE f[k - 1]]
  <1>1. f \in [Nat -> Ends] /\ L \in Nat /\ f[0] = h
    BY DEF Chain
  <1>2. g \in [Nat -> Ends] /\ g[0] = m /\ L + 1 \in Nat
    BY <1>1 DEF Ends
  <1>3. \A k \in Nat : k # 0 => k - 1 \in Nat /\ g[k] = f[k - 1]
    OBVIOUS
  <1>4. \A k \in Nat : g[k + 1] = f[k]
    OBVIOUS
  <1> HIDE DEF g
  <1>5. \A k \in Nat : (g[k] = NULL) <=> (k >= L + 1)
    <2> SUFFICES ASSUME NEW k \in Nat PROVE (g[k] = NULL) <=> (k >= L + 1)
      OBVIOUS
    <2>1. CASE k = 0
      BY <1>1, <1>2, <2>1, FreeListAssumption
    <2>2. CASE k # 0
      <3>1. k - 1 \in Nat /\ g[k] = f[k - 1] /\ ((f[k - 1] = NULL) <=> (k - 1 >= L))
        BY <1>3, <2>2 DEF Chain
      <3> QED BY <3>1, <1>1
    <2> QED BY <2>1, <2>2
  <1>6. \A k \in Nat : k < L + 1 => g[k + 1] = nx[g[k]]
    <2> SUFFICES ASSUME NEW k \in Nat, k < L + 1 PROVE g[k + 1] = nx[g[k]]
      OBVIOUS
    <2>1. CASE k = 0
      BY <1>1, <1>2, <1>4, <2>1
    <2>2. CASE k # 0
      <3>1. k - 1 \in Nat /\ k - 1 < L /\ (k - 1) + 1 = k
        BY <1>1, <2>2
      <3>2. f[k] = nx[f[k - 1]]
        BY <3>1 DEF Chain
      <3> QED BY <1>3, <1>4, <2>2, <3>2
    <2> QED BY <2>1, <2>2
  <1>7. \A k \in Nat : k < L => f[k] # m
    BY DEF OnChain
  <1>8. \A j, k \in Nat : j < L + 1 /\ g[j] = g[k] => j = k
    <2> SUFFICES ASSUME NEW j \in Nat, NEW k \in Nat, j < L + 1, g[j] = g[k] PROVE j = k
      OBVIOUS
    <2>1. g[j] # NULL
      BY <1>5, <1>1
    <2>2. k < L + 1
      BY <1>5, <1>1, <2>1
    <2>3. CASE j = 0 /\ k # 0
      <3>1. k - 1 \in Nat /\ k - 1 < L
        BY <1>1, <2>2, <2>3
      <3> QED BY <1>2, <1>3, <1>7, <2>3, <3>1
    <2>4. CASE j # 0 /\ k = 0
      <3>1. j - 1 \in Nat /\ j - 1 < L
        BY <1>1, <2>4
      <3> QED BY <1>2, <1>3, <1>7, <2>4, <3>1
    <2>5. CASE j # 0 /\ k # 0
      <3>1. j - 1 \in Nat /\ k - 1 \in Nat /\ j - 1 < L /\ f[j - 1] = f[k - 1]
        BY <1>1, <1>3, <2>5
      <3>2. j - 1 = k - 1
        BY <3>1 DEF Chain
      <3> QED BY <3>1, <3>2
    <2> QED BY <2>3, <2>4, <2>5
  <1>9. Chain(g, L + 1, m, nx)
    BY <1>2, <1>5, <1>6, <1>8 DEF Chain
  <1>10. \A n : OnChain(g, L + 1, n) <=> n = m \/ OnChain(f, L, n)
    <2> SUFFICES ASSUME NEW n PROVE OnChain(g, L + 1, n) <=> n = m \/ OnChain(f, L, n)
      OBVIOUS
    <2>1. ASSUME NEW k \in Nat, k < L + 1, g[k] = n PROVE n = m \/ OnChain(f, L, n)
      <3>1. CASE k = 0
        BY <1>2, <2>1, <3>1
      <3>2. CASE k # 0
        <4>1. k - 1 \in Nat /\ k - 1 < L /\ f[k - 1] = n
          BY <1>1, <1>3, <2>1, <3>2
        <4> QED BY <4>1 DEF OnChain
      <3> QED BY <3>1, <3>2
    <2>2. ASSUME NEW k \in Nat, k < L, f[k] = n PROVE OnChain(g, L + 1, n)
      <3>1. k + 1 \in Nat /\ k + 1 < L + 1 /\ g[k + 1] = n
        BY <1>1, <1>4, <2>2
      <3> QED BY <3>1 DEF OnChain
    <2>3. OnChain(g, L + 1, m)
      <3>1. 0 \in Nat /\ 0 < L + 1
        BY <1>1
      <3> QED BY <1>2, <3>1 DEF OnChain
    <2> QED BY <2>1, <2>2, <2>3 DEF OnChain
  <1> QED BY <1>9, <1>10

\* The chain without its first node.
LEMMA ChainShrinks ==
    ASSUME NEW f, NEW L, NEW h, NEW nx, Chain(f, L, h, nx), h # NULL
    PROVE  \E g, K : /\ Chain(g, K, nx[h], nx)
                     /\ \A n : OnChain(g, K, n) <=> n # h /\ OnChain(f, L, n)
  <1> DEFINE g == [k \in Nat |-> f[k + 1]]
  <1>1. f \in [Nat -> Ends] /\ L \in Nat /\ f[0] = h
    BY DEF Chain
  <1>2. L > 0 /\ L - 1 \in Nat
    <2>1. ~(0 >= L)
      BY <1>1 DEF Chain
    <2> QED BY <1>1, <2>1
  <1>3. g \in [Nat -> Ends]
    BY <1>1
  <1>4. \A k \in Nat : g[k] = f[k + 1]
    OBVIOUS
  <1> HIDE DEF g
  <1>5. g[0] = nx[h]
    <2>1. f[0 + 1] = nx[f[0]]
      BY <1>1, <1>2 DEF Chain
    <2> QED BY <2>1, <1>1, <1>4
  <1>6. \A k \in Nat : (g[k] = NULL) <=> (k >= L - 1)
    <2> SUFFICES ASSUME NEW k \in Nat PROVE (g[k] = NULL) <=> (k >= L - 1)
      OBVIOUS
    <2>1. k + 1 \in Nat /\ ((f[k + 1] = NULL) <=> (k + 1 >= L))
      BY DEF Chain
    <2> QED BY <2>1, <1>1, <1>4
  <1>7. \A k \in Nat : k < L - 1 => g[k + 1] = nx[g[k]]
    <2> SUFFICES ASSUME NEW k \in Nat, k < L - 1 PROVE g[k + 1] = nx[g[k]]
      OBVIOUS
    <2>1. k + 1 \in Nat /\ k + 1 < L
      BY <1>1
    <2>2. f[(k + 1) + 1] = nx[f[k + 1]]
      BY <2>1 DEF Chain
    <2> QED BY <1>4, <2>1, <2>2
  <1>8. \A j, k \in Nat : j < L - 1 /\ g[j] = g[k] => j = k
    <2> SUFFICES ASSUME NEW j \in Nat, NEW k \in Nat, j < L - 1, g[j] = g[k] PROVE j = k
      OBVIOUS
    <2>1. j + 1 \in Nat /\ k + 1 \in Nat /\ j + 1 < L /\ f[j + 1] = f[k + 1]
      BY <1>1, <1>4
    <2>2. j + 1 = k + 1
      BY <2>1 DEF Chain
    <2> QED BY <2>2
  <1>9. Chain(g, L - 1, nx[h], nx)
    BY <1>2, <1>3, <1>5, <1>6, <1>7, <1>8 DEF Chain
  <1>10. \A n : OnChain(g, L - 1, n) <=> n # h /\ OnChain(f, L, n)
    <2> SUFFICES ASSUME NEW n PROVE OnChain(g, L - 1, n) <=> n # h /\ OnChain(f, L, n)
      OBVIOUS
    <2>1. ASSUME NEW k \in Nat, k < L - 1, g[k] = n PROVE n # h /\ OnChain(f, L, n)
      <3>1. k + 1 \in Nat /\ k + 1 < L /\ f[k + 1] = n /\ 0 \in Nat /\ k + 1 # 0
        BY <1>1, <1>4, <2>1
      <3>2. f[k + 1] # f[0]
        BY <3>1 DEF Chain
      <3> QED BY <1>1, <3>1, <3>2 DEF OnChain
    <2>2. ASSUME NEW k \in Nat, k < L, f[k] = n, n # h PROVE OnChain(g, L - 1, n)
      <3>1. k # 0
        BY <1>1, <2>2
      <3>2. k - 1 \in Nat /\ k - 1 < L - 1 /\ (k - 1) + 1 = k
        BY <1>1, <2>2, <3>1
      <3>3. g[k - 1] = n
        BY <1>4, <2>2, <3>2
      <3> QED BY <3>2, <3>3 DEF OnChain
    <2> QED BY <2>1, <2>2 DEF OnChain
  <1> QED BY <1>9, <1>10

LEMMA StepPush ==
    ASSUME FLInv, NEW t \in ListThreads, FreeList!Push(t)
    PROVE  FLInv'
  <1>1. PICK f, L, st : FLShape(f, L, st)
    BY DEF FLInv
  <1>2. FLTypes /\ FLSeen /\ DOMAIN lister = ListThreads /\ lister[t] \in Local
    BY DEF FLInv, FLTypes
  <1>3. PICK m : m = lister[t].node
    OBVIOUS
  <1>4. /\ lister[t].pc = "push"
        /\ UNCHANGED <<freeListRefs, freeListNext, out>>
    BY DEF FreeList!Push
  <1>5. /\ m \in Nodes /\ lister[t].head \in Ends /\ lister[t].back \in Backs
        /\ lister[t] = [pc |-> "push", node |-> m, back |-> lister[t].back,
                        head |-> lister[t].head]
    BY <1>2, <1>3, <1>4, Shapes
  <1>6. /\ NodeOK(lister, m, st[m], freeListRefs[m], m \in out)
        /\ Owners(lister, m) = {t} /\ st[m] = "pushing"
    <2>1. lister[t].pc \in OwnPcs /\ Role(lister[t]) = "pushing"
      BY <1>4 DEF OwnPcs, Role
    <2> QED BY <1>1, <1>2, <1>3, <1>5, <2>1, NodeFacts
  <1>7. CASE freeListHead # lister[t].head
    <2>1. PICK r : /\ r = [lister[t] EXCEPT !.pc = "undo", !.head = freeListHead]
                   /\ lister' = [lister EXCEPT ![t] = r]
      BY <1>7 DEF FreeList!Push, FreeList!Go
    <2>2. freeListHead' = freeListHead
      BY <1>7 DEF FreeList!Push
    <2>3. r \in Local /\ r.pc = "undo" /\ r.node = m
      <3>1. PICK q : q = lister[t] /\ q \in [pc : {"push"}, node : {m}, back : Backs, head : Ends]
        BY <1>5
      <3>2. r = [q EXCEPT !.pc = "undo", !.head = freeListHead] /\ freeListHead \in Ends
        BY <1>2, <2>1, <3>1 DEF FLTypes
      <3>3. r \in [pc : {"undo"}, node : {m}, back : Backs, head : Ends]
        BY <3>1, <3>2
      <3> QED BY <1>5, <3>3 DEF Local
    <2>4. FLTypes'
      BY <1>2, <1>4, <2>1, <2>2, <2>3 DEF FLTypes
    <2>5. Holders(lister', m) = Holders(lister, m) /\ Owners(lister', m) = {t} /\ lister'[t] = r
      <3>1. Effect(lister, lister', t, r, m)
        BY <1>2, <2>1, RightHere
      <3> QED BY <3>1, <1>4, <1>6, <2>3 DEF Effect, HoldPcs, OwnPcs
    <2>6. NodeOK(lister', m, "pushing", freeListRefs'[m], m \in out')
      <3>1. Role(r) = "pushing"
        BY <2>3 DEF Role
      <3> QED BY <1>4, <1>6, <2>5, <3>1 DEF NodeOK
    <2>7. \A n \in Nodes \ {m} : /\ ~Touches(lister[t], n) /\ ~Touches(r, n)
                                 /\ freeListRefs'[n] = freeListRefs[n]
                                 /\ n \in out' <=> n \in out
                                 /\ freeListNext'[n] = freeListNext[n]
      BY <1>3, <1>4, <2>3 DEF Touches
    <2>8. Moves(t, r, m, "pushing")
      BY <1>5, <2>1, <2>3, <2>4, <2>6, <2>7 DEF Moves, SeenOK
    <2> QED BY <1>1, <1>2, <1>4, <1>6, <2>2, <2>8, Kept
  <1>8. CASE freeListHead = lister[t].head
    <2>1. PICK r : r = lister[t].back /\ lister' = [lister EXCEPT ![t] = r]
      BY <1>8 DEF FreeList!Push, FreeList!Go
    <2>2. freeListHead' = m
      BY <1>3, <1>8 DEF FreeList!Push
    <2>3. /\ r \in Local /\ r.pc \in {"idle", "refs"} /\ \A n : ~Touches(r, n)
          /\ SeenOK(r, freeListNext')
      BY <1>5, <2>1, BackFacts
    <2>4. FLTypes'
      BY <1>2, <1>4, <1>5, <2>1, <2>2, <2>3 DEF FLTypes, Ends
    <2>5. Holders(lister', m) = Holders(lister, m) /\ Owners(lister', m) = {}
      <3>1. Effect(lister, lister', t, r, m)
        BY <1>2, <2>1, RightHere
      <3> QED BY <3>1, <1>4, <1>6, <2>3 DEF Effect, HoldPcs, OwnPcs
    <2>6. NodeOK(lister', m, "list", freeListRefs'[m], m \in out')
      <3>1. "list" \in Places /\ Base("list") = 1 /\ Base("pushing") = 1
        BY DEF Places, Base
      <3> QED BY <1>4, <1>6, <2>5, <3>1 DEF NodeOK
    <2>7. \A n \in Nodes \ {m} : /\ ~Touches(lister[t], n) /\ ~Touches(r, n)
                                 /\ freeListRefs'[n] = freeListRefs[n]
                                 /\ n \in out' <=> n \in out
                                 /\ freeListNext'[n] = freeListNext[n]
      BY <1>3, <1>4, <2>3 DEF Touches
    <2>8. Moves(t, r, m, "list")
      BY <1>5, <2>1, <2>3, <2>4, <2>6, <2>7 DEF Moves
    <2>9. freeListNext[m] = freeListHead
      BY <1>2, <1>3, <1>4, <1>8 DEF FLSeen, SeenOK
    <2>10. Chain(f, L, freeListHead, freeListNext) /\ ~OnChain(f, L, m)
      BY <1>1, <1>5, <1>6 DEF FLShape
    <2>11. PICK g, K : /\ Chain(g, K, m, freeListNext)
                       /\ \A n : OnChain(g, K, n) <=> n = m \/ OnChain(f, L, n)
      BY <1>5, <2>9, <2>10, ChainGrows
    <2>12. /\ Chain(g, K, freeListHead', freeListNext)
           /\ OnChain(g, K, m) <=> "list" = "list"
           /\ \A n \in Nodes \ {m} : OnChain(g, K, n) <=> OnChain(f, L, n)
      BY <2>2, <2>11
    <2> QED BY <1>1, <1>2, <1>4, <2>8, <2>12, Rechained
  <1> QED BY <1>7, <1>8

\* The head may have left the list and come back meanwhile: the node after it
\* is still the one the thread has read.
LEMMA StepPop ==
    ASSUME FLInv, NEW t \in ListThreads, FreeList!Pop(t)
    PROVE  FLInv'
  <1>1. PICK f, L, st : FLShape(f, L, st)
    BY DEF FLInv
  <1>2. FLTypes /\ FLSeen /\ DOMAIN lister = ListThreads /\ lister[t] \in Local
    BY DEF FLInv, FLTypes
  <1>3. PICK m : m = lister[t].node
    OBVIOUS
  <1>4. /\ lister[t].pc = "pop" /\ m \in Nodes
        /\ UNCHANGED <<freeListRefs, freeListNext, out>>
    BY <1>2, <1>3, Shapes DEF FreeList!Pop
  <1>5. NodeOK(lister, m, st[m], freeListRefs[m], m \in out)
    BY <1>1, <1>2, <1>4, NodeFacts
  <1>6. CASE freeListHead # m
    <2>1. PICK r : /\ r = [pc |-> "release", node |-> m,
                           back |-> FreeList!TryFrom(freeListHead)]
                   /\ lister' = [lister EXCEPT ![t] = r]
      BY <1>3, <1>6 DEF FreeList!Pop, FreeList!Go
    <2>2. freeListHead' = freeListHead
      BY <1>3, <1>6 DEF FreeList!Pop
    <2>3. r \in Local /\ r.pc = "release" /\ r.node = m
      <3>1. FreeList!TryFrom(freeListHead) \in Backs
        BY <1>2, TryFromFacts DEF FLTypes
      <3> QED BY <1>4, <2>1, <3>1 DEF Local
    <2>4. FLTypes'
      BY <1>2, <1>4, <2>1, <2>2, <2>3 DEF FLTypes
    <2>5. /\ Holders(lister', m) = Holders(lister, m)
          /\ Owners(lister', m) = Owners(lister, m) /\ t \notin Owners(lister, m)
          /\ \A u \in ListThreads : u # t => lister'[u] = lister[u]
      <3>1. Effect(lister, lister', t, r, m)
        BY <1>2, <2>1, RightHere
      <3> QED BY <3>1, <1>3, <1>4, <2>3 DEF Effect, HoldPcs, OwnPcs
    <2>6. NodeOK(lister', m, st[m], freeListRefs'[m], m \in out')
      <3>1. \A u \in ListThreads : Owners(lister, m) = {u} => lister'[u] = lister[u]
        BY <2>5
      <3> QED BY <1>4, <1>5, <2>5, <3>1 DEF NodeOK
    <2>7. \A n \in Nodes \ {m} : /\ ~Touches(lister[t], n) /\ ~Touches(r, n)
                                 /\ freeListRefs'[n] = freeListRefs[n]
                                 /\ n \in out' <=> n \in out
                                 /\ freeListNext'[n] = freeListNext[n]
      BY <1>3, <1>4, <2>3 DEF Touches
    <2>8. Moves(t, r, m, st[m])
      BY <1>4, <2>1, <2>3, <2>4, <2>6, <2>7 DEF Moves, SeenOK
    <2> QED BY <1>1, <1>2, <1>4, <2>2, <2>8, Kept
  <1>7. CASE freeListHead = m
    <2>1. PICK r : r = [pc |-> "taken", node |-> m] /\ lister' = [lister EXCEPT ![t] = r]
      BY <1>3, <1>7 DEF FreeList!Pop, FreeList!Go
    <2>2. freeListHead' = freeListNext[m]
      BY <1>2, <1>3, <1>4, <1>7 DEF FreeList!Pop, FLSeen, SeenOK
    <2>3. r \in Local /\ r.pc = "taken" /\ r.node = m
      BY <1>4, <2>1 DEF Local
    <2>4. FLTypes'
      BY <1>2, <1>4, <2>1, <2>2, <2>3 DEF FLTypes
    <2>5. Chain(f, L, freeListHead, freeListNext) /\ m # NULL
      BY <1>1, <1>4, FreeListAssumption DEF FLShape
    <2>6. st[m] = "list"
      <3>1. f[0] = m /\ L \in Nat /\ 0 \in Nat /\ (f[0] = NULL <=> 0 >= L)
        BY <1>7, <2>5 DEF Chain
      <3>2. OnChain(f, L, m)
        BY <2>5, <3>1 DEF OnChain
      <3> QED BY <1>1, <1>4, <3>2 DEF FLShape
    <2>7. Holders(lister', m) = Holders(lister, m) /\ Owners(lister', m) = {t} /\ lister'[t] = r
      <3>1. Effect(lister, lister', t, r, m)
        BY <1>2, <2>1, RightHere
      <3>2. Owners(lister, m) = {}
        BY <1>5, <2>6 DEF NodeOK
      <3> QED BY <3>1, <3>2, <1>3, <1>4, <2>3 DEF Effect, HoldPcs, OwnPcs
    <2>8. NodeOK(lister', m, "taken", freeListRefs'[m], m \in out')
      <3>1. "taken" \in Places /\ Base("taken") = 1 /\ Base("list") = 1 /\ Role(r) = "taken"
        BY <2>3 DEF Places, Base, Role
      <3> QED BY <1>4, <1>5, <2>6, <2>7, <3>1 DEF NodeOK
    <2>9. \A n \in Nodes \ {m} : /\ ~Touches(lister[t], n) /\ ~Touches(r, n)
                                 /\ freeListRefs'[n] = freeListRefs[n]
                                 /\ n \in out' <=> n \in out
                                 /\ freeListNext'[n] = freeListNext[n]
      BY <1>3, <1>4, <2>3 DEF Touches
    <2>10. Moves(t, r, m, "taken")
      BY <1>4, <2>1, <2>3, <2>4, <2>8, <2>9 DEF Moves, SeenOK
    <2>11. PICK g, K : /\ Chain(g, K, freeListNext[m], freeListNext)
                       /\ \A n : OnChain(g, K, n) <=> n # m /\ OnChain(f, L, n)
      BY <1>7, <2>5, ChainShrinks
    <2>12. /\ Chain(g, K, freeListHead', freeListNext)
           /\ OnChain(g, K, m) <=> "taken" = "list"
           /\ \A n \in Nodes \ {m} : OnChain(g, K, n) <=> OnChain(f, L, n)
      BY <2>2, <2>11
    <2> QED BY <1>1, <1>2, <1>4, <2>10, <2>12, Rechained
  <1> QED BY <1>6, <1>7

LEMMA StepFreeList == FLInv /\ FreeList!Next => FLInv'
  <1> SUFFICES ASSUME FLInv, NEW t \in ListThreads,
                      \/ \E n \in Nodes : FreeList!Add(t, n)
                      \/ FreeList!LoadHead(t) \/ FreeList!Link(t)
                      \/ FreeList!Push(t) \/ FreeList!Undo(t)
                      \/ FreeList!TryGet(t) \/ FreeList!LoadRefs(t) \/ FreeList!Hold(t)
                      \/ FreeList!ReadNext(t) \/ FreeList!Pop(t)
                      \/ FreeList!Return(t) \/ FreeList!Release(t)
               PROVE  FLInv'
    BY DEF FreeList!Next
  <1> QED BY StepAdd, StepLoadHead, StepLink, StepPush, StepUndo, StepTryGet, StepLoadRefs,
             StepHold, StepReadNext, StepPop, StepReturn, StepRelease

-----------------------------------------------------------------------------
(* The free list is exact.                                                 *)

LEMMA StartFreeList == FreeList!Init => FLInv
  <1> SUFFICES ASSUME FreeList!Init PROVE FLInv
    OBVIOUS
  <1> DEFINE f == [k \in Nat |-> NULL]
             st == [n \in Nodes |-> "out"]
  <1>1. /\ freeListHead = NULL
        /\ freeListRefs = [n \in Nodes |-> 0]
        /\ freeListNext = [n \in Nodes |-> NULL]
        /\ out = Nodes
        /\ lister = [t \in ListThreads |-> FreeList!Idle]
    BY DEF FreeList!Init
  <1>2. FreeList!Idle \in Local /\ FreeList!Idle.pc = "idle"
    BY DEF Local, FreeList!Idle
  <1>3. FLTypes
    BY <1>1, <1>2 DEF FLTypes, Ends
  <1>4. FLSeen
    BY <1>1, <1>2 DEF FLSeen, SeenOK
  <1>5. Chain(f, 0, freeListHead, freeListNext)
    BY <1>1 DEF Chain, Ends
  <1>6. \A n : ~OnChain(f, 0, n)
    BY DEF OnChain
  <1>7. \A n \in Nodes : Holders(lister, n) = {} /\ Owners(lister, n) = {}
    BY <1>1, <1>2 DEF Holders, Owners, HoldPcs, OwnPcs
  <1>8. Cardinality({}) = 0
    BY FS_EmptySet
  <1>9. "out" \in Places /\ Base("out") = 0
    BY DEF Places, Base
  <1>10. \A n \in Nodes : NodeOK(lister, n, st[n], freeListRefs[n], n \in out)
    BY <1>1, <1>7, <1>8, <1>9 DEF NodeOK
  <1>11. st \in [Nodes -> Places] /\ \A n \in Nodes : st[n] # "list"
    BY <1>9
  <1> HIDE DEF f, st
  <1>12. FLShape(f, 0, st)
    BY <1>5, <1>6, <1>10, <1>11 DEF FLShape
  <1> QED BY <1>3, <1>4, <1>12 DEF FLInv

\* The equation of Reached.
ReachedAs(g) ==
    g = [k \in Nat |-> IF k = 0 THEN {freeListHead} \ {NULL}
                       ELSE g[k - 1] \cup ({freeListNext[n] : n \in g[k - 1]} \ {NULL})]

\* What is reached in k steps is the beginning of the chain.
LEMMA ReachedIs ==
    ASSUME NEW f, NEW L, Chain(f, L, freeListHead, freeListNext)
    PROVE  \A k \in Nat : FreeList!Reached[k] = {f[j] : j \in 0..k} \ {NULL}
  <1> DEFINE g == [k \in Nat |-> {f[j] : j \in 0..k} \ {NULL}]
  <1>1. \A k \in Nat : g[k] = {f[j] : j \in 0..k} \ {NULL}
    OBVIOUS
  <1>2. ReachedAs(g)
    <2>1. 0..0 = {0}
      OBVIOUS
    <2>2. g[0] = {freeListHead} \ {NULL}
      BY <2>1, <1>1 DEF Chain
    <2>3. ASSUME NEW k \in Nat, k # 0
          PROVE  g[k] = g[k - 1] \cup ({freeListNext[n] : n \in g[k - 1]} \ {NULL})
      <3>1. k - 1 \in Nat /\ 0..k = (0..(k - 1)) \cup {k} /\ (k - 1) + 1 = k
        BY <2>3
      <3>2. ASSUME NEW j \in 0..(k - 1), f[j] # NULL
            PROVE  j \in Nat /\ j + 1 \in 0..k /\ freeListNext[f[j]] = f[j + 1]
        <4>1. j \in Nat /\ j + 1 \in 0..k
          BY <3>1
        <4>2. j < L
          BY <3>2, <4>1 DEF Chain
        <4> QED BY <4>1, <4>2 DEF Chain
      <3>3. f[k] # NULL => f[k - 1] # NULL
        BY <3>1 DEF Chain
      <3>4. \A x \in g[k] : x \in g[k - 1] \/ x \in {freeListNext[n] : n \in g[k - 1]} \ {NULL}
        <4> SUFFICES ASSUME NEW x \in g[k], x \notin g[k - 1]
                     PROVE  x \in {freeListNext[n] : n \in g[k - 1]} \ {NULL}
          OBVIOUS
        <4>1. x # NULL /\ x = f[k]
          BY <3>1
        <4>2. k - 1 \in 0..(k - 1) /\ f[k - 1] # NULL
          BY <3>1, <3>3, <4>1
        <4>3. f[k - 1] \in g[k - 1] /\ freeListNext[f[k - 1]] = f[k]
          BY <3>1, <3>2, <4>2
        <4> QED BY <4>1, <4>3
      <3>5. ASSUME NEW n \in g[k - 1], freeListNext[n] # NULL
            PROVE  freeListNext[n] \in g[k]
        <4>1. PICK j \in 0..(k - 1) : f[j] = n /\ n # NULL
          BY <3>1
        <4> QED BY <3>2, <3>5, <4>1
      <3>6. g[k - 1] \subseteq g[k]
        BY <3>1
      <3> HIDE DEF g
      <3> QED BY <3>4, <3>5, <3>6
    <2> HIDE DEF g
    <2>4. DOMAIN g = Nat /\ g = [k \in Nat |-> g[k]]
      BY DEF g
    <2> QED BY <2>2, <2>3, <2>4 DEF ReachedAs
  <1>3. FreeList!Reached = CHOOSE h : ReachedAs(h)
    BY DEF FreeList!Reached, ReachedAs
  <1>4. ReachedAs(FreeList!Reached)
    BY <1>2, <1>3, Zenon
  <1> HIDE DEF g
  <1> DEFINE Differ == {k \in Nat : FreeList!Reached[k] # g[k]}
  <1>5. Differ = {}
    <2> SUFFICES ASSUME Differ # {} PROVE FALSE
      OBVIOUS
    <2>1. Differ \subseteq Nat
      OBVIOUS
    <2>2. PICK k \in Differ : \A j \in Differ : k <= j
      BY <2>1, LeastNumber
    <2>3. k \in Nat /\ FreeList!Reached[k] # g[k]
      BY <2>2
    <2>4. k # 0
      BY <1>2, <1>4, <2>3 DEF ReachedAs
    <2>5. k - 1 \in Nat /\ k - 1 \notin Differ
      BY <2>2, <2>3, <2>4
    <2>6. FreeList!Reached[k - 1] = g[k - 1]
      BY <2>5
    <2>7. FreeList!Reached[k] = g[k]
      BY <1>2, <1>4, <2>3, <2>4, <2>6, ZenonT(40) DEF ReachedAs
    <2> QED BY <2>3, <2>7
  <1> QED BY <1>1, <1>5

\* A node taken is in one thread's hands, and off the list's books.
LEMMA TakenOnce == FLInv => FreeList!HandedOutOnce
  <1> SUFFICES ASSUME FLInv PROVE FreeList!HandedOutOnce
    OBVIOUS
  <1>1. PICK f, L, st : FLShape(f, L, st)
    BY DEF FLInv
  <1>2. FLTypes
    BY DEF FLInv
  <1> SUFFICES ASSUME NEW t \in ListThreads, lister[t].pc = "taken"
               PROVE  /\ lister[t].node \notin out
                      /\ freeListRefs[lister[t].node] < SHOULD_BE_ON_FREELIST
                      /\ \A u \in ListThreads \ {t} :
                            lister[u].pc = "taken" => lister[u].node # lister[t].node
    BY DEF FreeList!HandedOutOnce
  <1>3. lister[t].node \in Nodes
    BY <1>2, Shapes DEF FLTypes
  <1>4. PICK m \in Nodes : m = lister[t].node
    BY <1>3
  <1>5. lister[t].pc \in OwnPcs /\ Role(lister[t]) = "taken"
    BY DEF OwnPcs, Role
  <1>6. /\ NodeOK(lister, m, st[m], freeListRefs[m], m \in out)
        /\ freeListRefs[m] < Bit <=> st[m] \notin {"linking", "wait"}
        /\ Owners(lister, m) = {t} /\ st[m] = "taken"
    BY <1>1, <1>2, <1>4, <1>5, NodeFacts
  <1>7. m \notin out /\ freeListRefs[m] < Bit
    BY <1>6 DEF NodeOK
  <1>8. \A u \in ListThreads \ {t} : lister[u].pc = "taken" => lister[u].node # m
    BY <1>6 DEF Owners, OwnPcs
  <1> QED BY <1>4, <1>7, <1>8 DEF Bit

\* The two instances of FiniteSets agree.
LEMMA SameCardinality ==
    ASSUME NEW S PROVE FreeList!Cardinality(S) = Cardinality(S)
  BY DEF FreeList!Cardinality, Cardinality

\* With every thread out of the list's calls, the chain is what was given back.
LEMMA NoneLost == FLInv => FreeList!NothingLost
  <1> SUFFICES ASSUME FLInv PROVE FreeList!NothingLost
    OBVIOUS
  <1> SUFFICES ASSUME \A t \in ListThreads : lister[t] = FreeList!Idle
               PROVE  /\ FreeList!Reached[Cardinality(Nodes)] = Nodes \ out
                      /\ \A n \in Nodes : freeListRefs[n] = IF n \in out THEN 0 ELSE 1
    BY SameCardinality DEF FreeList!NothingLost
  <1>1. PICK f, L, st : FLShape(f, L, st)
    BY DEF FLInv
  <1>2. \A n \in Nodes : Holders(lister, n) = {} /\ Owners(lister, n) = {}
    BY DEF Holders, Owners, FreeList!Idle, HoldPcs, OwnPcs
  <1>3. \A n \in Nodes : /\ st[n] \in {"out", "list"}
                         /\ st[n] = "out" <=> n \in out
                         /\ freeListRefs[n] = IF n \in out THEN 0 ELSE 1
    <2> SUFFICES ASSUME NEW n \in Nodes
                 PROVE  /\ st[n] \in {"out", "list"}
                        /\ st[n] = "out" <=> n \in out
                        /\ freeListRefs[n] = IF n \in out THEN 0 ELSE 1
      OBVIOUS
    <2>1. NodeOK(lister, n, st[n], freeListRefs[n], n \in out)
      BY <1>1 DEF FLShape
    <2>2. st[n] \in {"out", "list"}
      BY <1>2, <2>1 DEF NodeOK, Places
    <2>3. Cardinality(Holders(lister, n)) = 0
      BY <1>2, HoldersFinite
    <2>4. freeListRefs[n] = 0 + Base(st[n]) /\ (st[n] = "out" <=> n \in out)
      BY <2>1, <2>3 DEF NodeOK
    <2> QED BY <2>2, <2>4 DEF Base
  <1>4. Chain(f, L, freeListHead, freeListNext)
        /\ \A n \in Nodes : (st[n] = "list") <=> OnChain(f, L, n)
    BY <1>1 DEF FLShape
  <1>5. \A n \in Nodes : OnChain(f, L, n) <=> n \notin out
    BY <1>3, <1>4
  <1>6. f \in [Nat -> Ends] /\ L \in Nat /\ \A k \in Nat : f[k] = NULL <=> k >= L
    BY <1>4 DEF Chain
  <1>7. L <= Cardinality(Nodes) /\ Cardinality(Nodes) \in Nat
    <2> DEFINE g == [k \in 1..L |-> f[k - 1]]
    <2>1. \A k \in 1..L : k - 1 \in Nat /\ k - 1 < L /\ f[k - 1] \in Nodes
      <3> SUFFICES ASSUME NEW k \in 1..L
                   PROVE  k - 1 \in Nat /\ k - 1 < L /\ f[k - 1] \in Nodes
        OBVIOUS
      <3>1. k - 1 \in Nat /\ k - 1 < L
        BY <1>6
      <3>2. f[k - 1] \in Ends /\ f[k - 1] # NULL
        BY <1>6, <3>1
      <3> QED BY <3>1, <3>2 DEF Ends
    <2>2. g \in Injection(1..L, Nodes)
      <3>1. g \in [1..L -> Nodes]
        BY <2>1
      <3>2. \A j, k \in 1..L : g[j] = g[k] => j = k
        <4> SUFFICES ASSUME NEW j \in 1..L, NEW k \in 1..L, g[j] = g[k] PROVE j = k
          OBVIOUS
        <4>1. j - 1 \in Nat /\ k - 1 \in Nat /\ j - 1 < L /\ f[j - 1] = f[k - 1]
          BY <2>1
        <4>2. j - 1 = k - 1
          BY <1>4, <4>1 DEF Chain
        <4> QED BY <4>2
      <3> HIDE DEF g
      <3> QED BY <3>1, <3>2 DEF Injection, IsInjective
    <2>3. IsFiniteSet(Nodes) /\ IsFiniteSet(1..L) /\ Cardinality(1..L) = L
      BY <1>6, FreeListAssumption, FS_Interval
    <2> HIDE DEF g
    <2>4. Cardinality(1..L) <= Cardinality(Nodes)
      BY <2>2, <2>3, FS_Injection
    <2> QED BY <2>3, <2>4, FS_CardinalityType
  <1>8. FreeList!Reached[Cardinality(Nodes)] = {f[j] : j \in 0..Cardinality(Nodes)} \ {NULL}
    BY <1>4, <1>7, ReachedIs
  <1>9. {f[j] : j \in 0..Cardinality(Nodes)} \ {NULL} = Nodes \ out
    <2>1. ASSUME NEW j \in 0..Cardinality(Nodes), f[j] # NULL
          PROVE  f[j] \in Nodes \ out
      <3>1. j \in Nat /\ j < L /\ f[j] \in Nodes
        BY <1>6, <1>7, <2>1 DEF Ends
      <3>2. OnChain(f, L, f[j])
        BY <3>1 DEF OnChain
      <3> QED BY <1>5, <3>1, <3>2
    <2>2. ASSUME NEW n \in Nodes \ out
          PROVE  n # NULL /\ \E j \in 0..Cardinality(Nodes) : f[j] = n
      <3>1. PICK k \in Nat : k < L /\ f[k] = n
        BY <1>5, <2>2 DEF OnChain
      <3>2. k \in 0..Cardinality(Nodes)
        BY <1>6, <1>7, <3>1
      <3> QED BY <3>1, <3>2, FreeListAssumption
    <2> QED BY <2>1, <2>2
  <1> QED BY <1>3, <1>8, <1>9

LEMMA FreeListInvariance == MCSpec => []FLInv
  <1>1. MCInit => FLInv
    BY StartFreeList DEF MCInit
  <1>2. FLInv /\ [MCNext]_<<part, vars, subQueue, freeList>> => FLInv'
    <2>1. FLInv /\ UNCHANGED freeList => FLInv'
      <3> SUFFICES ASSUME FLInv, UNCHANGED freeList PROVE FLInv'
        OBVIOUS
      <3>1. UNCHANGED <<freeListHead, freeListRefs, freeListNext, out, lister>>
        BY DEF freeList
      <3>2. PICK f, L, st : FLShape(f, L, st)
        BY DEF FLInv
      <3>3. FLShape(f, L, st)' /\ FLTypes' /\ FLSeen'
        BY <3>1, <3>2 DEF FLInv, FLShape, FLTypes, FLSeen
      <3> QED BY <3>3 DEF FLInv
    <2> QED BY <2>1, StepFreeList DEF MCNext
  <1> QED BY <1>1, <1>2, PTL DEF MCSpec

\* moodycamel's free list, for any number of threads and nodes below the bit:
\* a node taken is nobody else's, and none is lost.
THEOREM FreeListStaysExact == MCSpec => []FreeListExact
  <1>1. FLInv => FreeListExact
    BY TakenOnce, NoneLost DEF FreeListExact, FreeList!FreeListExact
  <1> QED BY <1>1, FreeListInvariance, PTL

-----------------------------------------------------------------------------
(* The counters of a sub-queue of moodycamel's queue.  A consumer that has *)
(* added itself to dequeueOptimisticCount has reserved elements; those it  *)
(* found behind the tail when it read it again are sure to be there.       *)

\* Where a consumer is when it holds none of the counters.
Uncounted == {"idle", "header", "mark", "locate", "read", "empty", "unlink", "free"}

CounterAt(s, over) ==
    \/ s \in [pc : {"overcommit"}, max : Nat, tail : Nat]
    \/ s \in [pc : {"check"}, max : Nat, tail : Nat, over : Nat] /\ s.over <= over
    \/ s \in [pc : {"count"}, over : Nat, desired : Nat] /\ s.over <= over
    \/ s \in [pc : {"reload"}, desired : Nat, from : Int]
    \/ s \in [pc : {"giveback", "claim"}, n : Nat, rest : Nat] /\ (s.pc = "claim" => s.rest = 0)
    \/ "pc" \in DOMAIN s /\ s.pc \in Uncounted

\* What the consumer's reservation still adds to dequeueOptimisticCount, and
\* what of it is sure; early says that its whole reservation is to be counted.
Reserved(s) ==
    IF s.pc = "reload" THEN s.desired
    ELSE IF s.pc \in {"giveback", "claim"} THEN s.n + s.rest ELSE 0
Sure(s, early) ==
    IF s.pc = "reload" THEN (IF early THEN s.desired ELSE 0)
    ELSE IF s.pc \in {"giveback", "claim"} THEN s.n ELSE 0

\* The sums over the consumers.  r ranks them by when they last reserved.
AllReserved(con) == SumFunctionOnSet([c \in Consumers |-> Reserved(con[c])], Consumers)
AllSure(con, r, k) == SumFunctionOnSet([c \in Consumers |-> Sure(con[c], r[c] < k)], Consumers)

\* Up to rank k there is an element for everything reserved; a consumer of a
\* later rank counts from behind everything reserved before it.
Ranked(con, first, back, r, k, m) ==
    /\ r \in [Consumers -> Nat] /\ k \in Nat /\ m \in Nat /\ k <= m
    /\ \A c \in Consumers : r[c] < m
    /\ \A c, d \in Consumers :
          c # d /\ con[c].pc = "reload" /\ con[d].pc = "reload" => r[c] # r[d]
    /\ first + AllSure(con, r, k) <= back
    /\ \A c \in Consumers :
          con[c].pc = "reload" /\ k <= r[c] => first + AllSure(con, r, r[c]) <= con[c].from

ProducerOK(p) ==
    "pc" \in DOMAIN p /\ (p.pc \notin {"idle", "destroyed"} => "count" \in DOMAIN p /\ p.count \in Nat)

ConsumersOK(con, over) == DOMAIN con = Consumers /\ con = [c \in Consumers |-> con[c]]
                       /\ \A c \in Consumers : CounterAt(con[c], over)

Counters(con, first, back, opt, over) ==
    /\ first \in Nat /\ back \in Nat /\ opt \in Nat /\ over \in Nat
    /\ ConsumersOK(con, over)
    /\ opt - over = first + AllReserved(con)
    /\ \E r, k, m : Ranked(con, first, back, r, k, m)

CountersInv ==
    /\ Counters(consumer, headIndex, tailIndex, dequeueOptimisticCount, dequeueOvercommit)
    /\ ProducerOK(producer)

-----------------------------------------------------------------------------
LEMMA CountNat ==
  ASSUME NEW over \in Nat, NEW s, CounterAt(s, over), NEW early
  PROVE  /\ Reserved(s) \in Nat /\ Sure(s, early) \in Nat /\ Sure(s, early) <= Reserved(s)
         /\ s.pc \in {"overcommit", "check", "count", "reload", "giveback", "claim"} \cup Uncounted
  BY DEF CounterAt, Reserved, Sure, Uncounted

\* Nothing is more than sure to those who reserved it.
LEMMA SureReserved ==
  ASSUME IsFiniteSet(Consumers), NEW con, NEW over \in Nat, ConsumersOK(con, over),
         NEW r \in [Consumers -> Nat], NEW k \in Nat
  PROVE  /\ AllReserved(con) \in Nat /\ AllSure(con, r, k) \in Nat
         /\ AllSure(con, r, k) <= AllReserved(con)
  <1> DEFINE f == [c \in Consumers |-> Reserved(con[c])]
             g == [c \in Consumers |-> Sure(con[c], r[c] < k)]
  <1>1. \A c \in Consumers : f[c] \in Nat /\ g[c] \in Nat /\ g[c] <= f[c]
    BY CountNat DEF ConsumersOK
  <1> HIDE DEF f, g
  <1>2. /\ SumFunctionOnSet(f, Consumers) \in Nat /\ SumFunctionOnSet(g, Consumers) \in Nat
        /\ SumFunctionOnSet(g, Consumers) <= SumFunctionOnSet(f, Consumers)
    BY <1>1, SumNat, SumLeq
  <1> QED BY <1>2 DEF f, g, AllReserved, AllSure

\* The sums after a step of one consumer.
LEMMA ReservedChange ==
  ASSUME IsFiniteSet(Consumers), NEW con, NEW con2, NEW over \in Nat, NEW over2 \in Nat,
         ConsumersOK(con, over), ConsumersOK(con2, over2), NEW c \in Consumers,
         \A d \in Consumers \ {c} : con2[d] = con[d]
  PROVE  AllReserved(con2) = AllReserved(con) - Reserved(con[c]) + Reserved(con2[c])
  <1> DEFINE f == [d \in Consumers |-> Reserved(con[d])]
             g == [d \in Consumers |-> Reserved(con2[d])]
  <1>1. \A d \in Consumers : f[d] \in Nat /\ g[d] \in Nat
    BY CountNat DEF ConsumersOK
  <1>2. (\A d \in Consumers \ {c} : f[d] = g[d]) /\ f[c] = Reserved(con[c]) /\ g[c] = Reserved(con2[c])
    OBVIOUS
  <1> HIDE DEF f, g
  <1>3. SumFunctionOnSet(g, Consumers) = SumFunctionOnSet(f, Consumers) - f[c] + g[c]
    BY <1>1, <1>2, SumChange
  <1> QED BY <1>2, <1>3 DEF f, g, AllReserved

LEMMA SureChange ==
  ASSUME IsFiniteSet(Consumers), NEW con, NEW con2, NEW over \in Nat, NEW over2 \in Nat,
         ConsumersOK(con, over), ConsumersOK(con2, over2), NEW c \in Consumers,
         NEW r \in [Consumers -> Nat], NEW r2 \in [Consumers -> Nat],
         \A d \in Consumers \ {c} : con2[d] = con[d] /\ r2[d] = r[d],
         NEW k \in Nat
  PROVE  AllSure(con2, r2, k) = AllSure(con, r, k) - Sure(con[c], r[c] < k) + Sure(con2[c], r2[c] < k)
  <1> DEFINE f == [d \in Consumers |-> Sure(con[d], r[d] < k)]
             g == [d \in Consumers |-> Sure(con2[d], r2[d] < k)]
  <1>1. \A d \in Consumers : f[d] \in Nat /\ g[d] \in Nat
    BY CountNat DEF ConsumersOK
  <1>2. (\A d \in Consumers \ {c} : f[d] = g[d]) /\ f[c] = Sure(con[c], r[c] < k)
        /\ g[c] = Sure(con2[c], r2[c] < k)
    OBVIOUS
  <1> HIDE DEF f, g
  <1>3. SumFunctionOnSet(g, Consumers) = SumFunctionOnSet(f, Consumers) - f[c] + g[c]
    BY <1>1, <1>2, SumChange
  <1> QED BY <1>2, <1>3 DEF f, g, AllSure

\* The consumers after a step of one of them.
LEMMA ConsumerChange ==
  ASSUME NEW con, NEW over \in Nat, NEW over2 \in Nat, over <= over2, ConsumersOK(con, over),
         NEW c \in Consumers, NEW s, CounterAt(s, over2)
  PROVE  /\ ConsumersOK([con EXCEPT ![c] = s], over2)
         /\ [con EXCEPT ![c] = s][c] = s
         /\ \A d \in Consumers \ {c} : [con EXCEPT ![c] = s][d] = con[d]
  <1>1. \A d \in Consumers : CounterAt(con[d], over) => CounterAt(con[d], over2)
    BY DEF CounterAt
  <1> QED BY <1>1 DEF ConsumersOK

\* A step that neither reserves nor reads the tail again keeps what is sure.
LEMMA KeepsSure ==
  ASSUME IsFiniteSet(Consumers), NEW con, NEW first, NEW back, NEW opt, NEW over,
         Counters(con, first, back, opt, over), NEW c \in Consumers, NEW s,
         NEW first2 \in Nat, NEW opt2 \in Nat, NEW over2 \in Nat, over <= over2,
         CounterAt(s, over2), con[c].pc # "reload", s.pc # "reload",
         first2 + Sure(s, TRUE) = first + Sure(con[c], TRUE),
         opt2 - over2 = (opt - over) + (first2 + Reserved(s)) - (first + Reserved(con[c]))
  PROVE  Counters([con EXCEPT ![c] = s], first2, back, opt2, over2)
  <1> DEFINE new == [con EXCEPT ![c] = s]
  <1>1. ConsumersOK(con, over) /\ first \in Nat /\ back \in Nat /\ opt \in Nat /\ over \in Nat
    BY DEF Counters
  <1>2. ConsumersOK(new, over2) /\ new[c] = s /\ \A d \in Consumers \ {c} : new[d] = con[d]
    BY <1>1, ConsumerChange
  <1> HIDE DEF new
  <1>3. CounterAt(con[c], over)
    BY <1>1 DEF ConsumersOK
  <1>4. /\ Sure(s, TRUE) \in Nat /\ Sure(con[c], TRUE) \in Nat
        /\ Reserved(s) \in Nat /\ Reserved(con[c]) \in Nat
    BY <1>1, <1>3, CountNat
  <1>5. AllReserved(con) \in Nat /\ AllReserved(new) = AllReserved(con) - Reserved(con[c]) + Reserved(s)
    <2>1. [d \in Consumers |-> 0] \in [Consumers -> Nat]
      OBVIOUS
    <2>2. AllReserved(con) \in Nat
      BY <1>1, <2>1, SureReserved
    <2> QED BY <1>1, <1>2, <2>2, ReservedChange
  <1>6. opt2 - over2 = first2 + AllReserved(new)
    <2>1. opt - over = first + AllReserved(con)
      BY DEF Counters
    <2> QED BY <1>1, <1>4, <1>5, <2>1
  <1>7. PICK r, k, m : Ranked(con, first, back, r, k, m)
    BY DEF Counters
  <1>8. r \in [Consumers -> Nat] /\ k \in Nat /\ m \in Nat
    BY <1>7 DEF Ranked
  <1>9. ASSUME NEW j \in Nat
        PROVE  AllSure(con, r, j) \in Nat /\ first2 + AllSure(new, r, j) = first + AllSure(con, r, j)
    <2>1. AllSure(con, r, j) \in Nat
      BY <1>1, <1>8, SureReserved
    <2>2. AllSure(new, r, j) = AllSure(con, r, j) - Sure(con[c], r[c] < j) + Sure(new[c], r[c] < j)
      BY <1>1, <1>2, <1>8, SureChange
    <2>3. Sure(con[c], r[c] < j) = Sure(con[c], TRUE) /\ Sure(new[c], r[c] < j) = Sure(s, TRUE)
      BY <1>2 DEF Sure
    <2>4. AllSure(new, r, j) = AllSure(con, r, j) - Sure(con[c], TRUE) + Sure(s, TRUE)
      BY <2>2, <2>3
    <2>5. PICK x \in Nat, y \in Nat : x = Sure(s, TRUE) /\ y = Sure(con[c], TRUE)
      BY <1>4
    <2>6. first2 + x = first + y
      BY <2>5
    <2>7. PICK z \in Nat : z = AllSure(con, r, j)
      BY <2>1
    <2>8. AllSure(new, r, j) = z - y + x
      BY <2>4, <2>5, <2>7
    <2> QED BY <1>1, <2>6, <2>7, <2>8
  <1>10. Ranked(new, first2, back, r, k, m)
    <2>1. \A d \in Consumers : new[d].pc = "reload" => d # c /\ new[d] = con[d] /\ con[d].pc = "reload"
      BY <1>2
    <2>2. first2 + AllSure(new, r, k) <= back
      BY <1>7, <1>8, <1>9 DEF Ranked
    <2>3. ASSUME NEW d \in Consumers, new[d].pc = "reload", k <= r[d]
          PROVE  first2 + AllSure(new, r, r[d]) <= new[d].from
      <3>1. r[d] \in Nat /\ con[d].pc = "reload" /\ new[d] = con[d]
        BY <1>8, <2>1, <2>3
      <3>2. first + AllSure(con, r, r[d]) <= con[d].from
        BY <1>7, <2>3, <3>1 DEF Ranked
      <3> QED BY <1>9, <3>1, <3>2
    <2> QED BY <1>7, <2>1, <2>2, <2>3 DEF Ranked
  <1> QED BY <1>1, <1>2, <1>6, <1>10 DEF Counters, new

\* A consumer that reserves counts from behind all who reserved before it.
LEMMA Reserves ==
  ASSUME IsFiniteSet(Consumers), NEW con, NEW first, NEW back, NEW opt, NEW over,
         Counters(con, first, back, opt, over), NEW c \in Consumers, con[c].pc = "count"
  PROVE  Counters([con EXCEPT ![c] = [pc |-> "reload", desired |-> con[c].desired,
                                      from |-> opt - con[c].over]],
                  first, back, opt + con[c].desired, over)
  <1>1. ConsumersOK(con, over) /\ first \in Nat /\ back \in Nat /\ opt \in Nat /\ over \in Nat
    BY DEF Counters
  <1>2. con[c].desired \in Nat /\ con[c].over \in Nat /\ con[c].over <= over
        /\ Reserved(con[c]) = 0 /\ \A early \in BOOLEAN : Sure(con[c], early) = 0
    <2>1. CounterAt(con[c], over)
      BY <1>1 DEF ConsumersOK
    <2> QED BY <2>1 DEF CounterAt, Uncounted, Reserved, Sure
  <1>3. PICK n \in Nat : n = con[c].desired
    BY <1>2
  <1>4. PICK a \in Int : a = opt - con[c].over
    BY <1>1, <1>2
  <1>5. PICK s : s = [pc |-> "reload", desired |-> n, from |-> a]
    OBVIOUS
  <1>6. CounterAt(s, over) /\ Reserved(s) = n /\ Sure(s, FALSE) = 0 /\ s.pc = "reload" /\ s.from = a
    BY <1>5 DEF CounterAt, Reserved, Sure
  <1> DEFINE new == [con EXCEPT ![c] = s]
  <1>7. ConsumersOK(new, over) /\ new[c] = s /\ \A d \in Consumers \ {c} : new[d] = con[d]
    BY <1>1, <1>6, ConsumerChange
  <1> HIDE DEF new
  <1>8. PICK r, k, m : Ranked(con, first, back, r, k, m)
    BY DEF Counters
  <1>9. r \in [Consumers -> Nat] /\ k \in Nat /\ m \in Nat /\ k <= m
    BY <1>8 DEF Ranked
  <1>10. AllReserved(con) \in Nat /\ AllReserved(new) = AllReserved(con) + n
    <2>1. AllReserved(con) \in Nat
      BY <1>1, <1>9, SureReserved
    <2>2. AllReserved(new) = AllReserved(con) - Reserved(con[c]) + Reserved(new[c])
      BY <1>1, <1>7, ReservedChange
    <2> QED BY <1>2, <1>6, <1>7, <2>1, <2>2
  <1>11. opt - over = first + AllReserved(con)
    BY DEF Counters
  <1>12. PICK q : q = [r EXCEPT ![c] = m]
    OBVIOUS
  <1>13. q \in [Consumers -> Nat] /\ q[c] = m /\ \A d \in Consumers \ {c} : q[d] = r[d]
    BY <1>9, <1>12
  <1>14. ASSUME NEW j \in Nat, j <= m
         PROVE  /\ AllSure(con, r, j) \in Nat /\ AllSure(con, r, j) <= AllReserved(con)
                /\ AllSure(new, q, j) = AllSure(con, r, j)
    <2>1. AllSure(con, r, j) \in Nat /\ AllSure(con, r, j) <= AllReserved(con)
      BY <1>1, <1>9, SureReserved
    <2>2. AllSure(new, q, j) = AllSure(con, r, j) - Sure(con[c], r[c] < j) + Sure(new[c], q[c] < j)
      BY <1>1, <1>7, <1>9, <1>13, SureChange
    <2>3. ~(q[c] < j)
      BY <1>9, <1>13, <1>14
    <2>4. Sure(con[c], r[c] < j) = 0 /\ Sure(new[c], q[c] < j) = 0
      BY <1>5, <1>7, <2>3 DEF Sure
    <2> QED BY <2>1, <2>2, <2>4
  <1>15. Ranked(new, first, back, q, k, m + 1)
    <2>1. \A d \in Consumers : q[d] < m + 1
      BY <1>8, <1>9, <1>13 DEF Ranked
    <2>2. ASSUME NEW d \in Consumers, NEW e \in Consumers, d # e,
                 new[d].pc = "reload", new[e].pc = "reload"
          PROVE  q[d] # q[e]
      <3>1. \A x \in Consumers : r[x] \in Nat /\ r[x] < m
        BY <1>8, <1>9 DEF Ranked
      <3>2. CASE d # c /\ e # c
        BY <1>7, <1>8, <1>13, <2>2, <3>2 DEF Ranked
      <3>3. CASE d = c \/ e = c
        BY <1>9, <1>13, <2>2, <3>1, <3>3
      <3> QED BY <3>2, <3>3
    <2>3. first + AllSure(new, q, k) <= back
      BY <1>8, <1>9, <1>14 DEF Ranked
    <2>4. ASSUME NEW d \in Consumers, new[d].pc = "reload", k <= q[d]
          PROVE  first + AllSure(new, q, q[d]) <= new[d].from
      <3>1. CASE d = c
        <4>1. first + AllSure(new, q, m) <= a
          BY <1>1, <1>2, <1>4, <1>9, <1>10, <1>11, <1>14
        <4> QED BY <1>6, <1>7, <1>13, <3>1, <4>1
      <3>2. CASE d # c
        <4>1. r[d] \in Nat /\ r[d] <= m /\ con[d].pc = "reload" /\ new[d] = con[d] /\ q[d] = r[d]
          BY <1>7, <1>8, <1>9, <1>13, <2>4, <3>2 DEF Ranked
        <4>2. first + AllSure(con, r, r[d]) <= con[d].from
          BY <1>8, <2>4, <4>1 DEF Ranked
        <4> QED BY <1>14, <4>1, <4>2
      <3> QED BY <3>1, <3>2
    <2> QED BY <1>9, <1>13, <2>1, <2>2, <2>3, <2>4 DEF Ranked
  <1>16. opt + n \in Nat /\ (opt + n) - over = first + AllReserved(new)
    BY <1>1, <1>10, <1>11
  <1>17. Counters(new, first, back, opt + n, over)
    BY <1>1, <1>7, <1>15, <1>16 DEF Counters
  <1> QED BY <1>3, <1>4, <1>5, <1>17 DEF new

\* A consumer that reads the tail again is sure of what is before it; what was
\* reserved before its reservation is then before the tail, too.
LEMMA ReadsTail ==
  ASSUME IsFiniteSet(Consumers), NEW con, NEW first, NEW back, NEW opt, NEW over,
         Counters(con, first, back, opt, over), NEW c \in Consumers, con[c].pc = "reload",
         NEW n \in Nat, n <= con[c].desired, n > 0 => con[c].from + n <= back,
         NEW s, s \in [pc : {"giveback", "claim"}, n : Nat, rest : Nat],
         s.n = n, s.rest = con[c].desired - n, s.pc = "claim" => s.rest = 0
  PROVE  Counters([con EXCEPT ![c] = s], first, back, opt, over)
  <1> DEFINE new == [con EXCEPT ![c] = s]
  <1> SUFFICES Counters(new, first, back, opt, over)
    OBVIOUS
  <1>1. ConsumersOK(con, over) /\ first \in Nat /\ back \in Nat /\ opt \in Nat /\ over \in Nat
    BY DEF Counters
  <1>2. PICK want \in Nat, from \in Int : want = con[c].desired /\ from = con[c].from
    <2>1. CounterAt(con[c], over)
      BY <1>1 DEF ConsumersOK
    <2> QED BY <2>1 DEF CounterAt, Uncounted
  <1>3. Reserved(con[c]) = want /\ Sure(con[c], FALSE) = 0 /\ Sure(con[c], TRUE) = want
    BY <1>2 DEF Reserved, Sure
  <1>4. CounterAt(s, over) /\ Reserved(s) = want /\ Sure(s, FALSE) = n /\ Sure(s, TRUE) = n /\ s.pc # "reload"
    BY <1>2 DEF CounterAt, Reserved, Sure
  <1>5. ConsumersOK(new, over) /\ new[c] = s /\ \A d \in Consumers \ {c} : new[d] = con[d]
    BY <1>1, <1>4, ConsumerChange
  <1> HIDE DEF new
  <1>6. PICK r, k, m : Ranked(con, first, back, r, k, m)
    BY DEF Counters
  <1>7. r \in [Consumers -> Nat] /\ k \in Nat /\ m \in Nat /\ k <= m
    BY <1>6 DEF Ranked
  <1>8. opt - over = first + AllReserved(new)
    <2>1. AllReserved(con) \in Nat
      BY <1>1, <1>7, SureReserved
    <2>2. AllReserved(new) = AllReserved(con) - Reserved(con[c]) + Reserved(new[c])
      BY <1>1, <1>5, ReservedChange
    <2>3. opt - over = first + AllReserved(con)
      BY DEF Counters
    <2> QED BY <1>2, <1>3, <1>4, <1>5, <2>1, <2>2, <2>3
  <1>9. ASSUME NEW j \in Nat
        PROVE  /\ AllSure(con, r, j) \in Nat
               /\ r[c] < j => AllSure(new, r, j) = AllSure(con, r, j) - want + n
               /\ ~(r[c] < j) => AllSure(new, r, j) = AllSure(con, r, j) + n
    <2>1. AllSure(con, r, j) \in Nat
      BY <1>1, <1>7, SureReserved
    <2>2. AllSure(new, r, j) = AllSure(con, r, j) - Sure(con[c], r[c] < j) + Sure(new[c], r[c] < j)
      BY <1>1, <1>5, <1>7, SureChange
    <2>3. Sure(new[c], r[c] < j) = n
      BY <1>4, <1>5 DEF Sure
    <2>4. Sure(con[c], r[c] < j) = IF r[c] < j THEN want ELSE 0
      BY <1>2 DEF Sure
    <2> QED BY <1>2, <2>1, <2>2, <2>3, <2>4
  <1>10. \A d \in Consumers : /\ new[d].pc = "reload" => d # c /\ new[d] = con[d] /\ con[d].pc = "reload"
                              /\ r[d] \in Nat /\ r[d] < m
    BY <1>4, <1>5, <1>6, <1>7 DEF Ranked
  <1>11. n <= want /\ (n > 0 => from + n <= back)
    BY <1>2
  <1>12. ASSUME NEW j \in Nat, j <= m, j <= k \/ j = r[c],
                first + AllSure(new, r, j) <= back,
                \A d \in Consumers : new[d].pc = "reload" /\ j <= r[d] => k <= r[d] /\ (r[c] < r[d] \/ n = 0)
         PROVE  Counters(new, first, back, opt, over)
    <2>1. ASSUME NEW d \in Consumers, new[d].pc = "reload", j <= r[d]
          PROVE  first + AllSure(new, r, r[d]) <= new[d].from
      <3>1. PICK i \in Nat : i = r[d]
        BY <1>10
      <3>2. k <= i /\ (r[c] < i \/ n = 0) /\ con[d].pc = "reload" /\ new[d] = con[d] /\ d # c
        BY <1>10, <1>12, <2>1, <3>1
      <3>3. first + AllSure(con, r, i) <= con[d].from
        BY <1>6, <3>1, <3>2 DEF Ranked
      <3>4. con[d].from \in Int
        <4>1. CounterAt(con[d], over)
          BY <1>1 DEF ConsumersOK
        <4> QED BY <3>2, <4>1 DEF CounterAt, Uncounted
      <3>5. AllSure(con, r, i) \in Nat /\ AllSure(new, r, i) \in Int /\ AllSure(new, r, i) <= AllSure(con, r, i)
        BY <1>2, <1>9, <1>11, <3>2
      <3> QED BY <1>1, <3>1, <3>2, <3>3, <3>4, <3>5
    <2>2. \A d, e \in Consumers :
            d # e /\ new[d].pc = "reload" /\ new[e].pc = "reload" => r[d] # r[e]
      BY <1>6, <1>10 DEF Ranked
    <2>3. Ranked(new, first, back, r, j, m)
      BY <1>7, <1>10, <1>12, <2>1, <2>2 DEF Ranked
    <2> QED BY <1>1, <1>5, <1>8, <2>3 DEF Counters
  <1>13. first + AllSure(con, r, k) <= back
    BY <1>6 DEF Ranked
  <1>14. PICK i \in Nat : i = r[c]
    BY <1>10
  <1>15. CASE i < k \/ n = 0
    <2>1. first + AllSure(new, r, k) <= back
      BY <1>1, <1>2, <1>7, <1>9, <1>11, <1>13, <1>14, <1>15
    <2>2. \A d \in Consumers : new[d].pc = "reload" /\ k <= r[d] => r[c] < r[d] \/ n = 0
      BY <1>7, <1>10, <1>14, <1>15
    <2> QED BY <1>7, <1>12, <2>1, <2>2
  <1>16. CASE k <= i /\ n > 0
    <2>1. first + AllSure(con, r, i) <= from
      BY <1>2, <1>6, <1>14, <1>16 DEF Ranked
    <2>2. AllSure(con, r, i) \in Nat /\ AllSure(new, r, i) = AllSure(con, r, i) + n
      BY <1>9, <1>14
    <2>3. first + AllSure(new, r, i) <= back
      BY <1>1, <1>2, <1>11, <1>16, <2>1, <2>2
    <2>4. ASSUME NEW d \in Consumers, new[d].pc = "reload", i <= r[d]
          PROVE  k <= r[d] /\ r[c] < r[d]
      <3>1. r[d] # r[c]
        BY <1>6, <1>10, <2>4 DEF Ranked
      <3> QED BY <1>7, <1>10, <1>14, <1>16, <2>4, <3>1
    <2>5. i <= m
      BY <1>7, <1>10, <1>14
    <2> QED BY <1>12, <1>14, <2>3, <2>4, <2>5
  <1> QED BY <1>7, <1>14, <1>15, <1>16

\* More elements do no harm.
LEMMA MoreElements ==
  ASSUME NEW con, NEW first, NEW back, NEW opt, NEW over, Counters(con, first, back, opt, over),
         IsFiniteSet(Consumers), NEW n \in Nat
  PROVE  Counters(con, first, back + n, opt, over)
  <1>1. PICK r, k, m : Ranked(con, first, back, r, k, m)
    BY DEF Counters
  <1>2. r \in [Consumers -> Nat] /\ k \in Nat /\ first \in Nat /\ back \in Nat /\ over \in Nat
        /\ ConsumersOK(con, over)
    BY <1>1 DEF Counters, Ranked
  <1>3. AllSure(con, r, k) \in Nat
    BY <1>2, SureReserved
  <1>4. first + AllSure(con, r, k) <= back + n
    BY <1>1, <1>2, <1>3 DEF Ranked
  <1>5. Ranked(con, first, back + n, r, k, m)
    BY <1>1, <1>4 DEF Ranked
  <1> QED BY <1>2, <1>5 DEF Counters

-----------------------------------------------------------------------------
(* The steps of a sub-queue.                                               *)

\* A producer's step that leaves the counters and the consumers alone.
LEMMA ProducerStep ==
  ASSUME CountersInv,
         \/ \E n \in 1..MaxBulk : SubQueue!CallEnqueue(n)
         \/ SubQueue!IndexBlock \/ SubQueue!GiveUpImplicit
         \/ \E b \in Blocks : SubQueue!TakeBlock(b) \/ SubQueue!NewBlock(b)
         \/ SubQueue!ReuseAhead \/ SubQueue!NoneAhead \/ SubQueue!GrowExplicit
         \/ SubQueue!GiveUpExplicit \/ SubQueue!Write \/ SubQueue!Destroy
  PROVE  CountersInv'
  <1>1. UNCHANGED <<consumer, headIndex, tailIndex, dequeueOptimisticCount, dequeueOvercommit>>
    BY DEF SubQueue!CallEnqueue, SubQueue!IndexBlock, SubQueue!GiveUpImplicit, SubQueue!TakeBlock,
           SubQueue!NewBlock, SubQueue!ReuseAhead, SubQueue!NoneAhead, SubQueue!GrowExplicit,
           SubQueue!GiveUpExplicit, SubQueue!Write, SubQueue!Destroy, SubQueue!counters
  <1>2. ProducerOK(producer')
    <2>1. ProducerOK(producer)
      BY DEF CountersInv
    <2>2. ASSUME NEW n \in 1..MaxBulk, SubQueue!CallEnqueue(n) PROVE ProducerOK(producer')
      <3>1. n \in Nat
        BY CounterAssumption
      <3> QED BY <2>2, <3>1 DEF SubQueue!CallEnqueue, ProducerOK
    <2>3. SubQueue!IndexBlock => ProducerOK(producer')
      BY <2>1 DEF SubQueue!IndexBlock, ProducerOK
    <2>4. SubQueue!GiveUpImplicit => ProducerOK(producer')
      BY <2>1 DEF SubQueue!GiveUpImplicit, ProducerOK, SubQueue!Idle
    <2>5. ASSUME NEW b \in Blocks, SubQueue!TakeBlock(b) PROVE ProducerOK(producer')
      BY <2>1, <2>5 DEF SubQueue!TakeBlock, SubQueue!Got, ProducerOK
    <2>6. ASSUME NEW b \in Blocks, SubQueue!NewBlock(b) PROVE ProducerOK(producer')
      BY <2>1, <2>6 DEF SubQueue!NewBlock, SubQueue!Got, ProducerOK
    <2>7. SubQueue!ReuseAhead => ProducerOK(producer')
      BY <2>1 DEF SubQueue!ReuseAhead, SubQueue!Got, ProducerOK
    <2>8. SubQueue!NoneAhead => ProducerOK(producer')
      BY <2>1 DEF SubQueue!NoneAhead, ProducerOK
    <2>9. SubQueue!GrowExplicit => ProducerOK(producer')
      BY <2>1 DEF SubQueue!GrowExplicit, ProducerOK
    <2>10. SubQueue!GiveUpExplicit => ProducerOK(producer')
      BY DEF SubQueue!GiveUpExplicit, ProducerOK, SubQueue!Idle
    <2>11. SubQueue!Write => ProducerOK(producer')
      BY <2>1 DEF SubQueue!Write, ProducerOK
    <2>12. SubQueue!Destroy => ProducerOK(producer')
      BY DEF SubQueue!Destroy, ProducerOK
    <2> QED BY <2>2, <2>3, <2>4, <2>5, <2>6, <2>7, <2>8, <2>9, <2>10, <2>11, <2>12
  <1>3. Counters(consumer', headIndex', tailIndex', dequeueOptimisticCount', dequeueOvercommit')
    BY <1>1 DEF CountersInv
  <1> QED BY <1>2, <1>3 DEF CountersInv

LEMMA PublishCounts ==
  ASSUME CountersInv, SubQueue!Publish
  PROVE  CountersInv'
  <1>1. producer.count \in Nat /\ tailIndex' = tailIndex + producer.count /\ ProducerOK(producer')
        /\ UNCHANGED <<consumer, headIndex, dequeueOptimisticCount, dequeueOvercommit>>
    BY DEF CountersInv, SubQueue!Publish, ProducerOK, SubQueue!Idle
  <1>2. Counters(consumer, headIndex, tailIndex + producer.count, dequeueOptimisticCount, dequeueOvercommit)
    BY <1>1, CounterAssumption, MoreElements DEF CountersInv
  <1> QED BY <1>1, <1>2 DEF CountersInv

\* A consumer's step that reserves nothing, before or after.
LEMMA QuietStep ==
  ASSUME CountersInv, NEW c \in Consumers, NEW s, CounterAt(s, dequeueOvercommit),
         consumer[c].pc \notin {"reload", "giveback", "claim"},
         s.pc \notin {"reload", "giveback", "claim"},
         consumer' = [consumer EXCEPT ![c] = s],
         UNCHANGED <<headIndex, tailIndex, dequeueOptimisticCount, dequeueOvercommit, producer>>
  PROVE  CountersInv'
  <1>1. Sure(s, TRUE) = 0 /\ Sure(consumer[c], TRUE) = 0 /\ Reserved(s) = 0 /\ Reserved(consumer[c]) = 0
    BY DEF Sure, Reserved
  <1>2. headIndex \in Nat /\ dequeueOptimisticCount \in Nat /\ dequeueOvercommit \in Nat
    BY DEF CountersInv, Counters
  <1>3. /\ headIndex + Sure(s, TRUE) = headIndex + Sure(consumer[c], TRUE)
        /\ dequeueOptimisticCount - dequeueOvercommit =
             (dequeueOptimisticCount - dequeueOvercommit) + (headIndex + Reserved(s))
                 - (headIndex + Reserved(consumer[c]))
        /\ dequeueOvercommit <= dequeueOvercommit
    <2>1. PICK a, b, d \in Nat : a = headIndex /\ b = dequeueOptimisticCount /\ d = dequeueOvercommit
      BY <1>2
    <2>2. b - d = (b - d) + (a + 0) - (a + 0) /\ d <= d
      BY <2>1
    <2> QED BY <1>1, <2>1, <2>2
  <1>4. Counters([consumer EXCEPT ![c] = s], headIndex, tailIndex, dequeueOptimisticCount, dequeueOvercommit)
    BY <1>2, <1>3, CounterAssumption, KeepsSure DEF CountersInv
  <1> QED BY <1>4 DEF CountersInv

\* The steps of a dequeue after it has claimed, on the elements.
LEMMA ElementStep ==
  ASSUME CountersInv, NEW c \in Consumers,
         \/ SubQueue!LoadHeader(c) \/ SubQueue!LoadMark(c) \/ SubQueue!Locate(c)
         \/ SubQueue!ReadElements(c) \/ SubQueue!SetEmpty(c) \/ SubQueue!Unlink(c)
         \/ SubQueue!FreeBlock(c)
  PROVE  CountersInv'
  <1>1. "pc" \in DOMAIN consumer[c] /\ consumer[c].pc \in Uncounted
    <2>1. consumer[c].pc \in {"header", "mark", "locate", "read", "empty", "unlink", "free"}
      BY DEF SubQueue!LoadHeader, SubQueue!LoadMark, SubQueue!Locate, SubQueue!ReadElements,
             SubQueue!SetEmpty, SubQueue!Unlink, SubQueue!FreeBlock
    <2>2. CounterAt(consumer[c], dequeueOvercommit)
      BY DEF CountersInv, Counters, ConsumersOK
    <2> QED BY <2>1, <2>2 DEF CounterAt, Uncounted
  <1>2. UNCHANGED <<headIndex, tailIndex, dequeueOptimisticCount, dequeueOvercommit, producer>>
    BY DEF SubQueue!LoadHeader, SubQueue!LoadMark, SubQueue!Locate, SubQueue!ReadElements,
           SubQueue!SetEmpty, SubQueue!Unlink, SubQueue!FreeBlock, SubQueue!OnlyStep, SubQueue!counters
  <1>o. \A s : "pc" \in DOMAIN SubQueue!Onward(s) /\ SubQueue!Onward(s).pc \in Uncounted
    BY DEF SubQueue!Onward, SubQueue!Idle, Uncounted
  <1>3. \E s : "pc" \in DOMAIN s /\ s.pc \in Uncounted /\ consumer' = [consumer EXCEPT ![c] = s]
    <2>1. CASE SubQueue!LoadHeader(c)
      BY <2>1 DEF SubQueue!LoadHeader, SubQueue!OnlyStep, SubQueue!Step, Uncounted
    <2>2. CASE SubQueue!LoadMark(c)
      BY <1>1, <2>2 DEF SubQueue!LoadMark, SubQueue!OnlyStep, SubQueue!Step, Uncounted
    <2>3. CASE SubQueue!Locate(c)
      BY <1>1, <2>3 DEF SubQueue!Locate, SubQueue!OnlyStep, SubQueue!Step, Uncounted
    <2>4. CASE SubQueue!ReadElements(c)
      BY <1>1, <2>4 DEF SubQueue!ReadElements, SubQueue!Step, Uncounted
    <2>5. CASE SubQueue!SetEmpty(c)
      BY <1>1, <1>o, <2>5 DEF SubQueue!SetEmpty, SubQueue!Step, Uncounted
    <2>6. CASE SubQueue!Unlink(c)
      BY <1>1, <2>6 DEF SubQueue!Unlink, SubQueue!Step, Uncounted
    <2>7. CASE SubQueue!FreeBlock(c)
      BY <1>1, <1>o, <2>7 DEF SubQueue!FreeBlock, SubQueue!Step
    <2> QED BY <2>1, <2>2, <2>3, <2>4, <2>5, <2>6, <2>7
  <1>4. PICK s : "pc" \in DOMAIN s /\ s.pc \in Uncounted /\ consumer' = [consumer EXCEPT ![c] = s]
    BY <1>3
  <1> QED BY <1>1, <1>2, <1>4, QuietStep DEF CounterAt, Uncounted

\* The least and the greatest of two numbers.
LEMMA OfTwo ==
  ASSUME NEW a \in Int, NEW b \in Int
  PROVE  /\ SubQueue!Min({a, b}) = IF a <= b THEN a ELSE b
         /\ SubQueue!Max({a, b}) = IF a <= b THEN b ELSE a
  BY DEF SubQueue!Min, SubQueue!Max

\* The steps of a dequeue up to its claim.
LEMMA LoadTailStep ==
  ASSUME CountersInv, NEW c \in Consumers, NEW max \in 1..MaxBulk, SubQueue!LoadTail(c, max)
  PROVE  CountersInv'
  <1>1. PICK s : s = [pc |-> "overcommit", max |-> max, tail |-> tailIndex]
    OBVIOUS
  <1>2. CounterAt(s, dequeueOvercommit) /\ s.pc = "overcommit"
    BY <1>1, CounterAssumption DEF CounterAt, CountersInv, Counters
  <1>3. /\ consumer[c].pc = "idle" /\ consumer' = [consumer EXCEPT ![c] = s]
        /\ UNCHANGED <<headIndex, tailIndex, dequeueOptimisticCount, dequeueOvercommit, producer>>
    BY <1>1 DEF SubQueue!LoadTail, SubQueue!OnlyStep, SubQueue!Step, SubQueue!Idle, SubQueue!counters
  <1> QED BY <1>2, <1>3, QuietStep

LEMMA LoadOvercommitStep ==
  ASSUME CountersInv, NEW c \in Consumers, SubQueue!LoadOvercommit(c)
  PROVE  CountersInv'
  <1>1. PICK s : s = [pc |-> "check", max |-> consumer[c].max, tail |-> consumer[c].tail,
                      over |-> dequeueOvercommit]
    OBVIOUS
  <1>2. CounterAt(s, dequeueOvercommit) /\ s.pc = "check"
    <2>1. CounterAt(consumer[c], dequeueOvercommit) /\ dequeueOvercommit \in Nat
      BY DEF CountersInv, Counters, ConsumersOK
    <2>2. consumer[c].pc = "overcommit"
      BY DEF SubQueue!LoadOvercommit
    <2>3. consumer[c].max \in Nat /\ consumer[c].tail \in Nat
      BY <2>1, <2>2 DEF CounterAt, Uncounted
    <2> QED BY <1>1, <2>1, <2>3 DEF CounterAt
  <1>3. /\ consumer[c].pc = "overcommit" /\ consumer' = [consumer EXCEPT ![c] = s]
        /\ UNCHANGED <<headIndex, tailIndex, dequeueOptimisticCount, dequeueOvercommit, producer>>
    BY <1>1 DEF SubQueue!LoadOvercommit, SubQueue!OnlyStep, SubQueue!Step, SubQueue!counters
  <1> QED BY <1>2, <1>3, QuietStep

LEMMA CheckStep ==
  ASSUME CountersInv, NEW c \in Consumers, SubQueue!Check(c)
  PROVE  CountersInv'
  <1> DEFINE s == consumer[c]
             desired == s.tail - (dequeueOptimisticCount - s.over)
  <1>1. /\ s \in [pc : {"check"}, max : Nat, tail : Nat, over : Nat] /\ s.over <= dequeueOvercommit
        /\ s.pc = "check" /\ dequeueOptimisticCount \in Nat /\ dequeueOvercommit \in Nat
    <2>1. CounterAt(consumer[c], dequeueOvercommit)
      BY DEF CountersInv, Counters, ConsumersOK
    <2> QED BY <2>1 DEF CounterAt, Uncounted, CountersInv, Counters, SubQueue!Check
  <1>2. UNCHANGED <<headIndex, tailIndex, dequeueOptimisticCount, dequeueOvercommit, producer>>
    BY DEF SubQueue!Check, SubQueue!OnlyStep, SubQueue!counters
  <1>3. PICK want \in Int : want = desired
    BY <1>1
  <1>4. consumer' = [consumer EXCEPT ![c] =
            IF want <= 0 THEN SubQueue!Idle
            ELSE [pc |-> "count", over |-> s.over, desired |-> SubQueue!Min({want, s.max})]]
    BY <1>3 DEF SubQueue!Check, SubQueue!OnlyStep, SubQueue!Step
  <1>5. CASE want <= 0
    <2>1. CounterAt(SubQueue!Idle, dequeueOvercommit) /\ SubQueue!Idle.pc = "idle"
      BY DEF CounterAt, SubQueue!Idle, Uncounted
    <2> QED BY <1>1, <1>2, <1>4, <1>5, <2>1, QuietStep
  <1>6. CASE ~(want <= 0)
    <2>1. PICK n \in Nat : n = SubQueue!Min({want, s.max})
      <3>1. s.max \in Int /\ s.max \in Nat
        BY <1>1
      <3>2. SubQueue!Min({want, s.max}) = IF want <= s.max THEN want ELSE s.max
        BY <3>1, OfTwo
      <3> QED BY <1>6, <3>1, <3>2
    <2>2. PICK t : t = [pc |-> "count", over |-> s.over, desired |-> n]
      OBVIOUS
    <2>3. CounterAt(t, dequeueOvercommit) /\ t.pc = "count"
      BY <1>1, <2>2 DEF CounterAt
    <2>4. consumer' = [consumer EXCEPT ![c] = t]
      BY <1>4, <1>6, <2>1, <2>2
    <2> QED BY <1>1, <1>2, <2>3, <2>4, QuietStep
  <1> QED BY <1>5, <1>6

LEMMA AddOptimisticStep ==
  ASSUME CountersInv, NEW c \in Consumers, SubQueue!AddOptimistic(c)
  PROVE  CountersInv'
  <1>1. /\ consumer[c].pc = "count"
        /\ dequeueOptimisticCount' = dequeueOptimisticCount + consumer[c].desired
        /\ consumer' = [consumer EXCEPT ![c] = [pc |-> "reload", desired |-> consumer[c].desired,
                                                from |-> dequeueOptimisticCount - consumer[c].over]]
        /\ UNCHANGED <<headIndex, tailIndex, dequeueOvercommit, producer>>
    BY DEF SubQueue!AddOptimistic, SubQueue!Step
  <1>2. Counters(consumer', headIndex, tailIndex, dequeueOptimisticCount', dequeueOvercommit)
    BY <1>1, CounterAssumption, Reserves DEF CountersInv
  <1> QED BY <1>1, <1>2 DEF CountersInv

LEMMA ReloadTailStep ==
  ASSUME CountersInv, NEW c \in Consumers, SubQueue!ReloadTail(c)
  PROVE  CountersInv'
  <1>1. /\ consumer[c].pc = "reload" /\ consumer[c].desired \in Nat /\ consumer[c].from \in Int
        /\ tailIndex \in Nat
    <2>1. CounterAt(consumer[c], dequeueOvercommit)
      BY DEF CountersInv, Counters, ConsumersOK
    <2> QED BY <2>1 DEF CounterAt, Uncounted, CountersInv, Counters, SubQueue!ReloadTail
  <1>2. UNCHANGED <<headIndex, tailIndex, dequeueOptimisticCount, dequeueOvercommit, producer>>
    BY DEF SubQueue!ReloadTail, SubQueue!OnlyStep, SubQueue!counters
  <1>3. PICK want \in Nat, from \in Int : want = consumer[c].desired /\ from = consumer[c].from
    BY <1>1
  <1>4. PICK n : n = SubQueue!Max({0, SubQueue!Min({want, tailIndex - from})})
    OBVIOUS
  <1>5. n \in Nat /\ n <= want /\ (n > 0 => from + n <= tailIndex)
    <2>1. PICK a \in Int : a = tailIndex - from
      BY <1>1
    <2>2. PICK b \in Int : b = SubQueue!Min({want, a}) /\ b = IF want <= a THEN want ELSE a
      BY OfTwo
    <2>3. n = IF 0 <= b THEN b ELSE 0
      <3>1. PICK z \in Int : z = 0
        OBVIOUS
      <3>2. SubQueue!Max({z, b}) = IF z <= b THEN b ELSE z
        BY OfTwo
      <3> QED BY <1>4, <2>1, <2>2, <3>1, <3>2
    <2> QED BY <1>1, <2>1, <2>2, <2>3
  <1>6. PICK s : s = [pc |-> IF n < want THEN "giveback" ELSE "claim", n |-> n, rest |-> want - n]
    OBVIOUS
  <1>7. /\ s \in [pc : {"giveback", "claim"}, n : Nat, rest : Nat]
        /\ s.n = n /\ s.rest = want - n /\ (s.pc = "claim" => s.rest = 0)
    BY <1>5, <1>6
  <1>8. consumer' = [consumer EXCEPT ![c] = s]
    BY <1>3, <1>4, <1>6 DEF SubQueue!ReloadTail, SubQueue!OnlyStep, SubQueue!Step
  <1>9. Counters([consumer EXCEPT ![c] = s], headIndex, tailIndex, dequeueOptimisticCount, dequeueOvercommit)
    BY <1>1, <1>3, <1>5, <1>7, CounterAssumption, ReadsTail DEF CountersInv
  <1> QED BY <1>2, <1>8, <1>9 DEF CountersInv

LEMMA AddOvercommitStep ==
  ASSUME CountersInv, NEW c \in Consumers, SubQueue!AddOvercommit(c)
  PROVE  CountersInv'
  <1>1. /\ consumer[c] \in [pc : {"giveback", "claim"}, n : Nat, rest : Nat] /\ consumer[c].pc = "giveback"
        /\ headIndex \in Nat /\ dequeueOptimisticCount \in Nat /\ dequeueOvercommit \in Nat
    <2>1. CounterAt(consumer[c], dequeueOvercommit)
      BY DEF CountersInv, Counters, ConsumersOK
    <2> QED BY <2>1 DEF CounterAt, Uncounted, CountersInv, Counters, SubQueue!AddOvercommit
  <1>2. PICK n \in Nat, rest \in Nat : n = consumer[c].n /\ rest = consumer[c].rest
    BY <1>1
  <1>3. PICK s : s = IF n = 0 THEN [pc |-> "idle"] ELSE [pc |-> "claim", n |-> n, rest |-> 0]
    OBVIOUS
  <1>4. /\ dequeueOvercommit' = dequeueOvercommit + rest /\ consumer' = [consumer EXCEPT ![c] = s]
        /\ UNCHANGED <<headIndex, tailIndex, dequeueOptimisticCount, producer>>
    <2>1. [consumer[c] EXCEPT !.pc = "claim", !.rest = 0] = [pc |-> "claim", n |-> n, rest |-> 0]
      <3>1. PICK q : q = [consumer[c] EXCEPT !.pc = "claim"]
        OBVIOUS
      <3>2. q = [pc |-> "claim", n |-> n, rest |-> rest]
        BY <1>1, <1>2, <3>1
      <3>3. [consumer[c] EXCEPT !.pc = "claim", !.rest = 0] = [q EXCEPT !.rest = 0]
        BY <3>1
      <3> QED BY <3>2, <3>3
    <2> QED BY <1>2, <1>3, <2>1 DEF SubQueue!AddOvercommit, SubQueue!Step, SubQueue!Idle
  <1>5. PICK over2 \in Nat : over2 = dequeueOvercommit + rest
    BY <1>1
  <1>6. /\ CounterAt(s, over2) /\ s.pc # "reload" /\ Sure(s, TRUE) = n /\ Reserved(s) = n
        /\ Sure(consumer[c], TRUE) = n /\ Reserved(consumer[c]) = n + rest
    BY <1>1, <1>2, <1>3 DEF CounterAt, Uncounted, Sure, Reserved
  <1>7. /\ dequeueOvercommit <= over2
        /\ headIndex + Sure(s, TRUE) = headIndex + Sure(consumer[c], TRUE)
        /\ dequeueOptimisticCount - over2 = (dequeueOptimisticCount - dequeueOvercommit)
               + (headIndex + Reserved(s)) - (headIndex + Reserved(consumer[c]))
    <2>1. PICK a, b, d \in Nat : a = headIndex /\ b = dequeueOptimisticCount /\ d = dequeueOvercommit
      BY <1>1
    <2>2. b - (d + rest) = (b - d) + (a + n) - (a + (n + rest)) /\ d <= d + rest
      BY <2>1
    <2> QED BY <1>5, <1>6, <2>1, <2>2
  <1>8. Counters([consumer EXCEPT ![c] = s], headIndex, tailIndex, dequeueOptimisticCount, over2)
    BY <1>1, <1>6, <1>7, CounterAssumption, KeepsSure DEF CountersInv
  <1> QED BY <1>4, <1>5, <1>8 DEF CountersInv

LEMMA ClaimHeadStep ==
  ASSUME CountersInv, NEW c \in Consumers, SubQueue!ClaimHead(c)
  PROVE  CountersInv'
  <1>1. /\ consumer[c] \in [pc : {"giveback", "claim"}, n : Nat, rest : Nat] /\ consumer[c].pc = "claim"
        /\ consumer[c].rest = 0
        /\ headIndex \in Nat /\ dequeueOptimisticCount \in Nat /\ dequeueOvercommit \in Nat
    <2>1. CounterAt(consumer[c], dequeueOvercommit)
      BY DEF CountersInv, Counters, ConsumersOK
    <2> QED BY <2>1 DEF CounterAt, Uncounted, CountersInv, Counters, SubQueue!ClaimHead
  <1>2. PICK n \in Nat : n = consumer[c].n
    BY <1>1
  <1>3. PICK s : s = [pc |-> "header", at |-> headIndex, end |-> headIndex + n]
    OBVIOUS
  <1>4. /\ headIndex' = headIndex + n /\ consumer' = [consumer EXCEPT ![c] = s]
        /\ UNCHANGED <<tailIndex, dequeueOptimisticCount, dequeueOvercommit, producer>>
    BY <1>2, <1>3 DEF SubQueue!ClaimHead, SubQueue!Step
  <1>5. PICK first2 \in Nat : first2 = headIndex + n
    BY <1>1
  <1>6. /\ CounterAt(s, dequeueOvercommit) /\ s.pc # "reload" /\ Sure(s, TRUE) = 0 /\ Reserved(s) = 0
        /\ Sure(consumer[c], TRUE) = n /\ Reserved(consumer[c]) = n
    BY <1>1, <1>2, <1>3 DEF CounterAt, Uncounted, Sure, Reserved
  <1>7. /\ dequeueOvercommit <= dequeueOvercommit
        /\ first2 + Sure(s, TRUE) = headIndex + Sure(consumer[c], TRUE)
        /\ dequeueOptimisticCount - dequeueOvercommit = (dequeueOptimisticCount - dequeueOvercommit)
               + (first2 + Reserved(s)) - (headIndex + Reserved(consumer[c]))
    <2>1. PICK a, b, d \in Nat : a = headIndex /\ b = dequeueOptimisticCount /\ d = dequeueOvercommit
      BY <1>1
    <2>2. b - d = (b - d) + ((a + n) + 0) - (a + n) /\ d <= d /\ (a + n) + 0 = a + n
      BY <2>1
    <2> QED BY <1>5, <1>6, <2>1, <2>2
  <1>8. Counters([consumer EXCEPT ![c] = s], first2, tailIndex, dequeueOptimisticCount, dequeueOvercommit)
    BY <1>1, <1>6, <1>7, CounterAssumption, KeepsSure DEF CountersInv
  <1> QED BY <1>4, <1>5, <1>8 DEF CountersInv

LEMMA CountersStart == SubQueue!Init => CountersInv
  <1> SUFFICES ASSUME SubQueue!Init PROVE CountersInv
    OBVIOUS
  <1>1. /\ tailIndex = 0 /\ headIndex = 0 /\ dequeueOptimisticCount = 0 /\ dequeueOvercommit = 0
        /\ consumer = [c \in Consumers |-> [pc |-> "idle"]] /\ ProducerOK(producer)
    BY DEF SubQueue!Init, SubQueue!Idle, ProducerOK
  <1>2. ConsumersOK(consumer, 0)
    BY <1>1 DEF ConsumersOK, CounterAt, Uncounted
  <1>3. \A c \in Consumers : Reserved(consumer[c]) = 0
    BY <1>1 DEF Reserved
  <1>4. AllReserved(consumer) = 0
    BY <1>3, CounterAssumption, SumZero DEF AllReserved
  <1>5. PICK r \in [Consumers -> Nat] : r = [c \in Consumers |-> 0]
    OBVIOUS
  <1>6. AllSure(consumer, r, 0) = 0
    <2>1. \A c \in Consumers : Sure(consumer[c], r[c] < 0) = 0
      BY <1>1 DEF Sure
    <2> QED BY <2>1, CounterAssumption, SumZero DEF AllSure
  <1>7. Ranked(consumer, 0, 0, r, 0, 1)
    BY <1>1, <1>5, <1>6 DEF Ranked
  <1> QED BY <1>1, <1>2, <1>4, <1>7 DEF CountersInv, Counters

LEMMA CountersStep == CountersInv /\ SubQueue!Next => CountersInv'
  <1> SUFFICES ASSUME CountersInv, SubQueue!Next PROVE CountersInv'
    OBVIOUS
  <1>1. ASSUME NEW c \in Consumers,
               \/ \E max \in 1..MaxBulk : SubQueue!LoadTail(c, max)
               \/ SubQueue!LoadOvercommit(c) \/ SubQueue!Check(c) \/ SubQueue!AddOptimistic(c)
               \/ SubQueue!ReloadTail(c) \/ SubQueue!AddOvercommit(c) \/ SubQueue!ClaimHead(c)
        PROVE  CountersInv'
    BY <1>1, LoadTailStep, LoadOvercommitStep, CheckStep, AddOptimisticStep, ReloadTailStep,
       AddOvercommitStep, ClaimHeadStep
  <1>2. ASSUME NEW c \in Consumers,
               \/ SubQueue!LoadHeader(c) \/ SubQueue!LoadMark(c) \/ SubQueue!Locate(c)
               \/ SubQueue!ReadElements(c) \/ SubQueue!SetEmpty(c) \/ SubQueue!Unlink(c)
               \/ SubQueue!FreeBlock(c)
        PROVE  CountersInv'
    BY <1>2, ElementStep
  <1> QED BY <1>1, <1>2, ProducerStep, PublishCounts DEF SubQueue!Next

\* However many consumers add themselves to dequeueOptimisticCount and take
\* back what they added too much, no sub-queue of moodycamel's queue gives out
\* an element before it is there.
THEOREM HeadBehindTail == MCSpec => []NeverPastTail
  <1>1. CountersInv => NeverPastTail
    <2> SUFFICES ASSUME CountersInv PROVE headIndex <= tailIndex
      BY DEF NeverPastTail, SubQueue!NeverPastTail
    <2>1. PICK r, k, m : Ranked(consumer, headIndex, tailIndex, r, k, m)
      BY DEF CountersInv, Counters
    <2>2. AllSure(consumer, r, k) \in Nat /\ headIndex \in Nat /\ tailIndex \in Nat
      BY <2>1, CounterAssumption, SureReserved DEF CountersInv, Counters, Ranked
    <2> QED BY <2>1, <2>2 DEF Ranked
  <1>2. MCInit => CountersInv
    BY CountersStart DEF MCInit
  <1>3. CountersInv /\ [MCNext]_<<part, vars, subQueue, freeList>> => CountersInv'
    <2>1. CountersInv /\ UNCHANGED subQueue => CountersInv'
      BY DEF subQueue, CountersInv
    <2> QED BY <2>1, CountersStep DEF MCNext
  <1> QED BY <1>1, <1>2, <1>3, PTL DEF MCSpec

-----------------------------------------------------------------------------
(* Blocks of elements.  Element i is in block Num(i), at offset Off(i).    *)

Num(i) == i \div BlockSize
Off(i) == i % BlockSize

\* The model's names for the number of a block and an offset in it.
LEMMA TheirNum == \A i : SubQueue!BlockOf(i) = Num(i) /\ SubQueue!Offset(i) = Off(i)
  BY DEF SubQueue!BlockOf, SubQueue!Offset, Num, Off

\* An element has a block and an offset, and they give it back.
LEMMA NumFacts ==
  ASSUME NEW i \in Int
  PROVE  Num(i) \in Int /\ Off(i) \in 0..BlockSize - 1 /\ i = Num(i) * BlockSize + Off(i)
<1>1. BlockSize \in Nat \ {0}
  BY IndexAssumption
<1>2. Num(i) \in Int /\ Off(i) \in 0..(BlockSize - 1) /\ i = BlockSize * Num(i) + Off(i)
  BY <1>1, DivMod DEF Num, Off
<1>3. BlockSize * Num(i) = Num(i) * BlockSize
  BY <1>1, <1>2
<1> QED BY <1>2, <1>3

\* There is one block and offset for an element.
LEMMA NumIs ==
  ASSUME NEW n \in Int, NEW o \in 0..BlockSize - 1, NEW i \in Int, i = n * BlockSize + o
  PROVE  Num(i) = n /\ Off(i) = o
<1>1. PICK b \in Nat \ {0} : b = BlockSize
  BY IndexAssumption
<1>2. PICK m \in Int, r \in 0..b - 1 : m = Num(i) /\ r = Off(i) /\ i = m * b + r
  BY <1>1, NumFacts
<1>3. b * n + o = b * m + r
  BY <1>1, <1>2
<1>4. CASE m < n
  <2>1. b * m + b <= b * n
    BY <1>1, <1>2, <1>4, MultiplesApart
  <2>2. PICK x \in Int, y \in Int : x = b * m /\ y = b * n
    OBVIOUS
  <2> QED BY <1>1, <1>2, <1>3, <2>1, <2>2
<1>5. CASE n < m
  <2>1. b * n + b <= b * m
    BY <1>1, <1>2, <1>5, MultiplesApart
  <2>2. PICK x \in Int, y \in Int : x = b * m /\ y = b * n
    OBVIOUS
  <2> QED BY <1>1, <1>2, <1>3, <2>1, <2>2
<1>6. CASE m = n
  <2>1. PICK x \in Int : x = b * m
    OBVIOUS
  <2>2. x + o = x + r
    BY <1>3, <1>6, <2>1
  <2>3. o = r
    BY <1>1, <1>2, <2>1, <2>2
  <2> QED BY <1>2, <1>6, <2>3
<1> QED BY <1>2, <1>4, <1>5, <1>6

\* Later elements are in later blocks.
LEMMA NumMono ==
  ASSUME NEW i \in Int, NEW j \in Int, i <= j
  PROVE  Num(i) <= Num(j)
<1>1. PICK b \in Nat \ {0} : b = BlockSize
  BY IndexAssumption
<1>2. PICK m \in Int, r \in 0..b - 1 : m = Num(i) /\ r = Off(i) /\ i = m * b + r
  BY <1>1, NumFacts
<1>3. PICK n \in Int, s \in 0..b - 1 : n = Num(j) /\ s = Off(j) /\ j = n * b + s
  BY <1>1, NumFacts
<1>4. SUFFICES ASSUME n < m PROVE FALSE
  BY <1>2, <1>3
<1>5. b * n + b <= b * m
  BY <1>4, MultiplesApart
<1>6. PICK x \in Int, y \in Int : x = b * m /\ y = b * n
  OBVIOUS
<1>7. m * b = x /\ n * b = y
  BY <1>6
<1> QED BY <1>1, <1>2, <1>3, <1>5, <1>6, <1>7

\* The elements of block n.
Elems(n) == {i \in Nat : Num(i) = n}

\* The block of an element and of the one before it.
LEMMA NumNat ==
  ASSUME NEW i \in Nat
  PROVE  Num(i) \in Nat /\ Num(i - 1) \in Int /\ Num(i - 1) >= -1 /\ (i > 0 => Num(i - 1) \in Nat)
         /\ Num(i - 1) <= Num(i) /\ (i = 0 => Num(i - 1) = -1)
         /\ (Off(i) # 0 => Num(i - 1) = Num(i)) /\ (Off(i) = 0 => Num(i - 1) = Num(i) - 1)
<1>1. BlockSize \in Nat \ {0}
  BY IndexAssumption
<1>2. Num(0) = 0 /\ Num(-1) = -1
  <2>1. 0 = 0 * BlockSize + 0 /\ -1 = (-1) * BlockSize + (BlockSize - 1)
    BY <1>1
  <2>2. 0 \in 0..BlockSize - 1 /\ BlockSize - 1 \in 0..BlockSize - 1
    BY <1>1
  <2>3. Num(0) = 0
    BY <2>1, <2>2, NumIs
  <2>4. Num(-1) = -1
    BY <2>1, <2>2, NumIs
  <2> QED BY <2>3, <2>4
<1>3. Num(i) \in Int /\ Num(i - 1) \in Int
  BY NumFacts
<1>4. Num(0) <= Num(i) /\ Num(-1) <= Num(i - 1) /\ Num(i - 1) <= Num(i)
  <2>1. Num(0) <= Num(i)
    BY NumMono
  <2>2. Num(-1) <= Num(i - 1)
    BY NumMono
  <2> QED BY <2>1, <2>2, NumMono
<1>5. i > 0 => Num(0) <= Num(i - 1)
  BY NumMono
<1>6. PICK n \in Int, o \in 0..BlockSize - 1 : n = Num(i) /\ o = Off(i) /\ i = n * BlockSize + o
  BY NumFacts
<1>7. Off(i) # 0 => Num(i - 1) = Num(i)
  <2> SUFFICES ASSUME o # 0 PROVE Num(i - 1) = n
    BY <1>6
  <2>1. o - 1 \in 0..BlockSize - 1 /\ i - 1 = n * BlockSize + (o - 1)
    BY <1>1, <1>6
  <2> QED BY <2>1, NumIs
<1>8. Off(i) = 0 => Num(i - 1) = Num(i) - 1
  <2> SUFFICES ASSUME o = 0 PROVE Num(i - 1) = n - 1
    BY <1>6
  <2>1. (n - 1) * BlockSize = n * BlockSize - BlockSize
    BY <1>1
  <2>2. BlockSize - 1 \in 0..BlockSize - 1 /\ i - 1 = (n - 1) * BlockSize + (BlockSize - 1)
    BY <1>1, <1>6, <2>1
  <2>3. n - 1 \in Int /\ i - 1 \in Int
    OBVIOUS
  <2> QED BY <2>2, <2>3, NumIs
<1> QED BY <1>2, <1>3, <1>4, <1>5, <1>7, <1>8

\* A block has BlockSize elements, one at each offset.
LEMMA ElemsIs ==
  ASSUME NEW n \in Nat
  PROVE  /\ n * BlockSize \in Nat
         /\ Elems(n) = n * BlockSize..n * BlockSize + BlockSize - 1
         /\ IsFiniteSet(Elems(n)) /\ Cardinality(Elems(n)) = BlockSize
<1>1. PICK b \in Nat \ {0} : b = BlockSize
  BY IndexAssumption
<1>2. PICK x \in Nat : x = n * BlockSize
  BY <1>1
<1>3. ASSUME NEW i \in x..x + b - 1 PROVE i \in Elems(n)
  <2>1. i \in Nat /\ i - x \in 0..BlockSize - 1 /\ i = n * BlockSize + (i - x)
    BY <1>1, <1>2
  <2> QED BY <2>1, NumIs DEF Elems
<1>4. ASSUME NEW i \in Elems(n) PROVE i \in x..x + b - 1
  <2>1. i \in Nat /\ Num(i) = n
    BY DEF Elems
  <2>2. Off(i) \in 0..b - 1 /\ i = x + Off(i)
    BY <1>1, <1>2, <2>1, NumFacts
  <2> QED BY <1>1, <2>1, <2>2
<1>5. Elems(n) = x..x + b - 1
  BY <1>3, <1>4
<1>6. IsFiniteSet(x..x + b - 1) /\ Cardinality(x..x + b - 1) = b
  <2>1. x \in Int /\ x + b - 1 \in Int /\ x <= x + b - 1
    BY <1>1, <1>2
  <2>2. IsFiniteSet(x..x + b - 1)
        /\ Cardinality(x..x + b - 1) = IF x > x + b - 1 THEN 0 ELSE (x + b - 1) - x + 1
    BY <2>1, FS_Interval
  <2> QED BY <1>1, <1>2, <2>2
<1> QED BY <1>1, <1>2, <1>5, <1>6

\* Two elements do not share a place.
LEMMA SameElement ==
  ASSUME NEW i \in Int, NEW j \in Int, Num(i) = Num(j), Off(i) = Off(j)
  PROVE  i = j
  BY NumFacts

-----------------------------------------------------------------------------
(* The block index of an implicit producer.  hd are its headers, en its    *)
(* entries; in header h block n belongs at position K[h] + n.              *)

EntryRec == [key : Nat \cup {NULL}, value : Blocks \cup {NULL}]
HeaderRec == [mark : Nat, slots : Seq(Nat)]

Laps(hd, h) == Len(hd[h].slots)
At(hd, h, p) == hd[h].slots[(p % Laps(hd, h)) + 1]
EntryOf(hd, K, n) == At(hd, Len(hd), K[Len(hd)] + n)

HeadersOK(hd, en, K) ==
    /\ en \in Seq(EntryRec) /\ hd \in Seq(HeaderRec) /\ Len(hd) >= 1
    /\ K \in [1..Len(hd) -> Int]
    /\ \A h \in 1..Len(hd) : Laps(hd, h) >= 1
    /\ \A h \in 1..Len(hd) : \A p \in 1..Laps(hd, h) : hd[h].slots[p] \in 1..Len(en)

\* A key at position p of a header whose block 0 belongs at k.
KeyFits(key, p, k, m) ==
    key = NULL \/ \E n \in Nat : key = n * BlockSize /\ Cong(p, k + n, m)

\* Every key is where it belongs, in every header; only the last header has
\* entries that were never used; each is a multiple of the ones before it.
Mapped(hd, en, K) ==
    /\ \A h \in 1..Len(hd) : \A p \in Int : KeyFits(en[At(hd, h, p)].key, p, K[h], Laps(hd, h))
    /\ \A h \in 1..Len(hd) : h # Len(hd) => \A p \in Int : en[At(hd, h, p)].key # NULL
    /\ \A h \in 1..Len(hd) : \E q \in Nat : Laps(hd, Len(hd)) = q * Laps(hd, h)
    /\ \A p, q \in Int : At(hd, Len(hd), p) = At(hd, Len(hd), q) => Cong(p, q, Laps(hd, Len(hd)))

\* M is the newest block, blocks lo..M have their entries, and blocks L are
\* found in theirs.
InOrder(hd, en, K, lo, M, L, home) ==
    /\ M \in Int /\ M >= -1 /\ lo \in Nat /\ lo <= M + 1 /\ M - lo < Laps(hd, Len(hd))
    /\ Cong(hd[Len(hd)].mark, K[Len(hd)] + M, Laps(hd, Len(hd)))
    /\ \A n \in lo..M : en[EntryOf(hd, K, n)].key = n * BlockSize
    /\ L \subseteq lo..M
    /\ \A n \in L : home[n] \in Blocks /\ en[EntryOf(hd, K, n)].value = home[n]
    /\ \A e \in 1..Len(en) : en[e].value # NULL => \E n \in L : e = EntryOf(hd, K, n)

IndexOK(hd, en, K, lo, M, L, home) ==
    HeadersOK(hd, en, K) /\ Mapped(hd, en, K) /\ InOrder(hd, en, K, lo, M, L, home)

\* What a step of the index keeps for those who look at one of its headers.
IndexKeeps(hd, en, K, hd2, en2, K2, L) ==
    /\ \A h \in 1..Len(hd) :
          h \in 1..Len(hd2) /\ hd2[h].slots = hd[h].slots /\ K2[h] = K[h]
    /\ \A n \in L : EntryOf(hd2, K2, n) = EntryOf(hd, K, n)
    /\ \A e \in 1..Len(en) : en[e].key # NULL => en2[e].key # NULL

\* Every position of a header leads to an entry.
LEMMA AtFacts ==
  ASSUME NEW hd, NEW en, NEW K, HeadersOK(hd, en, K), NEW h \in 1..Len(hd)
  PROVE  /\ Laps(hd, h) \in Nat \ {0} /\ K[h] \in Int
         /\ \A p \in Int : At(hd, h, p) \in 1..Len(en) /\ en[At(hd, h, p)] \in EntryRec
         /\ \A p, q \in Int : Cong(p, q, Laps(hd, h)) => At(hd, h, p) = At(hd, h, q)
<1>1. hd[h] \in HeaderRec /\ Laps(hd, h) >= 1 /\ K[h] \in Int /\ en \in Seq(EntryRec)
  BY DEF HeadersOK
<1>2. Laps(hd, h) \in Nat
  BY <1>1 DEF HeaderRec, Laps
<1>3. PICK m \in Nat \ {0} : m = Laps(hd, h)
  BY <1>1, <1>2
<1>4. ASSUME NEW p \in Int PROVE At(hd, h, p) \in 1..Len(en) /\ en[At(hd, h, p)] \in EntryRec
  <2>1. p % m \in 0..m - 1
    BY <1>3, CongMod
  <2>2. (p % m) + 1 \in 1..Laps(hd, h)
    BY <1>3, <2>1
  <2>3. hd[h].slots[(p % m) + 1] \in 1..Len(en)
    BY <2>2 DEF HeadersOK
  <2>4. At(hd, h, p) \in 1..Len(en)
    BY <1>3, <2>3 DEF At
  <2> QED BY <1>1, <2>4
<1>5. ASSUME NEW p \in Int, NEW q \in Int, Cong(p, q, m) PROVE At(hd, h, p) = At(hd, h, q)
  <2>1. p % m = q % m
    BY <1>5, CongSlot
  <2> QED BY <1>3, <2>1 DEF At
<1> QED BY <1>1, <1>3, <1>4, <1>5

\* The last header, and the entries of blocks in it.
LEMMA LastFacts ==
  ASSUME NEW hd, NEW en, NEW K, HeadersOK(hd, en, K), Mapped(hd, en, K)
  PROVE  /\ Len(hd) \in 1..Len(hd) /\ Laps(hd, Len(hd)) \in Nat \ {0} /\ K[Len(hd)] \in Int
         /\ \A n \in Int : EntryOf(hd, K, n) \in 1..Len(en) /\ en[EntryOf(hd, K, n)] \in EntryRec
         /\ \A n, m \in Int : EntryOf(hd, K, n) = EntryOf(hd, K, m) <=> Cong(n, m, Laps(hd, Len(hd)))
<1>1. Len(hd) \in 1..Len(hd)
  BY DEF HeadersOK
<1>2. PICK T : T = Len(hd)
  OBVIOUS
<1>3. Laps(hd, T) \in Nat \ {0} /\ K[T] \in Int
  BY <1>1, <1>2, AtFacts
<1>4. PICK s \in Nat \ {0}, k \in Int : s = Laps(hd, T) /\ k = K[T]
  BY <1>3
<1>5. \A n : EntryOf(hd, K, n) = At(hd, T, k + n)
  BY <1>2, <1>4 DEF EntryOf
<1>6. ASSUME NEW n \in Int PROVE EntryOf(hd, K, n) \in 1..Len(en) /\ en[EntryOf(hd, K, n)] \in EntryRec
  <2>1. \A p \in Int : At(hd, T, p) \in 1..Len(en) /\ en[At(hd, T, p)] \in EntryRec
    BY <1>1, <1>2, AtFacts
  <2>2. k + n \in Int
    OBVIOUS
  <2> QED BY <1>5, <2>1, <2>2
<1>7. ASSUME NEW n \in Int, NEW m \in Int, EntryOf(hd, K, n) = EntryOf(hd, K, m) PROVE Cong(n, m, s)
  <2>1. k + n \in Int /\ k + m \in Int
    OBVIOUS
  <2>2. Cong(k + n, k + m, s)
    BY <1>2, <1>4, <1>5, <1>7, <2>1 DEF Mapped
  <2>3. n - m = (k + n) - (k + m)
    OBVIOUS
  <2> QED BY <2>1, <2>2, <2>3, CongShift
<1>8. ASSUME NEW n \in Int, NEW m \in Int, Cong(n, m, s) PROVE EntryOf(hd, K, n) = EntryOf(hd, K, m)
  <2>1. k + n \in Int /\ k + m \in Int /\ (k + n) - (k + m) = n - m
    OBVIOUS
  <2>2. Cong(k + n, k + m, s)
    BY <1>8, <2>1, CongShift
  <2>3. At(hd, T, k + n) = At(hd, T, k + m)
    BY <1>1, <1>2, <1>4, <2>1, <2>2, AtFacts
  <2> QED BY <1>5, <2>3
<1> QED BY <1>1, <1>2, <1>3, <1>4, <1>6, <1>7, <1>8

\* One entry is changed.
OneEntry(en, en2, e, x) ==
    /\ en2 \in Seq(EntryRec) /\ Len(en2) = Len(en) /\ en2[e] = x
    /\ \A f \in 1..Len(en) : f # e => en2[f] = en[f]

\* The last header gets another mark.
Remarked(hd, hd2, m) ==
    /\ hd2 \in Seq(HeaderRec) /\ Len(hd2) = Len(hd) /\ hd2[Len(hd)].mark = m
    /\ \A h \in 1..Len(hd) : hd2[h].slots = hd[h].slots

\* Writing an entry of the index.
LEMMA OneChanged ==
  ASSUME NEW en \in Seq(EntryRec), NEW e \in 1..Len(en), NEW x \in EntryRec, NEW en2,
         en2 = [en EXCEPT ![e] = x]
  PROVE  OneEntry(en, en2, e, x)
  BY DEF OneEntry

\* Moving the mark of the last header.
LEMMA MarkChanged ==
  ASSUME NEW hd \in Seq(HeaderRec), Len(hd) >= 1, NEW m \in Nat, NEW hd2,
         hd2 = [hd EXCEPT ![Len(hd)].mark = m]
  PROVE  Remarked(hd, hd2, m)
<1>1. PICK T : T = Len(hd) /\ T \in 1..Len(hd)
  OBVIOUS
<1>2. hd[T] \in HeaderRec
  BY <1>1
<1>3. PICK x : x = [hd[T] EXCEPT !.mark = m]
  OBVIOUS
<1>4. x \in HeaderRec /\ x.mark = m /\ x.slots = hd[T].slots
  BY <1>2, <1>3 DEF HeaderRec
<1>5. hd2 = [hd EXCEPT ![T] = x]
  BY <1>1, <1>3
<1> QED BY <1>1, <1>4, <1>5 DEF Remarked

\* A new mark moves no entry.
LEMMA RemarkKeeps ==
  ASSUME NEW hd, NEW en, NEW K, HeadersOK(hd, en, K), Mapped(hd, en, K), NEW hd2, NEW m, Remarked(hd, hd2, m)
  PROVE  /\ HeadersOK(hd2, en, K) /\ Mapped(hd2, en, K)
         /\ \A h \in 1..Len(hd) : Laps(hd2, h) = Laps(hd, h) /\ \A p : At(hd2, h, p) = At(hd, h, p)
         /\ \A n : EntryOf(hd2, K, n) = EntryOf(hd, K, n)
<1>1. Len(hd2) = Len(hd) /\ \A h \in 1..Len(hd) : hd2[h].slots = hd[h].slots
  BY DEF Remarked
<1>2. \A h \in 1..Len(hd) : Laps(hd2, h) = Laps(hd, h)
  BY <1>1 DEF Laps
<1>3. \A h \in 1..Len(hd) : \A p : At(hd2, h, p) = At(hd, h, p)
  BY <1>1, <1>2 DEF At
<1>4. Len(hd) \in 1..Len(hd)
  BY DEF HeadersOK
<1>5. \A n : EntryOf(hd2, K, n) = EntryOf(hd, K, n)
  BY <1>1, <1>3, <1>4 DEF EntryOf
<1>6. HeadersOK(hd2, en, K)
  BY <1>1, <1>2 DEF HeadersOK, Remarked
<1>7. Mapped(hd2, en, K)
  <2>1. \A h \in 1..Len(hd2) : \A p \in Int : KeyFits(en[At(hd2, h, p)].key, p, K[h], Laps(hd2, h))
    BY <1>1, <1>2, <1>3 DEF Mapped
  <2>2. \A h \in 1..Len(hd2) : h # Len(hd2) => \A p \in Int : en[At(hd2, h, p)].key # NULL
    BY <1>1, <1>3 DEF Mapped
  <2>3. \A h \in 1..Len(hd2) : \E q \in Nat : Laps(hd2, Len(hd2)) = q * Laps(hd2, h)
    BY <1>1, <1>2, <1>4 DEF Mapped
  <2>4. \A p, q \in Int : At(hd2, Len(hd2), p) = At(hd2, Len(hd2), q) => Cong(p, q, Laps(hd2, Len(hd2)))
    BY <1>1, <1>2, <1>3, <1>4 DEF Mapped
  <2> QED BY <2>1, <2>2, <2>3, <2>4 DEF Mapped
<1> QED BY <1>2, <1>3, <1>5, <1>6, <1>7

\* Keys are numbers of blocks.
LEMMA KeyNumber ==
  ASSUME NEW m \in Int, NEW n \in Int, m * BlockSize = n * BlockSize
  PROVE  m = n
<1>1. 0 \in 0..BlockSize - 1 /\ m * BlockSize \in Int /\ m * BlockSize = m * BlockSize + 0
      /\ m * BlockSize = n * BlockSize + 0
  BY IndexAssumption
<1>2. Num(m * BlockSize) = m
  BY <1>1, NumIs
<1>3. Num(m * BlockSize) = n
  BY <1>1, NumIs
<1> QED BY <1>2, <1>3

\* The entry of block n is written with its key.
LEMMA MappedWrite ==
  ASSUME NEW hd, NEW en, NEW K, HeadersOK(hd, en, K), Mapped(hd, en, K), NEW n \in Nat,
         NEW e, e = EntryOf(hd, K, n), NEW en2, NEW v,
         OneEntry(en, en2, e, [key |-> n * BlockSize, value |-> v])
  PROVE  HeadersOK(hd, en2, K) /\ Mapped(hd, en2, K)
         /\ (\A f \in 1..Len(en) : en[f].key # NULL => en2[f].key # NULL)
<1>1. PICK T : T = Len(hd)
  OBVIOUS
<1>2. PICK s \in Nat \ {0}, k \in Int : s = Laps(hd, T) /\ k = K[T] /\ T \in 1..Len(hd)
  BY <1>1, LastFacts
<1>3. e = At(hd, T, k + n) /\ k + n \in Int
  BY <1>1, <1>2 DEF EntryOf
<1>4. /\ en2 \in Seq(EntryRec) /\ Len(en2) = Len(en) /\ en2[e].key = n * BlockSize
      /\ \A f \in 1..Len(en) : f # e => en2[f] = en[f]
  BY DEF OneEntry
<1>5. n * BlockSize # NULL
  <2>1. n * BlockSize \in Nat
    BY ElemsIs
  <2> QED BY <2>1, IndexAssumption
<1>6. \A f \in 1..Len(en) : en[f].key # NULL => en2[f].key # NULL
  BY <1>4, <1>5
<1>7. HeadersOK(hd, en2, K)
  BY <1>4 DEF HeadersOK
<1>8. ASSUME NEW h \in 1..Len(hd), NEW p \in Int
      PROVE  KeyFits(en2[At(hd, h, p)].key, p, K[h], Laps(hd, h))
  <2>1. At(hd, h, p) \in 1..Len(en)
    BY AtFacts
  <2>2. KeyFits(en[At(hd, h, p)].key, p, K[h], Laps(hd, h))
    BY DEF Mapped
  <2>3. CASE At(hd, h, p) # e
    BY <1>4, <2>1, <2>2, <2>3
  <2>4. CASE At(hd, h, p) = e /\ h = T
    <3>1. Cong(p, k + n, s)
      BY <1>1, <1>2, <1>3, <2>4 DEF Mapped
    <3> QED BY <1>2, <1>4, <2>4, <3>1 DEF KeyFits
  <2>5. CASE At(hd, h, p) = e /\ h # T
    <3>1. en[e].key # NULL
      BY <1>1, <2>5 DEF Mapped
    <3>2. PICK n0 \in Nat : en[e].key = n0 * BlockSize /\ Cong(p, K[h] + n0, Laps(hd, h))
      BY <2>2, <2>5, <3>1 DEF KeyFits
    <3>3. KeyFits(en[e].key, k + n, k, s)
      BY <1>2, <1>3 DEF Mapped
    <3>4. PICK n1 \in Nat : en[e].key = n1 * BlockSize /\ Cong(k + n, k + n1, s)
      BY <3>1, <3>3 DEF KeyFits
    <3>5. n0 = n1
      BY <3>2, <3>4, KeyNumber
    <3>6. PICK m \in Nat \ {0}, j \in Int : m = Laps(hd, h) /\ j = K[h]
      BY AtFacts
    <3>7. PICK q \in Nat : s = q * m
      BY <1>1, <1>2, <3>6 DEF Mapped
    <3>8. Cong(k + n, k + n1, m)
      BY <1>3, <3>4, <3>7, CongDivides
    <3>9. Cong(n1, n, m)
      <4>1. Cong(k + n1, k + n, m)
        BY <1>3, <3>8, CongTurn
      <4>2. n1 - n = (k + n1) - (k + n)
        OBVIOUS
      <4> QED BY <1>3, <4>1, <4>2, CongShift
    <3>10. Cong(j + n1, j + n, m)
      <4>1. (j + n1) - (j + n) = n1 - n /\ j + n1 \in Int /\ j + n \in Int
        OBVIOUS
      <4> QED BY <3>9, <4>1, CongShift
    <3>11. Cong(p, j + n1, m)
      BY <3>2, <3>5, <3>6
    <3>12. Cong(p, j + n, m)
      BY <3>10, <3>11, CongThrough
    <3>13. en2[At(hd, h, p)].key = n * BlockSize
      BY <1>4, <2>5
    <3> QED BY <3>6, <3>12, <3>13 DEF KeyFits
  <2> QED BY <2>3, <2>4, <2>5
<1>9. \A h \in 1..Len(hd) : h # Len(hd) => \A p \in Int : en2[At(hd, h, p)].key # NULL
  <2> SUFFICES ASSUME NEW h \in 1..Len(hd), h # Len(hd), NEW p \in Int
               PROVE  en2[At(hd, h, p)].key # NULL
    OBVIOUS
  <2>1. At(hd, h, p) \in 1..Len(en)
    BY AtFacts
  <2>2. en[At(hd, h, p)].key # NULL
    BY DEF Mapped
  <2> QED BY <1>6, <2>1, <2>2
<1>10. Mapped(hd, en2, K)
  BY <1>8, <1>9 DEF Mapped
<1> QED BY <1>6, <1>7, <1>10

\* A mark is moved on or back with the newest block.
LEMMA MarkMoves ==
  ASSUME NEW mark \in Nat, NEW k \in Int, NEW M \in Int, NEW d \in Int, NEW s \in Nat \ {0}, Cong(mark, k + M, s)
  PROVE  Cong((mark + d) % s, k + (M + d), s) /\ (mark + d) % s \in Nat
<1>1. k + M \in Int /\ mark + d \in Int /\ k + (M + d) \in Int /\ (mark + d) - (k + (M + d)) = mark - (k + M)
  OBVIOUS
<1>2. Cong(mark + d, k + (M + d), s)
  BY <1>1, CongShift
<1>3. (mark + d) % s \in 0..s - 1 /\ Cong((mark + d) % s, mark + d, s)
  BY <1>1, CongMod
<1> QED BY <1>1, <1>2, <1>3, CongThrough

\* A mark is a position.
LEMMA MarkNat ==
  ASSUME NEW hd, NEW en, NEW K, HeadersOK(hd, en, K), NEW h \in 1..Len(hd)
  PROVE  hd[h].mark \in Nat
<1>1. hd[h] \in HeaderRec
  BY DEF HeadersOK
<1> QED BY <1>1 DEF HeaderRec

\* insert_block_index_entry takes an entry whose block is gone.
LEMMA IndexReuse ==
  ASSUME NEW hd, NEW en, NEW K, NEW lo, NEW M, NEW L, NEW home, IndexOK(hd, en, K, lo, M, L, home),
         NEW e, e = EntryOf(hd, K, M + 1), en[e].value = NULL,
         NEW en2, OneEntry(en, en2, e, [key |-> (M + 1) * BlockSize, value |-> NULL]),
         NEW hd2, Remarked(hd, hd2, (hd[Len(hd)].mark + 1) % Laps(hd, Len(hd))),
         NEW lo2, lo2 = IF M + 1 - lo < Laps(hd, Len(hd)) THEN lo ELSE lo + 1
  PROVE  IndexOK(hd2, en2, K, lo2, M + 1, L, home) /\ lo2 <= M + 1
         /\ IndexKeeps(hd, en, K, hd2, en2, K, L)
<1>1. HeadersOK(hd, en, K) /\ Mapped(hd, en, K) /\ InOrder(hd, en, K, lo, M, L, home)
  BY DEF IndexOK
<1>2. PICK T : T = Len(hd)
  OBVIOUS
<1>3. PICK s \in Nat \ {0}, k \in Int : s = Laps(hd, T) /\ k = K[T] /\ T \in 1..Len(hd)
  BY <1>1, <1>2, LastFacts
<1>4. /\ M \in Int /\ M >= -1 /\ lo \in Nat /\ lo <= M + 1 /\ M - lo < s
      /\ Cong(hd[T].mark, k + M, s)
      /\ \A n \in lo..M : en[EntryOf(hd, K, n)].key = n * BlockSize
      /\ L \subseteq lo..M
      /\ \A n \in L : home[n] \in Blocks /\ en[EntryOf(hd, K, n)].value = home[n]
      /\ \A f \in 1..Len(en) : en[f].value # NULL => \E n \in L : f = EntryOf(hd, K, n)
  BY <1>1, <1>2, <1>3 DEF InOrder
<1>5. M + 1 \in Nat
  BY <1>4
<1>6. /\ HeadersOK(hd, en2, K) /\ Mapped(hd, en2, K)
      /\ \A f \in 1..Len(en) : en[f].key # NULL => en2[f].key # NULL
  BY <1>1, <1>5, MappedWrite
<1>7. PICK mark \in Nat : mark = hd[T].mark /\ Cong(mark, k + M, s)
  <2>1. hd[T].mark \in Nat
    BY <1>1, <1>3, MarkNat
  <2> QED BY <1>4, <2>1
<1>8. PICK mark2 \in Nat : mark2 = (mark + 1) % s /\ Cong(mark2, k + (M + 1), s)
  <2>1. M \in Int
    BY <1>4
  <2>2. PICK d \in Int : d = 1
    OBVIOUS
  <2>3. Cong((mark + d) % s, k + (M + d), s) /\ (mark + d) % s \in Nat
    BY <1>7, <2>1, MarkMoves
  <2> QED BY <2>2, <2>3
<1>9. Remarked(hd, hd2, mark2)
  BY <1>2, <1>3, <1>7, <1>8
<1>10. /\ HeadersOK(hd2, en2, K) /\ Mapped(hd2, en2, K)
       /\ \A h \in 1..Len(hd) : Laps(hd2, h) = Laps(hd, h)
       /\ \A n : EntryOf(hd2, K, n) = EntryOf(hd, K, n)
  BY <1>6, <1>9, RemarkKeeps
<1>11. Len(hd2) = T /\ hd2[T].mark = mark2 /\ \A h \in 1..Len(hd) : hd2[h].slots = hd[h].slots
  BY <1>2, <1>9 DEF Remarked
<1>12. /\ Len(en2) = Len(en) /\ en2[e].key = (M + 1) * BlockSize /\ en2[e].value = NULL
       /\ \A f \in 1..Len(en) : f # e => en2[f] = en[f]
  BY DEF OneEntry
<1>13. \A n \in Int : EntryOf(hd, K, n) \in 1..Len(en)
       /\ \A m \in Int : EntryOf(hd, K, n) = EntryOf(hd, K, m) <=> Cong(n, m, s)
  <2>1. /\ \A n \in Int : EntryOf(hd, K, n) \in 1..Len(en)
        /\ \A n, m \in Int : EntryOf(hd, K, n) = EntryOf(hd, K, m) <=> Cong(n, m, Laps(hd, Len(hd)))
    BY <1>1, LastFacts
  <2> QED BY <1>2, <1>3, <2>1
<1>14. \A n \in L : EntryOf(hd, K, n) # e
  <2> SUFFICES ASSUME NEW n \in L, EntryOf(hd, K, n) = e PROVE FALSE
    OBVIOUS
  <2> QED BY <1>4, IndexAssumption
<1>15. lo2 \in Nat /\ lo <= lo2 /\ lo2 <= M + 1 /\ M + 1 - lo2 < s /\ M + 1 < lo2 + s
       /\ (lo2 # lo => lo2 = lo + 1 /\ M + 1 = lo + s)
  <2>1. lo2 = IF M + 1 - lo < s THEN lo ELSE lo + 1
    BY <1>2, <1>3
  <2>2. M \in Int /\ lo \in Nat /\ lo <= M + 1 /\ M - lo < s /\ s \in Nat \ {0}
    BY <1>3, <1>4
  <2> QED BY <2>1, <2>2
<1>16. L \subseteq lo2..M + 1
  <2> SUFFICES ASSUME NEW n \in L, ~(n \in lo2..M + 1) PROVE FALSE
    OBVIOUS
  <2>1. n \in Int /\ lo <= n /\ n <= M
    BY <1>4
  <2>2. n = lo /\ lo2 = lo + 1 /\ M + 1 = lo + s
    <3>1. M \in Int /\ lo \in Nat
      BY <1>4
    <3> QED BY <1>15, <2>1, <3>1
  <2>3. (M + 1) - n = 1 * s
    BY <1>3, <1>5, <2>1, <2>2
  <2>4. Cong(M + 1, n, s)
    <3>1. 1 \in Int
      OBVIOUS
    <3> QED BY <2>3, <3>1 DEF Cong
  <2>5. EntryOf(hd, K, M + 1) = EntryOf(hd, K, n)
    BY <1>5, <1>13, <2>1, <2>4
  <2> QED BY <1>14, <2>5
<1>17. \A n \in lo2..M + 1 : en2[EntryOf(hd, K, n)].key = n * BlockSize
  <2> SUFFICES ASSUME NEW n \in lo2..M + 1 PROVE en2[EntryOf(hd, K, n)].key = n * BlockSize
    OBVIOUS
  <2>1. CASE n = M + 1
    BY <1>12, <2>1
  <2>2. CASE n # M + 1
    <3>1. n \in lo..M /\ n \in Int /\ n <= M + 1 /\ M + 1 < n + s
      <4>1. M \in Int /\ lo \in Nat
        BY <1>4
      <4> QED BY <1>3, <1>15, <2>2, <4>1
    <3>2. EntryOf(hd, K, n) # e
      <4>1. ~Cong(n, M + 1, s)
        BY <1>5, <2>2, <3>1, CongNear
      <4> QED BY <1>5, <1>13, <3>1, <4>1
    <3> QED BY <1>4, <1>12, <1>13, <3>1, <3>2
  <2> QED BY <2>1, <2>2
<1>18. \A n \in L : home[n] \in Blocks /\ en2[EntryOf(hd, K, n)].value = home[n]
  <2> SUFFICES ASSUME NEW n \in L PROVE home[n] \in Blocks /\ en2[EntryOf(hd, K, n)].value = home[n]
    OBVIOUS
  <2>1. n \in Int
    BY <1>4
  <2> QED BY <1>4, <1>12, <1>13, <1>14, <2>1
<1>19. \A f \in 1..Len(en2) : en2[f].value # NULL => \E n \in L : f = EntryOf(hd, K, n)
  BY <1>4, <1>12
<1>20. InOrder(hd2, en2, K, lo2, M + 1, L, home)
  <2>1. PICK N \in Int : N = M + 1
    BY <1>5
  <2>2. N >= -1 /\ lo2 \in Nat /\ lo2 <= N + 1 /\ N - lo2 < Laps(hd2, Len(hd2))
    <3>1. lo2 \in Nat /\ lo2 <= N /\ N - lo2 < s /\ N \in Nat
      BY <1>5, <1>15, <2>1
    <3>2. Laps(hd2, Len(hd2)) = s
      BY <1>2, <1>3, <1>10, <1>11
    <3> QED BY <3>1, <3>2
  <2>3. Cong(hd2[Len(hd2)].mark, K[Len(hd2)] + N, Laps(hd2, Len(hd2)))
    BY <1>2, <1>3, <1>8, <1>10, <1>11, <2>1
  <2>4. \A n \in lo2..N : en2[EntryOf(hd2, K, n)].key = n * BlockSize
    BY <1>10, <1>17, <2>1
  <2>5. \A n \in L : home[n] \in Blocks /\ en2[EntryOf(hd2, K, n)].value = home[n]
    BY <1>10, <1>18
  <2>6. \A f \in 1..Len(en2) : en2[f].value # NULL => \E n \in L : f = EntryOf(hd2, K, n)
    BY <1>10, <1>19
  <2>7. L \subseteq lo2..N
    BY <1>16, <2>1
  <2>8. InOrder(hd2, en2, K, lo2, N, L, home)
    BY <2>2, <2>3, <2>4, <2>5, <2>6, <2>7 DEF InOrder
  <2> QED BY <2>1, <2>8
<1>21. IndexKeeps(hd, en, K, hd2, en2, K, L)
  BY <1>2, <1>6, <1>10, <1>11 DEF IndexKeeps
<1> QED BY <1>10, <1>15, <1>20, <1>21 DEF IndexOK

\* Blocks that have their entries have different ones.
LEMMA EntriesApart ==
  ASSUME NEW hd, NEW en, NEW K, NEW lo, NEW M, NEW L, NEW home, IndexOK(hd, en, K, lo, M, L, home),
         NEW n \in lo..M, NEW m \in lo..M, EntryOf(hd, K, n) = EntryOf(hd, K, m)
  PROVE  n = m
<1>1. n \in Int /\ m \in Int /\ n * BlockSize = m * BlockSize
  BY DEF IndexOK, InOrder
<1> QED BY <1>1, KeyNumber

\* Blocks enter entries and leave them; the newest may be taken back.
Revalued(hd, en, K, lo, M, hd2, en2, M2, L2, home2) ==
    /\ en2 \in Seq(EntryRec) /\ Len(en2) = Len(en)
    /\ \A f \in 1..Len(en) : en2[f].key = en[f].key
    /\ \E m : Remarked(hd, hd2, m) /\ Cong(m, K[Len(hd)] + M2, Laps(hd, Len(hd)))
    /\ M2 \in Int /\ -1 <= M2 /\ M2 <= M /\ lo <= M2 + 1
    /\ L2 \subseteq lo..M2
    /\ \A n \in L2 : home2[n] \in Blocks /\ en2[EntryOf(hd, K, n)].value = home2[n]
    /\ \A f \in 1..Len(en) : en2[f].value # NULL => \E n \in L2 : f = EntryOf(hd, K, n)

\* Such a step keeps the index right.
LEMMA IndexValues ==
  ASSUME NEW hd, NEW en, NEW K, NEW lo, NEW M, NEW L, NEW home, IndexOK(hd, en, K, lo, M, L, home),
         NEW hd2, NEW en2, NEW M2, NEW L2, NEW home2,
         Revalued(hd, en, K, lo, M, hd2, en2, M2, L2, home2)
  PROVE  IndexOK(hd2, en2, K, lo, M2, L2, home2) /\ IndexKeeps(hd, en, K, hd2, en2, K, L)
<1>1. HeadersOK(hd, en, K) /\ Mapped(hd, en, K) /\ InOrder(hd, en, K, lo, M, L, home)
  BY DEF IndexOK
<1>h. /\ en2 \in Seq(EntryRec) /\ Len(en2) = Len(en)
      /\ \A f \in 1..Len(en) : en2[f].key = en[f].key
      /\ M2 \in Int /\ -1 <= M2 /\ M2 <= M /\ lo <= M2 + 1
      /\ L2 \subseteq lo..M2
      /\ \A n \in L2 : home2[n] \in Blocks /\ en2[EntryOf(hd, K, n)].value = home2[n]
      /\ \A f \in 1..Len(en) : en2[f].value # NULL => \E n \in L2 : f = EntryOf(hd, K, n)
  BY DEF Revalued
<1>m. PICK m : Remarked(hd, hd2, m) /\ Cong(m, K[Len(hd)] + M2, Laps(hd, Len(hd)))
  BY DEF Revalued
<1>2. Len(hd) \in 1..Len(hd) /\ Laps(hd, Len(hd)) \in Nat \ {0}
  BY <1>1, LastFacts
<1>3. HeadersOK(hd, en2, K)
  BY <1>1, <1>h DEF HeadersOK
<1>4. Mapped(hd, en2, K)
  <2>1. \A h \in 1..Len(hd) : \A p \in Int : en2[At(hd, h, p)].key = en[At(hd, h, p)].key
    <3> SUFFICES ASSUME NEW h \in 1..Len(hd), NEW p \in Int
                 PROVE  en2[At(hd, h, p)].key = en[At(hd, h, p)].key
      OBVIOUS
    <3>1. At(hd, h, p) \in 1..Len(en)
      BY <1>1, AtFacts
    <3> QED BY <1>h, <3>1
  <2> QED BY <1>1, <2>1 DEF Mapped
<1>5. /\ HeadersOK(hd2, en2, K) /\ Mapped(hd2, en2, K)
      /\ \A h \in 1..Len(hd) : Laps(hd2, h) = Laps(hd, h)
      /\ \A n : EntryOf(hd2, K, n) = EntryOf(hd, K, n)
  BY <1>3, <1>4, <1>m, RemarkKeeps
<1>6. Len(hd2) = Len(hd) /\ hd2[Len(hd)].mark = m /\ \A h \in 1..Len(hd) : hd2[h].slots = hd[h].slots
  BY <1>m DEF Remarked
<1>7. InOrder(hd2, en2, K, lo, M2, L2, home2)
  <2>1. M \in Int /\ lo \in Nat /\ M2 - lo < Laps(hd2, Len(hd2))
    <3>1. M \in Int /\ lo \in Nat /\ M - lo < Laps(hd, Len(hd))
      BY <1>1 DEF InOrder
    <3>2. PICK s \in Nat : s = Laps(hd, Len(hd)) /\ s = Laps(hd2, Len(hd2))
      BY <1>2, <1>5, <1>6
    <3> QED BY <1>h, <3>1, <3>2
  <2>2. Cong(hd2[Len(hd2)].mark, K[Len(hd2)] + M2, Laps(hd2, Len(hd2)))
    BY <1>2, <1>5, <1>6, <1>m
  <2>3. \A n \in lo..M2 : en2[EntryOf(hd2, K, n)].key = n * BlockSize
    <3> SUFFICES ASSUME NEW n \in lo..M2 PROVE en2[EntryOf(hd2, K, n)].key = n * BlockSize
      OBVIOUS
    <3>1. n \in lo..M /\ n \in Int
      BY <1>h, <2>1
    <3>2. EntryOf(hd, K, n) \in 1..Len(en)
      BY <1>1, <3>1, LastFacts
    <3>3. en[EntryOf(hd, K, n)].key = n * BlockSize
      BY <1>1, <3>1 DEF InOrder
    <3> QED BY <1>5, <1>h, <3>2, <3>3
  <2>4. \A n \in L2 : home2[n] \in Blocks /\ en2[EntryOf(hd2, K, n)].value = home2[n]
    BY <1>5, <1>h
  <2>5. \A f \in 1..Len(en2) : en2[f].value # NULL => \E n \in L2 : f = EntryOf(hd2, K, n)
    BY <1>5, <1>h
  <2> QED BY <1>h, <2>1, <2>2, <2>3, <2>4, <2>5 DEF InOrder
<1>8. IndexKeeps(hd, en, K, hd2, en2, K, L)
  BY <1>h, <1>2, <1>5, <1>6 DEF IndexKeeps
<1> QED BY <1>5, <1>7, <1>8 DEF IndexOK

\* A mark that stays is one too.
LEMMA SameMark ==
  ASSUME NEW hd, NEW en, NEW K, HeadersOK(hd, en, K)
  PROVE  Remarked(hd, hd, hd[Len(hd)].mark)
  BY DEF HeadersOK, Remarked

\* A block is put into the newest entry.
LEMMA IndexSet ==
  ASSUME NEW hd, NEW en, NEW K, NEW lo, NEW M, NEW L, NEW home, IndexOK(hd, en, K, lo, M, L, home),
         M \notin L, lo <= M, NEW b \in Blocks, NEW e, e = EntryOf(hd, K, M),
         NEW en2, OneEntry(en, en2, e, [key |-> M * BlockSize, value |-> b]),
         NEW home2, home2[M] = b, \A n \in L : home2[n] = home[n]
  PROVE  IndexOK(hd, en2, K, lo, M, L \cup {M}, home2) /\ IndexKeeps(hd, en, K, hd, en2, K, L)
<1>1. HeadersOK(hd, en, K) /\ Mapped(hd, en, K) /\ InOrder(hd, en, K, lo, M, L, home)
  BY DEF IndexOK
<1>2. M \in Int /\ lo \in Nat /\ -1 <= M /\ lo <= M + 1 /\ L \subseteq lo..M /\ M \in lo..M
      /\ Cong(hd[Len(hd)].mark, K[Len(hd)] + M, Laps(hd, Len(hd)))
  BY <1>1 DEF InOrder
<1>3. /\ en2 \in Seq(EntryRec) /\ Len(en2) = Len(en)
      /\ en2[e].key = M * BlockSize /\ en2[e].value = b
      /\ \A f \in 1..Len(en) : f # e => en2[f] = en[f]
  BY DEF OneEntry
<1>4. en[e].key = M * BlockSize
  BY <1>1, <1>2 DEF InOrder
<1>5. \A f \in 1..Len(en) : en2[f].key = en[f].key
  BY <1>3, <1>4
<1>6. \A n \in L : n \in Int /\ EntryOf(hd, K, n) # e /\ EntryOf(hd, K, n) \in 1..Len(en)
  <2> SUFFICES ASSUME NEW n \in L
               PROVE  n \in Int /\ EntryOf(hd, K, n) # e /\ EntryOf(hd, K, n) \in 1..Len(en)
    OBVIOUS
  <2>1. n \in lo..M /\ n \in Int
    BY <1>2
  <2>2. EntryOf(hd, K, n) # e
    BY <1>2, <2>1, EntriesApart
  <2>3. EntryOf(hd, K, n) \in 1..Len(en)
    BY <1>1, <2>1, LastFacts
  <2> QED BY <2>1, <2>2, <2>3
<1>7. \A n \in L \cup {M} : home2[n] \in Blocks /\ en2[EntryOf(hd, K, n)].value = home2[n]
  <2>1. \A n \in L : home[n] \in Blocks /\ en[EntryOf(hd, K, n)].value = home[n]
    BY <1>1 DEF InOrder
  <2> QED BY <1>3, <1>6, <2>1
<1>8. \A f \in 1..Len(en) : en2[f].value # NULL => \E n \in L \cup {M} : f = EntryOf(hd, K, n)
  <2>1. \A f \in 1..Len(en) : en[f].value # NULL => \E n \in L : f = EntryOf(hd, K, n)
    BY <1>1 DEF InOrder
  <2> QED BY <1>3, <2>1
<1>9. Remarked(hd, hd, hd[Len(hd)].mark)
  BY <1>1, SameMark
<1>10. L \cup {M} \subseteq lo..M /\ M <= M
  <2>1. L \subseteq lo..M /\ M \in lo..M
    BY <1>2
  <2>2. M <= M
    BY <1>2
  <2> QED BY <2>1, <2>2
<1>11. Revalued(hd, en, K, lo, M, hd, en2, M, L \cup {M}, home2)
  BY <1>2, <1>3, <1>5, <1>7, <1>8, <1>9, <1>10 DEF Revalued
<1> QED BY <1>11, IndexValues

\* A block leaves its entry.
LEMMA IndexDrop ==
  ASSUME NEW hd, NEW en, NEW K, NEW lo, NEW M, NEW L, NEW home, IndexOK(hd, en, K, lo, M, L, home),
         NEW m \in L, NEW e, e = EntryOf(hd, K, m), NEW en2,
         OneEntry(en, en2, e, [key |-> m * BlockSize, value |-> NULL])
  PROVE  IndexOK(hd, en2, K, lo, M, L \ {m}, home) /\ IndexKeeps(hd, en, K, hd, en2, K, L)
<1>1. HeadersOK(hd, en, K) /\ Mapped(hd, en, K) /\ InOrder(hd, en, K, lo, M, L, home)
  BY DEF IndexOK
<1>2. M \in Int /\ lo \in Nat /\ -1 <= M /\ lo <= M + 1 /\ L \subseteq lo..M
      /\ Cong(hd[Len(hd)].mark, K[Len(hd)] + M, Laps(hd, Len(hd)))
  BY <1>1 DEF InOrder
<1>3. /\ en2 \in Seq(EntryRec) /\ Len(en2) = Len(en)
      /\ en2[e].key = m * BlockSize /\ en2[e].value = NULL
      /\ \A f \in 1..Len(en) : f # e => en2[f] = en[f]
  BY DEF OneEntry
<1>4. en[e].key = m * BlockSize
  BY <1>1, <1>2 DEF InOrder
<1>5. \A f \in 1..Len(en) : en2[f].key = en[f].key
  BY <1>3, <1>4
<1>6. \A n \in L \ {m} : EntryOf(hd, K, n) # e /\ EntryOf(hd, K, n) \in 1..Len(en)
  <2> SUFFICES ASSUME NEW n \in L \ {m}
               PROVE  EntryOf(hd, K, n) # e /\ EntryOf(hd, K, n) \in 1..Len(en)
    OBVIOUS
  <2>1. n \in lo..M /\ n \in Int /\ m \in lo..M
    BY <1>2
  <2>2. EntryOf(hd, K, n) # e
    BY <2>1, EntriesApart
  <2>3. EntryOf(hd, K, n) \in 1..Len(en)
    BY <1>1, <2>1, LastFacts
  <2> QED BY <2>2, <2>3
<1>7. \A n \in L \ {m} : home[n] \in Blocks /\ en2[EntryOf(hd, K, n)].value = home[n]
  <2>1. \A n \in L : home[n] \in Blocks /\ en[EntryOf(hd, K, n)].value = home[n]
    BY <1>1 DEF InOrder
  <2> QED BY <1>3, <1>6, <2>1
<1>8. \A f \in 1..Len(en) : en2[f].value # NULL => \E n \in L \ {m} : f = EntryOf(hd, K, n)
  <2>1. \A f \in 1..Len(en) : en[f].value # NULL => \E n \in L : f = EntryOf(hd, K, n)
    BY <1>1 DEF InOrder
  <2> QED BY <1>3, <2>1
<1>9. Remarked(hd, hd, hd[Len(hd)].mark)
  BY <1>1, SameMark
<1>10. L \ {m} \subseteq lo..M /\ M <= M
  BY <1>2
<1>11. Revalued(hd, en, K, lo, M, hd, en2, M, L \ {m}, home)
  BY <1>2, <1>3, <1>5, <1>7, <1>8, <1>9, <1>10 DEF Revalued
<1> QED BY <1>11, IndexValues

\* The newest d blocks are taken back.
Undone(hd, en, K, M, d, en2) ==
    en2 = [f \in DOMAIN en |->
             IF \E n \in M - d + 1..M : f = EntryOf(hd, K, n) THEN [en[f] EXCEPT !.value = NULL] ELSE en[f]]

\* A call that gives up takes its entries back and the mark with them.
LEMMA IndexUndo ==
  ASSUME NEW hd, NEW en, NEW K, NEW lo, NEW M, NEW L, NEW home, IndexOK(hd, en, K, lo, M, L, home),
         NEW d \in Nat, -1 <= M - d, lo <= M - d + 1, NEW en2, Undone(hd, en, K, M, d, en2),
         NEW hd2, Remarked(hd, hd2, (hd[Len(hd)].mark - d) % Laps(hd, Len(hd)))
  PROVE  /\ IndexOK(hd2, en2, K, lo, M - d, {n \in L : n <= M - d}, home)
         /\ IndexKeeps(hd, en, K, hd2, en2, K, L)
<1>0. PICK U : /\ U = {EntryOf(hd, K, n) : n \in M - d + 1..M}
               /\ en2 = [f \in DOMAIN en |-> IF f \in U THEN [en[f] EXCEPT !.value = NULL] ELSE en[f]]
  <2>1. PICK U : U = {EntryOf(hd, K, n) : n \in M - d + 1..M}
    OBVIOUS
  <2>2. \A f \in DOMAIN en : f \in U <=> \E n \in M - d + 1..M : f = EntryOf(hd, K, n)
    BY <2>1
  <2>3. en2 = [f \in DOMAIN en |-> IF f \in U THEN [en[f] EXCEPT !.value = NULL] ELSE en[f]]
    BY <2>2 DEF Undone
  <2> QED BY <2>1, <2>3
<1>1. HeadersOK(hd, en, K) /\ Mapped(hd, en, K) /\ InOrder(hd, en, K, lo, M, L, home)
  BY DEF IndexOK
<1>2. M \in Int /\ lo \in Nat /\ L \subseteq lo..M
      /\ Cong(hd[Len(hd)].mark, K[Len(hd)] + M, Laps(hd, Len(hd)))
  BY <1>1 DEF InOrder
<1>3. PICK N \in Int : N = M - d
  BY <1>2
<1>4. PICK L2 : L2 = {n \in L : n <= N}
  OBVIOUS
<1>5. en \in Seq(EntryRec) /\ DOMAIN en = 1..Len(en)
  BY <1>1 DEF HeadersOK
<1>6. \A f \in 1..Len(en) : /\ en[f] \in EntryRec /\ en2[f] \in EntryRec /\ en2[f].key = en[f].key
                            /\ en2[f].value = IF f \in U THEN NULL ELSE en[f].value
  <2> SUFFICES ASSUME NEW f \in 1..Len(en)
               PROVE  /\ en[f] \in EntryRec /\ en2[f] \in EntryRec /\ en2[f].key = en[f].key
                      /\ en2[f].value = IF f \in U THEN NULL ELSE en[f].value
    OBVIOUS
  <2>1. en[f] \in EntryRec
    BY <1>5
  <2>2. en2[f] = IF f \in U THEN [en[f] EXCEPT !.value = NULL] ELSE en[f]
    BY <1>0, <1>5
  <2> QED BY <2>1, <2>2 DEF EntryRec
<1>7. en2 \in Seq(EntryRec) /\ Len(en2) = Len(en)
  <2>1. Len(en) \in Nat
    BY <1>5
  <2>2. en2 \in [1..Len(en) -> EntryRec]
    BY <1>0, <1>5, <1>6
  <2> QED BY <2>1, <2>2
<1>8. \A n \in L : n \in Int /\ n \in lo..M /\ EntryOf(hd, K, n) \in 1..Len(en)
  <2> SUFFICES ASSUME NEW n \in L PROVE n \in Int /\ n \in lo..M /\ EntryOf(hd, K, n) \in 1..Len(en)
    OBVIOUS
  <2>1. n \in Int /\ n \in lo..M
    BY <1>2
  <2> QED BY <1>1, <2>1, LastFacts
<1>9. \A n \in L2 : EntryOf(hd, K, n) \notin U
  <2> SUFFICES ASSUME NEW n \in L2, NEW x \in N + 1..M, EntryOf(hd, K, n) = EntryOf(hd, K, x) PROVE FALSE
    BY <1>0, <1>3
  <2>1. x \in lo..M /\ n \in lo..M /\ n < x
    BY <1>2, <1>3, <1>4, <1>8
  <2>2. n = x
    BY <2>1, EntriesApart
  <2> QED BY <1>8, <1>4, <2>1, <2>2
<1>10. \A n \in L2 : home[n] \in Blocks /\ en2[EntryOf(hd, K, n)].value = home[n]
  <2>1. \A n \in L : home[n] \in Blocks /\ en[EntryOf(hd, K, n)].value = home[n]
    BY <1>1 DEF InOrder
  <2> QED BY <1>4, <1>6, <1>8, <1>9, <2>1
<1>11. \A f \in 1..Len(en) : en2[f].value # NULL => \E n \in L2 : f = EntryOf(hd, K, n)
  <2> SUFFICES ASSUME NEW f \in 1..Len(en), en2[f].value # NULL PROVE \E n \in L2 : f = EntryOf(hd, K, n)
    OBVIOUS
  <2>1. f \notin U /\ en[f].value # NULL
    BY <1>6
  <2>2. PICK n \in L : f = EntryOf(hd, K, n)
    BY <1>1, <2>1 DEF InOrder
  <2>3. n <= N
    BY <1>0, <1>2, <1>3, <1>8, <2>1, <2>2
  <2> QED BY <1>4, <2>2, <2>3
<1>12. PICK s \in Nat \ {0}, k \in Int, mark \in Nat :
          s = Laps(hd, Len(hd)) /\ k = K[Len(hd)] /\ mark = hd[Len(hd)].mark
  <2>1. Laps(hd, Len(hd)) \in Nat \ {0} /\ K[Len(hd)] \in Int /\ Len(hd) \in 1..Len(hd)
    BY <1>1, LastFacts
  <2>2. hd[Len(hd)].mark \in Nat
    BY <1>1, <2>1, MarkNat
  <2> QED BY <2>1, <2>2
<1>13. PICK m \in Nat : m = (mark - d) % s /\ Cong(m, k + N, s)
  <2>1. PICK e \in Int : e = -d
    OBVIOUS
  <2>2. Cong((mark + e) % s, k + (M + e), s) /\ (mark + e) % s \in Nat
    BY <1>2, <1>12, MarkMoves
  <2>3. mark + e = mark - d /\ M + e = N
    BY <1>2, <1>3, <2>1
  <2> QED BY <2>2, <2>3
<1>14. Remarked(hd, hd2, m)
  BY <1>12, <1>13
<1>15. L2 \subseteq lo..N
  BY <1>3, <1>4, <1>8
<1>16. -1 <= N /\ N <= M /\ lo <= N + 1 /\ Cong(m, K[Len(hd)] + N, Laps(hd, Len(hd)))
  BY <1>2, <1>3, <1>12, <1>13
<1>17. \A f \in 1..Len(en) : en2[f].key = en[f].key
  BY <1>6
<1>18. IndexOK(hd2, en2, K, lo, N, L2, home) /\ IndexKeeps(hd, en, K, hd2, en2, K, L)
  <2>1. Revalued(hd, en, K, lo, M, hd2, en2, N, L2, home)
    BY <1>7, <1>10, <1>11, <1>14, <1>15, <1>16, <1>17 DEF Revalued
  <2> QED BY <2>1, IndexValues
<1> QED BY <1>3, <1>4, <1>18

\* When the next entry is taken, every entry has a block of its own.
LEMMA IndexFull ==
  ASSUME NEW hd, NEW en, NEW K, NEW lo, NEW M, NEW L, NEW home, IndexOK(hd, en, K, lo, M, L, home),
         en[EntryOf(hd, K, M + 1)].value # NULL
  PROVE  lo = M + 1 - Laps(hd, Len(hd)) /\ lo <= M
<1>1. HeadersOK(hd, en, K) /\ Mapped(hd, en, K) /\ InOrder(hd, en, K, lo, M, L, home)
  BY DEF IndexOK
<1>2. PICK s \in Nat \ {0} : s = Laps(hd, Len(hd))
  BY <1>1, LastFacts
<1>3. /\ M \in Int /\ lo \in Nat /\ M - lo < s /\ L \subseteq lo..M /\ M + 1 \in Nat
      /\ \A e \in 1..Len(en) : en[e].value # NULL => \E n \in L : e = EntryOf(hd, K, n)
  BY <1>1, <1>2 DEF InOrder
<1>4. PICK N \in Int : N = M + 1
  BY <1>3
<1>5. EntryOf(hd, K, N) \in 1..Len(en)
  BY <1>1, <1>4, LastFacts
<1>6. PICK n \in L : EntryOf(hd, K, N) = EntryOf(hd, K, n)
  BY <1>3, <1>4, <1>5
<1>7. n \in Int /\ lo <= n /\ n <= M
  BY <1>3
<1>8. Cong(n, N, s)
  BY <1>1, <1>2, <1>6, <1>7, LastFacts
<1>9. ~(N < n + s)
  <2>1. N \in Int /\ n <= N /\ n # N
    BY <1>3, <1>4, <1>7
  <2> QED BY <1>7, <1>8, <2>1, CongNear
<1>10. lo = M + 1 - s /\ lo <= M
  <2>1. s \in Nat /\ M \in Int /\ lo \in Nat
    BY <1>3
  <2> QED BY <1>3, <1>4, <1>7, <1>9, <2>1
<1> QED BY <1>2, <1>10

\* The index is doubled: its entries in turn, then new ones.
Grown(hd, en, K, lo, M, hd2, en2, K2) ==
    LET T == Len(hd)
        s == Laps(hd, T)
    IN  /\ hd2 \in Seq(HeaderRec) /\ Len(hd2) = T + 1
        /\ \A h \in 1..T : hd2[h] = hd[h]
        /\ Laps(hd2, T + 1) = 2 * s /\ hd2[T + 1].mark = s
        /\ \A r \in 0..s - 1 : /\ hd2[T + 1].slots[r + 1] = EntryOf(hd, K, lo + r)
                               /\ hd2[T + 1].slots[s + r + 1] = Len(en) + r + 1
        /\ en2 \in Seq(EntryRec) /\ Len(en2) = Len(en) + s
        /\ \A f \in 1..Len(en) : en2[f] = en[f]
        /\ en2[Len(en) + 1] = [key |-> (M + 1) * BlockSize, value |-> NULL]
        /\ \A r \in 1..s - 1 : en2[Len(en) + r + 1] = [key |-> NULL, value |-> NULL]
        /\ K2 \in [1..T + 1 -> Int] /\ (\A h \in 1..T : K2[h] = K[h]) /\ K2[T + 1] = -lo

\* Where the grown header finds its entries.
PlacedAt(hd, en, K, lo, hd2, s, p) ==
    \E r \in 0..2 * s - 1 :
        /\ Cong(p, r, 2 * s) /\ (p \in 0..2 * s - 1 => r = p)
        /\ At(hd2, Len(hd) + 1, p) = IF r < s THEN EntryOf(hd, K, lo + r) ELSE Len(en) + (r - s) + 1

\* Each position of the grown header is that of an old or of a new entry.
LEMMA GrownAt ==
  ASSUME NEW hd, NEW en, NEW K, NEW lo \in Nat, NEW M, HeadersOK(hd, en, K), Mapped(hd, en, K),
         NEW hd2, NEW en2, NEW K2, Grown(hd, en, K, lo, M, hd2, en2, K2),
         NEW s \in Nat \ {0}, s = Laps(hd, Len(hd)), NEW p \in Int
  PROVE  PlacedAt(hd, en, K, lo, hd2, s, p)
<1>1. PICK m \in Nat \ {0} : m = 2 * s
  OBVIOUS
<1>2. p % m \in 0..m - 1 /\ Cong(p % m, p, m)
  BY CongMod
<1>3. PICK r \in Int : r = p % m /\ r \in 0..m - 1
  BY <1>2
<1>4. Cong(p, r, m)
  BY <1>2, <1>3, CongTurn
<1>5. p \in 0..m - 1 => r = p
  <2> SUFFICES ASSUME p \in 0..m - 1 PROVE r = p
    OBVIOUS
  <2>1. p <= r => p = r
    BY <1>3, <1>4, CongNear
  <2>2. Cong(r, p, m) /\ (r <= p => r = p)
    BY <1>2, <1>3, CongNear
  <2> QED BY <1>3, <2>1, <2>2
<1>6. At(hd2, Len(hd) + 1, p) = hd2[Len(hd) + 1].slots[r + 1]
  BY <1>1, <1>3 DEF At, Grown
<1>7. \A q \in 0..s - 1 : /\ hd2[Len(hd) + 1].slots[q + 1] = EntryOf(hd, K, lo + q)
                          /\ hd2[Len(hd) + 1].slots[s + q + 1] = Len(en) + q + 1
  BY DEF Grown
<1>8. At(hd2, Len(hd) + 1, p) = IF r < s THEN EntryOf(hd, K, lo + r) ELSE Len(en) + (r - s) + 1
  <2>1. CASE r < s
    <3>1. r \in 0..s - 1
      BY <1>3, <2>1
    <3> QED BY <1>6, <1>7, <2>1, <3>1
  <2>2. CASE ~(r < s)
    <3>1. PICK q \in 0..s - 1 : q = r - s
      BY <1>1, <1>3, <2>2, SMTT(30)
    <3>2. s + q + 1 = r + 1
      BY <1>3, <3>1
    <3>3. hd2[Len(hd) + 1].slots[s + q + 1] = Len(en) + q + 1
      BY <1>7
    <3> QED BY <1>6, <2>2, <3>1, <3>2, <3>3
  <2> QED BY <2>1, <2>2
<1> QED BY <1>1, <1>3, <1>4, <1>5, <1>8 DEF PlacedAt

\* Every key of the old entries stands in the grown index too.
LEMMA GrownMapped ==
  ASSUME NEW hd, NEW en, NEW K, NEW lo, NEW M, NEW L, NEW home, IndexOK(hd, en, K, lo, M, L, home),
         lo = M + 1 - Laps(hd, Len(hd)), lo <= M,
         NEW hd2, NEW en2, NEW K2, Grown(hd, en, K, lo, M, hd2, en2, K2)
  PROVE  HeadersOK(hd2, en2, K2) /\ Mapped(hd2, en2, K2)
<1>1. HeadersOK(hd, en, K) /\ Mapped(hd, en, K) /\ InOrder(hd, en, K, lo, M, L, home)
  BY DEF IndexOK
<1>2. PICK T \in Nat, s \in Nat \ {0} : T = Len(hd) /\ s = Laps(hd, T) /\ T \in 1..T
  <2>1. Laps(hd, Len(hd)) \in Nat \ {0} /\ Len(hd) \in 1..Len(hd)
    BY <1>1, LastFacts
  <2> QED BY <2>1
<1>3. /\ M \in Nat /\ lo \in Nat /\ M + 1 = lo + s
      /\ \A n \in lo..M : en[EntryOf(hd, K, n)].key = n * BlockSize
  <2>1. /\ M \in Int /\ lo \in Nat /\ \A n \in lo..M : en[EntryOf(hd, K, n)].key = n * BlockSize
    BY <1>1 DEF InOrder
  <2> QED BY <1>2, <2>1
<1>4. /\ hd2 \in Seq(HeaderRec) /\ Len(hd2) = T + 1 /\ \A h \in 1..T : hd2[h] = hd[h]
      /\ Laps(hd2, T + 1) = 2 * s
      /\ \A r \in 0..s - 1 : /\ hd2[T + 1].slots[r + 1] = EntryOf(hd, K, lo + r)
                             /\ hd2[T + 1].slots[s + r + 1] = Len(en) + r + 1
      /\ en2 \in Seq(EntryRec) /\ Len(en2) = Len(en) + s
      /\ \A f \in 1..Len(en) : en2[f] = en[f]
      /\ en2[Len(en) + 1] = [key |-> (M + 1) * BlockSize, value |-> NULL]
      /\ \A r \in 1..s - 1 : en2[Len(en) + r + 1] = [key |-> NULL, value |-> NULL]
      /\ K2 \in [1..T + 1 -> Int] /\ (\A h \in 1..T : K2[h] = K[h]) /\ K2[T + 1] = -lo
  BY <1>2 DEF Grown
<1>5. Len(en) \in Nat /\ \A h \in 1..T : Laps(hd2, h) = Laps(hd, h) /\ \A p : At(hd2, h, p) = At(hd, h, p)
  <2>1. Len(en) \in Nat
    BY <1>1 DEF HeadersOK
  <2> QED BY <1>4, <2>1 DEF Laps, At
<1>6. \A n \in Int : EntryOf(hd, K, n) \in 1..Len(en)
  BY <1>1, LastFacts
<1>7. \A p \in 1..2 * s : hd2[T + 1].slots[p] \in 1..Len(en2)
  <2> SUFFICES ASSUME NEW p \in 1..2 * s PROVE hd2[T + 1].slots[p] \in 1..Len(en2)
    OBVIOUS
  <2>1. CASE p <= s
    <3>1. PICK r \in 0..s - 1 : p = r + 1
      <4>1. p - 1 \in 0..s - 1 /\ p = (p - 1) + 1
        BY <2>1
      <4> QED BY <4>1
    <3>2. lo + r \in Int
      BY <1>3, <3>1
    <3>3. hd2[T + 1].slots[p] \in 1..Len(en)
      BY <1>4, <1>6, <3>1, <3>2
    <3>4. \A x \in 1..Len(en) : x \in 1..Len(en2)
      <4>1. PICK u \in Nat : u = Len(en)
        BY <1>5
      <4>2. Len(en2) = u + s
        BY <1>4, <4>1
      <4>3. \A x \in 1..u : x \in 1..u + s
        OBVIOUS
      <4> QED BY <4>1, <4>2, <4>3
    <3> QED BY <3>3, <3>4
  <2>2. CASE ~(p <= s)
    <3>1. PICK r \in 0..s - 1 : p = s + r + 1
      <4>1. p - s - 1 \in 0..s - 1 /\ p = s + (p - s - 1) + 1
        BY <2>2
      <4> QED BY <4>1
    <3>2. PICK u \in Nat : u = Len(en)
      BY <1>5
    <3>3. hd2[T + 1].slots[p] = u + r + 1 /\ Len(en2) = u + s
      BY <1>4, <3>1, <3>2
    <3>4. u + r + 1 \in 1..u + s
      BY <3>1
    <3> QED BY <3>3, <3>4
  <2> QED BY <2>1, <2>2
<1>8. HeadersOK(hd2, en2, K2)
  <2>1. \A h \in 1..T : /\ Laps(hd, h) >= 1
                        /\ \A p \in 1..Laps(hd, h) : hd[h].slots[p] \in 1..Len(en)
    BY <1>1, <1>2 DEF HeadersOK
  <2>2. \A h \in 1..T + 1 : Laps(hd2, h) >= 1
    <3>1. 2 * s >= 1
      BY <1>2
    <3>2. \A h \in 1..T + 1 : h \in 1..T \/ h = T + 1
      BY <1>2
    <3> QED BY <1>4, <1>5, <2>1, <3>1, <3>2
  <2>3. \A h \in 1..T + 1 : \A p \in 1..Laps(hd2, h) : hd2[h].slots[p] \in 1..Len(en2)
    <3> SUFFICES ASSUME NEW h \in 1..T + 1, NEW p \in 1..Laps(hd2, h) PROVE hd2[h].slots[p] \in 1..Len(en2)
      OBVIOUS
    <3>1. CASE h \in 1..T
      <4>1. hd2[h].slots[p] \in 1..Len(en)
        BY <1>4, <1>5, <2>1, <3>1
      <4> QED BY <1>4, <1>5, <4>1
    <3>2. CASE h = T + 1
      BY <1>4, <1>7, <3>2
    <3> QED BY <1>2, <3>1, <3>2
  <2>4. Len(hd2) >= 1
    BY <1>2, <1>4
  <2> QED BY <1>4, <2>2, <2>3, <2>4 DEF HeadersOK
<1>a. M \in Nat /\ lo \in Nat /\ M + 1 = lo + s /\ s \in Nat \ {0} /\ Len(en) \in Nat
  BY <1>2, <1>3, <1>5
<1>l. lo \in Nat
  BY <1>a
\* The new positions.
<1>9. ASSUME NEW p \in Int
      PROVE  \E r \in 0..2 * s - 1 :
                /\ Cong(p, r, 2 * s)
                /\ At(hd2, T + 1, p) = IF r < s THEN EntryOf(hd, K, lo + r) ELSE Len(en) + (r - s) + 1
  <2>1. s \in Nat \ {0} /\ s = Laps(hd, Len(hd))
    BY <1>2
  <2>2. PlacedAt(hd, en, K, lo, hd2, s, p)
    BY <1>1, <1>l, <2>1, GrownAt
  <2> QED BY <1>2, <2>2 DEF PlacedAt
<1>10. PICK m \in Nat \ {0} : m = 2 * s
  BY <1>2
<1>11. ASSUME NEW p \in Int PROVE KeyFits(en2[At(hd2, T + 1, p)].key, p, -lo, m)
  <2>1. PICK r \in 0..m - 1 :
                /\ Cong(p, r, m)
                /\ At(hd2, T + 1, p) = IF r < s THEN EntryOf(hd, K, lo + r) ELSE Len(en) + (r - s) + 1
    BY <1>9, <1>10
  <2>2. CASE r < s
    <3>1. PICK n \in Nat : n = lo + r /\ n \in lo..M /\ -lo + n = r
      BY <1>3, <2>1, <2>2
    <3>2. At(hd2, T + 1, p) = EntryOf(hd, K, n) /\ EntryOf(hd, K, n) \in 1..Len(en)
      BY <1>6, <2>1, <2>2, <3>1
    <3>3. en2[At(hd2, T + 1, p)].key = n * BlockSize
      BY <1>3, <1>4, <3>1, <3>2, ZenonT(40)
    <3>4. Cong(p, -lo + n, m)
      BY <2>1, <3>1
    <3> QED BY <3>1, <3>3, <3>4 DEF KeyFits
  <2>3. CASE r = s
    <3>1. At(hd2, T + 1, p) = Len(en) + 1
      BY <1>2, <1>5, <2>1, <2>3
    <3>2. en2[At(hd2, T + 1, p)].key = (M + 1) * BlockSize
      BY <1>4, <3>1
    <3>3. M + 1 \in Nat /\ -lo + (M + 1) = r
      BY <1>2, <1>3, <2>3
    <3>4. Cong(p, -lo + (M + 1), m)
      BY <2>1, <3>3
    <3> QED BY <3>2, <3>3, <3>4 DEF KeyFits
  <2>4. CASE r > s
    <3>1. r \in 0..m - 1
      BY <2>1
    <3>2. PICK q \in 1..s - 1 : q = r - s
      <4>1. r - s \in 1..s - 1
        BY <1>a, <1>10, <2>4, <3>1
      <4> QED BY <4>1
    <3>3. At(hd2, T + 1, p) = Len(en) + q + 1
      <4>1. ~(r < s)
        BY <1>a, <2>4, <3>1
      <4> QED BY <2>1, <3>2, <4>1
    <3>4. en2[Len(en) + q + 1] = [key |-> NULL, value |-> NULL]
      BY <1>4, <3>2
    <3>5. en2[At(hd2, T + 1, p)].key = NULL
      BY <3>3, <3>4
    <3> QED BY <3>5 DEF KeyFits
  <2> QED BY <1>2, <1>10, <2>1, <2>2, <2>3, <2>4
<1>12. \A h \in 1..T : \A p \in Int : /\ At(hd, h, p) \in 1..Len(en)
                                      /\ en2[At(hd2, h, p)] = en[At(hd, h, p)]
  <2> SUFFICES ASSUME NEW h \in 1..T, NEW p \in Int
               PROVE  At(hd, h, p) \in 1..Len(en) /\ en2[At(hd2, h, p)] = en[At(hd, h, p)]
    OBVIOUS
  <2>1. At(hd, h, p) \in 1..Len(en)
    BY <1>1, <1>2, AtFacts
  <2> QED BY <1>4, <1>5, <2>1
<1>13. /\ \A h \in 1..T : \A p \in Int : KeyFits(en[At(hd, h, p)].key, p, K[h], Laps(hd, h))
       /\ \A h \in 1..T : h # T => \A p \in Int : en[At(hd, h, p)].key # NULL
       /\ \A h \in 1..T : \E q \in Nat : Laps(hd, T) = q * Laps(hd, h)
  BY <1>1, <1>2 DEF Mapped
<1>14. \A h \in 1..T + 1 : \A p \in Int : KeyFits(en2[At(hd2, h, p)].key, p, K2[h], Laps(hd2, h))
  <2> SUFFICES ASSUME NEW h \in 1..T + 1, NEW p \in Int
               PROVE  KeyFits(en2[At(hd2, h, p)].key, p, K2[h], Laps(hd2, h))
    OBVIOUS
  <2>1. CASE h \in 1..T
    BY <1>4, <1>5, <1>12, <1>13, <2>1
  <2>2. CASE h = T + 1
    BY <1>4, <1>10, <1>11, <2>2
  <2> QED BY <1>2, <2>1, <2>2
<1>15. \A h \in 1..T : \A p \in Int : en2[At(hd2, h, p)].key # NULL
  <2> SUFFICES ASSUME NEW h \in 1..T, NEW p \in Int PROVE en[At(hd, h, p)].key # NULL
    BY <1>12
  <2>1. CASE h # T
    BY <1>13, <2>1
  <2>2. CASE h = T
    <3>1. PICK k \in Int : k = K[T]
      BY <1>1, <1>2, LastFacts
    <3>2. PICK n \in Int : n = p - k
      BY <3>1
    <3>3. PICK x \in lo..lo + s - 1 : Cong(x, n, s)
      BY <1>2, <1>3, <3>2, LapCovers
    <3>4. x \in lo..M /\ x \in Nat /\ x \in Int
      <4>1. x \in lo..lo + s - 1
        BY <3>3
      <4> QED BY <1>a, <4>1
    <3>5. EntryOf(hd, K, n) = EntryOf(hd, K, x)
      BY <1>1, <1>2, <3>3, <3>4, LastFacts
    <3>6. EntryOf(hd, K, n) = At(hd, T, p)
      <4>1. k + n = p
        BY <3>1, <3>2
      <4> QED BY <1>2, <3>1, <4>1 DEF EntryOf
    <3>7. en[At(hd, h, p)].key = x * BlockSize
      BY <1>3, <2>2, <3>4, <3>5, <3>6
    <3>8. x * BlockSize \in Nat
      BY <3>4, IndexAssumption
    <3> QED BY <3>7, <3>8, IndexAssumption
  <2> QED BY <2>1, <2>2
<1>16. \A h \in 1..T + 1 : \E q \in Nat : m = q * Laps(hd2, h)
  <2> SUFFICES ASSUME NEW h \in 1..T + 1 PROVE \E q \in Nat : m = q * Laps(hd2, h)
    OBVIOUS
  <2>1. CASE h \in 1..T
    <3>1. PICK q \in Nat : s = q * Laps(hd, h)
      BY <1>2, <1>13, <2>1
    <3>2. PICK w \in Nat : w = Laps(hd, h) /\ w = Laps(hd2, h)
      BY <1>1, <1>2, <1>5, <2>1, AtFacts
    <3>3. m = (2 * q) * w /\ 2 * q \in Nat
      BY <1>10, <3>1, <3>2
    <3> QED BY <3>2, <3>3
  <2>2. CASE h = T + 1
    <3>1. m = 1 * m /\ 1 \in Nat
      BY <1>10
    <3> QED BY <1>4, <1>10, <2>2, <3>1
  <2> QED BY <1>2, <2>1, <2>2
<1>17. \A p, q \in Int : At(hd2, T + 1, p) = At(hd2, T + 1, q) => Cong(p, q, m)
  <2> SUFFICES ASSUME NEW p \in Int, NEW q \in Int, At(hd2, T + 1, p) = At(hd2, T + 1, q)
               PROVE  Cong(p, q, m)
    OBVIOUS
  <2>1. PICK r \in 0..m - 1 :
                /\ Cong(p, r, m)
                /\ At(hd2, T + 1, p) = IF r < s THEN EntryOf(hd, K, lo + r) ELSE Len(en) + (r - s) + 1
    BY <1>9, <1>10
  <2>2. PICK x \in 0..m - 1 :
                /\ Cong(q, x, m)
                /\ At(hd2, T + 1, q) = IF x < s THEN EntryOf(hd, K, lo + x) ELSE Len(en) + (x - s) + 1
    BY <1>9, <1>10
  <2>3. r \in Int /\ x \in Int /\ 0 <= r /\ 0 <= x
    BY <2>1, <2>2
  <2>4. r = x
    <3>1. CASE r < s /\ x < s
      <4>1. r \in 0..s - 1 /\ x \in 0..s - 1
        BY <1>a, <2>3, <3>1
      <4>2. lo + r \in Int /\ lo + x \in Int
        BY <1>a, <2>3
      <4>3. EntryOf(hd, K, lo + r) = EntryOf(hd, K, lo + x)
        BY <2>1, <2>2, <3>1
      <4>4. Cong(lo + r, lo + x, s)
        BY <1>1, <1>2, <4>2, <4>3, LastFacts
      <4> QED BY <1>2, <1>3, <4>1, <4>4, LapNear
    <3>2. CASE r < s /\ ~(x < s)
      <4>1. lo + r \in Int
        BY <1>3, <2>3
      <4>2. EntryOf(hd, K, lo + r) \in 1..Len(en)
        BY <1>6, <4>1
      <4>3. At(hd2, T + 1, p) = At(hd2, T + 1, q)
        OBVIOUS
      <4>4. PICK z \in Nat : z = Len(en)
        BY <1>a
      <4>5. EntryOf(hd, K, lo + r) = z + (x - s) + 1
        BY <2>1, <2>2, <3>2, <4>3, <4>4
      <4> QED BY <1>a, <2>3, <3>2, <4>2, <4>4, <4>5
    <3>3. CASE ~(r < s) /\ x < s
      <4>1. lo + x \in Int
        BY <1>3, <2>3
      <4>2. EntryOf(hd, K, lo + x) \in 1..Len(en)
        BY <1>6, <4>1
      <4>3. At(hd2, T + 1, p) = At(hd2, T + 1, q)
        OBVIOUS
      <4>4. PICK z \in Nat : z = Len(en)
        BY <1>a
      <4>5. EntryOf(hd, K, lo + x) = z + (r - s) + 1
        BY <2>1, <2>2, <3>3, <4>3, <4>4
      <4> QED BY <1>a, <2>3, <3>3, <4>2, <4>4, <4>5
    <3>4. CASE ~(r < s) /\ ~(x < s)
      <4>1. PICK z \in Nat : z = Len(en)
        BY <1>a
      <4>2. z + (r - s) + 1 = z + (x - s) + 1
        BY <2>1, <2>2, <3>4, <4>1
      <4> QED BY <1>a, <2>3, <4>1, <4>2
    <3> QED BY <3>1, <3>2, <3>3, <3>4
  <2>5. Cong(r, q, m)
    BY <1>10, <2>2, <2>3, <2>4, CongTurn
  <2> QED BY <1>10, <2>1, <2>3, <2>5, CongThrough
<1>18. Mapped(hd2, en2, K2)
  <2>1. \A h \in 1..T + 1 : h # T + 1 => h \in 1..T
    BY <1>2
  <2>2. \A h \in 1..T + 1 : h # T + 1 => \A p \in Int : en2[At(hd2, h, p)].key # NULL
    BY <1>15, <2>1
  <2>3. Laps(hd2, T + 1) = m
    BY <1>4, <1>10
  <2> QED BY <1>4, <1>14, <1>16, <1>17, <2>2, <2>3 DEF Mapped
<1> QED BY <1>8, <1>18

\* new_block_index.
LEMMA IndexGrow ==
  ASSUME NEW hd, NEW en, NEW K, NEW lo, NEW M, NEW L, NEW home, IndexOK(hd, en, K, lo, M, L, home),
         lo = M + 1 - Laps(hd, Len(hd)), lo <= M,
         NEW hd2, NEW en2, NEW K2, Grown(hd, en, K, lo, M, hd2, en2, K2)
  PROVE  IndexOK(hd2, en2, K2, lo, M + 1, L, home) /\ IndexKeeps(hd, en, K, hd2, en2, K2, L)
<1>1. HeadersOK(hd, en, K) /\ Mapped(hd, en, K) /\ InOrder(hd, en, K, lo, M, L, home)
  BY DEF IndexOK
<1>2. PICK T \in Nat, s \in Nat \ {0} : T = Len(hd) /\ s = Laps(hd, T) /\ T \in 1..T
  <2>1. Laps(hd, Len(hd)) \in Nat \ {0} /\ Len(hd) \in 1..Len(hd)
    BY <1>1, LastFacts
  <2> QED BY <2>1
<1>3. /\ M \in Int /\ lo \in Nat /\ L \subseteq lo..M
      /\ \A n \in lo..M : en[EntryOf(hd, K, n)].key = n * BlockSize
      /\ \A n \in L : home[n] \in Blocks /\ en[EntryOf(hd, K, n)].value = home[n]
      /\ \A e \in 1..Len(en) : en[e].value # NULL => \E n \in L : e = EntryOf(hd, K, n)
  BY <1>1 DEF InOrder
<1>4. /\ Len(hd2) = T + 1 /\ \A h \in 1..T : hd2[h] = hd[h]
      /\ Laps(hd2, T + 1) = 2 * s /\ hd2[T + 1].mark = s
      /\ en2 \in Seq(EntryRec) /\ Len(en2) = Len(en) + s
      /\ \A f \in 1..Len(en) : en2[f] = en[f]
      /\ en2[Len(en) + 1] = [key |-> (M + 1) * BlockSize, value |-> NULL]
      /\ \A r \in 1..s - 1 : en2[Len(en) + r + 1] = [key |-> NULL, value |-> NULL]
      /\ (\A h \in 1..T : K2[h] = K[h]) /\ K2[T + 1] = -lo
  BY <1>2 DEF Grown
<1>5. PICK N \in Nat : N = M + 1 /\ N = lo + s
  BY <1>2, <1>3
<1>6. \A n \in Int : EntryOf(hd, K, n) \in 1..Len(en)
  BY <1>1, LastFacts
<1>7. Len(en) \in Nat
  BY <1>1 DEF HeadersOK
<1>a. M \in Int /\ lo \in Nat /\ s \in Nat \ {0} /\ Len(en) \in Nat /\ N = M + 1 /\ N = lo + s
  BY <1>2, <1>3, <1>5, <1>7
<1>l. lo \in Nat
  BY <1>a
<1>b. ASSUME NEW p \in 0..2 * s - 1
      PROVE  At(hd2, T + 1, p) = IF p < s THEN EntryOf(hd, K, lo + p) ELSE Len(en) + (p - s) + 1
  <2>1. s \in Nat \ {0} /\ s = Laps(hd, Len(hd)) /\ p \in Int
    BY <1>2
  <2>2. PlacedAt(hd, en, K, lo, hd2, s, p)
    BY <1>1, <1>l, <2>1, GrownAt
  <2> QED BY <1>2, <2>2 DEF PlacedAt
<1>8. ASSUME NEW n \in lo..M PROVE n \in Int /\ EntryOf(hd2, K2, n) = EntryOf(hd, K, n)
  <2>1. PICK p \in Int : p = -lo + n /\ p \in 0..2 * s - 1 /\ p < s /\ lo + p = n
    <3>1. -lo + n \in Int /\ -lo + n \in 0..2 * s - 1 /\ -lo + n < s /\ lo + (-lo + n) = n
      BY <1>a
    <3> QED BY <3>1
  <2>2. At(hd2, T + 1, p) = EntryOf(hd, K, n)
    BY <1>b, <2>1
  <2>3. n \in Int
    BY <1>a
  <2> QED BY <1>4, <2>1, <2>2, <2>3 DEF EntryOf
<1>9. EntryOf(hd2, K2, N) = Len(en) + 1
  <2>1. PICK p \in Int : p = -lo + N /\ p = s /\ p \in 0..2 * s - 1
    <3>1. s \in Int /\ s = -lo + N /\ s \in 0..2 * s - 1
      BY <1>a
    <3> QED BY <3>1
  <2>2. At(hd2, T + 1, p) = Len(en) + (p - s) + 1
    <3>1. ~(p < s)
      BY <1>a, <2>1
    <3> QED BY <1>b, <2>1, <3>1
  <2>3. At(hd2, T + 1, p) = Len(en) + 1
    <3>1. PICK z \in Nat : z = Len(en)
      BY <1>a
    <3>2. z + (p - s) + 1 = z + 1
      <4>1. p = s /\ s \in Int
        BY <1>a, <2>1
      <4> QED BY <3>1, <4>1
    <3> QED BY <2>2, <3>1, <3>2
  <2> QED BY <1>4, <2>1, <2>3 DEF EntryOf
<1>10. HeadersOK(hd2, en2, K2) /\ Mapped(hd2, en2, K2)
  BY GrownMapped
<1>11. \A n \in lo..N : en2[EntryOf(hd2, K2, n)].key = n * BlockSize
  <2> SUFFICES ASSUME NEW n \in lo..N PROVE en2[EntryOf(hd2, K2, n)].key = n * BlockSize
    OBVIOUS
  <2>1. CASE n = N
    BY <1>4, <1>5, <1>9, <2>1
  <2>2. CASE n \in lo..M
    <3>1. EntryOf(hd2, K2, n) = EntryOf(hd, K, n) /\ EntryOf(hd, K, n) \in 1..Len(en)
      BY <1>6, <1>8, <2>2
    <3>2. en2[EntryOf(hd, K, n)] = en[EntryOf(hd, K, n)]
      BY <1>4, <3>1
    <3> QED BY <1>3, <2>2, <3>1, <3>2
  <2> QED BY <1>a, <2>1, <2>2
<1>12. \A n \in L : home[n] \in Blocks /\ en2[EntryOf(hd2, K2, n)].value = home[n]
  <2> SUFFICES ASSUME NEW n \in L PROVE home[n] \in Blocks /\ en2[EntryOf(hd2, K2, n)].value = home[n]
    OBVIOUS
  <2>1. n \in Int /\ EntryOf(hd2, K2, n) = EntryOf(hd, K, n) /\ EntryOf(hd, K, n) \in 1..Len(en)
    BY <1>3, <1>6, <1>8
  <2> QED BY <1>3, <1>4, <2>1
<1>13. \A e \in 1..Len(en2) : en2[e].value # NULL => \E n \in L : e = EntryOf(hd2, K2, n)
  <2> SUFFICES ASSUME NEW e \in 1..Len(en2), en2[e].value # NULL
               PROVE  \E n \in L : e = EntryOf(hd2, K2, n)
    OBVIOUS
  <2>1. e \in 1..Len(en)
    <3> SUFFICES ASSUME ~(e \in 1..Len(en)) PROVE FALSE
      OBVIOUS
    <3>1. PICK r \in 0..s - 1 : e = Len(en) + r + 1
      <4>1. PICK z \in Nat : z = Len(en)
        BY <1>a
      <4>2. e \in 1..z + s /\ ~(e \in 1..z)
        BY <1>4, <4>1
      <4>3. e - z - 1 \in 0..s - 1 /\ e = z + (e - z - 1) + 1
        BY <1>a, <4>1, <4>2
      <4> QED BY <4>1, <4>3
    <3>2. CASE r = 0
      BY <1>4, <1>7, <3>1, <3>2
    <3>3. CASE r \in 1..s - 1
      <4>1. en2[Len(en) + r + 1] = [key |-> NULL, value |-> NULL]
        BY <1>4, <3>3
      <4> QED BY <3>1, <4>1
    <3> QED BY <1>2, <3>1, <3>2, <3>3
  <2>2. PICK n \in L : e = EntryOf(hd, K, n)
    BY <1>3, <1>4, <2>1
  <2> QED BY <1>3, <1>8, <2>2
<1>14. InOrder(hd2, en2, K2, lo, N, L, home)
  <2>1. N \in Int /\ N >= -1 /\ lo <= N + 1 /\ N - lo < 2 * s /\ L \subseteq lo..N
    BY <1>2, <1>3, <1>5, SMTT(30)
  <2>2. Cong(hd2[T + 1].mark, K2[T + 1] + N, Laps(hd2, T + 1))
    <3>1. PICK m \in Nat \ {0} : m = 2 * s
      BY <1>2
    <3>2. -lo + N = s /\ s \in Int
      BY <1>2, <1>3, <1>5
    <3>3. Cong(s, s, m)
      BY <3>1, <3>2, CongSelf
    <3> QED BY <1>4, <3>1, <3>2, <3>3
  <2> QED BY <1>3, <1>4, <1>11, <1>12, <1>13, <2>1, <2>2 DEF InOrder
<1>15. IndexKeeps(hd, en, K, hd2, en2, K2, L)
  <2>1. \A h \in 1..T : h \in 1..T + 1 /\ hd2[h].slots = hd[h].slots /\ K2[h] = K[h]
    BY <1>2, <1>4, SMTT(30)
  <2>2. \A n \in L : EntryOf(hd2, K2, n) = EntryOf(hd, K, n)
    BY <1>3, <1>8
  <2> QED BY <1>2, <1>4, <2>1, <2>2 DEF IndexKeeps
<1> QED BY <1>5, <1>10, <1>14, <1>15 DEF IndexOK

-----------------------------------------------------------------------------
(* What consumers hold of the elements.                                    *)

\* Sets that no two consumers share, and all of them together.
Pairwise(f) == \A c, d \in Consumers : c # d => f[c] \cap f[d] = {}
All(f) == UNION {f[c] : c \in Consumers}

\* What all have is what one of them has.
LEMMA InAll ==
  ASSUME NEW f, NEW x
  PROVE  x \in All(f) <=> \E c \in Consumers : x \in f[c]
  BY DEF All

\* One consumer's set changes.
LEMMA OneTurns ==
  ASSUME NEW f, NEW g, NEW c \in Consumers, \A d \in Consumers : d # c => g[d] = f[d],
         Pairwise(f), g[c] \cap (All(f) \ f[c]) = {}
  PROVE  Pairwise(g) /\ All(g) = (All(f) \ f[c]) \cup g[c]
<1>1. \A d \in Consumers : d # c => f[d] \cap g[c] = {} /\ f[d] \subseteq All(f) \ f[c]
  BY InAll DEF Pairwise
<1>2. Pairwise(g)
  BY <1>1 DEF Pairwise
<1>3. ASSUME NEW x PROVE x \in All(g) <=> x \in (All(f) \ f[c]) \cup g[c]
  <2>1. x \in All(g) => x \in (All(f) \ f[c]) \cup g[c]
    BY <1>1, InAll
  <2>2. x \in All(f) \ f[c] => \E d \in Consumers : d # c /\ x \in g[d]
    BY InAll
  <2> QED BY <2>1, <2>2, InAll
<1> QED BY <1>2, <1>3

\* The elements a consumer has claimed, those of them in the block of the
\* next one, and the others.
Claim(s) == s.at..s.end - 1
Here(s) == {i \in Claim(s) : Num(i) = Num(s.at)}
Rest(s) == Claim(s) \ Here(s)

\* The model's name for the elements of a claim that are in its first block.
LEMMA TheirHere == \A s : SubQueue!Here(s) = Here(s)
  BY TheirNum DEF SubQueue!Here, Here, Claim

\* There are some, and no more than are claimed.
LEMMA HereFacts ==
  ASSUME NEW s, s.at \in Nat, s.end \in Nat, s.at < s.end
  PROVE  \E k \in Nat \ {0} :
            /\ Cardinality(Here(s)) = k /\ IsFiniteSet(Here(s)) /\ s.at + k <= s.end
            /\ Here(s) = s.at..s.at + k - 1 /\ Rest(s) = s.at + k..s.end - 1
            /\ s.at + k # s.end => s.at + k < s.end /\ Num(s.at + k) = Num(s.at) + 1
<1>1. PICK a \in Nat, z \in Nat, b \in Nat \ {0} : a = s.at /\ z = s.end /\ b = BlockSize
  BY IndexAssumption
<1>2. PICK n \in Nat, o \in 0..b - 1 : n = Num(a) /\ o = Off(a)
  <2>1. Num(a) \in Nat
    BY <1>1, NumNat
  <2>2. a \in Int
    BY <1>1
  <2>3. Off(a) \in 0..b - 1
    BY <1>1, <2>2, NumFacts
  <2> QED BY <2>1, <2>3
<1>3. PICK p \in Nat : p = n * b
  BY <1>1, <1>2
<1>4. a = p + o
  <2>1. a = n * BlockSize + o
    BY <1>2, NumFacts
  <2> QED BY <1>1, <1>3, <2>1
<1>5. \A i \in Nat : Num(i) = n <=> i \in p..p + b - 1
  <2>1. Elems(n) = p..p + b - 1
    BY <1>1, <1>3, ElemsIs
  <2> QED BY <2>1 DEF Elems
<1>6. PICK e \in Nat : e = IF p + b <= z THEN p + b ELSE z
  BY <1>1, <1>3
<1>7. a < z
  BY <1>1
<1>8. a < e /\ e <= z /\ (e # z => e = p + b)
  <2>1. a \in Nat /\ z \in Nat /\ b \in Nat /\ p \in Nat /\ o \in Int /\ o < b
    BY <1>1, <1>2, <1>3
  <2>2. e = IF p + b <= z THEN p + b ELSE z
    BY <1>6
  <2> QED BY <1>4, <1>7, <2>1, <2>2
<1>9. Here(s) = a..e - 1
  <2>1. \A i \in a..z - 1 : i \in Nat /\ (i \in p..p + b - 1 <=> i < e)
    BY <1>1, <1>3, <1>4, <1>6
  <2>2. \A i : i \in Here(s) <=> i \in a..z - 1 /\ Num(i) = n
    BY <1>1, <1>2 DEF Here, Claim
  <2>3. \A i : i \in Here(s) <=> i \in a..z - 1 /\ i < e
    BY <1>5, <2>1, <2>2
  <2>4. \A i : i \in a..e - 1 <=> i \in a..z - 1 /\ i < e
    BY <1>1, <1>6, <1>8
  <2> QED BY <2>3, <2>4
<1>10. PICK k \in Nat \ {0} : k = e - a /\ a + k = e
  <2>1. e - a \in Nat \ {0} /\ a + (e - a) = e
    BY <1>1, <1>6, <1>8
  <2> QED BY <2>1
<1>11. IsFiniteSet(Here(s)) /\ Cardinality(Here(s)) = k
  <2>1. PICK f \in Int : f = e - 1
    BY <1>6
  <2>2. IsFiniteSet(a..f) /\ Cardinality(a..f) = IF a > f THEN 0 ELSE f - a + 1
    <3>1. a \in Int /\ f \in Int
      BY <1>1, <2>1
    <3> QED BY <3>1, FS_Interval
  <2>3. ~(a > f) /\ f - a + 1 = k
    BY <1>1, <1>6, <1>8, <1>10, <2>1
  <2> QED BY <1>9, <2>1, <2>2, <2>3
<1>12. Rest(s) = e..z - 1
  <2>1. \A i : i \in a..z - 1 /\ ~(i \in a..e - 1) <=> i \in e..z - 1
    BY <1>1, <1>6, <1>8
  <2> QED BY <1>1, <1>9, <2>1 DEF Rest, Claim
<1>13. e # z => e < z /\ Num(e) = n + 1
  <2> SUFFICES ASSUME e # z PROVE e < z /\ Num(e) = n + 1
    OBVIOUS
  <2>1. e = p + b
    BY <1>8
  <2>2. e = (n + 1) * BlockSize + 0
    BY <1>1, <1>2, <1>3, <2>1
  <2>3. 0 \in 0..BlockSize - 1 /\ n + 1 \in Int /\ e \in Int
    BY <1>1, <1>2, <1>6
  <2>4. Num(e) = n + 1
    BY <2>2, <2>3, NumIs
  <2> QED BY <1>1, <1>6, <1>8, <2>4
<1>14. /\ Cardinality(Here(s)) = k /\ IsFiniteSet(Here(s)) /\ s.at + k <= s.end
       /\ Here(s) = s.at..s.at + k - 1 /\ Rest(s) = s.at + k..s.end - 1
       /\ s.at + k # s.end => s.at + k < s.end /\ Num(s.at + k) = Num(s.at) + 1
  <2>1. s.at + k = e /\ s.end = z /\ Num(s.at) = n
    BY <1>1, <1>2, <1>10
  <2> QED BY <1>1, <1>8, <1>9, <1>11, <1>12, <1>13, <2>1, SMTT(30)
<1> QED BY <1>14

-----------------------------------------------------------------------------
(* The blocks.  first is the index of the head; A are the elements that    *)
(* are claimed and whose block does not know yet that they are done with,  *)
(* U those that are not read yet, X the blocks that leave the index, F the *)
(* ones being freed, and L the live blocks, of which home knows the place. *)

Left(first, A, n) == {i \in Elems(n) : first <= i \/ i \in A}
Live(first, A, X, V) == {n \in Nat : n <= V /\ (Left(first, A, n) # {} \/ n \in X)}

\* W elements are written, in blocks up to V.
Taken(first, A, U, X, V, W) ==
    /\ first \in Nat /\ W \in Nat /\ V \in Int /\ first <= W /\ (\A i \in Nat : i < W => Num(i) <= V)
    /\ A \subseteq Nat /\ U \subseteq A /\ \A i \in A : i < first
    /\ X \subseteq Nat /\ \A n \in X : Left(first, A, n) = {} /\ \E i \in Nat : i < W /\ Num(i) = n

Counted(first, A, L, em, home) ==
    /\ em \in [Blocks -> Nat]
    /\ \A n \in L : em[home[n]] = BlockSize - Cardinality(Left(first, A, n))

Written(first, U, W, el, home) ==
    /\ DOMAIN el = Blocks /\ \A b \in Blocks : DOMAIN el[b] = 0..BlockSize - 1
    /\ \A i \in Nat : i < W /\ (first <= i \/ i \in U) => el[home[Num(i)]][Off(i)] = i

Homes(L, home) ==
    /\ \A n \in L : home[n] \in Blocks
    /\ \A n, m \in L : home[n] = home[m] => n = m

Spared(F, L, fc, home) ==
    /\ F \subseteq Blocks /\ \A n \in L : home[n] \notin F
    /\ fc = [b \in Blocks |-> IF b \in F \/ \E n \in L : home[n] = b THEN 0 ELSE 1]

Store(first, A, U, X, F, V, W, el, em, fc, home) ==
    LET L == Live(first, A, X, V)
    IN  /\ Taken(first, A, U, X, V, W)
        /\ Counted(first, A, L, em, home)
        /\ Written(first, U, W, el, home)
        /\ Homes(L, home)
        /\ Spared(F, L, fc, home)

\* Elements that are there are in live blocks.
LEMMA InLive ==
  ASSUME NEW first, NEW A, NEW U, NEW X, NEW V, NEW W, Taken(first, A, U, X, V, W),
         NEW i \in Nat, i < W, first <= i \/ i \in A
  PROVE  Num(i) \in Live(first, A, X, V) /\ i \in Left(first, A, Num(i))
<1>1. Num(i) \in Nat /\ i \in Elems(Num(i))
  BY NumNat DEF Elems
<1>2. i \in Left(first, A, Num(i))
  BY <1>1 DEF Left
<1>3. Num(i) <= V
  BY DEF Taken
<1> QED BY <1>1, <1>2, <1>3 DEF Live

\* A block that is about to be unlinked is live.
LEMMA LeavingLive ==
  ASSUME NEW first, NEW A, NEW U, NEW X, NEW V, NEW W, Taken(first, A, U, X, V, W), NEW n \in X
  PROVE  n \in Live(first, A, X, V)
<1>1. PICK i \in Nat : i < W /\ Num(i) = n
  BY DEF Taken
<1>2. n \in Nat /\ n <= V
  BY <1>1 DEF Taken
<1> QED BY <1>2 DEF Live

\* What is left of a block can be counted, and is none or some.
LEMMA LeftFinite ==
  ASSUME NEW first, NEW A, NEW n \in Nat
  PROVE  /\ IsFiniteSet(Left(first, A, n)) /\ Cardinality(Left(first, A, n)) \in 0..BlockSize
         /\ (Left(first, A, n) = {} <=> Cardinality(Left(first, A, n)) = 0)
<1>1. IsFiniteSet(Elems(n)) /\ Cardinality(Elems(n)) = BlockSize
  BY ElemsIs
<1>2. Left(first, A, n) \subseteq Elems(n)
  BY DEF Left
<1>3. IsFiniteSet(Left(first, A, n)) /\ Cardinality(Left(first, A, n)) <= Cardinality(Elems(n))
  BY <1>1, <1>2, FS_Subset
<1>4. Cardinality(Left(first, A, n)) \in Nat
  BY <1>3, FS_CardinalityType
<1>5. Left(first, A, n) = {} <=> Cardinality(Left(first, A, n)) = 0
  BY <1>3, FS_EmptySet
<1>6. PICK k \in Nat : k = Cardinality(Left(first, A, n))
  BY <1>4
<1>7. k <= BlockSize
  BY <1>1, <1>3, <1>6
<1>8. k \in 0..BlockSize
  BY <1>6, <1>7, IndexAssumption
<1> QED BY <1>3, <1>5, <1>6, <1>8

\* Whatever leaves the elements of every block and the live blocks as they
\* are keeps the counts.
LEMMA SameStore ==
  ASSUME NEW first, NEW A, NEW U, NEW X, NEW F, NEW V, NEW W, NEW el, NEW em, NEW fc, NEW home,
         Store(first, A, U, X, F, V, W, el, em, fc, home),
         NEW first2, NEW A2, NEW U2, Taken(first2, A2, U2, X, V, W), NEW el2,
         \A n \in Nat : Left(first2, A2, n) = Left(first, A, n),
         Written(first2, U2, W, el2, home)
  PROVE  /\ Store(first2, A2, U2, X, F, V, W, el2, em, fc, home)
         /\ Live(first2, A2, X, V) = Live(first, A, X, V)
<1>1. Live(first2, A2, X, V) = Live(first, A, X, V)
  BY DEF Live
<1>2. Live(first, A, X, V) \subseteq Nat
  BY DEF Live
<1> QED BY <1>1, <1>2 DEF Store, Counted

\* ClaimHead: the claimed elements were ahead of the head.
LEMMA StoreClaim ==
  ASSUME NEW first, NEW A, NEW U, NEW X, NEW F, NEW V, NEW W, NEW el, NEW em, NEW fc, NEW home,
         Store(first, A, U, X, F, V, W, el, em, fc, home),
         NEW end \in Nat, first <= end, end <= W,
         NEW A2, A2 = A \cup (first..end - 1), NEW U2, U2 = U \cup (first..end - 1)
  PROVE  /\ Store(end, A2, U2, X, F, V, W, el, em, fc, home)
         /\ Live(end, A2, X, V) = Live(first, A, X, V)
<1>1. Taken(first, A, U, X, V, W) /\ Written(first, U, W, el, home)
  BY DEF Store
<1>2. /\ first \in Nat /\ W \in Nat /\ V \in Int /\ A \subseteq Nat /\ U \subseteq A
      /\ (\A i \in A : i < first) /\ (\A i \in Nat : i < W => Num(i) <= V)
      /\ X \subseteq Nat /\ \A n \in X : Left(first, A, n) = {} /\ \E i \in Nat : i < W /\ Num(i) = n
  BY <1>1 DEF Taken
<1>3. ASSUME NEW i \in Nat
      PROVE  /\ (end <= i \/ i \in A2) <=> (first <= i \/ i \in A)
             /\ (end <= i \/ i \in U2) => (first <= i \/ i \in U)
  BY <1>2
<1>4. \A n : Left(end, A2, n) = Left(first, A, n)
  <2> SUFFICES ASSUME NEW n PROVE Left(end, A2, n) = Left(first, A, n)
    OBVIOUS
  <2>1. \A i : i \in Left(end, A2, n) <=> i \in Left(first, A, n)
    BY <1>3 DEF Left, Elems
  <2> QED BY <2>1 DEF Left
<1>5. Taken(end, A2, U2, X, V, W)
  <2>1. A2 \subseteq Nat /\ U2 \subseteq A2 /\ \A i \in A2 : i < end
    BY <1>2
  <2> QED BY <1>2, <1>4, <2>1 DEF Taken
<1>6. Written(end, U2, W, el, home)
  BY <1>1, <1>3 DEF Written
<1> QED BY <1>4, <1>5, <1>6, SameStore

\* ReadElements: the elements H of a block are moved out.
ReadOut(el, el2, b, H) ==
    el2 = [el EXCEPT ![b] = [o \in DOMAIN @ |-> IF o \in {Off(i) : i \in H} THEN NULL ELSE @[o]]]

\* They are not there afterwards; the other places are as they were.
LEMMA StoreRead ==
  ASSUME NEW first, NEW A, NEW U, NEW X, NEW F, NEW V, NEW W, NEW el, NEW em, NEW fc, NEW home,
         Store(first, A, U, X, F, V, W, el, em, fc, home),
         NEW m, NEW H, H \subseteq U, \A i \in H : Num(i) = m,
         NEW b, b = home[m], m \in Live(first, A, X, V),
         NEW U2, U2 = U \ H, NEW el2, ReadOut(el, el2, b, H)
  PROVE  Store(first, A, U2, X, F, V, W, el2, em, fc, home)
<1>1. /\ Taken(first, A, U, X, V, W) /\ Written(first, U, W, el, home)
      /\ Homes(Live(first, A, X, V), home)
  BY DEF Store
<1>2. /\ first \in Nat /\ W \in Nat /\ first <= W /\ A \subseteq Nat /\ U \subseteq A
      /\ \A i \in A : i < first
  BY <1>1 DEF Taken
<1>3. Taken(first, A, U2, X, V, W)
  <2>1. U2 \subseteq A
    BY <1>2
  <2> QED BY <1>1, <2>1 DEF Taken
<1>4. b \in Blocks
  BY <1>1 DEF Homes
<1>5. DOMAIN el = Blocks /\ \A d \in Blocks : DOMAIN el[d] = 0..BlockSize - 1
  BY <1>1 DEF Written
<1>6. /\ DOMAIN el2 = Blocks /\ \A d \in Blocks : d # b => el2[d] = el[d]
      /\ el2[b] = [o \in 0..BlockSize - 1 |-> IF o \in {Off(i) : i \in H} THEN NULL ELSE el[b][o]]
  BY <1>4, <1>5 DEF ReadOut
<1>7. \A d \in Blocks : DOMAIN el2[d] = 0..BlockSize - 1
  BY <1>5, <1>6
<1>8. ASSUME NEW i \in Nat, i < W, first <= i \/ i \in U2
      PROVE  el2[home[Num(i)]][Off(i)] = i
  <2>1. Num(i) \in Live(first, A, X, V)
    BY <1>1, <1>2, <1>8, InLive
  <2>2. el[home[Num(i)]][Off(i)] = i
    BY <1>1, <1>8 DEF Written
  <2>3. home[Num(i)] \in Blocks
    BY <1>1, <2>1 DEF Homes
  <2>4. CASE home[Num(i)] # b
    BY <1>6, <2>2, <2>3, <2>4
  <2>5. CASE home[Num(i)] = b
    <3>1. Num(i) = m
      BY <1>1, <2>1, <2>5 DEF Homes
    <3>2. \A j \in H : Off(j) # Off(i)
      <4> SUFFICES ASSUME NEW j \in H, Off(j) = Off(i) PROVE FALSE
        OBVIOUS
      <4>1. j \in Int /\ i \in Int /\ j \in Nat /\ j < first
        BY <1>2
      <4>2. Num(j) = Num(i)
        BY <3>1
      <4>3. j = i
        BY <4>1, <4>2, SameElement
      <4> QED BY <1>2, <1>8, <4>1, <4>3
    <3>3. Off(i) \in 0..BlockSize - 1
      <4>1. i \in Int
        OBVIOUS
      <4> QED BY <4>1, NumFacts
    <3>4. PICK o \in 0..BlockSize - 1 : o = Off(i) /\ o \notin {Off(j) : j \in H}
      BY <3>2, <3>3
    <3>5. el2[b][o] = el[b][o]
      BY <1>6, <3>4
    <3> QED BY <2>2, <2>5, <3>4, <3>5
  <2> QED BY <2>4, <2>5
<1>9. Written(first, U2, W, el2, home)
  BY <1>6, <1>7, <1>8 DEF Written
<1> QED BY <1>3, <1>9, SameStore

\* SetEmpty: the elements H of block m are done with.
Adds(em, em2, b, k) == em2 = [em EXCEPT ![b] = @ + k]

\* The last of them is about to take the block out of the index.
LeavingAfter(first, A2, X, m) == IF Left(first, A2, m) = {} THEN X \cup {m} ELSE X

\* The count of the block follows what is left in it.
LEMMA StoreEmpty ==
  ASSUME NEW first, NEW A, NEW U, NEW X, NEW F, NEW V, NEW W, NEW el, NEW em, NEW fc, NEW home,
         Store(first, A, U, X, F, V, W, el, em, fc, home),
         NEW m \in Nat, NEW H, H # {}, H \subseteq A \ U, \A i \in H : Num(i) = m,
         NEW k \in Nat, IsFiniteSet(H), Cardinality(H) = k,
         NEW A2, A2 = A \ H, NEW em2, Adds(em, em2, home[m], k),
         NEW X2, X2 = LeavingAfter(first, A2, X, m)
  PROVE  /\ Store(first, A2, U, X2, F, V, W, el, em2, fc, home)
         /\ Live(first, A2, X2, V) = Live(first, A, X, V) /\ m \in Live(first, A, X, V) /\ m \notin X
         /\ em2[home[m]] = BlockSize <=> Left(first, A2, m) = {}
<1>1. PICK L : L = Live(first, A, X, V)
  OBVIOUS
<1>e. em2 = [em EXCEPT ![home[m]] = @ + k] /\ X2 = IF Left(first, A2, m) = {} THEN X \cup {m} ELSE X
  BY DEF Adds, LeavingAfter
<1>2. /\ Taken(first, A, U, X, V, W) /\ Counted(first, A, L, em, home)
      /\ Written(first, U, W, el, home) /\ Homes(L, home) /\ Spared(F, L, fc, home)
  BY <1>1 DEF Store
<1>3. /\ first \in Nat /\ W \in Nat /\ V \in Int /\ first <= W /\ A \subseteq Nat /\ U \subseteq A
      /\ (\A i \in A : i < first) /\ X \subseteq Nat
      /\ \A n \in X : Left(first, A, n) = {} /\ \E i \in Nat : i < W /\ Num(i) = n
  BY <1>2 DEF Taken
<1>4. H \subseteq Left(first, A, m) /\ H \subseteq Nat
  BY <1>3 DEF Left, Elems
<1>5. m \in L /\ m \notin X /\ \E i \in Nat : i < W /\ Num(i) = m
  <2>0. PICK i \in H : i \in A /\ Num(i) = m
    OBVIOUS
  <2>1. i \in Nat /\ i < W /\ i \in A /\ Num(i) = m
    <3>1. i \in Nat /\ i < first
      BY <1>3, <2>0
    <3> QED BY <1>3, <2>0, <3>1
  <2>2. Num(i) \in Live(first, A, X, V) /\ i \in Left(first, A, Num(i))
    BY <1>2, <2>1, InLive
  <2> QED BY <1>1, <1>3, <2>1, <2>2
<1>6. Left(first, A2, m) = Left(first, A, m) \ H
  <2>1. \A i : i \in Left(first, A2, m) <=> i \in Left(first, A, m) /\ i \notin H
    BY <1>3 DEF Left, Elems
  <2> QED BY <2>1
<1>7. \A n \in Nat : n # m => Left(first, A2, n) = Left(first, A, n)
  <2> SUFFICES ASSUME NEW n \in Nat, n # m PROVE Left(first, A2, n) = Left(first, A, n)
    OBVIOUS
  <2>1. \A i : i \in Left(first, A2, n) <=> i \in Left(first, A, n)
    BY DEF Left, Elems
  <2> QED BY <2>1
<1>8. PICK B \in Nat \ {0} : B = BlockSize
  BY IndexAssumption
<1>9. PICK x \in Nat : x = Cardinality(Left(first, A, m))
  BY LeftFinite
<1>10. Cardinality(Left(first, A2, m)) = x - k /\ x - k \in 0..B
  <2>1. IsFiniteSet(Left(first, A, m))
    BY LeftFinite
  <2>2. Left(first, A, m) \cap H = H
    BY <1>4
  <2>3. Cardinality(Left(first, A, m) \ H) = Cardinality(Left(first, A, m)) - Cardinality(Left(first, A, m) \cap H)
    BY <2>1, FS_Difference
  <2>4. Cardinality(Left(first, A2, m)) \in 0..B
    BY <1>8, LeftFinite
  <2> QED BY <1>6, <1>9, <2>2, <2>3, <2>4
<1>11. PICK b \in Blocks : b = home[m]
  BY <1>2, <1>5 DEF Homes
<1>12. em \in [Blocks -> Nat] /\ em[b] = B - x
  BY <1>2, <1>5, <1>8, <1>9, <1>11 DEF Counted
<1>13. em2[b] = B - (x - k)
  BY <1>e, <1>9, <1>8, <1>11, <1>12
<1>14. em2 \in [Blocks -> Nat]
  <2>1. em[b] + k \in Nat
    BY <1>12
  <2> QED BY <1>e, <1>11, <1>12, <2>1
<1>15. em2[home[m]] = BlockSize <=> Left(first, A2, m) = {}
  <2>1. em2[b] = B <=> x - k = 0
    BY <1>8, <1>9, <1>13
  <2>2. Left(first, A2, m) = {} <=> Cardinality(Left(first, A2, m)) = 0
    BY LeftFinite
  <2> QED BY <1>8, <1>10, <1>11, <2>1, <2>2
<1>16. Live(first, A2, X2, V) = L
  <2>1. \A n \in Nat : n # m => (n \in X2 <=> n \in X)
    BY <1>e
  <2>2. Left(first, A2, m) # {} \/ m \in X2
    BY <1>e
  <2>3. m <= V
    BY <1>1, <1>5 DEF Live
  <2>4. \A n : n \in Live(first, A2, X2, V) <=> n \in Live(first, A, X, V)
    <3> SUFFICES ASSUME NEW n \in Nat PROVE n \in Live(first, A2, X2, V) <=> n \in Live(first, A, X, V)
      BY DEF Live
    <3>1. CASE n = m
      BY <1>1, <1>5, <2>2, <2>3, <3>1 DEF Live
    <3>2. CASE n # m
      BY <1>7, <2>1, <3>2 DEF Live
    <3> QED BY <3>1, <3>2
  <2> QED BY <1>1, <2>4 DEF Live
<1>17. Taken(first, A2, U, X2, V, W)
  <2>1. A2 \subseteq Nat /\ U \subseteq A2 /\ (\A i \in A2 : i < first) /\ X2 \subseteq Nat
    BY <1>e, <1>3
  <2>2. ASSUME NEW n \in X2 PROVE Left(first, A2, n) = {} /\ \E i \in Nat : i < W /\ Num(i) = n
    <3>1. CASE n = m
      BY <1>e, <1>5, <3>1
    <3>2. CASE n # m
      BY <1>e, <1>3, <1>7, <3>2
    <3> QED BY <3>1, <3>2
  <2> QED BY <1>2, <2>1, <2>2 DEF Taken
<1>18. Counted(first, A2, L, em2, home)
  <2> SUFFICES ASSUME NEW n \in L
               PROVE  em2[home[n]] = BlockSize - Cardinality(Left(first, A2, n))
    BY <1>14 DEF Counted
  <2>1. CASE n = m
    BY <1>8, <1>10, <1>11, <1>13, <2>1
  <2>2. CASE n # m
    <3>1. home[n] # b /\ home[n] \in Blocks
      BY <1>2, <1>5, <1>11, <2>2 DEF Homes
    <3>2. em2[home[n]] = em[home[n]]
      BY <1>e, <1>11, <1>12, <3>1
    <3>3. n \in Nat
      BY <1>1 DEF Live
    <3> QED BY <1>2, <1>7, <2>2, <3>2, <3>3 DEF Counted
  <2> QED BY <2>1, <2>2
<1> QED BY <1>1, <1>2, <1>5, <1>15, <1>16, <1>17, <1>18 DEF Store

\* Unlink: block m leaves the index and is about to be freed.
LEMMA StoreUnlink ==
  ASSUME NEW first, NEW A, NEW U, NEW X, NEW F, NEW V, NEW W, NEW el, NEW em, NEW fc, NEW home,
         Store(first, A, U, X, F, V, W, el, em, fc, home),
         NEW m, m \in X, m \in Live(first, A, X, V)
  PROVE  /\ Store(first, A, U, X \ {m}, F \cup {home[m]}, V, W, el, em, fc, home)
         /\ Live(first, A, X \ {m}, V) = Live(first, A, X, V) \ {m} /\ home[m] \notin F
<1>0. PICK X2, F2 : X2 = X \ {m} /\ F2 = F \cup {home[m]}
  OBVIOUS
<1>1. PICK L : L = Live(first, A, X, V)
  OBVIOUS
<1>2. /\ Taken(first, A, U, X, V, W) /\ Counted(first, A, L, em, home)
      /\ Written(first, U, W, el, home) /\ Homes(L, home) /\ Spared(F, L, fc, home)
  BY <1>1 DEF Store
<1>3. Left(first, A, m) = {}
  BY <1>2 DEF Taken
<1>4. Live(first, A, X2, V) = L \ {m}
  <2>1. \A n : n \in Live(first, A, X2, V) <=> n \in Live(first, A, X, V) /\ n # m
    BY <1>0, <1>3 DEF Live
  <2> QED BY <1>1, <2>1
<1>5. Taken(first, A, U, X2, V, W)
  BY <1>0, <1>2 DEF Taken
<1>6. Counted(first, A, L \ {m}, em, home) /\ Homes(L \ {m}, home)
  BY <1>2 DEF Counted, Homes
<1>7. home[m] \in Blocks /\ home[m] \notin F
  BY <1>1, <1>2 DEF Homes, Spared
<1>8. Spared(F2, L \ {m}, fc, home)
  <2>1. F2 \subseteq Blocks /\ \A n \in L \ {m} : home[n] \notin F2
    BY <1>0, <1>1, <1>2, <1>7 DEF Spared, Homes
  <2>2. ASSUME NEW b \in Blocks
        PROVE  b \in F2 \/ (\E n \in L \ {m} : home[n] = b) <=> b \in F \/ \E n \in L : home[n] = b
    BY <1>0, <1>1
  <2>3. fc = [b \in Blocks |-> IF b \in F \/ \E n \in L : home[n] = b THEN 0 ELSE 1]
    BY <1>2 DEF Spared
  <2>4. fc = [b \in Blocks |-> IF b \in F2 \/ \E n \in L \ {m} : home[n] = b THEN 0 ELSE 1]
    BY <2>2, <2>3
  <2> QED BY <2>1, <2>4 DEF Spared
<1>9. Store(first, A, U, X2, F2, V, W, el, em, fc, home)
  BY <1>1, <1>2, <1>4, <1>5, <1>6, <1>8 DEF Store
<1> QED BY <1>0, <1>1, <1>4, <1>7, <1>9

\* FreeBlock.
LEMMA StoreFree ==
  ASSUME NEW first, NEW A, NEW U, NEW X, NEW F, NEW V, NEW W, NEW el, NEW em, NEW fc, NEW home,
         Store(first, A, U, X, F, V, W, el, em, fc, home),
         NEW b \in F, NEW F2, F2 = F \ {b}, NEW fc2, fc2 = [fc EXCEPT ![b] = @ + 1]
  PROVE  Store(first, A, U, X, F2, V, W, el, em, fc2, home)
<1>1. PICK L : L = Live(first, A, X, V)
  OBVIOUS
<1>2. Spared(F, L, fc, home)
  BY <1>1 DEF Store
<1>3. /\ b \in Blocks /\ F2 \subseteq Blocks /\ (\A n \in L : home[n] \notin F2 /\ home[n] # b)
      /\ fc = [d \in Blocks |-> IF d \in F \/ \E n \in L : home[n] = d THEN 0 ELSE 1]
  BY <1>2 DEF Spared
<1>4. fc2 = [d \in Blocks |-> IF d \in F2 \/ \E n \in L : home[n] = d THEN 0 ELSE 1]
  <2>1. fc[b] = 0
    BY <1>3
  <2>2. fc2 = [d \in Blocks |-> IF d = b THEN 1 ELSE fc[d]]
    BY <1>3, <2>1
  <2>3. ASSUME NEW d \in Blocks
        PROVE  (IF d = b THEN 1 ELSE fc[d]) = IF d \in F2 \/ \E n \in L : home[n] = d THEN 0 ELSE 1
    BY <1>3
  <2> QED BY <2>2, <2>3, ZenonT(60)
<1>5. Spared(F2, L, fc2, home)
  BY <1>3, <1>4 DEF Spared
<1> QED BY <1>1, <1>5 DEF Store

\* Blocks beyond the elements that are written are all there is of them.
LEMMA Untouched ==
  ASSUME NEW first, NEW A, NEW U, NEW X, NEW V, NEW W, Taken(first, A, U, X, V, W),
         NEW n \in Nat, \A i \in Nat : i < W => Num(i) # n
  PROVE  /\ Left(first, A, n) = Elems(n) /\ Left(first, A, n) # {} /\ n \notin X
         /\ Cardinality(Left(first, A, n)) = BlockSize
<1>1. first \in Nat /\ W \in Nat /\ first <= W /\ \A m \in X : Left(first, A, m) = {}
  BY DEF Taken
<1>2. Left(first, A, n) = Elems(n)
  <2>1. \A i \in Elems(n) : first <= i
    <3> SUFFICES ASSUME NEW i \in Elems(n), ~(first <= i) PROVE FALSE
      OBVIOUS
    <3>1. i \in Nat /\ Num(i) = n
      BY DEF Elems
    <3> QED BY <1>1, <3>1
  <2> QED BY <2>1 DEF Left
<1>3. IsFiniteSet(Elems(n)) /\ Cardinality(Elems(n)) = BlockSize /\ BlockSize # 0
  BY ElemsIs, IndexAssumption
<1>4. Elems(n) # {}
  BY <1>3, FS_EmptySet
<1> QED BY <1>1, <1>2, <1>3, <1>4

\* TakeBlock: block M = V + 1 gets the free block b.
Adopted(em, em2, fc, fc2, home, home2, M, b) ==
    /\ em2 = [em EXCEPT ![b] = 0] /\ fc2 = [fc EXCEPT ![b] = @ - 1]
    /\ home2 = [home EXCEPT ![M] = b]

\* The block is live then, and not among the free ones.
LEMMA StoreTake ==
  ASSUME NEW first, NEW A, NEW U, NEW X, NEW F, NEW V, NEW W, NEW el, NEW em, NEW fc, NEW home,
         Store(first, A, U, X, F, V, W, el, em, fc, home), home \in [Nat -> Blocks \cup {NULL}],
         NEW M \in Nat, M = V + 1, NEW b \in Blocks, fc[b] > 0,
         NEW em2, NEW fc2, NEW home2, Adopted(em, em2, fc, fc2, home, home2, M, b)
  PROVE  /\ Store(first, A, U, X, F, M, W, el, em2, fc2, home2)
         /\ Live(first, A, X, M) = Live(first, A, X, V) \cup {M} /\ M \notin Live(first, A, X, V)
<1>0. /\ em2 = [em EXCEPT ![b] = 0] /\ fc2 = [fc EXCEPT ![b] = @ - 1]
      /\ home2 = [home EXCEPT ![M] = b]
  BY DEF Adopted
<1>1. PICK L : L = Live(first, A, X, V)
  OBVIOUS
<1>2. /\ Taken(first, A, U, X, V, W) /\ Counted(first, A, L, em, home)
      /\ Written(first, U, W, el, home) /\ Homes(L, home) /\ Spared(F, L, fc, home)
  BY <1>1 DEF Store
<1>3. /\ first \in Nat /\ W \in Nat /\ V \in Int /\ first <= W /\ A \subseteq Nat /\ U \subseteq A
      /\ (\A i \in A : i < first) /\ (\A i \in Nat : i < W => Num(i) <= V)
  BY <1>2 DEF Taken
<1>4. /\ Left(first, A, M) # {} /\ Cardinality(Left(first, A, M)) = BlockSize
  <2>1. \A i \in Nat : i < W => Num(i) # M
    BY <1>3
  <2> QED BY <1>2, <2>1, Untouched
<1>5. L \subseteq Nat /\ M \notin L /\ \A n \in L : n <= V
  BY <1>1, <1>3 DEF Live
<1>6. Live(first, A, X, M) = L \cup {M}
  <2>1. \A n \in Nat : n <= M <=> n <= V \/ n = M
    BY <1>3
  <2>2. \A n : n \in Live(first, A, X, M) <=> n \in Live(first, A, X, V) \/ n = M
    BY <1>4, <2>1 DEF Live
  <2> QED BY <1>1, <2>2
<1>7. /\ fc = [d \in Blocks |-> IF d \in F \/ \E n \in L : home[n] = d THEN 0 ELSE 1]
      /\ F \subseteq Blocks /\ \A n \in L : home[n] \notin F
  BY <1>2 DEF Spared
<1>8. b \notin F /\ (\A n \in L : home[n] # b) /\ fc[b] = 1
  BY <1>7
<1>9. home2[M] = b /\ \A n \in L : home2[n] = home[n]
  BY <1>0, <1>5
<1>10. Taken(first, A, U, X, M, W)
  <2>1. \A i \in Nat : i < W => Num(i) <= M
    <3> SUFFICES ASSUME NEW i \in Nat, i < W PROVE Num(i) <= M
      OBVIOUS
    <3>1. Num(i) \in Nat /\ Num(i) <= V
      BY <1>3, NumNat
    <3> QED BY <1>3, <3>1
  <2> QED BY <1>2, <2>1 DEF Taken
<1>11. em \in [Blocks -> Nat] /\ \A n \in L : em[home[n]] = BlockSize - Cardinality(Left(first, A, n))
  BY <1>2 DEF Counted
<1>12. Counted(first, A, L \cup {M}, em2, home2)
  <2>1. em2 \in [Blocks -> Nat] /\ em2[b] = 0 /\ \A d \in Blocks : d # b => em2[d] = em[d]
    BY <1>0, <1>11
  <2>2. \A n \in L : home2[n] \in Blocks /\ home2[n] # b
    BY <1>2, <1>8, <1>9 DEF Homes
  <2>3. \A n \in L : em2[home2[n]] = BlockSize - Cardinality(Left(first, A, n))
    BY <1>9, <1>11, <2>1, <2>2
  <2>4. em2[home2[M]] = BlockSize - Cardinality(Left(first, A, M))
    BY <1>4, <1>9, <2>1, IndexAssumption
  <2> QED BY <2>1, <2>3, <2>4 DEF Counted
<1>13. Written(first, U, W, el, home2)
  <2>1. ASSUME NEW i \in Nat, i < W PROVE home2[Num(i)] = home[Num(i)]
    <3>1. Num(i) \in Nat /\ Num(i) <= V
      BY <1>3, <2>1, NumNat
    <3>2. Num(i) # M
      BY <1>3, <3>1
    <3> QED BY <1>0, <3>1, <3>2
  <2> QED BY <1>2, <2>1 DEF Written
<1>14. Homes(L \cup {M}, home2)
  BY <1>2, <1>8, <1>9 DEF Homes
<1>15. Spared(F, L \cup {M}, fc2, home2)
  <2>1. \A n \in L \cup {M} : home2[n] \notin F
    BY <1>7, <1>8, <1>9
  <2>2. fc2 = [d \in Blocks |-> IF d = b THEN 0 ELSE fc[d]]
    BY <1>0, <1>7, <1>8
  <2>3. PICK S, h : S = L \cup {M} /\ h = home2
    OBVIOUS
  <2>4. ASSUME NEW d \in Blocks
        PROVE  (IF d = b THEN 0 ELSE fc[d]) = IF d \in F \/ \E n \in S : h[n] = d THEN 0 ELSE 1
    BY <1>7, <1>9, <2>3
  <2>5. fc2 = [d \in Blocks |-> IF d \in F \/ \E n \in S : h[n] = d THEN 0 ELSE 1]
    BY <2>2, <2>4
  <2> QED BY <1>7, <2>1, <2>3, <2>5 DEF Spared
<1> QED BY <1>1, <1>5, <1>6, <1>10, <1>12, <1>13, <1>14, <1>15 DEF Store

\* The blocks that were taken for elements that are not written yet are
\* given back.
GivenBack(fc, fc2, home, N, V) ==
    fc2 = [b \in Blocks |-> fc[b] + IF \E n \in N + 1..V : home[n] = b THEN 1 ELSE 0]

\* The blocks from N + 1 on are free again, once each.
LEMMA StoreGiveUp ==
  ASSUME NEW first, NEW A, NEW U, NEW X, NEW F, NEW V, NEW W, NEW el, NEW em, NEW fc, NEW home,
         Store(first, A, U, X, F, V, W, el, em, fc, home),
         NEW N \in Int, -1 <= N, N <= V, \A i \in Nat : i < W => Num(i) <= N,
         NEW fc2, GivenBack(fc, fc2, home, N, V)
  PROVE  /\ Store(first, A, U, X, F, N, W, el, em, fc2, home)
         /\ Live(first, A, X, N) = {n \in Live(first, A, X, V) : n <= N}
         /\ N + 1..V \subseteq Live(first, A, X, V)
<1>1. PICK L : L = Live(first, A, X, V)
  OBVIOUS
<1>2. /\ Taken(first, A, U, X, V, W) /\ Counted(first, A, L, em, home)
      /\ Written(first, U, W, el, home) /\ Homes(L, home) /\ Spared(F, L, fc, home)
  BY <1>1 DEF Store
<1>3. V \in Int
  BY <1>2 DEF Taken
<1>4. N + 1..V \subseteq L
  <2> SUFFICES ASSUME NEW n \in N + 1..V PROVE n \in L
    OBVIOUS
  <2>1. n \in Nat /\ N < n /\ n <= V
    BY <1>3
  <2>2. \A i \in Nat : i < W => Num(i) # n
    BY <2>1
  <2>3. Left(first, A, n) # {}
    BY <1>2, <2>1, <2>2, Untouched
  <2> QED BY <1>1, <2>1, <2>3 DEF Live
<1>5. PICK L2 : L2 = {n \in L : n <= N}
  OBVIOUS
<1>6. Live(first, A, X, N) = L2 /\ \A n \in L : n \in L2 \/ n \in N + 1..V
  <2>1. \A n \in Nat : n <= N => n <= V
    BY <1>3
  <2>2. \A n : n \in Live(first, A, X, N) <=> n \in Live(first, A, X, V) /\ n <= N
    BY <2>1 DEF Live
  <2>3. \A n \in L : n \in Nat /\ n <= V
    BY <1>1 DEF Live
  <2>4. \A n \in L : n <= N \/ n \in N + 1..V
    BY <1>3, <2>3
  <2> QED BY <1>1, <1>5, <2>2, <2>4
<1>7. Taken(first, A, U, X, N, W)
  BY <1>2 DEF Taken
<1>8. Counted(first, A, L2, em, home) /\ Homes(L2, home)
  BY <1>2, <1>5 DEF Counted, Homes
<1>9. Spared(F, L2, fc2, home)
  <2>1. /\ fc = [b \in Blocks |-> IF b \in F \/ \E n \in L : home[n] = b THEN 0 ELSE 1]
        /\ F \subseteq Blocks /\ \A n \in L : home[n] \notin F
    BY <1>2 DEF Spared
  <2>2. \A n \in N + 1..V : n \notin L2 /\ n \in L
    BY <1>3, <1>4, <1>5
  <2>3. ASSUME NEW b \in Blocks
        PROVE  fc[b] + (IF \E n \in N + 1..V : home[n] = b THEN 1 ELSE 0)
                  = IF b \in F \/ \E n \in L2 : home[n] = b THEN 0 ELSE 1
    <3>1. CASE \E n \in N + 1..V : home[n] = b
      <4>1. PICK n \in L : n \notin L2 /\ home[n] = b
        BY <2>2, <3>1
      <4>2. b \notin F /\ fc[b] = 0
        BY <2>1, <4>1
      <4>3. \A m \in L2 : home[m] # b
        BY <1>2, <1>5, <4>1 DEF Homes
      <4> QED BY <3>1, <4>2, <4>3
    <3>2. CASE ~ \E n \in N + 1..V : home[n] = b
      <4>1. (\E n \in L : home[n] = b) <=> \E n \in L2 : home[n] = b
        BY <1>5, <1>6, <3>2
      <4> QED BY <2>1, <3>2, <4>1
    <3> QED BY <3>1, <3>2
  <2>4. fc2 = [b \in Blocks |-> IF b \in F \/ \E n \in L2 : home[n] = b THEN 0 ELSE 1]
    BY <2>3 DEF GivenBack
  <2> QED BY <1>5, <2>1, <2>4 DEF Spared
<1> QED BY <1>1, <1>2, <1>4, <1>5, <1>6, <1>7, <1>8, <1>9 DEF Store

\* Write: the elements W..W2 - 1 are constructed in their blocks.
LEMMA StoreWrite ==
  ASSUME NEW first, NEW A, NEW U, NEW X, NEW F, NEW V, NEW W, NEW el, NEW em, NEW fc, NEW home,
         Store(first, A, U, X, F, V, W, el, em, fc, home),
         NEW W2 \in Nat, W <= W2, \A i \in Nat : i < W2 => Num(i) <= V,
         NEW el2, el2 = [b \in Blocks |-> [o \in 0..BlockSize - 1 |->
                           LET here == {j \in W..W2 - 1 : home[Num(j)] = b /\ Off(j) = o}
                           IN  IF here = {} THEN el[b][o] ELSE CHOOSE j \in here : TRUE]]
  PROVE  Store(first, A, U, X, F, V, W2, el2, em, fc, home)
<1>1. PICK L : L = Live(first, A, X, V)
  OBVIOUS
<1>2. /\ Taken(first, A, U, X, V, W) /\ Written(first, U, W, el, home) /\ Homes(L, home)
  BY <1>1 DEF Store
<1>3. W \in Nat /\ first \in Nat /\ first <= W
  BY <1>2 DEF Taken
<1>4. Taken(first, A, U, X, V, W2)
  <2>1. first <= W2
    BY <1>3
  <2> QED BY <1>2, <2>1 DEF Taken
<1>5. ASSUME NEW i \in Nat, i < W2, first <= i \/ i \in U
      PROVE  el2[home[Num(i)]][Off(i)] = i
  <2>1. i \in A \/ first <= i
    BY <1>2, <1>5 DEF Taken
  <2>2. Num(i) \in L
    BY <1>1, <1>4, <1>5, <2>1, InLive
  <2>3. PICK b \in Blocks : b = home[Num(i)]
    BY <1>2, <2>2 DEF Homes
  <2>4. PICK o \in 0..BlockSize - 1 : o = Off(i)
    <3>1. i \in Int
      OBVIOUS
    <3>2. Off(i) \in 0..BlockSize - 1
      BY <3>1, NumFacts
    <3> QED BY <3>2
  <2>5. PICK here : here = {j \in W..W2 - 1 : home[Num(j)] = b /\ Off(j) = o}
    OBVIOUS
  <2>6. el2[b][o] = IF here = {} THEN el[b][o] ELSE CHOOSE j \in here : TRUE
    BY <2>5
  <2>7. ASSUME NEW j \in here PROVE j = i
    <3>1. j \in Nat /\ j < W2 /\ first <= j /\ home[Num(j)] = b /\ Off(j) = o
      BY <1>3, <2>5
    <3>2. Num(j) \in L
      BY <1>1, <1>4, <3>1, InLive
    <3>3. Num(j) = Num(i)
      BY <1>2, <2>2, <2>3, <3>1, <3>2 DEF Homes
    <3>4. i \in Int /\ j \in Int
      BY <3>1
    <3> QED BY <2>4, <3>1, <3>3, <3>4, SameElement
  <2>8. CASE here = {}
    <3>1. ~(i \in W..W2 - 1)
      BY <2>3, <2>4, <2>5, <2>8
    <3>2. i < W
      BY <1>3, <1>5, <3>1
    <3>3. el[home[Num(i)]][Off(i)] = i
      BY <1>2, <1>5, <3>2 DEF Written
    <3> QED BY <2>3, <2>4, <2>6, <2>8, <3>3
  <2>9. CASE here # {}
    <3>1. (CHOOSE j \in here : TRUE) \in here
      BY <2>9
    <3>2. (CHOOSE j \in here : TRUE) = i
      BY <2>7, <3>1
    <3> QED BY <2>3, <2>4, <2>6, <2>9, <3>2
  <2> QED BY <2>8, <2>9
<1>6. Written(first, U, W2, el2, home)
  <2>1. DOMAIN el2 = Blocks /\ \A b \in Blocks : DOMAIN el2[b] = 0..BlockSize - 1
    OBVIOUS
  <2> QED BY <1>5, <2>1 DEF Written
<1> QED BY <1>1, <1>4, <1>6 DEF Store

-----------------------------------------------------------------------------
(* The consumers of an implicit producer's elements.                       *)

Working == {"header", "mark", "locate", "read", "empty", "unlink", "free"}

\* What of its claim a consumer's blocks do not know of yet, what it has not
\* read, the block it takes out of the index, and the one it frees.
Open(s) ==
    IF s.pc \in {"header", "mark", "locate", "read", "empty"} THEN Claim(s)
    ELSE IF s.pc \in {"unlink", "free"} THEN Rest(s) ELSE {}
Unread(s) ==
    IF s.pc \in {"header", "mark", "locate", "read"} THEN Claim(s)
    ELSE IF s.pc \in {"empty", "unlink", "free"} THEN Rest(s) ELSE {}
Unlinked(s) == IF s.pc = "unlink" THEN {Num(s.at)} ELSE {}
Freeing(s) == IF s.pc = "free" THEN {s.block} ELSE {}

Opens(con) == [c \in Consumers |-> Open(con[c])]
Unreads(con) == [c \in Consumers |-> Unread(con[c])]
Unlinks(con) == [c \in Consumers |-> Unlinked(con[c])]
Freeings(con) == [c \in Consumers |-> Freeing(con[c])]

\* The blocks whose entries the consumer looks for.
Sought(s) == {Num(i) : i \in Open(s)} \cup Unlinked(s)

ConsumerOK(s, first) ==
    /\ s.pc \in {"overcommit", "check"} => s.max >= 1
    /\ s.pc \in {"count", "reload"} => s.desired >= 1
    /\ s.pc = "claim" => s.n >= 1
    /\ s.pc \in Working => /\ s.at \in Nat /\ s.end \in Nat /\ s.at < s.end /\ s.end <= first
                           /\ {"pc", "at", "end"} \subseteq DOMAIN s
    /\ s.pc \in {"locate", "read", "empty", "unlink", "free"} =>
          s.slot \in Int /\ {"header", "slot"} \subseteq DOMAIN s
    /\ s.pc \in {"empty", "unlink", "free"} => {"block", "read"} \subseteq DOMAIN s

\* Its header finds the blocks it looks for where the last one does.
Seeing(s, hd, en, K, home) ==
    /\ s.pc \in Working \ {"header"} =>
          /\ s.header \in 1..Len(hd)
          /\ \A n \in Sought(s) : At(hd, s.header, K[s.header] + n) = EntryOf(hd, K, n)
    /\ s.pc = "locate" => en[At(hd, s.header, s.slot)].key # NULL
    /\ s.pc \in {"read", "empty", "unlink", "free"} =>
          Cong(s.slot, K[s.header] + Num(s.at), Laps(hd, s.header))
    /\ s.pc \in {"empty", "unlink"} => s.block = home[Num(s.at)]
    /\ s.pc \in {"empty", "unlink", "free"} =>
          DOMAIN s.read = Here(s) /\ \A i \in Here(s) : s.read[i] = i

Disjoint(con) ==
    Pairwise(Opens(con)) /\ Pairwise(Unreads(con)) /\ Pairwise(Unlinks(con)) /\ Pairwise(Freeings(con))

Attentive(con, first, hd, en, K, home) ==
    \A c \in Consumers : ConsumerOK(con[c], first) /\ Seeing(con[c], hd, en, K, home)

LiveOf(con, first, V) == Live(first, All(Opens(con)), All(Unlinks(con)), V)

StoreOf(con, first, V, W, el, em, fc, home) ==
    Store(first, All(Opens(con)), All(Unreads(con)), All(Unlinks(con)), All(Freeings(con)),
          V, W, el, em, fc, home)

\* M is the newest block with an entry, V the newest with a place.
SubOK(con, first, hd, en, K, lo, M, V, W, el, em, fc, home) ==
    /\ home \in [Nat -> Blocks \cup {NULL}]
    /\ IndexOK(hd, en, K, lo, M, LiveOf(con, first, V), home)
    /\ Attentive(con, first, hd, en, K, home) /\ Disjoint(con)
    /\ StoreOf(con, first, V, W, el, em, fc, home)

\* One consumer takes a step.
Turned(con, con2, c, s) == con2[c] = s /\ \A d \in Consumers : d # c => con2[d] = con[d]

\* It takes nothing that another one has.
Apart(con, c, s) ==
    /\ Open(s) \cap (All(Opens(con)) \ Open(con[c])) = {}
    /\ Unread(s) \cap (All(Unreads(con)) \ Unread(con[c])) = {}
    /\ Unlinked(s) \cap (All(Unlinks(con)) \ Unlinked(con[c])) = {}
    /\ Freeing(s) \cap (All(Freeings(con)) \ Freeing(con[c])) = {}

\* What all consumers have after its step.
AllAfter(con, con2, c, s) ==
    /\ All(Opens(con2)) = (All(Opens(con)) \ Open(con[c])) \cup Open(s)
    /\ All(Unreads(con2)) = (All(Unreads(con)) \ Unread(con[c])) \cup Unread(s)
    /\ All(Unlinks(con2)) = (All(Unlinks(con)) \ Unlinked(con[c])) \cup Unlinked(s)
    /\ All(Freeings(con2)) = (All(Freeings(con)) \ Freeing(con[c])) \cup Freeing(s)

\* Consumers stay apart when one takes a step that is apart from the others.
LEMMA ConsumerTurns ==
  ASSUME NEW con, Disjoint(con), NEW con2, NEW c \in Consumers, NEW s, Turned(con, con2, c, s),
         Apart(con, c, s)
  PROVE  Disjoint(con2) /\ AllAfter(con, con2, c, s)
<1>1. con2[c] = s /\ \A d \in Consumers : d # c => con2[d] = con[d]
  BY DEF Turned
<1>2. Pairwise(Opens(con2)) /\ All(Opens(con2)) = (All(Opens(con)) \ Open(con[c])) \cup Open(s)
  <2>1. PICK f, g : f = Opens(con) /\ g = Opens(con2)
    OBVIOUS
  <2>2. f[c] = Open(con[c]) /\ g[c] = Open(s) /\ \A d \in Consumers : d # c => g[d] = f[d]
    BY <1>1, <2>1 DEF Opens
  <2>3. Pairwise(f) /\ g[c] \cap (All(f) \ f[c]) = {}
    BY <2>1, <2>2 DEF Disjoint, Apart
  <2>4. Pairwise(g) /\ All(g) = (All(f) \ f[c]) \cup g[c]
    BY <2>2, <2>3, OneTurns
  <2> QED BY <2>1, <2>2, <2>4
<1>3. Pairwise(Unreads(con2)) /\ All(Unreads(con2)) = (All(Unreads(con)) \ Unread(con[c])) \cup Unread(s)
  <2>1. PICK f, g : f = Unreads(con) /\ g = Unreads(con2)
    OBVIOUS
  <2>2. f[c] = Unread(con[c]) /\ g[c] = Unread(s) /\ \A d \in Consumers : d # c => g[d] = f[d]
    BY <1>1, <2>1 DEF Unreads
  <2>3. Pairwise(f) /\ g[c] \cap (All(f) \ f[c]) = {}
    BY <2>1, <2>2 DEF Disjoint, Apart
  <2>4. Pairwise(g) /\ All(g) = (All(f) \ f[c]) \cup g[c]
    BY <2>2, <2>3, OneTurns
  <2> QED BY <2>1, <2>2, <2>4
<1>4. Pairwise(Unlinks(con2)) /\ All(Unlinks(con2)) = (All(Unlinks(con)) \ Unlinked(con[c])) \cup Unlinked(s)
  <2>1. PICK f, g : f = Unlinks(con) /\ g = Unlinks(con2)
    OBVIOUS
  <2>2. f[c] = Unlinked(con[c]) /\ g[c] = Unlinked(s) /\ \A d \in Consumers : d # c => g[d] = f[d]
    BY <1>1, <2>1 DEF Unlinks
  <2>3. Pairwise(f) /\ g[c] \cap (All(f) \ f[c]) = {}
    BY <2>1, <2>2 DEF Disjoint, Apart
  <2>4. Pairwise(g) /\ All(g) = (All(f) \ f[c]) \cup g[c]
    BY <2>2, <2>3, OneTurns
  <2> QED BY <2>1, <2>2, <2>4
<1>5. Pairwise(Freeings(con2)) /\ All(Freeings(con2)) = (All(Freeings(con)) \ Freeing(con[c])) \cup Freeing(s)
  <2>1. PICK f, g : f = Freeings(con) /\ g = Freeings(con2)
    OBVIOUS
  <2>2. f[c] = Freeing(con[c]) /\ g[c] = Freeing(s) /\ \A d \in Consumers : d # c => g[d] = f[d]
    BY <1>1, <2>1 DEF Freeings
  <2>3. Pairwise(f) /\ g[c] \cap (All(f) \ f[c]) = {}
    BY <2>1, <2>2 DEF Disjoint, Apart
  <2>4. Pairwise(g) /\ All(g) = (All(f) \ f[c]) \cup g[c]
    BY <2>2, <2>3, OneTurns
  <2> QED BY <2>1, <2>2, <2>4
<1> QED BY <1>2, <1>3, <1>4, <1>5 DEF Disjoint, AllAfter

\* What each consumer holds is among what all hold.
LEMMA HeldByAll ==
  ASSUME NEW con, NEW c \in Consumers
  PROVE  /\ Open(con[c]) \subseteq All(Opens(con)) /\ Unread(con[c]) \subseteq All(Unreads(con))
         /\ Unlinked(con[c]) \subseteq All(Unlinks(con)) /\ Freeing(con[c]) \subseteq All(Freeings(con))
  BY DEF All, Opens, Unreads, Unlinks, Freeings

\* The blocks a consumer looks for are live.
LEMMA SoughtLive ==
  ASSUME NEW con, NEW first, NEW V, NEW W, NEW el, NEW em, NEW fc, NEW home,
         StoreOf(con, first, V, W, el, em, fc, home), NEW c \in Consumers,
         NEW hd, NEW en, NEW K, NEW lo, NEW M, IndexOK(hd, en, K, lo, M, LiveOf(con, first, V), home),
         NEW n \in Sought(con[c])
  PROVE  n \in LiveOf(con, first, V) /\ n \in Nat
<1>1. PICK A, U, X, F : /\ A = All(Opens(con)) /\ U = All(Unreads(con))
                        /\ X = All(Unlinks(con)) /\ F = All(Freeings(con))
  OBVIOUS
<1>2. Taken(first, A, U, X, V, W)
  BY <1>1 DEF StoreOf, Store
<1>3. LiveOf(con, first, V) = Live(first, A, X, V)
  BY <1>1 DEF LiveOf
<1>4. CASE n \in Unlinked(con[c])
  <2>1. n \in X
    BY <1>1, <1>4, HeldByAll
  <2>2. n \in Live(first, A, X, V)
    BY <1>2, <2>1, LeavingLive
  <2> QED BY <1>3, <2>2 DEF Live
<1>5. CASE n \in {Num(i) : i \in Open(con[c])}
  <2>1. PICK i \in A : n = Num(i)
    BY <1>1, <1>5, HeldByAll
  <2>2. i \in Nat /\ i < W
    <3>1. i \in Nat /\ first \in Nat /\ W \in Nat /\ i < first /\ first <= W
      BY <1>2, <2>1 DEF Taken
    <3> QED BY <3>1
  <2>3. n \in Live(first, A, X, V)
    BY <1>2, <2>1, <2>2, InLive
  <2> QED BY <1>3, <2>3 DEF Live
<1> QED BY <1>4, <1>5 DEF Sought

\* A step that changes nothing of what the consumer holds.
LEMMA StepSame ==
  ASSUME NEW con, NEW first, NEW hd, NEW en, NEW K, NEW lo, NEW M, NEW V, NEW W, NEW el, NEW em, NEW fc,
         NEW home, SubOK(con, first, hd, en, K, lo, M, V, W, el, em, fc, home),
         NEW c \in Consumers, NEW s, NEW con2, Turned(con, con2, c, s),
         Open(s) = Open(con[c]), Unread(s) = Unread(con[c]), Unlinked(s) = Unlinked(con[c]),
         Freeing(s) = Freeing(con[c]), ConsumerOK(s, first), Seeing(s, hd, en, K, home)
  PROVE  SubOK(con2, first, hd, en, K, lo, M, V, W, el, em, fc, home)
<1>1. /\ home \in [Nat -> Blocks \cup {NULL}]
      /\ IndexOK(hd, en, K, lo, M, LiveOf(con, first, V), home)
      /\ Attentive(con, first, hd, en, K, home) /\ Disjoint(con)
      /\ StoreOf(con, first, V, W, el, em, fc, home)
  BY DEF SubOK
<1>2. Disjoint(con2) /\ AllAfter(con, con2, c, s)
  <2>1. Apart(con, c, s)
    BY DEF Apart
  <2> QED BY <1>1, <2>1, ConsumerTurns
<1>3. /\ All(Opens(con2)) = All(Opens(con)) /\ All(Unreads(con2)) = All(Unreads(con))
      /\ All(Unlinks(con2)) = All(Unlinks(con)) /\ All(Freeings(con2)) = All(Freeings(con))
  BY <1>2, HeldByAll DEF AllAfter
<1>4. LiveOf(con2, first, V) = LiveOf(con, first, V) /\ StoreOf(con2, first, V, W, el, em, fc, home)
  BY <1>1, <1>3 DEF LiveOf, StoreOf
<1>5. Attentive(con2, first, hd, en, K, home)
  BY <1>1 DEF Attentive, Turned
<1> QED BY <1>1, <1>2, <1>4, <1>5 DEF SubOK

\* More elements are claimed by others.
LEMMA ClaimsOn ==
  ASSUME NEW s, NEW first \in Nat, NEW end \in Nat, first <= end, ConsumerOK(s, first)
  PROVE  ConsumerOK(s, end)
  BY DEF ConsumerOK

\* ClaimHead: the elements from the head to end are the consumer's.
LEMMA StepClaim ==
  ASSUME NEW con, NEW first, NEW hd, NEW en, NEW K, NEW lo, NEW M, NEW V, NEW W, NEW el, NEW em, NEW fc,
         NEW home, SubOK(con, first, hd, en, K, lo, M, V, W, el, em, fc, home),
         NEW c \in Consumers, con[c].pc = "claim", NEW end \in Nat, first < end, end <= W,
         NEW s, s = [pc |-> "header", at |-> first, end |-> end], NEW con2, Turned(con, con2, c, s)
  PROVE  SubOK(con2, end, hd, en, K, lo, M, V, W, el, em, fc, home)
<1>1. /\ home \in [Nat -> Blocks \cup {NULL}]
      /\ IndexOK(hd, en, K, lo, M, LiveOf(con, first, V), home)
      /\ Attentive(con, first, hd, en, K, home) /\ Disjoint(con)
      /\ StoreOf(con, first, V, W, el, em, fc, home)
  BY DEF SubOK
<1>2. PICK A, U, X, F : /\ A = All(Opens(con)) /\ U = All(Unreads(con))
                        /\ X = All(Unlinks(con)) /\ F = All(Freeings(con))
  OBVIOUS
<1>3. Store(first, A, U, X, F, V, W, el, em, fc, home)
  BY <1>1, <1>2 DEF StoreOf
<1>4. first \in Nat /\ A \subseteq Nat /\ U \subseteq A /\ \A i \in A : i < first
  BY <1>3 DEF Store, Taken
<1>5. /\ Open(con[c]) = {} /\ Unread(con[c]) = {} /\ Unlinked(con[c]) = {} /\ Freeing(con[c]) = {}
      /\ Open(s) = first..end - 1 /\ Unread(s) = first..end - 1 /\ Unlinked(s) = {} /\ Freeing(s) = {}
  BY DEF Open, Unread, Unlinked, Freeing, Claim
<1>6. (first..end - 1) \cap A = {} /\ (first..end - 1) \cap U = {}
  BY <1>4
<1>7. /\ Disjoint(con2)
      /\ All(Opens(con2)) = A \cup (first..end - 1) /\ All(Unreads(con2)) = U \cup (first..end - 1)
      /\ All(Unlinks(con2)) = X /\ All(Freeings(con2)) = F
  <2>1. Apart(con, c, s)
    BY <1>2, <1>5, <1>6 DEF Apart
  <2>2. Disjoint(con2) /\ AllAfter(con, con2, c, s)
    BY <1>1, <2>1, ConsumerTurns
  <2> QED BY <1>2, <1>5, <2>2 DEF AllAfter
<1>8. PICK A2, U2 : A2 = A \cup (first..end - 1) /\ U2 = U \cup (first..end - 1)
  OBVIOUS
<1>9. Store(end, A2, U2, X, F, V, W, el, em, fc, home) /\ Live(end, A2, X, V) = Live(first, A, X, V)
  <2>1. first <= end
    BY <1>4
  <2> QED BY <1>3, <1>8, <2>1, StoreClaim
<1>10. LiveOf(con2, end, V) = LiveOf(con, first, V) /\ StoreOf(con2, end, V, W, el, em, fc, home)
  BY <1>2, <1>7, <1>8, <1>9 DEF LiveOf, StoreOf
<1>11. ConsumerOK(s, end) /\ Seeing(s, hd, en, K, home)
  BY <1>4 DEF ConsumerOK, Seeing, Working
<1>12. Attentive(con2, end, hd, en, K, home)
  <2> SUFFICES ASSUME NEW d \in Consumers PROVE ConsumerOK(con2[d], end) /\ Seeing(con2[d], hd, en, K, home)
    BY DEF Attentive
  <2>1. CASE d = c
    BY <1>11, <2>1 DEF Turned
  <2>2. CASE d # c
    <3>1. con2[d] = con[d]
      BY <2>2 DEF Turned
    <3>2. ConsumerOK(con[d], first) /\ Seeing(con[d], hd, en, K, home)
      BY <1>1 DEF Attentive
    <3>3. first <= end
      BY <1>4
    <3> QED BY <1>4, <3>1, <3>2, <3>3, ClaimsOn
  <2> QED BY <2>1, <2>2
<1> QED BY <1>1, <1>7, <1>10, <1>12 DEF SubOK

\* The step after an element is read, whose block is found at home.
LEMMA StepRead ==
  ASSUME NEW con, NEW first, NEW hd, NEW en, NEW K, NEW lo, NEW M, NEW V, NEW W, NEW el, NEW em, NEW fc,
         NEW home, SubOK(con, first, hd, en, K, lo, M, V, W, el, em, fc, home),
         NEW c \in Consumers, NEW q, q = con[c], q.pc = "read", NEW b, b = home[Num(q.at)],
         NEW s, s = [pc |-> "empty", at |-> q.at, end |-> q.end, header |-> q.header, slot |-> q.slot,
                     block |-> b, read |-> [i \in Here(q) |-> el[b][Off(i)]]],
         NEW con2, Turned(con, con2, c, s), NEW el2, ReadOut(el, el2, b, Here(q))
  PROVE  SubOK(con2, first, hd, en, K, lo, M, V, W, el2, em, fc, home)
<1>1. /\ home \in [Nat -> Blocks \cup {NULL}]
      /\ IndexOK(hd, en, K, lo, M, LiveOf(con, first, V), home)
      /\ Attentive(con, first, hd, en, K, home) /\ Disjoint(con)
      /\ StoreOf(con, first, V, W, el, em, fc, home)
  BY DEF SubOK
<1>2. PICK A, U, X, F : /\ A = All(Opens(con)) /\ U = All(Unreads(con))
                        /\ X = All(Unlinks(con)) /\ F = All(Freeings(con))
  OBVIOUS
<1>3. Store(first, A, U, X, F, V, W, el, em, fc, home)
  BY <1>1, <1>2 DEF StoreOf
<1>4. /\ first \in Nat /\ W \in Nat /\ first <= W /\ A \subseteq Nat /\ U \subseteq A /\ \A i \in A : i < first
  BY <1>3 DEF Store, Taken
<1>5. ConsumerOK(q, first) /\ Seeing(q, hd, en, K, home)
  BY <1>1 DEF Attentive
<1>6. q.at \in Nat /\ q.end \in Nat /\ q.at < q.end /\ q.end <= first /\ q.slot \in Int
  BY <1>5 DEF ConsumerOK, Working
<1>7. Here(s) = Here(q) /\ Rest(s) = Rest(q) /\ Claim(s) = Claim(q) /\ Here(q) \subseteq Claim(q)
  BY DEF Here, Rest, Claim
<1>8. /\ Open(q) = Claim(q) /\ Unread(q) = Claim(q) /\ Unlinked(q) = {} /\ Freeing(q) = {}
      /\ Open(s) = Claim(q) /\ Unread(s) = Claim(q) \ Here(q) /\ Unlinked(s) = {} /\ Freeing(s) = {}
  BY <1>7 DEF Open, Unread, Unlinked, Freeing, Rest
<1>9. Claim(q) \subseteq A /\ Claim(q) \subseteq U
  BY <1>2, <1>8, HeldByAll
<1>10. PICK U2 : U2 = U \ Here(q)
  OBVIOUS
<1>11. /\ Disjoint(con2)
       /\ All(Opens(con2)) = A /\ All(Unreads(con2)) = U2
       /\ All(Unlinks(con2)) = X /\ All(Freeings(con2)) = F
  <2>1. Apart(con, c, s)
    BY <1>8 DEF Apart
  <2>2. Disjoint(con2) /\ AllAfter(con, con2, c, s)
    BY <1>1, <2>1, ConsumerTurns
  <2>3. /\ All(Opens(con2)) = (A \ Claim(q)) \cup Claim(q)
        /\ All(Unreads(con2)) = (U \ Claim(q)) \cup (Claim(q) \ Here(q))
        /\ All(Unlinks(con2)) = (X \ {}) \cup {} /\ All(Freeings(con2)) = (F \ {}) \cup {}
    BY <1>2, <1>8, <2>2 DEF AllAfter
  <2>4. (A \ Claim(q)) \cup Claim(q) = A
    BY <1>9
  <2>5. (U \ Claim(q)) \cup (Claim(q) \ Here(q)) = U2
    BY <1>7, <1>9, <1>10
  <2> QED BY <2>2, <2>3, <2>4, <2>5
<1>12. q.at \in Claim(q) /\ q.at \in Nat /\ q.at < W /\ q.at \in A
  <2>1. q.at \in Claim(q)
    BY <1>6 DEF Claim
  <2>2. q.at < W
    BY <1>4, <1>6
  <2> QED BY <1>6, <1>9, <2>1, <2>2
<1>13. PICK m \in Nat : m = Num(q.at) /\ m \in Live(first, A, X, V)
  <2>1. Num(q.at) \in Live(first, A, X, V)
    BY <1>3, <1>12, InLive DEF Store
  <2> QED BY <1>6, <2>1, NumNat
<1>14. Here(q) \subseteq U /\ \A i \in Here(q) : Num(i) = m
  BY <1>7, <1>9, <1>13 DEF Here
<1>15. Store(first, A, U2, X, F, V, W, el2, em, fc, home)
  BY <1>3, <1>10, <1>13, <1>14, StoreRead
<1>16. StoreOf(con2, first, V, W, el2, em, fc, home) /\ LiveOf(con2, first, V) = LiveOf(con, first, V)
  BY <1>2, <1>11, <1>15 DEF StoreOf, LiveOf
<1>17. ConsumerOK(s, first)
  BY <1>6 DEF ConsumerOK, Working
<1>18. Seeing(s, hd, en, K, home)
  <2>1. \A i \in Here(q) : el[b][Off(i)] = i
    <3> SUFFICES ASSUME NEW i \in Here(q) PROVE el[b][Off(i)] = i
      OBVIOUS
    <3>1. i \in U /\ i \in Nat /\ i < W /\ Num(i) = m
      <4>1. i \in U /\ i \in Nat /\ i < first /\ Num(i) = m
        BY <1>4, <1>14
      <4> QED BY <1>4, <4>1
    <3>2. el[home[Num(i)]][Off(i)] = i
      BY <1>3, <3>1 DEF Store, Written
    <3> QED BY <1>13, <3>1, <3>2
  <2>2. DOMAIN s.read = Here(s) /\ \A i \in Here(s) : s.read[i] = i
    BY <1>7, <2>1
  <2>3. Sought(s) = Sought(q)
    BY <1>8 DEF Sought
  <2>4. /\ q.header \in 1..Len(hd)
        /\ \A n \in Sought(q) : At(hd, q.header, K[q.header] + n) = EntryOf(hd, K, n)
        /\ Cong(q.slot, K[q.header] + Num(q.at), Laps(hd, q.header))
    BY <1>5 DEF Seeing, Working
  <2>5. s.pc = "empty" /\ s.header = q.header /\ s.slot = q.slot /\ s.at = q.at /\ s.block = b
    OBVIOUS
  <2> QED BY <2>2, <2>3, <2>4, <2>5 DEF Seeing
<1>19. Attentive(con2, first, hd, en, K, home)
  BY <1>1, <1>17, <1>18 DEF Attentive, Turned
<1> QED BY <1>1, <1>11, <1>16, <1>19 DEF SubOK

\* Onward: to the next block of the claim, if there is one.
Onwards(q, s, hd) ==
    IF q.at + Cardinality(Here(q)) = q.end THEN s = [pc |-> "idle"]
    ELSE s = [pc |-> "read", at |-> q.at + Cardinality(Here(q)), end |-> q.end, header |-> q.header,
              slot |-> (q.slot + 1) % Laps(hd, q.header)]

\* Going on leaves it with the elements of the blocks to come.
LEMMA OnwardFacts ==
  ASSUME NEW q, NEW s, NEW hd, NEW en, NEW K, NEW home, NEW first, HeadersOK(hd, en, K),
         ConsumerOK(q, first), Seeing(q, hd, en, K, home), q.pc \in {"empty", "free"}, Onwards(q, s, hd)
  PROVE  /\ ConsumerOK(s, first) /\ Seeing(s, hd, en, K, home)
         /\ Open(s) = Rest(q) /\ Unread(s) = Rest(q) /\ Unlinked(s) = {} /\ Freeing(s) = {}
<1>1. PICK a \in Nat, z \in Nat : /\ a = q.at /\ z = q.end /\ a < z /\ z <= first /\ q.slot \in Int
  BY DEF ConsumerOK, Working
<1>2. PICK k \in Nat \ {0} :
          /\ Cardinality(Here(q)) = k /\ a + k <= z /\ Rest(q) = a + k..z - 1 /\ Here(q) = a..a + k - 1
          /\ a + k # z => a + k < z /\ Num(a + k) = Num(a) + 1
  BY <1>1, HereFacts
<1>3. PICK i \in Nat : i = a + k /\ a < i
  BY <1>1, <1>2
<1>4. CASE i = z
  <2>1. s = [pc |-> "idle"]
    BY <1>1, <1>2, <1>3, <1>4 DEF Onwards
  <2>2. Rest(q) = {}
    BY <1>1, <1>2, <1>3, <1>4
  <2>3. ConsumerOK(s, first) /\ Seeing(s, hd, en, K, home)
    BY <2>1 DEF ConsumerOK, Seeing, Working
  <2>4. Open(s) = {} /\ Unread(s) = {} /\ Unlinked(s) = {} /\ Freeing(s) = {}
    BY <2>1 DEF Open, Unread, Unlinked, Freeing
  <2> QED BY <2>2, <2>3, <2>4
<1>5. CASE i # z
  <2>1. PICK w \in Nat \ {0}, t \in Int, k0 \in Int :
            w = Laps(hd, q.header) /\ t = q.slot /\ k0 = K[q.header]
    <3>1. q.header \in 1..Len(hd)
      BY DEF Seeing, Working
    <3>2. Laps(hd, q.header) \in Nat \ {0} /\ K[q.header] \in Int
      BY <3>1, AtFacts
    <3> QED BY <1>1, <3>2
  <2>2. s = [pc |-> "read", at |-> i, end |-> z, header |-> q.header, slot |-> (t + 1) % w]
    BY <1>1, <1>2, <1>3, <1>5, <2>1 DEF Onwards
  <2>3. i < z /\ Num(i) = Num(a) + 1 /\ Claim(s) = Rest(q)
    BY <1>1, <1>2, <1>3, <1>5, <2>2 DEF Claim
  <2>4. Open(s) = Rest(q) /\ Unread(s) = Rest(q) /\ Unlinked(s) = {} /\ Freeing(s) = {}
    BY <2>2, <2>3 DEF Open, Unread, Unlinked, Freeing
  <2>5. PICK x \in Int : x = (t + 1) % w /\ Cong(x, t + 1, w)
    <3>1. (t + 1) % w \in 0..w - 1 /\ Cong((t + 1) % w, t + 1, w)
      <4>1. PICK u \in Int : u = t + 1
        BY <2>1
      <4>2. u % w \in 0..w - 1 /\ Cong(u % w, u, w)
        BY <2>1, CongMod
      <4> QED BY <4>1, <4>2
    <3> QED BY <3>1
  <2>6. ConsumerOK(s, first)
    BY <1>1, <2>2, <2>3, <2>5 DEF ConsumerOK, Working
  <2>7. PICK n \in Int : n = Num(a) /\ Num(i) = n + 1
    BY <1>1, <2>3, NumNat
  <2>8. Cong(x, k0 + (n + 1), w)
    <3>1. Cong(t, k0 + n, w)
      BY <1>1, <2>1, <2>7 DEF Seeing
    <3>2. PICK u \in Int, v \in Int, y \in Int : u = t + 1 /\ v = k0 + n /\ y = k0 + (n + 1)
      BY <2>1, <2>7
    <3>3. u - y = t - v
      BY <2>1, <2>7, <3>2
    <3>4. Cong(u, y, w)
      <4>1. Cong(t, v, w) /\ t \in Int /\ w \in Nat \ {0}
        BY <2>1, <3>1, <3>2
      <4> QED BY <3>2, <3>3, <4>1, CongShift
    <3>5. Cong(x, y, w)
      BY <2>1, <2>5, <3>2, <3>4, CongThrough
    <3> QED BY <3>2, <3>5
  <2>9. Sought(s) \subseteq Sought(q)
    <3>1. Open(s) \subseteq Open(q)
      BY <2>4 DEF Open, Rest
    <3> QED BY <2>4, <3>1 DEF Sought
  <2>10. /\ q.header \in 1..Len(hd)
         /\ \A m \in Sought(q) : At(hd, q.header, K[q.header] + m) = EntryOf(hd, K, m)
    BY DEF Seeing, Working
  <2>11. s.pc = "read" /\ s.header = q.header /\ s.slot = x /\ s.at = i
    BY <2>2, <2>5
  <2>12. Cong(s.slot, K[s.header] + Num(s.at), Laps(hd, s.header))
    BY <2>1, <2>7, <2>8, <2>11
  <2>13. Seeing(s, hd, en, K, home)
    BY <2>9, <2>10, <2>11, <2>12 DEF Seeing
  <2> QED BY <2>4, <2>6, <2>13
<1> QED BY <1>4, <1>5

\* After n elements of its block are done with it leaves with it or goes on.
LeavesOrGoesOn(q, s, n, hd) == IF n = BlockSize THEN s = [q EXCEPT !.pc = "unlink"] ELSE Onwards(q, s, hd)

\* The consumer's blocks are told of the elements it has read.
LEMMA StepEmpty ==
  ASSUME NEW con, NEW first, NEW hd, NEW en, NEW K, NEW lo, NEW M, NEW V, NEW W, NEW el, NEW em, NEW fc,
         NEW home, SubOK(con, first, hd, en, K, lo, M, V, W, el, em, fc, home),
         NEW c \in Consumers, NEW q, q = con[c], q.pc = "empty", NEW b, b = home[Num(q.at)],
         NEW em2, Adds(em, em2, b, Cardinality(Here(q))),
         NEW s, LeavesOrGoesOn(q, s, em2[b], hd),
         NEW con2, Turned(con, con2, c, s)
  PROVE  SubOK(con2, first, hd, en, K, lo, M, V, W, el, em2, fc, home)
<1>1. /\ home \in [Nat -> Blocks \cup {NULL}]
      /\ IndexOK(hd, en, K, lo, M, LiveOf(con, first, V), home)
      /\ Attentive(con, first, hd, en, K, home) /\ Disjoint(con)
      /\ StoreOf(con, first, V, W, el, em, fc, home)
  BY DEF SubOK
<1>2. PICK A, U, X, F : /\ A = All(Opens(con)) /\ U = All(Unreads(con))
                        /\ X = All(Unlinks(con)) /\ F = All(Freeings(con))
  OBVIOUS
<1>3. Store(first, A, U, X, F, V, W, el, em, fc, home)
  BY <1>1, <1>2 DEF StoreOf
<1>4. /\ first \in Nat /\ W \in Nat /\ first <= W /\ A \subseteq Nat /\ U \subseteq A /\ \A i \in A : i < first
  BY <1>3 DEF Store, Taken
<1>5. ConsumerOK(q, first) /\ Seeing(q, hd, en, K, home) /\ HeadersOK(hd, en, K)
  BY <1>1 DEF Attentive, IndexOK
<1>6. /\ q.at \in Nat /\ q.end \in Nat /\ q.at < q.end /\ q.end <= first /\ q.slot \in Int
      /\ {"pc", "at", "end", "header", "slot", "block", "read"} \subseteq DOMAIN q
  BY <1>5 DEF ConsumerOK, Working
<1>7. PICK k \in Nat \ {0} : k = Cardinality(Here(q)) /\ IsFiniteSet(Here(q)) /\ Here(q) # {}
  <2>1. PICK k \in Nat \ {0} : Cardinality(Here(q)) = k /\ IsFiniteSet(Here(q))
    BY <1>6, HereFacts
  <2>2. Here(q) # {}
    BY <2>1, FS_EmptySet
  <2> QED BY <2>1, <2>2
<1>8. PICK m \in Nat : m = Num(q.at) /\ \A i \in Here(q) : Num(i) = m
  BY <1>6, NumNat DEF Here
<1>9. Here(q) \subseteq Claim(q) /\ Rest(q) = Claim(q) \ Here(q)
  BY DEF Here, Rest
<1>10. /\ Open(q) = Claim(q) /\ Unread(q) = Rest(q) /\ Unlinked(q) = {} /\ Freeing(q) = {}
  BY DEF Open, Unread, Unlinked, Freeing
<1>11. Claim(q) \subseteq A /\ Rest(q) \subseteq U
  BY <1>2, <1>10, HeldByAll
\* Others have none of its elements.
<1>12. Here(q) \cap U = {}
  <2> SUFFICES ASSUME NEW i \in Here(q), i \in U PROVE FALSE
    OBVIOUS
  <2>1. PICK d \in Consumers : i \in Unread(con[d])
    BY <1>2 DEF All, Unreads
  <2>2. d # c
    BY <1>9, <1>10, <2>1
  <2>3. Open(con[d]) \cap Open(con[c]) = {}
    BY <1>1, <2>2 DEF Disjoint, Pairwise, Opens
  <2>4. i \in Open(con[d])
    BY <2>1 DEF Unread, Open, Rest
  <2> QED BY <1>9, <1>10, <2>3, <2>4
<1>13. PICK A2, X2 : A2 = A \ Here(q) /\ X2 = LeavingAfter(first, A2, X, m)
  OBVIOUS
<1>14. /\ Store(first, A2, U, X2, F, V, W, el, em2, fc, home)
       /\ Live(first, A2, X2, V) = Live(first, A, X, V) /\ m \notin X
       /\ em2[b] = BlockSize <=> Left(first, A2, m) = {}
  <2>1. PICK H : H = Here(q)
    OBVIOUS
  <2>2. H # {} /\ H \subseteq A \ U /\ (\A i \in H : Num(i) = m) /\ IsFiniteSet(H) /\ Cardinality(H) = k
    BY <1>7, <1>8, <1>9, <1>11, <1>12, <2>1
  <2>3. Adds(em, em2, home[m], k) /\ A2 = A \ H /\ k \in Nat
    BY <1>7, <1>8, <1>13, <2>1
  <2>4. /\ Store(first, A2, U, X2, F, V, W, el, em2, fc, home)
        /\ Live(first, A2, X2, V) = Live(first, A, X, V) /\ m \in Live(first, A, X, V) /\ m \notin X
        /\ em2[home[m]] = BlockSize <=> Left(first, A2, m) = {}
    BY <1>3, <1>13, <2>2, <2>3, StoreEmpty
  <2> QED BY <1>8, <2>4
<1>15. /\ ConsumerOK(s, first) /\ Seeing(s, hd, en, K, home)
       /\ Open(s) = Rest(q) /\ Unread(s) = Rest(q) /\ Freeing(s) = {}
       /\ Unlinked(s) = IF Left(first, A2, m) = {} THEN {m} ELSE {}
  <2>1. CASE em2[b] = BlockSize
    <3>1. s = [q EXCEPT !.pc = "unlink"]
      BY <2>1 DEF LeavesOrGoesOn
    <3>2. /\ s.pc = "unlink" /\ s.at = q.at /\ s.end = q.end /\ s.header = q.header /\ s.slot = q.slot
          /\ s.block = q.block /\ s.read = q.read /\ DOMAIN s = DOMAIN q
      BY <1>6, <3>1
    <3>3. Here(s) = Here(q) /\ Rest(s) = Rest(q)
      BY <3>2 DEF Here, Rest, Claim
    <3>4. Open(s) = Rest(q) /\ Unread(s) = Rest(q) /\ Freeing(s) = {} /\ Unlinked(s) = {m}
      BY <1>8, <3>2, <3>3 DEF Open, Unread, Freeing, Unlinked
    <3>5. ConsumerOK(s, first)
      BY <1>6, <3>2 DEF ConsumerOK, Working
    <3>6. Sought(s) \subseteq Sought(q)
      <4>1. q.at \in Open(q)
        BY <1>6, <1>10 DEF Claim
      <4>2. m \in Sought(q)
        BY <1>8, <4>1 DEF Sought
      <4>3. Open(s) \subseteq Open(q)
        BY <1>9, <1>10, <3>4
      <4> QED BY <3>4, <4>2, <4>3 DEF Sought
    <3>7. Seeing(s, hd, en, K, home)
      <4>1. /\ q.header \in 1..Len(hd)
            /\ \A n \in Sought(q) : At(hd, q.header, K[q.header] + n) = EntryOf(hd, K, n)
            /\ Cong(q.slot, K[q.header] + Num(q.at), Laps(hd, q.header))
            /\ q.block = home[Num(q.at)] /\ DOMAIN q.read = Here(q) /\ \A i \in Here(q) : q.read[i] = i
        BY <1>5 DEF Seeing, Working
      <4> QED BY <3>2, <3>3, <3>6, <4>1 DEF Seeing
    <3> QED BY <1>14, <2>1, <3>4, <3>5, <3>7
  <2>2. CASE em2[b] # BlockSize
    <3>1. Onwards(q, s, hd)
      BY <2>2 DEF LeavesOrGoesOn
    <3>2. /\ ConsumerOK(s, first) /\ Seeing(s, hd, en, K, home)
          /\ Open(s) = Rest(q) /\ Unread(s) = Rest(q) /\ Unlinked(s) = {} /\ Freeing(s) = {}
      BY <1>5, <3>1, OnwardFacts
    <3> QED BY <1>14, <2>2, <3>2
  <2> QED BY <2>1, <2>2
<1>16. /\ Disjoint(con2)
       /\ All(Opens(con2)) = A2 /\ All(Unreads(con2)) = U
       /\ All(Unlinks(con2)) = X2 /\ All(Freeings(con2)) = F
  <2>1. Apart(con, c, s)
    BY <1>2, <1>9, <1>10, <1>14, <1>15 DEF Apart
  <2>2. Disjoint(con2) /\ AllAfter(con, con2, c, s)
    BY <1>1, <2>1, ConsumerTurns
  <2>3. /\ All(Opens(con2)) = (A \ Claim(q)) \cup Rest(q)
        /\ All(Unreads(con2)) = (U \ Rest(q)) \cup Rest(q)
        /\ All(Unlinks(con2)) = (X \ {}) \cup Unlinked(s) /\ All(Freeings(con2)) = (F \ {}) \cup {}
    BY <1>2, <1>10, <1>15, <2>2 DEF AllAfter
  <2>4. (A \ Claim(q)) \cup Rest(q) = A2
    BY <1>9, <1>11, <1>13
  <2>5. (U \ Rest(q)) \cup Rest(q) = U
    BY <1>11
  <2>6. (X \ {}) \cup Unlinked(s) = X2
    BY <1>13, <1>15 DEF LeavingAfter
  <2> QED BY <2>2, <2>3, <2>4, <2>5, <2>6
<1>17. StoreOf(con2, first, V, W, el, em2, fc, home) /\ LiveOf(con2, first, V) = LiveOf(con, first, V)
  BY <1>2, <1>14, <1>16 DEF StoreOf, LiveOf
<1>18. Attentive(con2, first, hd, en, K, home)
  BY <1>1, <1>15 DEF Attentive, Turned
<1> QED BY <1>1, <1>16, <1>17, <1>18 DEF SubOK

\* A step of the index misleads nobody.
LEMMA SeeingKeeps ==
  ASSUME NEW hd, NEW en, NEW K, HeadersOK(hd, en, K), NEW L, NEW hd2, NEW en2, NEW K2,
         IndexKeeps(hd, en, K, hd2, en2, K2, L), NEW home, NEW home2, \A n \in L : home2[n] = home[n],
         NEW s, NEW first, ConsumerOK(s, first), Seeing(s, hd, en, K, home), Sought(s) \subseteq L
  PROVE  Seeing(s, hd2, en2, K2, home2)
<1>1. /\ \A h \in 1..Len(hd) : h \in 1..Len(hd2) /\ hd2[h].slots = hd[h].slots /\ K2[h] = K[h]
      /\ \A n \in L : EntryOf(hd2, K2, n) = EntryOf(hd, K, n)
      /\ \A e \in 1..Len(en) : en[e].key # NULL => en2[e].key # NULL
  BY DEF IndexKeeps
<1>2. \A h \in 1..Len(hd) : Laps(hd2, h) = Laps(hd, h) /\ \A p : At(hd2, h, p) = At(hd, h, p)
  BY <1>1 DEF Laps, At
<1>3. s.pc \in Working \ {"header"} =>
        /\ s.header \in 1..Len(hd2)
        /\ \A n \in Sought(s) : At(hd2, s.header, K2[s.header] + n) = EntryOf(hd2, K2, n)
  <2> SUFFICES ASSUME s.pc \in Working \ {"header"}
               PROVE  /\ s.header \in 1..Len(hd2)
                      /\ \A n \in Sought(s) : At(hd2, s.header, K2[s.header] + n) = EntryOf(hd2, K2, n)
    OBVIOUS
  <2>1. /\ s.header \in 1..Len(hd)
        /\ \A n \in Sought(s) : At(hd, s.header, K[s.header] + n) = EntryOf(hd, K, n)
    BY DEF Seeing
  <2> QED BY <1>1, <1>2, <2>1
<1>4. s.pc = "locate" => en2[At(hd2, s.header, s.slot)].key # NULL
  <2> SUFFICES ASSUME s.pc = "locate" PROVE en2[At(hd2, s.header, s.slot)].key # NULL
    OBVIOUS
  <2>1. s.header \in 1..Len(hd) /\ en[At(hd, s.header, s.slot)].key # NULL /\ s.slot \in Int
    BY DEF Seeing, ConsumerOK, Working
  <2>2. At(hd, s.header, s.slot) \in 1..Len(en)
    BY <2>1, AtFacts
  <2> QED BY <1>1, <1>2, <2>1, <2>2
<1>5. s.pc \in {"read", "empty", "unlink", "free"} =>
        Cong(s.slot, K2[s.header] + Num(s.at), Laps(hd2, s.header))
  <2> SUFFICES ASSUME s.pc \in {"read", "empty", "unlink", "free"}
               PROVE  Cong(s.slot, K2[s.header] + Num(s.at), Laps(hd2, s.header))
    OBVIOUS
  <2>1. s.header \in 1..Len(hd) /\ Cong(s.slot, K[s.header] + Num(s.at), Laps(hd, s.header))
    BY DEF Seeing, Working
  <2> QED BY <1>1, <1>2, <2>1
<1>6. s.pc \in {"empty", "unlink"} => s.block = home2[Num(s.at)]
  <2> SUFFICES ASSUME s.pc \in {"empty", "unlink"} PROVE s.block = home2[Num(s.at)]
    OBVIOUS
  <2>1. s.block = home[Num(s.at)] /\ s.at \in s.at..s.end - 1
    BY DEF Seeing, ConsumerOK, Working
  <2>2. Num(s.at) \in Sought(s)
    <3>1. CASE s.pc = "empty"
      BY <2>1, <3>1 DEF Sought, Open, Claim
    <3>2. CASE s.pc = "unlink"
      BY <3>2 DEF Sought, Unlinked
    <3> QED BY <3>1, <3>2
  <2> QED BY <2>1, <2>2
<1>7. s.pc \in {"empty", "unlink", "free"} =>
        DOMAIN s.read = Here(s) /\ \A i \in Here(s) : s.read[i] = i
  BY DEF Seeing
<1> QED BY <1>3, <1>4, <1>5, <1>6, <1>7 DEF Seeing

\* The steps of the index, which leaves the blocks of those who look as they are.
LEMMA StepIndex ==
  ASSUME NEW con, NEW first, NEW hd, NEW en, NEW K, NEW lo, NEW M, NEW V, NEW W, NEW el, NEW em, NEW fc,
         NEW home, SubOK(con, first, hd, en, K, lo, M, V, W, el, em, fc, home),
         NEW hd2, NEW en2, NEW K2, IndexKeeps(hd, en, K, hd2, en2, K2, LiveOf(con, first, V)),
         NEW home2, \A n \in LiveOf(con, first, V) : home2[n] = home[n]
  PROVE  Attentive(con, first, hd2, en2, K2, home2)
<1>1. /\ IndexOK(hd, en, K, lo, M, LiveOf(con, first, V), home)
      /\ Attentive(con, first, hd, en, K, home) /\ StoreOf(con, first, V, W, el, em, fc, home)
      /\ HeadersOK(hd, en, K)
  BY DEF SubOK, IndexOK
<1>2. ASSUME NEW c \in Consumers PROVE ConsumerOK(con[c], first) /\ Seeing(con[c], hd2, en2, K2, home2)
  <2>1. Sought(con[c]) \subseteq LiveOf(con, first, V)
    BY <1>1, SoughtLive
  <2>2. ConsumerOK(con[c], first) /\ Seeing(con[c], hd, en, K, home)
    BY <1>1 DEF Attentive
  <2> QED BY <1>1, <2>1, <2>2, SeeingKeeps
<1> QED BY <1>2 DEF Attentive

\* Its block leaves the live ones.
LEMMA UnlinkStored ==
  ASSUME NEW con, NEW first, NEW V, NEW W, NEW el, NEW em, NEW fc, NEW home,
         StoreOf(con, first, V, W, el, em, fc, home),
         NEW m, m \in All(Unlinks(con)), m \in LiveOf(con, first, V)
  PROVE  /\ Store(first, All(Opens(con)), All(Unreads(con)), All(Unlinks(con)) \ {m},
                  All(Freeings(con)) \cup {home[m]}, V, W, el, em, fc, home)
         /\ Live(first, All(Opens(con)), All(Unlinks(con)) \ {m}, V) = LiveOf(con, first, V) \ {m}
         /\ home[m] \notin All(Freeings(con))
  BY StoreUnlink DEF StoreOf, LiveOf

\* Unlink: the entry of a block that nobody looks for any more is emptied.
LEMMA StepUnlink ==
  ASSUME NEW con, NEW first, NEW hd, NEW en, NEW K, NEW lo, NEW M, NEW V, NEW W, NEW el, NEW em, NEW fc,
         NEW home, SubOK(con, first, hd, en, K, lo, M, V, W, el, em, fc, home),
         NEW c \in Consumers, NEW q, q = con[c], q.pc = "unlink", NEW e, e = At(hd, q.header, q.slot),
         NEW en2, en2 = [en EXCEPT ![e].value = NULL], NEW s, s = [q EXCEPT !.pc = "free"],
         NEW con2, Turned(con, con2, c, s)
  PROVE  SubOK(con2, first, hd, en2, K, lo, M, V, W, el, em, fc, home)
<1>1. /\ home \in [Nat -> Blocks \cup {NULL}]
      /\ IndexOK(hd, en, K, lo, M, LiveOf(con, first, V), home)
      /\ Attentive(con, first, hd, en, K, home) /\ Disjoint(con)
      /\ StoreOf(con, first, V, W, el, em, fc, home)
  BY DEF SubOK
<1>2. PICK A, U, X, F : /\ A = All(Opens(con)) /\ U = All(Unreads(con))
                        /\ X = All(Unlinks(con)) /\ F = All(Freeings(con))
  OBVIOUS
<1>3. Store(first, A, U, X, F, V, W, el, em, fc, home)
  BY <1>1, <1>2 DEF StoreOf
<1>4. ConsumerOK(q, first) /\ Seeing(q, hd, en, K, home)
  BY <1>1 DEF Attentive
<1>5. HeadersOK(hd, en, K) /\ Mapped(hd, en, K) /\ InOrder(hd, en, K, lo, M, LiveOf(con, first, V), home)
  BY <1>1 DEF IndexOK
<1>6. /\ q.at \in Nat /\ q.end \in Nat /\ q.at < q.end /\ q.end <= first /\ q.slot \in Int
      /\ {"pc", "at", "end", "header", "slot", "block", "read"} \subseteq DOMAIN q
  BY <1>4 DEF ConsumerOK, Working
<1>7. PICK m \in Nat : m = Num(q.at) /\ Unlinked(q) = {m} /\ m \in X
  <2>1. Num(q.at) \in Nat /\ Unlinked(q) = {Num(q.at)}
    BY <1>6, NumNat DEF Unlinked
  <2>2. Unlinked(q) \subseteq X
    BY <1>2, HeldByAll
  <2> QED BY <2>1, <2>2
<1>8. PICK L : L = LiveOf(con, first, V) /\ L = Live(first, A, X, V) /\ m \in L
  <2>1. m \in Live(first, A, X, V)
    BY <1>3, <1>7, LeavingLive DEF Store
  <2> QED BY <1>2, <2>1 DEF LiveOf
<1>9. e = EntryOf(hd, K, m)
  <2>1. /\ q.header \in 1..Len(hd) /\ Cong(q.slot, K[q.header] + m, Laps(hd, q.header))
        /\ m \in Sought(q) => At(hd, q.header, K[q.header] + m) = EntryOf(hd, K, m)
    BY <1>4, <1>7 DEF Seeing, Working
  <2>2. m \in Sought(q)
    BY <1>7 DEF Sought
  <2>3. PICK x \in Int : x = K[q.header] + m
    BY <1>5, <2>1, AtFacts
  <2>4. At(hd, q.header, q.slot) = At(hd, q.header, x)
    BY <1>5, <1>6, <2>1, <2>3, AtFacts
  <2> QED BY <2>1, <2>2, <2>3, <2>4
<1>10. OneEntry(en, en2, e, [key |-> m * BlockSize, value |-> NULL])
  <2>1. e \in 1..Len(en) /\ en[e] \in EntryRec
    <3>1. m \in Int
      OBVIOUS
    <3> QED BY <1>5, <1>9, <3>1, LastFacts
  <2>2. en[e].key = m * BlockSize
    <3>1. L \subseteq lo..M /\ \A n \in lo..M : en[EntryOf(hd, K, n)].key = n * BlockSize
      BY <1>5, <1>8 DEF InOrder
    <3> QED BY <1>8, <1>9, <3>1
  <2>3. PICK x : x = [key |-> m * BlockSize, value |-> NULL]
    OBVIOUS
  <2>4. x \in EntryRec /\ [en[e] EXCEPT !.value = NULL] = x
    BY <2>1, <2>2, <2>3 DEF EntryRec
  <2>5. en \in Seq(EntryRec)
    BY <1>5 DEF HeadersOK
  <2>6. en2 = [en EXCEPT ![e] = x]
    BY <2>4
  <2>7. OneEntry(en, en2, e, x)
    BY <2>1, <2>4, <2>5, <2>6, OneChanged
  <2> QED BY <2>3, <2>7
<1>11. IndexOK(hd, en2, K, lo, M, L \ {m}, home) /\ IndexKeeps(hd, en, K, hd, en2, K, L)
  BY <1>1, <1>8, <1>9, <1>10, IndexDrop
<1>12. PICK X2, F2 : X2 = X \ {m} /\ F2 = F \cup {home[m]}
  OBVIOUS
<1>13. /\ Store(first, A, U, X2, F2, V, W, el, em, fc, home)
       /\ Live(first, A, X2, V) = L \ {m} /\ home[m] \notin F
  <2>1. m \in All(Unlinks(con)) /\ m \in LiveOf(con, first, V)
    BY <1>2, <1>7, <1>8
  <2>2. /\ Store(first, All(Opens(con)), All(Unreads(con)), All(Unlinks(con)) \ {m},
                All(Freeings(con)) \cup {home[m]}, V, W, el, em, fc, home)
        /\ Live(first, All(Opens(con)), All(Unlinks(con)) \ {m}, V) = LiveOf(con, first, V) \ {m}
        /\ home[m] \notin All(Freeings(con))
    BY <1>1, <2>1, UnlinkStored
  <2> QED BY <1>2, <1>8, <1>12, <2>2
<1>14. /\ s.pc = "free" /\ s.at = q.at /\ s.end = q.end /\ s.header = q.header /\ s.slot = q.slot
       /\ s.block = q.block /\ s.read = q.read /\ DOMAIN s = DOMAIN q
  BY <1>6
<1>15. Here(s) = Here(q) /\ Rest(s) = Rest(q)
  BY <1>14 DEF Here, Rest, Claim
<1>16. /\ Open(q) = Rest(q) /\ Unread(q) = Rest(q) /\ Freeing(q) = {}
       /\ Open(s) = Rest(q) /\ Unread(s) = Rest(q) /\ Unlinked(s) = {} /\ Freeing(s) = {home[m]}
  <2>1. q.block = home[m]
    BY <1>4, <1>7 DEF Seeing
  <2> QED BY <1>14, <1>15, <2>1 DEF Open, Unread, Unlinked, Freeing
<1>17. /\ Disjoint(con2)
       /\ All(Opens(con2)) = A /\ All(Unreads(con2)) = U
       /\ All(Unlinks(con2)) = X2 /\ All(Freeings(con2)) = F2
  <2>1. Apart(con, c, s)
    BY <1>2, <1>13, <1>16 DEF Apart
  <2>2. Disjoint(con2) /\ AllAfter(con, con2, c, s)
    BY <1>1, <2>1, ConsumerTurns
  <2>3. /\ All(Opens(con2)) = (A \ Rest(q)) \cup Rest(q)
        /\ All(Unreads(con2)) = (U \ Rest(q)) \cup Rest(q)
        /\ All(Unlinks(con2)) = (X \ {m}) \cup {} /\ All(Freeings(con2)) = (F \ {}) \cup {home[m]}
    BY <1>2, <1>7, <1>16, <2>2 DEF AllAfter
  <2>4. Rest(q) \subseteq A /\ Rest(q) \subseteq U
    BY <1>2, <1>16, HeldByAll
  <2> QED BY <1>12, <2>2, <2>3, <2>4
<1>18. StoreOf(con2, first, V, W, el, em, fc, home) /\ LiveOf(con2, first, V) = L \ {m}
  BY <1>13, <1>17 DEF StoreOf, LiveOf
<1>19. Attentive(con, first, hd, en2, K, home)
  <2>1. IndexKeeps(hd, en, K, hd, en2, K, LiveOf(con, first, V))
    BY <1>8, <1>11
  <2>2. \A n \in LiveOf(con, first, V) : home[n] = home[n]
    OBVIOUS
  <2> QED BY <2>1, <2>2, StepIndex
<1>20. ConsumerOK(s, first)
  BY <1>6, <1>14 DEF ConsumerOK, Working
<1>21. Seeing(s, hd, en2, K, home)
  <2>1. Seeing(q, hd, en2, K, home)
    BY <1>19 DEF Attentive
  <2>2. Sought(s) \subseteq Sought(q)
    BY <1>16 DEF Sought
  <2> QED BY <1>14, <1>15, <2>1, <2>2 DEF Seeing, Working
<1>22. Attentive(con2, first, hd, en2, K, home)
  BY <1>19, <1>20, <1>21 DEF Attentive, Turned
<1> QED BY <1>1, <1>11, <1>17, <1>18, <1>22 DEF SubOK

\* FreeBlock.
LEMMA StepFree ==
  ASSUME NEW con, NEW first, NEW hd, NEW en, NEW K, NEW lo, NEW M, NEW V, NEW W, NEW el, NEW em, NEW fc,
         NEW home, SubOK(con, first, hd, en, K, lo, M, V, W, el, em, fc, home),
         NEW c \in Consumers, NEW q, q = con[c], q.pc = "free",
         NEW fc2, fc2 = [fc EXCEPT ![q.block] = @ + 1], NEW s, Onwards(q, s, hd),
         NEW con2, Turned(con, con2, c, s)
  PROVE  SubOK(con2, first, hd, en, K, lo, M, V, W, el, em, fc2, home)
<1>1. /\ home \in [Nat -> Blocks \cup {NULL}]
      /\ IndexOK(hd, en, K, lo, M, LiveOf(con, first, V), home)
      /\ Attentive(con, first, hd, en, K, home) /\ Disjoint(con)
      /\ StoreOf(con, first, V, W, el, em, fc, home)
  BY DEF SubOK
<1>2. PICK A, U, X, F : /\ A = All(Opens(con)) /\ U = All(Unreads(con))
                        /\ X = All(Unlinks(con)) /\ F = All(Freeings(con))
  OBVIOUS
<1>3. Store(first, A, U, X, F, V, W, el, em, fc, home)
  BY <1>1, <1>2 DEF StoreOf
<1>4. ConsumerOK(q, first) /\ Seeing(q, hd, en, K, home) /\ HeadersOK(hd, en, K)
  BY <1>1 DEF Attentive, IndexOK
<1>5. /\ ConsumerOK(s, first) /\ Seeing(s, hd, en, K, home)
      /\ Open(s) = Rest(q) /\ Unread(s) = Rest(q) /\ Unlinked(s) = {} /\ Freeing(s) = {}
  BY <1>4, OnwardFacts
<1>6. PICK b : b = q.block /\ Freeing(q) = {b} /\ Open(q) = Rest(q) /\ Unread(q) = Rest(q) /\ Unlinked(q) = {}
  BY DEF Freeing, Open, Unread, Unlinked
<1>7. b \in F /\ Rest(q) \subseteq A /\ Rest(q) \subseteq U
  BY <1>2, <1>6, HeldByAll
<1>8. PICK F2 : F2 = F \ {b}
  OBVIOUS
<1>9. Store(first, A, U, X, F2, V, W, el, em, fc2, home)
  BY <1>3, <1>6, <1>7, <1>8, StoreFree
<1>10. /\ Disjoint(con2)
       /\ All(Opens(con2)) = A /\ All(Unreads(con2)) = U
       /\ All(Unlinks(con2)) = X /\ All(Freeings(con2)) = F2
  <2>1. Apart(con, c, s)
    BY <1>5, <1>6 DEF Apart
  <2>2. Disjoint(con2) /\ AllAfter(con, con2, c, s)
    BY <1>1, <2>1, ConsumerTurns
  <2>3. /\ All(Opens(con2)) = (A \ Rest(q)) \cup Rest(q)
        /\ All(Unreads(con2)) = (U \ Rest(q)) \cup Rest(q)
        /\ All(Unlinks(con2)) = (X \ {}) \cup {} /\ All(Freeings(con2)) = (F \ {b}) \cup {}
    BY <1>2, <1>5, <1>6, <2>2 DEF AllAfter
  <2> QED BY <1>7, <1>8, <2>2, <2>3
<1>11. StoreOf(con2, first, V, W, el, em, fc2, home) /\ LiveOf(con2, first, V) = LiveOf(con, first, V)
  BY <1>2, <1>9, <1>10 DEF StoreOf, LiveOf
<1>12. Attentive(con2, first, hd, en, K, home)
  BY <1>1, <1>5 DEF Attentive, Turned
<1> QED BY <1>1, <1>10, <1>11, <1>12 DEF SubOK

-----------------------------------------------------------------------------
(* The steps of an implicit producer.                                      *)

\* An index that knows one more block, in the same blocks.
LEMMA StepNewest ==
  ASSUME NEW con, NEW first, NEW hd, NEW en, NEW K, NEW lo, NEW M, NEW V, NEW W, NEW el, NEW em, NEW fc,
         NEW home, SubOK(con, first, hd, en, K, lo, M, V, W, el, em, fc, home),
         NEW hd2, NEW en2, NEW K2, NEW lo2, NEW M2,
         IndexOK(hd2, en2, K2, lo2, M2, LiveOf(con, first, V), home),
         IndexKeeps(hd, en, K, hd2, en2, K2, LiveOf(con, first, V))
  PROVE  SubOK(con, first, hd2, en2, K2, lo2, M2, V, W, el, em, fc, home)
<1>1. \A n \in LiveOf(con, first, V) : home[n] = home[n]
  OBVIOUS
<1>2. Attentive(con, first, hd2, en2, K2, home)
  BY <1>1, StepIndex
<1> QED BY <1>2 DEF SubOK

\* requisition_block: the newest entry gets its block.
LEMMA FilledEntry ==
  ASSUME NEW hd, NEW en, NEW K, NEW lo, NEW M \in Nat, NEW L, NEW home, IndexOK(hd, en, K, lo, M, L, home),
         lo <= M, NEW b \in Blocks, NEW e, e = EntryOf(hd, K, M), NEW en2, en2 = [en EXCEPT ![e].value = b]
  PROVE  OneEntry(en, en2, e, [key |-> M * BlockSize, value |-> b])
<1>1. HeadersOK(hd, en, K) /\ Mapped(hd, en, K) /\ InOrder(hd, en, K, lo, M, L, home)
  BY DEF IndexOK
<1>2. e \in 1..Len(en) /\ en[e] \in EntryRec /\ en \in Seq(EntryRec)
  <2>1. M \in Int
    OBVIOUS
  <2> QED BY <1>1, <2>1, LastFacts DEF HeadersOK
<1>3. en[e].key = M * BlockSize
  <2>1. lo \in Nat /\ \A n \in lo..M : en[EntryOf(hd, K, n)].key = n * BlockSize
    BY <1>1 DEF InOrder
  <2>2. M \in lo..M
    BY <2>1
  <2> QED BY <2>1, <2>2
<1>4. PICK x : x = [key |-> M * BlockSize, value |-> b]
  OBVIOUS
<1>5. x \in EntryRec /\ [en[e] EXCEPT !.value = b] = x
  BY <1>2, <1>3, <1>4 DEF EntryRec
<1>6. OneEntry(en, en2, e, x)
  <2>1. en2 = [en EXCEPT ![e] = x]
    BY <1>5
  <2> QED BY <1>2, <1>5, <2>1, OneChanged
<1> QED BY <1>4, <1>6

\* TakeBlock: the newest entry has its block, and consumers see no difference.
LEMMA StepTake ==
  ASSUME NEW con, NEW first, NEW hd, NEW en, NEW K, NEW lo, NEW M \in Nat, NEW V, NEW W, NEW el, NEW em, NEW fc,
         NEW home, SubOK(con, first, hd, en, K, lo, M, V, W, el, em, fc, home),
         M = V + 1, lo <= M, NEW b \in Blocks, fc[b] > 0, NEW e, e = EntryOf(hd, K, M),
         NEW en2, OneEntry(en, en2, e, [key |-> M * BlockSize, value |-> b]),
         NEW em2, NEW fc2, NEW home2, Adopted(em, em2, fc, fc2, home, home2, M, b)
  PROVE  SubOK(con, first, hd, en2, K, lo, M, M, W, el, em2, fc2, home2)
<1>1. /\ home \in [Nat -> Blocks \cup {NULL}]
      /\ IndexOK(hd, en, K, lo, M, LiveOf(con, first, V), home)
      /\ Attentive(con, first, hd, en, K, home) /\ Disjoint(con)
      /\ StoreOf(con, first, V, W, el, em, fc, home)
  BY DEF SubOK
<1>2. PICK A, U, X, F : /\ A = All(Opens(con)) /\ U = All(Unreads(con))
                        /\ X = All(Unlinks(con)) /\ F = All(Freeings(con))
  OBVIOUS
<1>3. Store(first, A, U, X, F, V, W, el, em, fc, home)
  BY <1>1, <1>2 DEF StoreOf
<1>4. PICK L : L = LiveOf(con, first, V) /\ L = Live(first, A, X, V)
  BY <1>2 DEF LiveOf
<1>5. /\ Store(first, A, U, X, F, M, W, el, em2, fc2, home2)
      /\ Live(first, A, X, M) = L \cup {M} /\ M \notin L
  BY <1>1, <1>3, <1>4, StoreTake
<1>6. home2[M] = b /\ (\A n \in L : home2[n] = home[n]) /\ home2 \in [Nat -> Blocks \cup {NULL}]
  <2>1. L \subseteq Nat
    BY <1>4 DEF Live
  <2> QED BY <1>1, <1>5, <2>1 DEF Adopted
<1>14. IndexOK(hd, en, K, lo, M, L, home)
  BY <1>1, <1>4
<1>15. IndexOK(hd, en2, K, lo, M, L \cup {M}, home2) /\ IndexKeeps(hd, en, K, hd, en2, K, L)
  BY <1>5, <1>6, <1>14, IndexSet
<1>16. Attentive(con, first, hd, en2, K, home2)
  <2>1. IndexKeeps(hd, en, K, hd, en2, K, LiveOf(con, first, V))
    BY <1>4, <1>15
  <2>2. \A n \in LiveOf(con, first, V) : home2[n] = home[n]
    BY <1>4, <1>6
  <2> QED BY <2>1, <2>2, StepIndex
<1>17. StoreOf(con, first, M, W, el, em2, fc2, home2) /\ LiveOf(con, first, M) = L \cup {M}
  BY <1>2, <1>5 DEF StoreOf, LiveOf
<1> QED BY <1>1, <1>6, <1>15, <1>16, <1>17 DEF SubOK

\* What a call that gives up has taken goes back.
LEMMA StepGiveUp ==
  ASSUME NEW con, NEW first, NEW hd, NEW en, NEW K, NEW lo, NEW M, NEW V, NEW W, NEW el, NEW em, NEW fc,
         NEW home, SubOK(con, first, hd, en, K, lo, M, V, W, el, em, fc, home),
         NEW N \in Int, -1 <= N, N <= V, M = V \/ (M = V + 1 /\ lo <= M),
         \A i \in Nat : i < W => Num(i) <= N, NEW d \in Nat, N = M - d,
         NEW en2, Undone(hd, en, K, M, d, en2),
         NEW hd2, Remarked(hd, hd2, (hd[Len(hd)].mark - d) % Laps(hd, Len(hd))),
         NEW fc2, GivenBack(fc, fc2, home, N, V)
  PROVE  SubOK(con, first, hd2, en2, K, lo, N, N, W, el, em, fc2, home)
<1>1. /\ home \in [Nat -> Blocks \cup {NULL}]
      /\ IndexOK(hd, en, K, lo, M, LiveOf(con, first, V), home)
      /\ Attentive(con, first, hd, en, K, home) /\ Disjoint(con)
      /\ StoreOf(con, first, V, W, el, em, fc, home)
  BY DEF SubOK
<1>2. PICK A, U, X, F : /\ A = All(Opens(con)) /\ U = All(Unreads(con))
                        /\ X = All(Unlinks(con)) /\ F = All(Freeings(con))
  OBVIOUS
<1>3. Store(first, A, U, X, F, V, W, el, em, fc, home)
  BY <1>1, <1>2 DEF StoreOf
<1>4. PICK L : L = LiveOf(con, first, V) /\ L = Live(first, A, X, V)
  BY <1>2 DEF LiveOf
<1>5. /\ Store(first, A, U, X, F, N, W, el, em, fc2, home)
      /\ Live(first, A, X, N) = {n \in L : n <= N} /\ N + 1..V \subseteq L
  BY <1>3, <1>4, StoreGiveUp
<1>6. IndexOK(hd, en, K, lo, M, L, home) /\ InOrder(hd, en, K, lo, M, L, home)
  BY <1>1, <1>4 DEF IndexOK
<1>7. M \in Int /\ lo \in Nat /\ lo <= M + 1 /\ L \subseteq lo..M /\ V \in Int
  BY <1>3, <1>6 DEF InOrder, Store, Taken
<1>8. d \in Nat /\ M - d = N /\ lo <= N + 1
  <2>1. N < V => lo <= N + 1
    <3> SUFFICES ASSUME N < V PROVE lo <= N + 1
      OBVIOUS
    <3>1. N + 1 \in N + 1..V
      BY <1>7
    <3>2. N + 1 \in lo..M
      BY <1>5, <1>7, <3>1
    <3> QED BY <1>7, <3>2
  <2>2. M \in Int /\ V \in Int /\ N \in Int /\ lo \in Nat /\ lo <= M + 1
    BY <1>7
  <2>3. d \in Nat /\ M - d = N
    BY <2>2
  <2> QED BY <2>1, <2>2, <2>3
<1>9. /\ IndexOK(hd2, en2, K, lo, M - d, {n \in L : n <= M - d}, home)
      /\ IndexKeeps(hd, en, K, hd2, en2, K, L)
  <2>1. -1 <= M - d /\ lo <= M - d + 1
    BY <1>8
  <2> QED BY <1>6, <2>1, IndexUndo
<1>10. Attentive(con, first, hd2, en2, K, home)
  <2>1. IndexKeeps(hd, en, K, hd2, en2, K, LiveOf(con, first, V))
    BY <1>4, <1>9
  <2>2. \A n \in LiveOf(con, first, V) : home[n] = home[n]
    OBVIOUS
  <2> QED BY <2>1, <2>2, StepIndex
<1>11. StoreOf(con, first, N, W, el, em, fc2, home) /\ LiveOf(con, first, N) = {n \in L : n <= N}
  BY <1>2, <1>5 DEF StoreOf, LiveOf
<1>12. IndexOK(hd2, en2, K, lo, N, LiveOf(con, first, N), home)
  BY <1>8, <1>9, <1>11
<1> QED BY <1>1, <1>10, <1>11, <1>12 DEF SubOK

\* The elements of the call are constructed.
LEMMA StepWrite ==
  ASSUME NEW con, NEW first, NEW hd, NEW en, NEW K, NEW lo, NEW M, NEW V, NEW W, NEW el, NEW em, NEW fc,
         NEW home, SubOK(con, first, hd, en, K, lo, M, V, W, el, em, fc, home),
         NEW W2 \in Nat, W <= W2, \A i \in Nat : i < W2 => Num(i) <= V,
         NEW el2, el2 = [b \in Blocks |-> [o \in 0..BlockSize - 1 |->
                           LET here == {j \in W..W2 - 1 : home[Num(j)] = b /\ Off(j) = o}
                           IN  IF here = {} THEN el[b][o] ELSE CHOOSE j \in here : TRUE]]
  PROVE  SubOK(con, first, hd, en, K, lo, M, V, W2, el2, em, fc, home)
<1>1. /\ home \in [Nat -> Blocks \cup {NULL}]
      /\ IndexOK(hd, en, K, lo, M, LiveOf(con, first, V), home)
      /\ Attentive(con, first, hd, en, K, home) /\ Disjoint(con)
      /\ StoreOf(con, first, V, W, el, em, fc, home)
  BY DEF SubOK
<1>2. StoreOf(con, first, V, W2, el2, em, fc, home)
  BY <1>1, StoreWrite DEF StoreOf
<1> QED BY <1>1, <1>2 DEF SubOK

\* A function on 1..s is a sequence.
LEMMA AsSequence ==
  ASSUME NEW s \in Nat, NEW S, NEW f \in [1..s -> S]
  PROVE  f \in Seq(S) /\ Len(f) = s
  OBVIOUS

Joins(a, b, c) == c = a \o b
Joined(a, b, c) ==
    /\ Len(c) = Len(a) + Len(b)
    /\ \A i \in 1..Len(a) : c[i] = a[i]
    /\ \A i \in 1..Len(b) : c[Len(a) + i] = b[i]

\* Concatenation, place by place.
LEMMA Joining ==
  ASSUME NEW S, NEW a \in Seq(S), NEW b \in Seq(S), NEW c, Joins(a, b, c)
  PROVE  c \in Seq(S) /\ Joined(a, b, c)
<1>0. PICK n \in Nat, k \in Nat : n = Len(a) /\ k = Len(b)
  OBVIOUS
<1>1. \A i \in 1..n : i \in 1..n + k
  OBVIOUS
<1>2. \A i \in 1..k : n + i \in 1..n + k /\ ~(n + i <= n) /\ n + i - n = i
  OBVIOUS
<1>3. a \o b \in Seq(S) /\ Len(a \o b) = n + k
  BY <1>0
<1>4. \A i \in 1..n : (a \o b)[i] = a[i]
  BY <1>0, <1>1
<1>5. \A i \in 1..k : (a \o b)[n + i] = b[i]
  BY <1>0, <1>2
<1> QED BY <1>0, <1>3, <1>4, <1>5 DEF Joins, Joined

\* ImplicitProducer::new_block_index makes such an index.
OldTurned(hd) == LET T == Len(hd) IN [i \in 1..Laps(hd, T) |-> At(hd, T, hd[T].mark + i)]
FreshOnes(hd, en) == [i \in 1..Laps(hd, Len(hd)) |-> Len(en) + i]
NewEntries(hd, M) ==
    [i \in 1..Laps(hd, Len(hd)) |->
       IF i = 1 THEN [key |-> (M + 1) * BlockSize, value |-> NULL] ELSE [key |-> NULL, value |-> NULL]]

Doubling(hd, en, M, hd2, en2) ==
    /\ hd2 = Append(hd, [mark |-> Laps(hd, Len(hd)), slots |-> OldTurned(hd) \o FreshOnes(hd, en)])
    /\ en2 = en \o NewEntries(hd, M)

NextPlace(K, T, lo, K2) == K2 = [h \in 1..T + 1 |-> IF h = T + 1 THEN -lo ELSE K[h]]

\* It is a grown index, whose blocks find their entries from place -lo on.
LEMMA IndexDoubled ==
  ASSUME NEW hd, NEW en, NEW K, NEW lo, NEW M, NEW L, NEW home, IndexOK(hd, en, K, lo, M, L, home),
         lo = M + 1 - Laps(hd, Len(hd)), NEW hd2, NEW en2, Doubling(hd, en, M, hd2, en2),
         NEW K2, NextPlace(K, Len(hd), lo, K2)
  PROVE  Grown(hd, en, K, lo, M, hd2, en2, K2)
<1>0. PICK T, s, x : T = Len(hd) /\ s = Laps(hd, T) /\ x = [key |-> (M + 1) * BlockSize, value |-> NULL]
  OBVIOUS
<1>1. HeadersOK(hd, en, K) /\ Mapped(hd, en, K) /\ InOrder(hd, en, K, lo, M, L, home)
  BY DEF IndexOK
<1>2. en \in Seq(EntryRec) /\ hd \in Seq(HeaderRec) /\ T \in Nat \ {0} /\ T \in 1..Len(hd)
      /\ K \in [1..T -> Int]
  BY <1>0, <1>1 DEF HeadersOK
<1>3. s \in Nat \ {0} /\ K[T] \in Int
  BY <1>0, <1>1, <1>2, AtFacts
<1>4. /\ M \in Int /\ lo \in Nat /\ hd[T].mark \in Nat
      /\ Cong(hd[T].mark, K[T] + M, s) /\ lo = M + 1 - s
  <2>1. hd[T].mark \in Nat
    BY <1>0, <1>1, <1>2, MarkNat
  <2> QED BY <1>0, <1>1, <2>1 DEF InOrder
<1>5. PICK z \in Nat, m \in Nat, k \in Int : z = Len(en) /\ m = hd[T].mark /\ k = K[T]
  <2>1. Len(en) \in Nat
    BY <1>2
  <2> QED BY <1>3, <1>4, <2>1
<1>6. PICK old, fresh, add :
          /\ old = OldTurned(hd) /\ fresh = FreshOnes(hd, en) /\ add = NewEntries(hd, M)
          /\ old = [i \in 1..s |-> At(hd, T, m + i)] /\ fresh = [i \in 1..s |-> z + i]
          /\ add = [i \in 1..s |-> IF i = 1 THEN x ELSE [key |-> NULL, value |-> NULL]]
  BY <1>0, <1>5 DEF OldTurned, FreshOnes, NewEntries
<1>7. \A i \in 1..s : At(hd, T, m + i) \in 1..z
  <2> SUFFICES ASSUME NEW i \in 1..s PROVE At(hd, T, m + i) \in 1..z
    OBVIOUS
  <2>1. PICK p \in Int : p = m + i
    BY <1>3
  <2> QED BY <1>1, <1>2, <1>5, <2>1, AtFacts
<1>8. old \in Seq(Nat) /\ Len(old) = s /\ fresh \in Seq(Nat) /\ Len(fresh) = s
  <2>1. s \in Nat
    BY <1>3
  <2>2. \A i \in 1..s : At(hd, T, m + i) \in Nat /\ z + i \in Nat
    BY <1>5, <1>7
  <2>3. old \in [1..s -> Nat] /\ fresh \in [1..s -> Nat]
    BY <1>6, <2>2
  <2> QED BY <2>1, <2>3, AsSequence
<1>9. PICK all : Joins(old, fresh, all)
  BY DEF Joins
<1>10. /\ all \in Seq(Nat) /\ Len(all) = 2 * s
       /\ \A r \in 0..s - 1 : all[r + 1] = old[r + 1] /\ all[s + r + 1] = fresh[r + 1]
  <2>1. s \in Nat
    BY <1>3
  <2>2. /\ all \in Seq(Nat) /\ Len(all) = s + s
        /\ (\A i \in 1..s : all[i] = old[i]) /\ \A i \in 1..s : all[s + i] = fresh[i]
    <3>1. all \in Seq(Nat) /\ Joined(old, fresh, all)
      BY <1>8, <1>9, Joining
    <3> QED BY <1>8, <3>1 DEF Joined
  <2>3. \A r \in 0..s - 1 : r + 1 \in 1..s /\ s + r + 1 = s + (r + 1)
    BY <2>1
  <2>4. s + s = 2 * s
    BY <2>1
  <2> QED BY <2>2, <2>3, <2>4
<1>11. PICK new : new = [mark |-> s, slots |-> all] /\ hd2 = Append(hd, new) /\ Joins(en, add, en2)
  BY <1>0, <1>6, <1>9 DEF Doubling, Joins
<1>12. new \in HeaderRec
  BY <1>3, <1>10, <1>11 DEF HeaderRec
<1>13. /\ hd2 \in Seq(HeaderRec) /\ Len(hd2) = T + 1 /\ hd2[T + 1] = new
       /\ \A h \in 1..T : hd2[h] = hd[h]
  BY <1>0, <1>2, <1>11, <1>12
<1>14. Laps(hd2, T + 1) = 2 * s /\ hd2[T + 1].mark = s /\ hd2[T + 1].slots = all
  <2>1. new.mark = s /\ new.slots = all
    BY <1>11
  <2> QED BY <1>10, <1>13, <2>1 DEF Laps
<1>15. ASSUME NEW r \in 0..s - 1
       PROVE  /\ hd2[T + 1].slots[r + 1] = EntryOf(hd, K, lo + r)
              /\ hd2[T + 1].slots[s + r + 1] = z + r + 1
  <2>1. PICK i \in 1..s : i = r + 1
    BY <1>3
  <2>2. all[r + 1] = At(hd, T, m + i) /\ all[s + r + 1] = z + i
    BY <1>6, <1>10, <2>1
  <2>3. PICK u \in Int, v \in Int, p \in Int, q \in Int :
            u = lo + r /\ v = k + M /\ p = m + i /\ q = k + u
    <3>1. r \in Int /\ i \in Int
      OBVIOUS
    <3> QED BY <1>4, <3>1
  <2>4. Cong(p, q, s)
    <3>1. PICK d \in Int : m - v = d * s
      BY <1>4, <1>5, <2>3 DEF Cong
    <3>2. PICK y \in Int : y = d * s /\ (d + 1) * s = y + s
      BY <1>3
    <3>3. p - q = y + s
      <4>1. p = m + (r + 1) /\ q = k + ((M + 1 - s) + r)
        BY <1>4, <2>1, <2>3
      <4>2. m - (k + M) = y
        BY <2>3, <3>1, <3>2
      <4>3. m \in Int /\ M \in Int /\ r \in Int /\ s \in Int
        BY <1>3, <1>4
      <4> QED BY <4>1, <4>2, <4>3, LapAhead
    <3>4. d + 1 \in Int
      OBVIOUS
    <3> QED BY <3>2, <3>3, <3>4 DEF Cong
  <2>5. At(hd, T, p) = At(hd, T, q)
    <3>1. T \in 1..Len(hd) /\ s = Laps(hd, T)
      BY <1>0, <1>2
    <3>2. Cong(p, q, Laps(hd, T))
      BY <2>4, <3>1
    <3> QED BY <1>1, <2>3, <3>1, <3>2, AtFacts
  <2>6. At(hd, T, q) = EntryOf(hd, K, lo + r)
    BY <1>0, <1>5, <2>3 DEF EntryOf
  <2>7. z + i = z + r + 1
    BY <2>1
  <2> QED BY <1>14, <2>2, <2>3, <2>5, <2>6, <2>7
<1>17. x \in EntryRec /\ [key |-> NULL, value |-> NULL] \in EntryRec
  <2>1. M + 1 \in Nat
    BY <1>3, <1>4
  <2>2. (M + 1) * BlockSize \in Nat
    BY <2>1, IndexAssumption
  <2> QED BY <1>0, <2>2 DEF EntryRec
<1>18. add \in Seq(EntryRec) /\ Len(add) = s
  <2>1. s \in Nat /\ add \in [1..s -> EntryRec]
    BY <1>3, <1>6, <1>17
  <2> QED BY <2>1, AsSequence
<1>19. /\ en2 \in Seq(EntryRec) /\ Len(en2) = z + s
       /\ (\A f \in 1..z : en2[f] = en[f]) /\ (\A i \in 1..s : en2[z + i] = add[i])
  <2>1. en2 \in Seq(EntryRec) /\ Joined(en, add, en2)
    BY <1>2, <1>11, <1>18, Joining
  <2> QED BY <1>5, <1>18, <2>1 DEF Joined
<1>20. en2[z + 1] = x
  <2>1. 1 \in 1..s
    BY <1>3
  <2> QED BY <1>6, <1>19, <2>1
<1>21. ASSUME NEW r \in 1..s - 1 PROVE en2[z + r + 1] = [key |-> NULL, value |-> NULL]
  <2>1. PICK i \in 1..s : i = r + 1 /\ i # 1
    BY <1>3
  <2>2. z + r + 1 = z + i
    BY <2>1
  <2> QED BY <1>6, <1>19, <2>1, <2>2
<1>22. K2 \in [1..T + 1 -> Int] /\ (\A h \in 1..T : K2[h] = K[h]) /\ K2[T + 1] = -lo
  <2>1. PICK y \in Int : y = -lo
    BY <1>4
  <2>2. K2 = [h \in 1..T + 1 |-> IF h = T + 1 THEN y ELSE K[h]]
    BY <1>0, <2>1 DEF NextPlace
  <2>3. T + 1 \in 1..T + 1 /\ \A h \in 1..T : h \in 1..T + 1 /\ h # T + 1
    BY <1>2
  <2>4. \A h \in 1..T + 1 : h = T + 1 \/ h \in 1..T
    BY <1>2
  <2>5. K2 \in [1..T + 1 -> Int]
    BY <1>2, <2>2, <2>4
  <2> QED BY <2>1, <2>2, <2>3, <2>5
<1> QED BY <1>0, <1>5, <1>13, <1>14, <1>15, <1>19, <1>20, <1>21, <1>22 DEF Grown

\* insert_block_index_entry, when an entry can be taken again and when none can.
LEMMA StepReuse ==
  ASSUME NEW con, NEW first, NEW hd, NEW en, NEW K, NEW lo, NEW M, NEW V, NEW W, NEW el, NEW em, NEW fc,
         NEW home, SubOK(con, first, hd, en, K, lo, M, V, W, el, em, fc, home),
         NEW e, e = EntryOf(hd, K, M + 1), en[e].value = NULL,
         NEW en2, OneEntry(en, en2, e, [key |-> (M + 1) * BlockSize, value |-> NULL]),
         NEW hd2, Remarked(hd, hd2, (hd[Len(hd)].mark + 1) % Laps(hd, Len(hd)))
  PROVE  \E lo2 : SubOK(con, first, hd2, en2, K, lo2, M + 1, V, W, el, em, fc, home) /\ lo2 <= M + 1
<1>1. PICK L : L = LiveOf(con, first, V) /\ IndexOK(hd, en, K, lo, M, L, home)
  BY DEF SubOK
<1>2. PICK lo2 : lo2 = IF M + 1 - lo < Laps(hd, Len(hd)) THEN lo ELSE lo + 1
  OBVIOUS
<1>3. IndexOK(hd2, en2, K, lo2, M + 1, L, home) /\ lo2 <= M + 1 /\ IndexKeeps(hd, en, K, hd2, en2, K, L)
  BY <1>1, <1>2, IndexReuse
<1>4. SubOK(con, first, hd2, en2, K, lo2, M + 1, V, W, el, em, fc, home)
  BY <1>1, <1>3, StepNewest
<1> QED BY <1>3, <1>4

\* The index is doubled when its next entry still has a block.
LEMMA StepGrow ==
  ASSUME NEW con, NEW first, NEW hd, NEW en, NEW K, NEW lo, NEW M, NEW V, NEW W, NEW el, NEW em, NEW fc,
         NEW home, SubOK(con, first, hd, en, K, lo, M, V, W, el, em, fc, home),
         en[EntryOf(hd, K, M + 1)].value # NULL, NEW hd2, NEW en2, Doubling(hd, en, M, hd2, en2)
  PROVE  \E K2 : SubOK(con, first, hd2, en2, K2, lo, M + 1, V, W, el, em, fc, home) /\ lo <= M + 1
<1>1. PICK L : L = LiveOf(con, first, V) /\ IndexOK(hd, en, K, lo, M, L, home)
  BY DEF SubOK
<1>2. lo = M + 1 - Laps(hd, Len(hd)) /\ lo <= M
  BY <1>1, IndexFull
<1>3. PICK K2 : NextPlace(K, Len(hd), lo, K2)
  BY DEF NextPlace
<1>4. Grown(hd, en, K, lo, M, hd2, en2, K2)
  BY <1>1, <1>2, <1>3, IndexDoubled
<1>5. IndexOK(hd2, en2, K2, lo, M + 1, L, home) /\ IndexKeeps(hd, en, K, hd2, en2, K2, L)
  BY <1>1, <1>2, <1>4, IndexGrow
<1>6. SubOK(con, first, hd2, en2, K2, lo, M + 1, V, W, el, em, fc, home)
  BY <1>1, <1>5, StepNewest
<1>7. lo <= M + 1
  BY <1>1 DEF IndexOK, InOrder
<1> QED BY <1>6, <1>7

-----------------------------------------------------------------------------
(* The whole sub-queue of an implicit producer p whose tail is back.       *)

\* The newest block with a place, the newest with an entry, and how many
\* elements are written.
NewestBlock(p, back) ==
    IF p.pc \in {"index", "block"} THEN Num(back - 1) + Len(p.got)
    ELSE IF p.pc = "publish" THEN Num(back + p.count - 1) ELSE Num(back - 1)
NewestEntry(p, back) == NewestBlock(p, back) + (IF p.pc = "block" THEN 1 ELSE 0)
WrittenUpTo(p, back) == IF p.pc = "publish" THEN back + p.count ELSE back

\* The block n, if there is one.
BlockAt(home, n) == IF n = -1 THEN NULL ELSE home[n]

Calling(p, back, tb, lo, home) ==
    /\ back \in Nat /\ tb = BlockAt(home, NewestBlock(p, back))
    /\ p.pc \in {"idle", "index", "block", "publish"} /\ (p.pc = "idle" => p = [pc |-> "idle"])
    /\ p.pc # "idle" => p.count \in Nat \ {0} /\ {"pc", "count"} \subseteq DOMAIN p
    /\ p.pc \in {"index", "block"} =>
          /\ {"got", "start"} \subseteq DOMAIN p /\ p.got \in Seq(Blocks)
          /\ p.start = BlockAt(home, Num(back - 1))
          /\ \A j \in 1..Len(p.got) : p.got[j] = home[Num(back - 1) + j]
          /\ NewestEntry(p, back) <= Num(back + p.count - 1)
    /\ p.pc = "block" => lo <= NewestEntry(p, back)

State(con, first, hd, en, el, em, fc, p, back, tb) ==
    \E K, lo, home :
        /\ SubOK(con, first, hd, en, K, lo, NewestEntry(p, back), NewestBlock(p, back),
                 WrittenUpTo(p, back), el, em, fc, home)
        /\ Calling(p, back, tb, lo, home)

Running ==
    State(consumer, headIndex, headers, entries, elements, emptied, freeCount, producer, tailIndex, tailBlock)

AllDone ==
    /\ destroyed = headIndex..tailIndex - 1 /\ \A b \in Blocks : freeCount[b] = 1
    /\ \A c \in Consumers : consumer[c] = [pc |-> "idle"]

BlocksInv ==
    kind = "implicit" => IF producer.pc = "destroyed" THEN AllDone ELSE Running

\* A consumer's step that has nothing to do with the elements.
Waiting(s) ==
    /\ s.pc \notin Working
    /\ s.pc \in {"overcommit", "check"} => s.max >= 1
    /\ s.pc \in {"count", "reload"} => s.desired >= 1
    /\ s.pc = "claim" => s.n >= 1

\* Such a step changes nothing that is kept of the elements.
LEMMA StepWaiting ==
  ASSUME NEW con, NEW first, NEW hd, NEW en, NEW el, NEW em, NEW fc, NEW p, NEW back, NEW tb,
         State(con, first, hd, en, el, em, fc, p, back, tb), NEW c \in Consumers,
         con[c].pc \notin Working, NEW s, Waiting(s), NEW con2, Turned(con, con2, c, s)
  PROVE  State(con2, first, hd, en, el, em, fc, p, back, tb)
<1>1. PICK K, lo, home :
        /\ SubOK(con, first, hd, en, K, lo, NewestEntry(p, back), NewestBlock(p, back),
                 WrittenUpTo(p, back), el, em, fc, home)
        /\ Calling(p, back, tb, lo, home)
  BY DEF State
<1>2. /\ Open(s) = {} /\ Unread(s) = {} /\ Unlinked(s) = {} /\ Freeing(s) = {}
      /\ ConsumerOK(s, first) /\ Seeing(s, hd, en, K, home)
  BY DEF Waiting, Working, Open, Unread, Unlinked, Freeing, ConsumerOK, Seeing
<1>3. PICK q : q = con[c] /\ q.pc \notin Working
  OBVIOUS
<1>4. Open(q) = {} /\ Unread(q) = {} /\ Unlinked(q) = {} /\ Freeing(q) = {}
  BY <1>3 DEF Working, Open, Unread, Unlinked, Freeing
<1>5. SubOK(con2, first, hd, en, K, lo, NewestEntry(p, back), NewestBlock(p, back),
            WrittenUpTo(p, back), el, em, fc, home)
  BY <1>1, <1>2, <1>3, <1>4, StepSame
<1> QED BY <1>1, <1>5 DEF State

\* What it knows of its counters.
LEMMA WaitingWell ==
  ASSUME Running, NEW c \in Consumers
  PROVE  ConsumerOK(consumer[c], headIndex)
  BY DEF Running, State, SubOK, Attentive

\* An assignment to one consumer's state.
LEMMA TurnsTo ==
  ASSUME CountersInv, NEW c \in Consumers, NEW s, consumer' = [consumer EXCEPT ![c] = s]
  PROVE  Turned(consumer, consumer', c, s)
<1>1. DOMAIN consumer = Consumers
  BY DEF CountersInv, Counters, ConsumersOK
<1> QED BY <1>1 DEF Turned

\* Such a step of the model.
LEMMA RunsWaiting ==
  ASSUME CountersInv, Running, NEW c \in Consumers, consumer[c].pc \notin Working, NEW s, Waiting(s),
         consumer' = [consumer EXCEPT ![c] = s],
         UNCHANGED <<headIndex, headers, entries, elements, emptied, freeCount, producer, tailIndex, tailBlock>>
  PROVE  Running'
<1>1. Turned(consumer, consumer', c, s)
  BY TurnsTo
<1>2. State(consumer', headIndex, headers, entries, elements, emptied, freeCount, producer, tailIndex, tailBlock)
  BY <1>1, StepWaiting DEF Running
<1> QED BY <1>2 DEF Running

\* The steps before a claim.
LEMMA WaitingSteps ==
  ASSUME CountersInv, Running, NEW c \in Consumers,
         \/ \E max \in 1..MaxBulk : SubQueue!LoadTail(c, max)
         \/ SubQueue!LoadOvercommit(c) \/ SubQueue!Check(c) \/ SubQueue!AddOptimistic(c)
         \/ SubQueue!ReloadTail(c) \/ SubQueue!AddOvercommit(c)
  PROVE  Running'
<1>1. UNCHANGED <<headIndex, headers, entries, elements, emptied, freeCount, producer, tailIndex, tailBlock>>
  BY DEF SubQueue!LoadTail, SubQueue!LoadOvercommit, SubQueue!Check, SubQueue!AddOptimistic,
         SubQueue!ReloadTail, SubQueue!AddOvercommit, SubQueue!OnlyStep, SubQueue!counters,
         SubQueue!blocks, SubQueue!index
<1>2. consumer[c].pc \notin Working
  <2>1. consumer[c] = [pc |-> "idle"] \/ consumer[c].pc \in {"overcommit", "check", "count", "reload", "giveback"}
    BY DEF SubQueue!LoadTail, SubQueue!LoadOvercommit, SubQueue!Check, SubQueue!AddOptimistic,
           SubQueue!ReloadTail, SubQueue!AddOvercommit, SubQueue!Idle
  <2>2. consumer[c].pc \in {"idle", "overcommit", "check", "count", "reload", "giveback"}
    BY <2>1
  <2> QED BY <2>2 DEF Working
<1>3. PICK q : q = consumer[c] /\ ConsumerOK(q, headIndex) /\ CounterAt(q, dequeueOvercommit)
  BY WaitingWell DEF CountersInv, Counters, ConsumersOK
<1>i. Waiting(SubQueue!Idle)
  BY DEF Waiting, Working, SubQueue!Idle
<1>4. \E s : Waiting(s) /\ consumer' = [consumer EXCEPT ![c] = s]
  <2>1. ASSUME NEW max \in 1..MaxBulk, SubQueue!LoadTail(c, max)
        PROVE  \E s : Waiting(s) /\ consumer' = [consumer EXCEPT ![c] = s]
    <3>1. PICK s : s = [pc |-> "overcommit", max |-> max, tail |-> tailIndex]
      OBVIOUS
    <3>2. max >= 1
      BY CounterAssumption
    <3>3. Waiting(s)
      BY <3>1, <3>2 DEF Waiting, Working
    <3> QED BY <2>1, <3>1, <3>3 DEF SubQueue!LoadTail, SubQueue!OnlyStep, SubQueue!Step
  <2>2. CASE SubQueue!LoadOvercommit(c)
    <3>1. q.pc = "overcommit" /\ q.max >= 1
      BY <1>3, <2>2 DEF SubQueue!LoadOvercommit, ConsumerOK
    <3>2. PICK s : s = [pc |-> "check", max |-> q.max, tail |-> q.tail, over |-> dequeueOvercommit]
      OBVIOUS
    <3>3. Waiting(s)
      BY <3>1, <3>2 DEF Waiting, Working
    <3> QED BY <1>3, <2>2, <3>2, <3>3 DEF SubQueue!LoadOvercommit, SubQueue!OnlyStep, SubQueue!Step
  <2>3. CASE SubQueue!Check(c)
    <3>1. q.pc = "check" /\ q.max >= 1 /\ q \in [pc : {"check"}, max : Nat, tail : Nat, over : Nat]
      BY <1>3, <2>3 DEF SubQueue!Check, ConsumerOK, CounterAt, Uncounted
    <3>2. PICK m \in Nat, want \in Int : m = q.max /\ want = q.tail - (dequeueOptimisticCount - q.over)
      <4>1. dequeueOptimisticCount \in Nat
        BY DEF CountersInv, Counters
      <4> QED BY <3>1, <4>1
    <3>3. consumer' = [consumer EXCEPT ![c] =
              IF want <= 0 THEN SubQueue!Idle
              ELSE [pc |-> "count", over |-> q.over, desired |-> SubQueue!Min({want, m})]]
      BY <1>3, <2>3, <3>2 DEF SubQueue!Check, SubQueue!OnlyStep, SubQueue!Step
    <3>4. CASE want <= 0
      BY <1>i, <3>3, <3>4
    <3>5. CASE ~(want <= 0)
      <4>1. SubQueue!Min({want, m}) = IF want <= m THEN want ELSE m
        <5>1. m \in Int
          OBVIOUS
        <5> QED BY <5>1, OfTwo
      <4>2. PICK n \in Nat : n = SubQueue!Min({want, m}) /\ n >= 1
        BY <3>1, <3>2, <3>5, <4>1
      <4>3. PICK s : s = [pc |-> "count", over |-> q.over, desired |-> n]
        OBVIOUS
      <4>4. Waiting(s)
        BY <4>2, <4>3 DEF Waiting, Working
      <4> QED BY <3>3, <3>5, <4>2, <4>3, <4>4
    <3> QED BY <3>4, <3>5
  <2>4. CASE SubQueue!AddOptimistic(c)
    <3>1. q.pc = "count" /\ q.desired >= 1
      BY <1>3, <2>4 DEF SubQueue!AddOptimistic, ConsumerOK
    <3>2. PICK s : s = [pc |-> "reload", desired |-> q.desired, from |-> dequeueOptimisticCount - q.over]
      OBVIOUS
    <3>3. Waiting(s)
      BY <3>1, <3>2 DEF Waiting, Working
    <3> QED BY <1>3, <2>4, <3>2, <3>3 DEF SubQueue!AddOptimistic, SubQueue!Step
  <2>5. CASE SubQueue!ReloadTail(c)
    <3>1. q.pc = "reload" /\ q.desired >= 1 /\ q \in [pc : {"reload"}, desired : Nat, from : Int]
      BY <1>3, <2>5 DEF SubQueue!ReloadTail, ConsumerOK, CounterAt, Uncounted
    <3>0. PICK want \in Nat : want = q.desired /\ want >= 1
      BY <3>1
    <3>2. PICK a : a = SubQueue!Max({0, SubQueue!Min({want, tailIndex - q.from})})
      OBVIOUS
    <3>3. a \in Nat
      <4>1. PICK y \in Int : y = tailIndex - q.from
        BY <3>1 DEF CountersInv, Counters
      <4>2. PICK b \in Int : b = SubQueue!Min({want, y})
        <5>1. want \in Int
          OBVIOUS
        <5>2. SubQueue!Min({want, y}) = IF want <= y THEN want ELSE y
          BY <5>1, OfTwo
        <5> QED BY <5>2
      <4>3. PICK z \in Int : z = 0
        OBVIOUS
      <4>4. SubQueue!Max({z, b}) = IF z <= b THEN b ELSE z
        BY OfTwo
      <4> QED BY <3>2, <4>1, <4>2, <4>3, <4>4
    <3>4. PICK s : s = [pc |-> IF a < want THEN "giveback" ELSE "claim", n |-> a, rest |-> want - a]
      OBVIOUS
    <3>5. s.pc = "claim" => s.n >= 1
      BY <3>0, <3>3, <3>4
    <3>6. Waiting(s)
      <4>1. s.pc \in {"giveback", "claim"}
        BY <3>4
      <4> QED BY <3>5, <4>1 DEF Waiting, Working
    <3> QED BY <1>3, <2>5, <3>0, <3>2, <3>4, <3>6 DEF SubQueue!ReloadTail, SubQueue!OnlyStep, SubQueue!Step
  <2>6. CASE SubQueue!AddOvercommit(c)
    <3>1. q.pc = "giveback" /\ q \in [pc : {"giveback", "claim"}, n : Nat, rest : Nat]
      BY <1>3, <2>6 DEF SubQueue!AddOvercommit, CounterAt, Uncounted
    <3>2. PICK s : s = [q EXCEPT !.pc = "claim", !.rest = 0]
      OBVIOUS
    <3>3. consumer' = [consumer EXCEPT ![c] = IF q.n = 0 THEN SubQueue!Idle ELSE s]
      BY <1>3, <2>6, <3>2 DEF SubQueue!AddOvercommit, SubQueue!Step
    <3>4. s.pc = "claim" /\ s.n = q.n
      BY <3>1, <3>2
    <3>5. q.n # 0 => Waiting(s)
      BY <3>1, <3>4 DEF Waiting, Working
    <3> QED BY <1>i, <3>3, <3>5
  <2> QED BY <2>1, <2>2, <2>3, <2>4, <2>5, <2>6
<1> QED BY <1>1, <1>2, <1>4, RunsWaiting

-----------------------------------------------------------------------------
(* The steps of a consumer that has claimed elements.                      *)

\* Elements are claimed in front of the tail only.
LEMMA HeadBehind ==
  ASSUME NEW con, NEW first, NEW back, NEW opt, NEW over, Counters(con, first, back, opt, over)
  PROVE  first \in Nat /\ back \in Nat /\ first <= back
<1>1. PICK r, k, m : Ranked(con, first, back, r, k, m)
  BY DEF Counters
<1>2. AllSure(con, r, k) \in Nat /\ first \in Nat /\ back \in Nat
  BY <1>1, CounterAssumption, SureReserved DEF Counters, Ranked
<1> QED BY <1>1, <1>2 DEF Ranked

\* A step that leaves the producer alone.
LEMMA RunsOn ==
  ASSUME NEW K, NEW lo, NEW home,
         SubOK(consumer', headIndex', headers', entries', K, lo, NewestEntry(producer, tailIndex),
               NewestBlock(producer, tailIndex), WrittenUpTo(producer, tailIndex),
               elements', emptied', freeCount', home),
         Calling(producer, tailIndex, tailBlock, lo, home), UNCHANGED <<producer, tailIndex, tailBlock>>
  PROVE  Running'
  BY DEF Running, State

\* The model's names for entries and the size of a header.
LEMMA TheirSlot == \A h, n : SubQueue!Slot(h, n) = At(headers, h, n) /\ SubQueue!Size(h) = Laps(headers, h)
  BY DEF SubQueue!Slot, SubQueue!Size, At, Laps

\* The counters let no claim pass the tail, so the elements are written.
LEMMA ClaimHeadSub ==
  ASSUME CountersInv, CountersInv', Running, NEW c \in Consumers, SubQueue!ClaimHead(c)
  PROVE  Running'
<1>1. PICK K, lo, home, M, V, W :
        /\ M = NewestEntry(producer, tailIndex) /\ V = NewestBlock(producer, tailIndex)
        /\ W = WrittenUpTo(producer, tailIndex)
        /\ SubOK(consumer, headIndex, headers, entries, K, lo, M, V, W, elements, emptied, freeCount, home)
        /\ Calling(producer, tailIndex, tailBlock, lo, home)
  BY DEF Running, State
<1>2. PICK q : q = consumer[c] /\ q.pc = "claim" /\ q.n >= 1 /\ q.n \in Nat
  <2>1. ConsumerOK(consumer[c], headIndex) /\ CounterAt(consumer[c], dequeueOvercommit)
    BY WaitingWell DEF CountersInv, Counters, ConsumersOK
  <2>2. consumer[c].pc = "claim"
    BY DEF SubQueue!ClaimHead
  <2> QED BY <2>1, <2>2 DEF ConsumerOK, CounterAt, Uncounted
<1>3. PICK s, end : /\ s = [pc |-> "header", at |-> headIndex, end |-> end] /\ end = headIndex + q.n
                    /\ consumer' = [consumer EXCEPT ![c] = s] /\ headIndex' = end
  BY <1>2 DEF SubQueue!ClaimHead, SubQueue!Step
<1>4. UNCHANGED <<headers, entries, elements, emptied, freeCount, producer, tailIndex, tailBlock>>
  BY DEF SubQueue!ClaimHead, SubQueue!blocks, SubQueue!index
<1>5. end \in Nat /\ headIndex < end /\ end <= W
  <2>1. headIndex \in Nat /\ tailIndex \in Nat /\ end \in Nat /\ end <= tailIndex
    <3>1. Counters(consumer', headIndex', tailIndex', dequeueOptimisticCount', dequeueOvercommit')
      BY DEF CountersInv
    <3>2. end \in Nat /\ end <= tailIndex
      BY <1>3, <1>4, <3>1, HeadBehind
    <3> QED BY <3>2 DEF CountersInv, Counters
  <2>2. tailIndex <= W /\ W \in Nat
    <3>1. producer.pc = "publish" => producer.count \in Nat
      BY <1>1 DEF Calling
    <3> QED BY <1>1, <2>1, <3>1 DEF WrittenUpTo
  <2> QED BY <1>2, <1>3, <2>1, <2>2
<1>6. Turned(consumer, consumer', c, s)
  BY <1>3, TurnsTo
<1>7. SubOK(consumer', end, headers, entries, K, lo, M, V, W, elements, emptied, freeCount, home)
  BY <1>1, <1>2, <1>3, <1>5, <1>6, StepClaim
<1>8. SubOK(consumer', headIndex', headers', entries', K, lo, M, V, W, elements', emptied', freeCount', home)
  BY <1>3, <1>4, <1>7
<1> QED BY <1>1, <1>4, <1>8, RunsOn

\* The newest header finds every block by definition.
LEMMA LoadHeaderSub ==
  ASSUME CountersInv, Running, NEW c \in Consumers, SubQueue!LoadHeader(c)
  PROVE  Running'
<1>1. PICK K, lo, home, M, V, W :
        /\ M = NewestEntry(producer, tailIndex) /\ V = NewestBlock(producer, tailIndex)
        /\ W = WrittenUpTo(producer, tailIndex)
        /\ SubOK(consumer, headIndex, headers, entries, K, lo, M, V, W, elements, emptied, freeCount, home)
        /\ Calling(producer, tailIndex, tailBlock, lo, home)
  BY DEF Running, State
<1>2. PICK q : q = consumer[c] /\ q.pc = "header" /\ ConsumerOK(q, headIndex)
  BY WaitingWell DEF SubQueue!LoadHeader
<1>3. PICK s : /\ s = [pc |-> "mark", at |-> q.at, end |-> q.end, header |-> Len(headers)]
               /\ consumer' = [consumer EXCEPT ![c] = s]
  BY <1>2 DEF SubQueue!LoadHeader, SubQueue!OnlyStep, SubQueue!Step, SubQueue!Top
<1>4. UNCHANGED <<headIndex, headers, entries, elements, emptied, freeCount, producer, tailIndex, tailBlock>>
  BY DEF SubQueue!LoadHeader, SubQueue!OnlyStep, SubQueue!counters, SubQueue!blocks, SubQueue!index
<1>5. Claim(s) = Claim(q)
  BY <1>3 DEF Claim
<1>6. Open(s) = Open(q) /\ Unread(s) = Unread(q) /\ Unlinked(s) = Unlinked(q) /\ Freeing(s) = Freeing(q)
  BY <1>2, <1>3, <1>5 DEF Open, Unread, Unlinked, Freeing
<1>7. ConsumerOK(s, headIndex)
  BY <1>2, <1>3 DEF ConsumerOK, Working
<1>8. Seeing(s, headers, entries, K, home)
  <2>1. Len(headers) \in 1..Len(headers)
    BY <1>1, LastFacts DEF SubOK, IndexOK
  <2>2. \A n : At(headers, Len(headers), K[Len(headers)] + n) = EntryOf(headers, K, n)
    BY DEF EntryOf
  <2> QED BY <1>3, <2>1, <2>2 DEF Seeing, Working
<1>9. Turned(consumer, consumer', c, s)
  BY <1>3, TurnsTo
<1>10. SubOK(consumer', headIndex, headers, entries, K, lo, M, V, W, elements, emptied, freeCount, home)
  BY <1>1, <1>2, <1>6, <1>7, <1>8, <1>9, StepSame
<1>11. SubOK(consumer', headIndex', headers', entries', K, lo, M, V, W, elements', emptied', freeCount', home)
  BY <1>4, <1>10
<1> QED BY <1>1, <1>4, <1>11, RunsOn

\* The mark a consumer with a claim finds is that of a used entry.
LEMMA MarkUsed ==
  ASSUME NEW hd, NEW en, NEW K, NEW lo, NEW M, NEW L, NEW home, IndexOK(hd, en, K, lo, M, L, home), L # {},
         NEW h \in 1..Len(hd)
  PROVE  hd[h].mark \in Int /\ en[At(hd, h, hd[h].mark)].key # NULL
<1>1. HeadersOK(hd, en, K) /\ Mapped(hd, en, K) /\ InOrder(hd, en, K, lo, M, L, home)
  BY DEF IndexOK
<1>2. hd[h].mark \in Nat
  BY <1>1, MarkNat
<1>3. CASE h # Len(hd)
  <2>1. \A p \in Int : en[At(hd, h, p)].key # NULL
    BY <1>1, <1>3 DEF Mapped
  <2> QED BY <1>2, <2>1
<1>4. CASE h = Len(hd)
  <2>1. PICK n : n \in L
    OBVIOUS
  <2>2. /\ M \in Int /\ lo \in Nat /\ n \in lo..M
        /\ Cong(hd[h].mark, K[h] + M, Laps(hd, h))
        /\ \A m \in lo..M : en[EntryOf(hd, K, m)].key = m * BlockSize
    BY <1>1, <1>4, <2>1 DEF InOrder
  <2>3. M \in lo..M /\ M \in Nat
    BY <2>2
  <2>4. en[EntryOf(hd, K, M)].key = M * BlockSize
    BY <2>2, <2>3
  <2>5. M * BlockSize \in Nat
    BY <2>3, IndexAssumption
  <2>0. K[h] \in Int /\ hd[h].mark \in Int
    <3>1. K \in [1..Len(hd) -> Int]
      BY <1>1 DEF HeadersOK
    <3> QED BY <1>2, <3>1
  <2>6. PICK x \in Int, y \in Int : x = hd[h].mark /\ y = K[h] + M
    BY <2>0, <2>2
  <2>7. Cong(x, y, Laps(hd, h))
    BY <2>2, <2>6
  <2>8. At(hd, h, x) = At(hd, h, y)
    BY <1>1, <2>7, AtFacts
  <2>9. At(hd, h, hd[h].mark) = EntryOf(hd, K, M)
    BY <1>4, <2>6, <2>8 DEF EntryOf
  <2> QED BY <1>2, <2>4, <2>5, <2>9, IndexAssumption
<1> QED BY <1>3, <1>4

\* The consumer keeps the mark and the header it belongs to.
LEMMA LoadMarkSub ==
  ASSUME CountersInv, Running, NEW c \in Consumers, SubQueue!LoadMark(c)
  PROVE  Running'
<1>1. PICK K, lo, home, M, V, W :
        /\ M = NewestEntry(producer, tailIndex) /\ V = NewestBlock(producer, tailIndex)
        /\ W = WrittenUpTo(producer, tailIndex)
        /\ SubOK(consumer, headIndex, headers, entries, K, lo, M, V, W, elements, emptied, freeCount, home)
        /\ Calling(producer, tailIndex, tailBlock, lo, home)
  BY DEF Running, State
<1>2. PICK q : q = consumer[c] /\ q.pc = "mark" /\ ConsumerOK(q, headIndex) /\ Seeing(q, headers, entries, K, home)
  BY <1>1 DEF SubQueue!LoadMark, SubOK, Attentive
<1>3. PICK s : /\ s = [pc |-> "locate", at |-> q.at, end |-> q.end, header |-> q.header,
                       slot |-> headers[q.header].mark]
               /\ consumer' = [consumer EXCEPT ![c] = s]
  BY <1>2 DEF SubQueue!LoadMark, SubQueue!OnlyStep, SubQueue!Step
<1>4. UNCHANGED <<headIndex, headers, entries, elements, emptied, freeCount, producer, tailIndex, tailBlock>>
  BY DEF SubQueue!LoadMark, SubQueue!OnlyStep, SubQueue!counters, SubQueue!blocks, SubQueue!index
<1>5. Claim(s) = Claim(q)
  BY <1>3 DEF Claim
<1>6. Open(s) = Open(q) /\ Unread(s) = Unread(q) /\ Unlinked(s) = Unlinked(q) /\ Freeing(s) = Freeing(q)
  BY <1>2, <1>3, <1>5 DEF Open, Unread, Unlinked, Freeing
<1>7. q.header \in 1..Len(headers) /\ \A n \in Sought(q) :
          At(headers, q.header, K[q.header] + n) = EntryOf(headers, K, n)
  BY <1>2 DEF Seeing, Working
<1>8. headers[q.header].mark \in Int /\ entries[At(headers, q.header, headers[q.header].mark)].key # NULL
  <2>1. PICK L : L = LiveOf(consumer, headIndex, V) /\ IndexOK(headers, entries, K, lo, M, L, home)
    BY <1>1 DEF SubOK
  <2>2. Num(q.at) \in Sought(q)
    <3>1. q.at \in q.at..q.end - 1
      BY <1>2 DEF ConsumerOK, Working
    <3> QED BY <1>2, <3>1 DEF Sought, Open, Claim
  <2>3. Num(q.at) \in L
    BY <1>1, <1>2, <2>1, <2>2, SoughtLive DEF SubOK
  <2> QED BY <1>7, <2>1, <2>3, MarkUsed
<1>9. ConsumerOK(s, headIndex)
  BY <1>2, <1>3, <1>8 DEF ConsumerOK, Working
<1>10. Seeing(s, headers, entries, K, home)
  <2>1. Sought(s) = Sought(q)
    BY <1>6 DEF Sought
  <2> QED BY <1>3, <1>7, <1>8, <2>1 DEF Seeing, Working
<1>11. Turned(consumer, consumer', c, s)
  BY <1>3, TurnsTo
<1>12. SubOK(consumer', headIndex, headers, entries, K, lo, M, V, W, elements, emptied, freeCount, home)
  BY <1>1, <1>2, <1>6, <1>9, <1>10, <1>11, StepSame
<1>13. SubOK(consumer', headIndex', headers', entries', K, lo, M, V, W, elements', emptied', freeCount', home)
  BY <1>4, <1>12
<1> QED BY <1>1, <1>4, <1>13, RunsOn

\* From the entry of the mark, as many entries on or back as blocks.
LEMMA Located ==
  ASSUME NEW hd, NEW en, NEW K, HeadersOK(hd, en, K), Mapped(hd, en, K), NEW h \in 1..Len(hd),
         NEW p \in Int, NEW x \in Int, en[At(hd, h, p)].key # NULL,
         NEW y, y = (p + x - Num(en[At(hd, h, p)].key)) % Laps(hd, h)
  PROVE  y \in Int /\ Cong(y, K[h] + x, Laps(hd, h))
<1>1. PICK m \in Nat \ {0} : m = Laps(hd, h)
  BY AtFacts
<1>2. PICK k \in Int : k = K[h]
  BY AtFacts
<1>3. PICK n \in Nat : en[At(hd, h, p)].key = n * BlockSize /\ Cong(p, k + n, m)
  <2>1. KeyFits(en[At(hd, h, p)].key, p, K[h], Laps(hd, h))
    BY DEF Mapped
  <2> QED BY <1>1, <1>2, <2>1 DEF KeyFits
<1>4. Num(en[At(hd, h, p)].key) = n
  <2>1. 0 \in 0..BlockSize - 1 /\ n * BlockSize \in Int /\ n * BlockSize = n * BlockSize + 0 /\ n \in Int
    BY IndexAssumption
  <2>2. Num(n * BlockSize) = n
    BY <2>1, NumIs
  <2> QED BY <1>3, <2>2
<1>5. PICK z \in Int : z = p + x - n /\ z - (k + x) = p - (k + n) /\ k + n \in Int /\ k + x \in Int
  OBVIOUS
<1>6. Cong(z, k + x, m)
  BY <1>3, <1>5, CongShift
<1>7. y = z % m
  BY <1>1, <1>4, <1>5
<1>8. y \in Int /\ Cong(y, z, m)
  <2>1. z % m \in 0..m - 1 /\ Cong(z % m, z, m)
    BY CongMod
  <2> QED BY <1>7, <2>1
<1>9. Cong(y, k + x, m)
  BY <1>5, <1>6, <1>8, CongThrough
<1> QED BY <1>1, <1>2, <1>8, <1>9

\* A consumer that has found its entry has found its block.
LEMMA TheirEntry ==
  ASSUME NEW con, NEW first, NEW hd, NEW en, NEW K, NEW lo, NEW M, NEW V, NEW W, NEW el, NEW em, NEW fc,
         NEW home, SubOK(con, first, hd, en, K, lo, M, V, W, el, em, fc, home),
         NEW c \in Consumers, NEW q, q = con[c], q.pc \in {"read", "empty"}
  PROVE  /\ home[Num(q.at)] \in Blocks
         /\ en[At(hd, q.header, q.slot)].value = home[Num(q.at)]
<1>1. PICK L : L = LiveOf(con, first, V) /\ IndexOK(hd, en, K, lo, M, L, home)
  BY DEF SubOK
<1>2. ConsumerOK(q, first) /\ Seeing(q, hd, en, K, home)
  BY DEF SubOK, Attentive
<1>3. Num(q.at) \in Sought(q)
  <2>1. q.at \in q.at..q.end - 1
    BY <1>2 DEF ConsumerOK, Working
  <2> QED BY <2>1 DEF Sought, Open, Claim
<1>4. Num(q.at) \in L
  BY <1>1, <1>3, SoughtLive DEF SubOK
<1>5. PICK n \in Int : n = Num(q.at)
  <2>1. q.at \in Int
    BY <1>2 DEF ConsumerOK, Working
  <2> QED BY <2>1, NumFacts
<1>6. /\ q.header \in 1..Len(hd) /\ At(hd, q.header, K[q.header] + n) = EntryOf(hd, K, n)
      /\ Cong(q.slot, K[q.header] + n, Laps(hd, q.header)) /\ q.slot \in Int
  BY <1>2, <1>3, <1>5 DEF Seeing, Working, ConsumerOK
<1>7. At(hd, q.header, q.slot) = EntryOf(hd, K, n)
  <2>1. HeadersOK(hd, en, K)
    BY <1>1 DEF IndexOK
  <2>2. PICK k \in Int : k = K[q.header]
    BY <1>6, <2>1, AtFacts
  <2>3. k + n \in Int
    OBVIOUS
  <2> QED BY <1>6, <2>1, <2>2, <2>3, AtFacts, ZenonT(40)
<1> QED BY <1>1, <1>4, <1>5, <1>7 DEF IndexOK, InOrder

\* From any mark of its header, the number of the block leads to its entry.
LEMMA LocateSub ==
  ASSUME CountersInv, Running, NEW c \in Consumers, SubQueue!Locate(c)
  PROVE  Running'
<1>1. PICK K, lo, home, M, V, W :
        /\ M = NewestEntry(producer, tailIndex) /\ V = NewestBlock(producer, tailIndex)
        /\ W = WrittenUpTo(producer, tailIndex)
        /\ SubOK(consumer, headIndex, headers, entries, K, lo, M, V, W, elements, emptied, freeCount, home)
        /\ Calling(producer, tailIndex, tailBlock, lo, home)
  BY DEF Running, State
<1>2. PICK q : q = consumer[c] /\ q.pc = "locate" /\ ConsumerOK(q, headIndex) /\ Seeing(q, headers, entries, K, home)
  BY <1>1 DEF SubQueue!Locate, SubOK, Attentive
<1>3. PICK y : y = (q.slot + Num(q.at) - Num(entries[At(headers, q.header, q.slot)].key)) % Laps(headers, q.header)
  OBVIOUS
<1>4. PICK s : s = [q EXCEPT !.pc = "read", !.slot = y] /\ consumer' = [consumer EXCEPT ![c] = s]
  BY <1>2, <1>3, TheirSlot, TheirNum DEF SubQueue!Locate, SubQueue!OnlyStep, SubQueue!Step
<1>5. UNCHANGED <<headIndex, headers, entries, elements, emptied, freeCount, producer, tailIndex, tailBlock>>
  BY DEF SubQueue!Locate, SubQueue!OnlyStep, SubQueue!counters, SubQueue!blocks, SubQueue!index
<1>6. /\ q.slot \in Int /\ q.at \in Nat /\ q.end \in Nat /\ q.at < q.end /\ q.end <= headIndex
      /\ {"pc", "at", "end", "header", "slot"} \subseteq DOMAIN q
  BY <1>2 DEF ConsumerOK, Working
<1>7. /\ DOMAIN s = DOMAIN q /\ s.pc = "read" /\ s.at = q.at /\ s.end = q.end /\ s.header = q.header
      /\ s.slot = y
  BY <1>4, <1>6
<1>8. q.header \in 1..Len(headers) /\ entries[At(headers, q.header, q.slot)].key # NULL
  BY <1>2 DEF Seeing, Working
<1>9. y \in Int /\ Cong(y, K[q.header] + Num(q.at), Laps(headers, q.header))
  <2>1. HeadersOK(headers, entries, K) /\ Mapped(headers, entries, K)
    BY <1>1 DEF SubOK, IndexOK
  <2>2. Num(q.at) \in Int
    BY <1>6, NumFacts
  <2> QED BY <1>3, <1>6, <1>8, <2>1, <2>2, Located
<1>10. Claim(s) = Claim(q)
  BY <1>7 DEF Claim
<1>11. Open(s) = Open(q) /\ Unread(s) = Unread(q) /\ Unlinked(s) = Unlinked(q) /\ Freeing(s) = Freeing(q)
  BY <1>2, <1>7, <1>10 DEF Open, Unread, Unlinked, Freeing
<1>12. ConsumerOK(s, headIndex)
  BY <1>6, <1>7, <1>9 DEF ConsumerOK, Working
<1>13. Seeing(s, headers, entries, K, home)
  <2>1. Sought(s) = Sought(q)
    BY <1>11 DEF Sought
  <2>2. \A n \in Sought(q) : At(headers, q.header, K[q.header] + n) = EntryOf(headers, K, n)
    BY <1>2 DEF Seeing, Working
  <2> QED BY <1>7, <1>8, <1>9, <2>1, <2>2 DEF Seeing, Working
<1>14. Turned(consumer, consumer', c, s)
  BY <1>4, TurnsTo
<1>15. SubOK(consumer', headIndex, headers, entries, K, lo, M, V, W, elements, emptied, freeCount, home)
  BY <1>1, <1>2, <1>11, <1>12, <1>13, <1>14, StepSame
<1>16. SubOK(consumer', headIndex', headers', entries', K, lo, M, V, W, elements', emptied', freeCount', home)
  BY <1>5, <1>15
<1> QED BY <1>1, <1>5, <1>16, RunsOn

\* The entry found has the block, which still has the elements.
LEMMA ReadElementsSub ==
  ASSUME CountersInv, Running, NEW c \in Consumers, SubQueue!ReadElements(c)
  PROVE  Running'
<1>1. PICK K, lo, home, M, V, W :
        /\ M = NewestEntry(producer, tailIndex) /\ V = NewestBlock(producer, tailIndex)
        /\ W = WrittenUpTo(producer, tailIndex)
        /\ SubOK(consumer, headIndex, headers, entries, K, lo, M, V, W, elements, emptied, freeCount, home)
        /\ Calling(producer, tailIndex, tailBlock, lo, home)
  BY DEF Running, State
<1>2. PICK q : q = consumer[c] /\ q.pc = "read"
  BY DEF SubQueue!ReadElements
<1>3. PICK b : b = entries[At(headers, q.header, q.slot)].value /\ b = home[Num(q.at)]
  BY <1>1, <1>2, TheirEntry
<1>4. PICK s : /\ s = [pc |-> "empty", at |-> q.at, end |-> q.end, header |-> q.header, slot |-> q.slot,
                       block |-> b, read |-> [i \in Here(q) |-> elements[b][Off(i)]]]
               /\ consumer' = [consumer EXCEPT ![c] = s]
  <2>1. consumer' = [consumer EXCEPT ![c] =
           [pc |-> "empty", at |-> q.at, end |-> q.end, header |-> q.header, slot |-> q.slot,
            block |-> b, read |-> [i \in SubQueue!Here(q) |-> elements[b][Off(i)]]]]
    BY <1>2, <1>3, TheirSlot DEF SubQueue!ReadElements, SubQueue!Step, SubQueue!Offset, Off
  <2>2. SubQueue!Here(q) = Here(q)
    BY TheirHere
  <2> QED BY <2>1, <2>2
<1>5. ReadOut(elements, elements', b, Here(q))
  <2>1. ReadOut(elements, elements', b, SubQueue!Here(q))
    BY <1>2, <1>3, TheirSlot, Zenon DEF SubQueue!ReadElements, ReadOut, SubQueue!Offset, Off
  <2>2. SubQueue!Here(q) = Here(q)
    BY TheirHere
  <2> QED BY <2>1, <2>2
<1>6. UNCHANGED <<headIndex, headers, entries, emptied, freeCount, producer, tailIndex, tailBlock>>
  BY DEF SubQueue!ReadElements, SubQueue!counters, SubQueue!index
<1>7. Turned(consumer, consumer', c, s)
  BY <1>4, TurnsTo
<1>8. SubOK(consumer', headIndex, headers, entries, K, lo, M, V, W, elements', emptied, freeCount, home)
  BY <1>1, <1>2, <1>3, <1>4, <1>5, <1>7, StepRead
<1>9. SubOK(consumer', headIndex', headers', entries', K, lo, M, V, W, elements', emptied', freeCount', home)
  BY <1>6, <1>8
<1> QED BY <1>1, <1>6, <1>9, RunsOn

\* The model counts with the same Cardinality.
LEMMA TheirCount == \A S : SubQueue!Cardinality(S) = Cardinality(S)
  BY DEF SubQueue!Cardinality, Cardinality

\* The model's Onward goes on as Onwards says.
LEMMA TheirOnward ==
  ASSUME NEW q
  PROVE  Onwards(q, SubQueue!Onward(q), headers)
<1>1. PICK i : i = q.at + Cardinality(Here(q)) /\ i = q.at + SubQueue!Cardinality(SubQueue!Here(q))
  BY TheirHere, TheirCount
<1>2. PICK p : p = (q.slot + 1) % Laps(headers, q.header) /\ p = (q.slot + 1) % SubQueue!Size(q.header)
  BY TheirSlot
<1>3. SubQueue!Onward(q) = IF i = q.end THEN [pc |-> "idle"]
          ELSE [pc |-> "read", at |-> i, end |-> q.end, header |-> q.header, slot |-> p]
  BY <1>1, <1>2 DEF SubQueue!Onward, SubQueue!Idle
<1> QED BY <1>1, <1>2, <1>3 DEF Onwards

\* The block counts the elements; the last of them makes it leave.
LEMMA SetEmptySub ==
  ASSUME CountersInv, Running, kind = "implicit", NEW c \in Consumers, SubQueue!SetEmpty(c)
  PROVE  Running'
<1>1. PICK K, lo, home, M, V, W :
        /\ M = NewestEntry(producer, tailIndex) /\ V = NewestBlock(producer, tailIndex)
        /\ W = WrittenUpTo(producer, tailIndex)
        /\ SubOK(consumer, headIndex, headers, entries, K, lo, M, V, W, elements, emptied, freeCount, home)
        /\ Calling(producer, tailIndex, tailBlock, lo, home)
  BY DEF Running, State
<1>2. PICK q : q = consumer[c] /\ q.pc = "empty" /\ Seeing(q, headers, entries, K, home)
  BY <1>1 DEF SubQueue!SetEmpty, SubOK, Attentive
<1>3. PICK b : b = q.block /\ b = home[Num(q.at)] /\ b \in Blocks
  <2>1. q.block = home[Num(q.at)]
    BY <1>2 DEF Seeing
  <2> QED BY <1>1, <1>2, <2>1, TheirEntry
<1>4. PICK k : k = Cardinality(Here(q)) /\ k = SubQueue!Cardinality(SubQueue!Here(q))
  BY TheirHere, TheirCount
<1>5. /\ emptied' = [emptied EXCEPT ![b] = emptied[b] + k]
      /\ consumer' = [consumer EXCEPT ![c] = IF emptied[b] + k = BlockSize
                        THEN [q EXCEPT !.pc = "unlink"] ELSE SubQueue!Onward(q)]
  <2>1. kind # "explicit" /\ SubQueue!AllEmptied = BlockSize
    BY DEF SubQueue!AllEmptied
  <2>2. emptied' = [emptied EXCEPT ![b] = emptied[b] + k]
    BY <1>2, <1>3, <1>4, <2>1 DEF SubQueue!SetEmpty
  <2>3. consumer' = [consumer EXCEPT ![c] = IF emptied[b] + k = BlockSize
                        THEN [q EXCEPT !.pc = "unlink"] ELSE SubQueue!Onward(q)]
    BY <1>2, <1>3, <1>4, <2>1 DEF SubQueue!SetEmpty, SubQueue!Step
  <2> QED BY <2>2, <2>3
<1>6. Adds(emptied, emptied', b, Cardinality(Here(q))) /\ emptied'[b] = emptied[b] + k
  <2>1. DOMAIN emptied = Blocks
    BY <1>1 DEF SubOK, StoreOf, Store, Counted
  <2> QED BY <1>3, <1>4, <1>5, <2>1 DEF Adds
<1>7. PICK s : /\ s = IF emptied'[b] = BlockSize THEN [q EXCEPT !.pc = "unlink"] ELSE SubQueue!Onward(q)
               /\ consumer' = [consumer EXCEPT ![c] = s]
  BY <1>5, <1>6
<1>8. LeavesOrGoesOn(q, s, emptied'[b], headers)
  BY <1>7, TheirOnward DEF LeavesOrGoesOn
<1>9. UNCHANGED <<headIndex, headers, entries, elements, freeCount, producer, tailIndex, tailBlock>>
  BY DEF SubQueue!SetEmpty, SubQueue!counters, SubQueue!index
<1>10. Turned(consumer, consumer', c, s)
  BY <1>7, TurnsTo
<1>11. SubOK(consumer', headIndex, headers, entries, K, lo, M, V, W, elements, emptied', freeCount, home)
  BY <1>1, <1>2, <1>3, <1>6, <1>8, <1>10, StepEmpty
<1>12. SubOK(consumer', headIndex', headers', entries', K, lo, M, V, W, elements', emptied', freeCount', home)
  BY <1>9, <1>11
<1> QED BY <1>1, <1>9, <1>12, RunsOn

\* The block that leaves is out of its entry and belongs to this consumer.
LEMMA UnlinkSub ==
  ASSUME CountersInv, Running, NEW c \in Consumers, SubQueue!Unlink(c)
  PROVE  Running'
<1>1. PICK K, lo, home, M, V, W :
        /\ M = NewestEntry(producer, tailIndex) /\ V = NewestBlock(producer, tailIndex)
        /\ W = WrittenUpTo(producer, tailIndex)
        /\ SubOK(consumer, headIndex, headers, entries, K, lo, M, V, W, elements, emptied, freeCount, home)
        /\ Calling(producer, tailIndex, tailBlock, lo, home)
  BY DEF Running, State
<1>2. PICK q : q = consumer[c] /\ q.pc = "unlink"
  BY DEF SubQueue!Unlink
<1>3. PICK e : e = At(headers, q.header, q.slot)
  OBVIOUS
<1>4. entries' = [entries EXCEPT ![e].value = NULL]
  BY <1>2, <1>3, TheirSlot DEF SubQueue!Unlink
<1>5. PICK s : s = [q EXCEPT !.pc = "free"] /\ consumer' = [consumer EXCEPT ![c] = s]
  BY <1>2 DEF SubQueue!Unlink, SubQueue!Step
<1>6. UNCHANGED <<headIndex, headers, elements, emptied, freeCount, producer, tailIndex, tailBlock>>
  BY DEF SubQueue!Unlink, SubQueue!counters, SubQueue!blocks
<1>7. Turned(consumer, consumer', c, s)
  BY <1>5, TurnsTo
<1>8. SubOK(consumer', headIndex, headers, entries', K, lo, M, V, W, elements, emptied, freeCount, home)
  BY <1>1, <1>2, <1>3, <1>4, <1>5, <1>7, StepUnlink
<1>9. SubOK(consumer', headIndex', headers', entries', K, lo, M, V, W, elements', emptied', freeCount', home)
  BY <1>6, <1>8
<1> QED BY <1>1, <1>6, <1>9, RunsOn

\* It goes back to the free ones.
LEMMA FreeBlockSub ==
  ASSUME CountersInv, Running, NEW c \in Consumers, SubQueue!FreeBlock(c)
  PROVE  Running'
<1>1. PICK K, lo, home, M, V, W :
        /\ M = NewestEntry(producer, tailIndex) /\ V = NewestBlock(producer, tailIndex)
        /\ W = WrittenUpTo(producer, tailIndex)
        /\ SubOK(consumer, headIndex, headers, entries, K, lo, M, V, W, elements, emptied, freeCount, home)
        /\ Calling(producer, tailIndex, tailBlock, lo, home)
  BY DEF Running, State
<1>2. PICK q : q = consumer[c] /\ q.pc = "free"
  BY DEF SubQueue!FreeBlock
<1>3. freeCount' = [freeCount EXCEPT ![q.block] = @ + 1]
  BY <1>2 DEF SubQueue!FreeBlock
<1>4. PICK s : Onwards(q, s, headers) /\ consumer' = [consumer EXCEPT ![c] = s]
  BY <1>2, TheirOnward DEF SubQueue!FreeBlock, SubQueue!Step
<1>5. UNCHANGED <<headIndex, headers, entries, elements, emptied, producer, tailIndex, tailBlock>>
  BY DEF SubQueue!FreeBlock, SubQueue!counters, SubQueue!index
<1>6. Turned(consumer, consumer', c, s)
  BY <1>4, TurnsTo
<1>7. SubOK(consumer', headIndex, headers, entries, K, lo, M, V, W, elements, emptied, freeCount', home)
  BY <1>1, <1>2, <1>3, <1>4, <1>6, StepFree
<1>8. SubOK(consumer', headIndex', headers', entries', K, lo, M, V, W, elements', emptied', freeCount', home)
  BY <1>5, <1>7
<1> QED BY <1>1, <1>5, <1>8, RunsOn

-----------------------------------------------------------------------------
(* The steps of an implicit producer.                                      *)

\* A step of the producer.
LEMMA RunsProducing ==
  ASSUME NEW K, NEW lo, NEW home, NEW M, NEW V, NEW W,
         M = NewestEntry(producer', tailIndex'), V = NewestBlock(producer', tailIndex'),
         W = WrittenUpTo(producer', tailIndex'),
         SubOK(consumer', headIndex', headers', entries', K, lo, M, V, W, elements', emptied', freeCount', home),
         Calling(producer', tailIndex', tailBlock', lo, home)
  PROVE  Running'
  BY DEF Running, State

\* What a call that still looks for blocks has.
Counting(p, back, n, g, a) ==
    /\ n = p.count /\ g = Len(p.got) /\ a = Num(back - 1) /\ a >= -1 /\ Num(back + n - 1) \in Int
    /\ NewestBlock(p, back) = a + g /\ WrittenUpTo(p, back) = back
    /\ NewestEntry(p, back) = a + g + (IF p.pc = "block" THEN 1 ELSE 0)

\* It has a count, and blocks in a row behind the tail's.
LEMMA CallFacts ==
  ASSUME NEW p, NEW back, NEW tb, NEW lo, NEW home, Calling(p, back, tb, lo, home),
         p.pc \in {"index", "block"}
  PROVE  \E n \in Nat \ {0}, g \in Nat, a \in Int : Counting(p, back, n, g, a)
<1>1. back \in Nat /\ p.count \in Nat \ {0} /\ p.got \in Seq(Blocks)
  BY DEF Calling
<1>2. PICK n \in Nat \ {0}, g \in Nat, a \in Int : n = p.count /\ g = Len(p.got) /\ a = Num(back - 1) /\ a >= -1
  <2>1. Len(p.got) \in Nat
    BY <1>1
  <2>2. Num(back - 1) \in Int /\ Num(back - 1) >= -1
    BY <1>1, NumNat
  <2> QED BY <1>1, <2>1, <2>2
<1>3. Num(back + n - 1) \in Int
  <2>1. back + n - 1 \in Int
    BY <1>1
  <2> QED BY <2>1, NumFacts
<1>4. NewestBlock(p, back) = a + g /\ WrittenUpTo(p, back) = back
  BY <1>2 DEF NewestBlock, WrittenUpTo
<1> QED BY <1>2, <1>3, <1>4 DEF NewestEntry, Counting

\* How many blocks the call still has to find.
LEMMA TheirMissing ==
  SubQueue!Missing = Num(tailIndex + producer.count - 1) - Num(tailIndex - 1) - Len(producer.got)
  BY TheirNum DEF SubQueue!Missing

\* A call starts with nothing.
LEMMA CallEnqueueSub ==
  ASSUME Running, kind = "implicit", NEW n \in 1..MaxBulk, SubQueue!CallEnqueue(n)
  PROVE  Running'
<1>1. PICK K, lo, home, M, V, W :
        /\ M = NewestEntry(producer, tailIndex) /\ V = NewestBlock(producer, tailIndex)
        /\ W = WrittenUpTo(producer, tailIndex)
        /\ SubOK(consumer, headIndex, headers, entries, K, lo, M, V, W, elements, emptied, freeCount, home)
        /\ Calling(producer, tailIndex, tailBlock, lo, home)
  BY DEF Running, State
<1>2. /\ producer = [pc |-> "idle"]
      /\ producer' = [pc |-> "index", count |-> n, got |-> <<>>, start |-> tailBlock,
                      front |-> front, used |-> slotsUsed]
      /\ UNCHANGED <<consumer, headIndex, headers, entries, elements, emptied, freeCount, tailIndex, tailBlock>>
  BY DEF SubQueue!CallEnqueue, SubQueue!Idle, SubQueue!counters, SubQueue!blocks, SubQueue!index
<1>3. n \in Nat \ {0} /\ tailIndex \in Nat
  BY <1>1, CounterAssumption DEF Calling
<1>4. PICK a \in Int : a = Num(tailIndex - 1) /\ a <= Num(tailIndex + n - 1)
  <2>1. tailIndex - 1 \in Int /\ tailIndex + n - 1 \in Int /\ tailIndex - 1 <= tailIndex + n - 1
    BY <1>3
  <2> QED BY <2>1, NumMono, NumFacts
<1>5. M = a /\ V = a /\ W = tailIndex
  BY <1>1, <1>2, <1>4 DEF NewestEntry, NewestBlock, WrittenUpTo
<1>6. PICK p : /\ p = producer' /\ p.pc = "index" /\ p.count = n /\ p.got = <<>> /\ p.start = tailBlock
               /\ DOMAIN p = {"pc", "count", "got", "start", "front", "used"}
  BY <1>2
<1>7. Len(p.got) = 0 /\ p.got \in Seq(Blocks)
  BY <1>6
<1>8. NewestBlock(p, tailIndex) = a /\ NewestEntry(p, tailIndex) = a /\ WrittenUpTo(p, tailIndex) = tailIndex
  <2>1. NewestBlock(p, tailIndex) = a /\ WrittenUpTo(p, tailIndex) = tailIndex
    BY <1>4, <1>6, <1>7 DEF NewestBlock, WrittenUpTo
  <2> QED BY <1>6, <2>1 DEF NewestEntry
<1>9. tailBlock = BlockAt(home, a)
  BY <1>1, <1>5 DEF Calling
<1>10. Calling(p, tailIndex, tailBlock, lo, home)
  BY <1>3, <1>4, <1>6, <1>7, <1>8, <1>9 DEF Calling
<1> QED BY <1>1, <1>2, <1>5, <1>6, <1>8, <1>10, RunsProducing

\* The entry at the mark is that of the newest block, the ones around it are
\* those of the blocks around it.
LEMMA AtMark ==
  ASSUME NEW hd, NEW en, NEW K, NEW lo, NEW M, NEW L, NEW home, IndexOK(hd, en, K, lo, M, L, home),
         NEW d \in Int
  PROVE  At(hd, Len(hd), hd[Len(hd)].mark + d) = EntryOf(hd, K, M + d)
<1>1. HeadersOK(hd, en, K) /\ Mapped(hd, en, K)
  BY DEF IndexOK
<1>2. PICK h : h = Len(hd) /\ h \in 1..Len(hd)
  BY <1>1, LastFacts
<1>3. PICK s \in Nat \ {0}, k \in Int : s = Laps(hd, h) /\ k = K[h]
  BY <1>1, <1>2, AtFacts
<1>4. PICK m \in Int : m = hd[h].mark
  BY <1>1, <1>2, MarkNat
<1>5. M \in Int /\ Cong(m, k + M, s)
  BY <1>2, <1>3, <1>4 DEF IndexOK, InOrder
<1>6. k + M \in Int /\ m + d \in Int /\ k + (M + d) \in Int /\ (m + d) - (k + (M + d)) = m - (k + M)
  BY <1>5
<1>7. Cong(m + d, k + (M + d), s)
  BY <1>5, <1>6, CongShift
<1>8. At(hd, h, m + d) = At(hd, h, k + (M + d))
  BY <1>1, <1>2, <1>3, <1>6, <1>7, AtFacts, ZenonT(40)
<1> QED BY <1>2, <1>3, <1>4, <1>8 DEF EntryOf

\* An entry that was never used has no block.
LEMMA UnusedEmpty ==
  ASSUME NEW hd, NEW en, NEW K, NEW lo, NEW M, NEW L, NEW home, IndexOK(hd, en, K, lo, M, L, home),
         NEW e \in 1..Len(en), en[e].key = NULL
  PROVE  en[e].value = NULL
<1>1. SUFFICES ASSUME en[e].value # NULL PROVE FALSE
  OBVIOUS
<1>2. PICK n \in L : e = EntryOf(hd, K, n) /\ n \in lo..M /\ lo \in Nat /\ M \in Int
  BY <1>1 DEF IndexOK, InOrder
<1>3. en[e].key = n * BlockSize /\ n \in Nat
  BY <1>2 DEF IndexOK, InOrder
<1>4. n * BlockSize \in Nat
  BY <1>3, IndexAssumption
<1> QED BY <1>3, <1>4, IndexAssumption

\* The new index is one Doubling describes.
LEMMA TheirDoubling ==
  ASSUME NEW M, SubQueue!NextBase = (M + 1) * BlockSize, NEW h, h = SubQueue!GrownImplicit,
         NEW s \in Nat \ {0}, s = Laps(headers, Len(headers)),
         headers' = Append(headers, [h EXCEPT !.mark = @ + 1]),
         entries' = entries \o [i \in 1..SubQueue!Size(SubQueue!Top) |->
                        IF i = 1 THEN SubQueue!Entry(SubQueue!NextBase, NULL) ELSE SubQueue!Unused]
  PROVE  Doubling(headers, entries, M, headers', entries')
<1>1. SubQueue!Top = Len(headers) /\ SubQueue!Size(Len(headers)) = s
  BY TheirSlot DEF SubQueue!Top
<1>2. SubQueue!GrownImplicit = [mark |-> s - 1, slots |-> OldTurned(headers) \o FreshOnes(headers, entries)]
  <2>1. PICK old, fresh : old = OldTurned(headers) /\ fresh = FreshOnes(headers, entries)
    OBVIOUS
  <2>2. old = [i \in 1..s |-> SubQueue!Slot(Len(headers), headers[Len(headers)].mark + i)]
    BY <2>1, TheirSlot DEF OldTurned
  <2>3. fresh = [i \in 1..s |-> Len(entries) + i]
    BY <2>1 DEF FreshOnes
  <2>4. SubQueue!GrownImplicit = [mark |-> s - 1, slots |-> old \o fresh]
    BY <1>1, <2>2, <2>3 DEF SubQueue!GrownImplicit, SubQueue!Header
  <2> QED BY <2>1, <2>4
<1>3. PICK g : g = OldTurned(headers) \o FreshOnes(headers, entries)
  OBVIOUS
<1>4. h = [mark |-> s - 1, slots |-> g]
  BY <1>2, <1>3
<1>5. [h EXCEPT !.mark = @ + 1] = [mark |-> s, slots |-> g]
  <2>1. [h EXCEPT !.mark = @ + 1] = [mark |-> (s - 1) + 1, slots |-> g]
    BY <1>4
  <2> QED BY <2>1
<1>6. headers' = Append(headers, [mark |-> s, slots |-> g])
  BY <1>5
<1>7. entries' = entries \o NewEntries(headers, M)
  BY <1>1 DEF NewEntries, SubQueue!Entry, SubQueue!Unused
<1> QED BY <1>3, <1>6, <1>7 DEF Doubling

\* The next block gets its entry, in an index that is doubled if it is full.
LEMMA IndexBlockSub ==
  ASSUME Running, SubQueue!IndexBlock
  PROVE  Running'
<1>1. PICK K, lo, home, M, V, W :
        /\ M = NewestEntry(producer, tailIndex) /\ V = NewestBlock(producer, tailIndex)
        /\ W = WrittenUpTo(producer, tailIndex)
        /\ SubOK(consumer, headIndex, headers, entries, K, lo, M, V, W, elements, emptied, freeCount, home)
        /\ Calling(producer, tailIndex, tailBlock, lo, home)
  BY DEF Running, State
<1>2. PICK p, back : p = producer /\ back = tailIndex /\ p.pc = "index"
  BY DEF SubQueue!IndexBlock
<1>3. PICK n \in Nat \ {0}, g \in Nat, a \in Int : Counting(p, back, n, g, a)
  BY <1>1, <1>2, CallFacts
<1>4. M = a + g /\ V = a + g /\ W = back /\ M \in Nat \cup {-1}
  BY <1>1, <1>2, <1>3 DEF Counting
<1>5. M + 1 <= Num(back + n - 1) /\ SubQueue!NextBase = (M + 1) * BlockSize
  <2>1. SubQueue!Missing > 0
    BY DEF SubQueue!IndexBlock
  <2>2. PICK z \in Int : z = Num(back + n - 1)
    BY <1>3 DEF Counting
  <2>3. z - a - g > 0
    BY <1>2, <1>3, <2>1, <2>2, TheirMissing DEF Counting
  <2>4. SubQueue!NextBase = (a + g + 1) * BlockSize
    BY <1>2, <1>3, TheirNum DEF SubQueue!NextBase, Counting
  <2>5. a + g + 1 = M + 1 /\ M + 1 <= z
    BY <1>4, <2>3
  <2> QED BY <2>2, <2>4, <2>5
<1>6. PICK T, L, e : /\ T = Len(headers) /\ L = LiveOf(consumer, headIndex, V)
                     /\ IndexOK(headers, entries, K, lo, M, L, home) /\ e = EntryOf(headers, K, M + 1)
  BY <1>1 DEF SubOK
<1>7. /\ T \in 1..Len(headers) /\ T >= 1 /\ headers \in Seq(HeaderRec) /\ entries \in Seq(EntryRec)
      /\ e \in 1..Len(entries) /\ entries[e] \in EntryRec
  <2>1. HeadersOK(headers, entries, K) /\ Mapped(headers, entries, K)
    BY <1>6 DEF IndexOK
  <2>2. M + 1 \in Int
    BY <1>4
  <2>3. T \in 1..Len(headers) /\ e \in 1..Len(entries) /\ entries[e] \in EntryRec
    BY <1>6, <2>1, <2>2, LastFacts
  <2> QED BY <1>6, <2>1, <2>3 DEF HeadersOK
<1>8. PICK mark \in Nat, s \in Nat \ {0} : mark = headers[T].mark /\ s = Laps(headers, T)
  <2>1. HeadersOK(headers, entries, K)
    BY <1>6 DEF IndexOK
  <2> QED BY <1>7, <2>1, AtFacts, MarkNat
<1>9. SubQueue!Slot(SubQueue!Top, headers[SubQueue!Top].mark + 1) = e
  <2>1. At(headers, T, mark + 1) = e
    BY <1>6, <1>8, AtMark
  <2> QED BY <1>6, <1>8, <2>1, TheirSlot DEF SubQueue!Top
<1>10. UNCHANGED <<consumer, headIndex, elements, emptied, freeCount, tailIndex, tailBlock>>
       /\ producer' = [p EXCEPT !.pc = "block"]
  BY <1>2 DEF SubQueue!IndexBlock, SubQueue!counters, SubQueue!blocks
<1>11. \E K2, lo2 : /\ SubOK(consumer, headIndex, headers', entries', K2, lo2, M + 1, V, W, elements, emptied,
                             freeCount, home)
                    /\ lo2 <= M + 1
  <2>1. CASE entries[e].key = NULL \/ entries[e].value = NULL
    <3>1. entries[e].value = NULL
      BY <1>6, <1>7, <2>1, UnusedEmpty
    <3>2. /\ entries' = [entries EXCEPT ![e].key = (M + 1) * BlockSize]
          /\ headers' = [headers EXCEPT ![T].mark = (mark + 1) % s]
      <4>1. /\ entries' = [entries EXCEPT ![e].key = SubQueue!NextBase]
            /\ headers' = [headers EXCEPT ![SubQueue!Top].mark = (@ + 1) % SubQueue!Size(SubQueue!Top)]
        BY <1>9, <2>1 DEF SubQueue!IndexBlock
      <4>2. SubQueue!Top = T /\ SubQueue!Size(T) = s
        BY <1>6, <1>8, TheirSlot DEF SubQueue!Top
      <4> QED BY <1>5, <1>8, <4>1, <4>2
    <3>3. PICK x \in Nat : x = (M + 1) * BlockSize
      <4>1. M + 1 \in Nat
        BY <1>4
      <4> QED BY <4>1, IndexAssumption
    <3>4. entries' = [entries EXCEPT ![e] = [key |-> x, value |-> NULL]]
      <4>1. entries[e] = [key |-> entries[e].key, value |-> NULL]
        BY <1>7, <3>1 DEF EntryRec
      <4>2. [entries[e] EXCEPT !.key = x] = [key |-> x, value |-> NULL]
        BY <4>1
      <4> QED BY <3>2, <3>3, <4>2
    <3>5. OneEntry(entries, entries', e, [key |-> (M + 1) * BlockSize, value |-> NULL])
      <4>1. [key |-> x, value |-> NULL] \in EntryRec
        BY DEF EntryRec
      <4> QED BY <1>7, <3>3, <3>4, <4>1, OneChanged
    <3>6. Remarked(headers, headers', (headers[Len(headers)].mark + 1) % Laps(headers, Len(headers)))
      <4>1. (mark + 1) % s \in Nat
        OBVIOUS
      <4> QED BY <1>6, <1>7, <1>8, <3>2, <4>1, MarkChanged
    <3>7. e = EntryOf(headers, K, M + 1)
      BY <1>6
    <3>8. \E lo2 : /\ SubOK(consumer, headIndex, headers', entries', K, lo2, M + 1, V, W, elements, emptied,
                           freeCount, home)
                  /\ lo2 <= M + 1
      BY <1>1, <3>1, <3>5, <3>6, <3>7, StepReuse
    <3> QED BY <3>8
  <2>2. CASE ~(entries[e].key = NULL \/ entries[e].value = NULL)
    <3>1. PICK h : h = SubQueue!GrownImplicit
      OBVIOUS
    <3>2. /\ headers' = Append(headers, [h EXCEPT !.mark = @ + 1])
          /\ entries' = entries \o [i \in 1..SubQueue!Size(SubQueue!Top) |->
                        IF i = 1 THEN SubQueue!Entry(SubQueue!NextBase, NULL) ELSE SubQueue!Unused]
      BY <1>9, <2>2, <3>1 DEF SubQueue!IndexBlock
    <3>3. Doubling(headers, entries, M, headers', entries')
      BY <1>5, <1>6, <1>8, <3>1, <3>2, TheirDoubling
    <3> QED BY <1>1, <1>6, <2>2, <3>3, StepGrow
  <2> QED BY <2>1, <2>2
<1>12. PICK K2, lo2 : /\ SubOK(consumer, headIndex, headers', entries', K2, lo2, M + 1, V, W, elements, emptied,
                               freeCount, home)
                      /\ lo2 <= M + 1
  BY <1>11
<1>13. PICK r : /\ r = producer' /\ r.pc = "block" /\ r.count = p.count /\ r.got = p.got /\ r.start = p.start
                /\ {"pc", "count", "got", "start"} \subseteq DOMAIN r
  BY <1>1, <1>2, <1>10 DEF Calling
<1>14. NewestBlock(r, back) = V /\ NewestEntry(r, back) = M + 1 /\ WrittenUpTo(r, back) = W
  <2>1. NewestBlock(r, back) = a + g /\ WrittenUpTo(r, back) = back
    BY <1>3, <1>13 DEF NewestBlock, WrittenUpTo, Counting
  <2> QED BY <1>4, <1>13, <2>1 DEF NewestEntry
<1>15. Calling(r, back, tailBlock, lo2, home)
  <2>1. /\ back \in Nat /\ tailBlock = BlockAt(home, V) /\ p.count \in Nat \ {0} /\ p.got \in Seq(Blocks)
        /\ p.start = BlockAt(home, Num(back - 1))
        /\ \A j \in 1..Len(p.got) : p.got[j] = home[Num(back - 1) + j]
    BY <1>1, <1>2 DEF Calling
  <2>2. M + 1 <= Num(back + r.count - 1)
    BY <1>3, <1>5, <1>13 DEF Counting
  <2> QED BY <1>12, <1>13, <1>14, <2>1, <2>2 DEF Calling
<1> QED BY <1>2, <1>10, <1>12, <1>13, <1>14, <1>15, RunsProducing

\* The entry gets a free block, and its places become known.
LEMMA TakeBlockSub ==
  ASSUME Running, kind = "implicit", NEW b \in Blocks, SubQueue!TakeBlock(b)
  PROVE  Running'
<1>1. PICK K, lo, home, M, V, W :
        /\ M = NewestEntry(producer, tailIndex) /\ V = NewestBlock(producer, tailIndex)
        /\ W = WrittenUpTo(producer, tailIndex)
        /\ SubOK(consumer, headIndex, headers, entries, K, lo, M, V, W, elements, emptied, freeCount, home)
        /\ Calling(producer, tailIndex, tailBlock, lo, home)
  BY DEF Running, State
<1>2. PICK p, back : p = producer /\ back = tailIndex /\ p.pc = "block"
  BY DEF SubQueue!TakeBlock
<1>3. PICK n \in Nat \ {0}, g \in Nat, a \in Int : Counting(p, back, n, g, a)
  BY <1>1, <1>2, CallFacts
<1>4. M = a + g + 1 /\ V = a + g /\ W = back /\ M \in Nat /\ M = V + 1 /\ a < M /\ lo <= M
  <2>1. lo <= M
    BY <1>1, <1>2 DEF Calling
  <2> QED BY <1>1, <1>2, <1>3, <2>1 DEF Counting
<1>5. PICK L, e : /\ L = LiveOf(consumer, headIndex, V)
                  /\ IndexOK(headers, entries, K, lo, M, L, home) /\ e = EntryOf(headers, K, M)
  BY <1>1 DEF SubOK
<1>6. SubQueue!Slot(SubQueue!Top, headers[SubQueue!Top].mark) = e
  <2>1. PICK mark \in Int : mark = headers[Len(headers)].mark
    <3>1. HeadersOK(headers, entries, K) /\ Mapped(headers, entries, K)
      BY <1>5 DEF IndexOK
    <3>2. Len(headers) \in 1..Len(headers)
      BY <3>1, LastFacts
    <3> QED BY <3>1, <3>2, MarkNat
  <2>2. At(headers, Len(headers), mark + 0) = EntryOf(headers, K, M + 0)
    BY <1>5, <2>1, AtMark
  <2>3. mark + 0 = mark /\ M + 0 = M
    BY <1>4
  <2> QED BY <1>5, <2>1, <2>2, <2>3, TheirSlot DEF SubQueue!Top
<1>7. /\ UNCHANGED <<consumer, headIndex, headers, elements, tailIndex>> /\ tailBlock' = b
      /\ freeCount[b] > 0 /\ freeCount' = [freeCount EXCEPT ![b] = @ - 1]
      /\ emptied' = [emptied EXCEPT ![b] = 0]
      /\ entries' = [entries EXCEPT ![e].value = b]
      /\ producer' = [p EXCEPT !.got = Append(@, b), !.pc = "index"]
  BY <1>2, <1>6 DEF SubQueue!TakeBlock, SubQueue!counters, SubQueue!NoneEmptied, SubQueue!Pool, SubQueue!Got
<1>8. PICK home2 : home2 = [home EXCEPT ![M] = b]
  OBVIOUS
<1>9. OneEntry(entries, entries', e, [key |-> M * BlockSize, value |-> b])
  BY <1>4, <1>5, <1>7, FilledEntry
<1>10. Adopted(emptied, emptied', freeCount, freeCount', home, home2, M, b)
  BY <1>7, <1>8 DEF Adopted
<1>11. SubOK(consumer, headIndex, headers, entries', K, lo, M, M, W, elements, emptied', freeCount', home2)
  BY <1>1, <1>4, <1>5, <1>7, <1>9, <1>10, StepTake
<1>12. /\ back \in Nat /\ p.count \in Nat \ {0} /\ p.got \in Seq(Blocks)
       /\ p.start = BlockAt(home, Num(back - 1))
       /\ \A j \in 1..Len(p.got) : p.got[j] = home[Num(back - 1) + j]
       /\ NewestEntry(p, back) <= Num(back + p.count - 1)
       /\ {"pc", "count", "got", "start"} \subseteq DOMAIN p
  BY <1>1, <1>2 DEF Calling
<1>13. PICK r : /\ r = producer' /\ r.pc = "index" /\ r.count = p.count /\ r.got = Append(p.got, b)
                /\ r.start = p.start /\ {"pc", "count", "got", "start"} \subseteq DOMAIN r
  BY <1>7, <1>12
<1>14. /\ r.got \in Seq(Blocks) /\ Len(r.got) = g + 1 /\ r.got[g + 1] = b
       /\ \A j \in 1..g : r.got[j] = p.got[j]
  BY <1>3, <1>12, <1>13 DEF Counting
<1>15. home2[M] = b /\ \A x : x # M => home2[x] = home[x]
  <2>1. DOMAIN home = Nat
    BY <1>1 DEF SubOK
  <2> QED BY <1>4, <1>8, <2>1
<1>16. NewestBlock(r, back) = M /\ NewestEntry(r, back) = M /\ WrittenUpTo(r, back) = W
  <2>1. NewestBlock(r, back) = a + (g + 1) /\ WrittenUpTo(r, back) = back
    BY <1>3, <1>13, <1>14 DEF NewestBlock, WrittenUpTo, Counting
  <2>2. a + (g + 1) = M
    BY <1>4
  <2> QED BY <1>4, <1>13, <2>1, <2>2 DEF NewestEntry
<1>17. Calling(r, back, b, lo, home2)
  <2>1. b = BlockAt(home2, M)
    BY <1>4, <1>15 DEF BlockAt
  <2>2. r.start = BlockAt(home2, a)
    <3>1. r.start = BlockAt(home, a)
      BY <1>3, <1>12, <1>13 DEF Counting
    <3>2. a # M
      BY <1>4
    <3>3. home2[a] = home[a]
      BY <1>15, <3>2
    <3> QED BY <3>1, <3>3 DEF BlockAt
  <2>3. ASSUME NEW j \in 1..Len(r.got) PROVE r.got[j] = home2[a + j]
    <3>1. CASE j = g + 1
      <4>1. a + j = M
        BY <1>4, <3>1
      <4> QED BY <1>14, <1>15, <3>1, <4>1
    <3>2. CASE j # g + 1
      <4>1. j \in 1..g /\ a + j # M
        BY <1>4, <1>14, <2>3, <3>2
      <4>2. p.got[j] = home[a + j]
        BY <1>3, <1>12, <4>1 DEF Counting
      <4> QED BY <1>14, <1>15, <4>1, <4>2
    <3> QED BY <3>1, <3>2
  <2>4. M <= Num(back + r.count - 1)
    BY <1>1, <1>2, <1>12, <1>13
  <2>5. a = Num(back - 1)
    BY <1>3 DEF Counting
  <2> QED BY <1>12, <1>13, <1>14, <1>16, <2>1, <2>2, <2>3, <2>4, <2>5 DEF Calling
<1> QED BY <1>2, <1>7, <1>11, <1>13, <1>16, <1>17, RunsProducing
-----------------------------------------------------------------------------
\* How often a block is among those that go back.
TimesGot(fetched, b) == Cardinality({i \in DOMAIN fetched : fetched[i] = b})
InPlaces(home, a, g, b) == \E x \in a + 1..a + g : home[x] = b
OnceIn(fetched, home, a, g, b) == TimesGot(fetched, b) = IF InPlaces(home, a, g, b) THEN 1 ELSE 0
GotInTurn(fetched, home, a, g) ==
    /\ DOMAIN fetched = 1..g /\ \A j \in 1..g : fetched[j] = home[a + j]
    /\ \A x, y \in a + 1..a + g : home[x] = home[y] => x = y

\* Blocks that differ are there once each.
LEMMA OnceGot ==
  ASSUME NEW home, NEW fetched, NEW g \in Nat, NEW a \in Int,
         GotInTurn(fetched, home, a, g), NEW b
  PROVE  OnceIn(fetched, home, a, g, b)
<1>h. /\ DOMAIN fetched = 1..g /\ \A j \in 1..g : fetched[j] = home[a + j]
      /\ \A x, y \in a + 1..a + g : home[x] = home[y] => x = y
  BY DEF GotInTurn
<1>1. CASE InPlaces(home, a, g, b)
  <2>1. PICK x \in a + 1..a + g : home[x] = b
    BY <1>1 DEF InPlaces
  <2>2. PICK j : j = x - a /\ j \in 1..g /\ a + j = x
    BY <2>1
  <2>3. {i \in DOMAIN fetched : fetched[i] = b} = {j}
    <3>1. ASSUME NEW i \in 1..g, fetched[i] = b PROVE i = j
      <4>1. a + i \in a + 1..a + g /\ home[a + i] = home[x]
        BY <1>h, <2>1, <3>1
      <4>2. a + i = x
        BY <1>h, <2>1, <4>1
      <4> QED BY <2>2, <4>2
    <3>2. fetched[j] = b
      BY <1>h, <2>1, <2>2
    <3> QED BY <1>h, <2>2, <3>1, <3>2
  <2> QED BY <1>1, <2>3, FS_Singleton DEF TimesGot, OnceIn
<1>2. CASE ~InPlaces(home, a, g, b)
  <2>1. {i \in DOMAIN fetched : fetched[i] = b} = {}
    <3>1. ASSUME NEW i \in 1..g, fetched[i] = b PROVE FALSE
      <4>1. a + i \in a + 1..a + g /\ home[a + i] = b
        BY <1>h, <3>1
      <4> QED BY <1>2, <4>1 DEF InPlaces
    <3> QED BY <1>h, <3>1
  <2> QED BY <1>2, <2>1, FS_EmptySet DEF TimesGot, OnceIn
<1> QED BY <1>1, <1>2

\* The entries of a call that gives up are those of its newest blocks.
LEMMA TheirUndone ==
  ASSUME NEW hd, NEW en, NEW K, NEW lo, NEW M, NEW L, NEW home, IndexOK(hd, en, K, lo, M, L, home),
         NEW k \in Nat, NEW undone, undone = {At(hd, Len(hd), hd[Len(hd)].mark - i) : i \in 0..k - 1},
         NEW en2, en2 = [f \in DOMAIN en |-> IF f \in undone THEN [en[f] EXCEPT !.value = NULL] ELSE en[f]]
  PROVE  Undone(hd, en, K, M, k, en2)
<1>1. M \in Int
  BY DEF IndexOK, InOrder
<1>2. PICK mark \in Int : mark = hd[Len(hd)].mark
  <2>1. HeadersOK(hd, en, K) /\ Mapped(hd, en, K)
    BY DEF IndexOK
  <2>2. Len(hd) \in 1..Len(hd)
    BY <2>1, LastFacts
  <2> QED BY <2>1, <2>2, MarkNat
<1>3. ASSUME NEW i \in Int PROVE At(hd, Len(hd), mark - i) = EntryOf(hd, K, M - i)
  <2>1. PICK d \in Int : d = -i
    OBVIOUS
  <2>2. At(hd, Len(hd), mark + d) = EntryOf(hd, K, M + d)
    BY <1>2, AtMark
  <2>3. mark + d = mark - i /\ M + d = M - i
    BY <1>1, <2>1
  <2> QED BY <2>2, <2>3
<1>4. ASSUME NEW f PROVE f \in undone <=> \E n \in M - k + 1..M : f = EntryOf(hd, K, n)
  <2>1. ASSUME f \in undone PROVE \E n \in M - k + 1..M : f = EntryOf(hd, K, n)
    <3>1. PICK i \in 0..k - 1 : f = At(hd, Len(hd), mark - i)
      BY <1>2, <2>1
    <3>2. M - i \in M - k + 1..M
      BY <1>1
    <3> QED BY <1>3, <3>1, <3>2
  <2>2. ASSUME NEW n \in M - k + 1..M, f = EntryOf(hd, K, n) PROVE f \in undone
    <3>1. PICK i \in 0..k - 1 : i = M - n /\ M - i = n
      BY <1>1
    <3>2. f = At(hd, Len(hd), mark - i)
      BY <1>3, <2>2, <3>1
    <3> QED BY <1>2, <3>2
  <2> QED BY <2>1, <2>2
<1>5. ASSUME NEW f \in DOMAIN en
      PROVE  (IF f \in undone THEN [en[f] EXCEPT !.value = NULL] ELSE en[f])
               = IF \E n \in M - k + 1..M : f = EntryOf(hd, K, n) THEN [en[f] EXCEPT !.value = NULL] ELSE en[f]
  BY <1>4
<1>6. en2 = [f \in DOMAIN en |-> IF \E n \in M - k + 1..M : f = EntryOf(hd, K, n)
                                 THEN [en[f] EXCEPT !.value = NULL] ELSE en[f]]
  BY <1>5
<1> QED BY <1>6 DEF Undone

\* Blocks with places that are not written have different ones.
LEMMA NewHomes ==
  ASSUME NEW con, NEW first, NEW hd, NEW en, NEW K, NEW lo, NEW M, NEW V, NEW W, NEW el, NEW em, NEW fc,
         NEW home, SubOK(con, first, hd, en, K, lo, M, V, W, el, em, fc, home),
         NEW N \in Int, -1 <= N, N <= V, \A i \in Nat : i < W => Num(i) <= N
  PROVE  /\ \A x, y \in N + 1..V : home[x] = home[y] => x = y
         /\ fc \in [Blocks -> Nat]
<1>1. PICK A, U, X, F, L : /\ Store(first, A, U, X, F, V, W, el, em, fc, home)
                           /\ L = Live(first, A, X, V) /\ Homes(L, home) /\ Spared(F, L, fc, home)
  BY DEF SubOK, StoreOf, Store
<1>2. PICK fc2 : GivenBack(fc, fc2, home, N, V)
  BY DEF GivenBack
<1>3. N + 1..V \subseteq L
  BY <1>1, <1>2, StoreGiveUp
<1>4. \A x, y \in N + 1..V : home[x] = home[y] => x = y
  BY <1>1, <1>3 DEF Homes
<1>5. fc \in [Blocks -> Nat]
  BY <1>1 DEF Spared
<1> QED BY <1>4, <1>5

\* The call has changed nothing when it fails.
LEMMA GiveUpSub ==
  ASSUME Running, SubQueue!GiveUpImplicit
  PROVE  Running'
<1>1. PICK K, lo, home, M, V, W :
        /\ M = NewestEntry(producer, tailIndex) /\ V = NewestBlock(producer, tailIndex)
        /\ W = WrittenUpTo(producer, tailIndex)
        /\ SubOK(consumer, headIndex, headers, entries, K, lo, M, V, W, elements, emptied, freeCount, home)
        /\ Calling(producer, tailIndex, tailBlock, lo, home)
  BY DEF Running, State
<1>2. PICK p, back : p = producer /\ back = tailIndex /\ p.pc \in {"index", "block"}
  BY DEF SubQueue!GiveUpImplicit
<1>3. PICK n \in Nat \ {0}, g \in Nat, a \in Int : Counting(p, back, n, g, a)
  BY <1>1, <1>2, CallFacts
<1>4. PICK k \in Nat : /\ k = g + (IF p.pc = "block" THEN 1 ELSE 0) /\ M = a + k /\ V = a + g /\ W = back
                       /\ a = M - k /\ -1 <= a /\ a <= V /\ (M = V \/ (M = V + 1 /\ lo <= M))
  <2>1. p.pc = "block" => lo <= M
    BY <1>1, <1>2 DEF Calling
  <2>2. CASE p.pc = "block"
    <3>1. M = a + g + 1 /\ V = a + g /\ W = back /\ a >= -1
      BY <1>1, <1>2, <1>3, <2>2 DEF Counting
    <3>2. PICK k \in Nat : k = g + 1
      OBVIOUS
    <3>3. M = a + k /\ a = M - k /\ a <= V /\ M = V + 1
      BY <3>1, <3>2
    <3> QED BY <2>1, <2>2, <3>1, <3>2, <3>3
  <2>3. CASE p.pc = "index"
    <3>1. p.pc # "block"
      BY <2>3
    <3> QED BY <1>1, <1>2, <1>3, <3>1 DEF Counting
  <2> QED BY <1>2, <2>2, <2>3
<1>5. PICK T, L : /\ T = Len(headers) /\ L = LiveOf(consumer, headIndex, V)
                  /\ IndexOK(headers, entries, K, lo, M, L, home)
  BY <1>1 DEF SubOK
<1>6. T \in 1..Len(headers) /\ T >= 1 /\ headers \in Seq(HeaderRec)
  <2>1. HeadersOK(headers, entries, K) /\ Mapped(headers, entries, K)
    BY <1>5 DEF IndexOK
  <2> QED BY <1>5, <2>1, LastFacts DEF HeadersOK
<1>7. PICK mark \in Nat, s \in Nat \ {0} : mark = headers[T].mark /\ s = Laps(headers, T)
  <2>1. HeadersOK(headers, entries, K)
    BY <1>5 DEF IndexOK
  <2> QED BY <1>6, <2>1, AtFacts, MarkNat
<1>8. PICK undone : undone = {At(headers, T, headers[T].mark - i) : i \in 0..k - 1}
  OBVIOUS
<1>t. k = Len(p.got) + (IF p.pc = "block" THEN 1 ELSE 0)
  BY <1>3, <1>4 DEF Counting
<1>9. /\ UNCHANGED <<consumer, headIndex, elements, emptied, tailIndex>>
      /\ entries' = [e \in DOMAIN entries |->
                       IF e \in undone THEN [entries[e] EXCEPT !.value = NULL] ELSE entries[e]]
      /\ headers' = [headers EXCEPT ![T].mark = (mark - k) % s]
      /\ freeCount' = [b \in Blocks |-> freeCount[b] + Cardinality({i \in DOMAIN p.got : p.got[i] = b})]
      /\ tailBlock' = p.start /\ producer' = [pc |-> "idle"]
  <2>1. undone = {SubQueue!Slot(SubQueue!Top, headers[SubQueue!Top].mark - i) : i \in 0..k - 1}
    BY <1>5, <1>8, TheirSlot DEF SubQueue!Top
  <2>2. /\ entries' = [e \in DOMAIN entries |->
                       IF e \in undone THEN [entries[e] EXCEPT !.value = NULL] ELSE entries[e]]
        /\ headers' = [headers EXCEPT ![SubQueue!Top].mark = (@ - k) % SubQueue!Size(SubQueue!Top)]
    BY <1>2, <1>t, <2>1 DEF SubQueue!GiveUpImplicit
  <2>3. SubQueue!Top = T /\ SubQueue!Size(T) = s
    BY <1>5, <1>7, TheirSlot DEF SubQueue!Top
  <2>4. headers' = [headers EXCEPT ![T].mark = (mark - k) % s]
    BY <1>7, <2>2, <2>3
  <2>5. freeCount' = [b \in Blocks |-> freeCount[b] + Cardinality({i \in DOMAIN p.got : p.got[i] = b})]
    BY <1>2, TheirCount DEF SubQueue!GiveUpImplicit
  <2>6. /\ UNCHANGED <<consumer, headIndex, elements, emptied, tailIndex>>
        /\ tailBlock' = p.start /\ producer' = [pc |-> "idle"]
    BY <1>2 DEF SubQueue!GiveUpImplicit, SubQueue!counters, SubQueue!Idle
  <2> QED BY <2>2, <2>4, <2>5, <2>6
<1>10. Undone(headers, entries, K, M, k, entries')
  BY <1>5, <1>8, <1>9, TheirUndone
<1>11. Remarked(headers, headers', (headers[Len(headers)].mark - k) % Laps(headers, Len(headers)))
  <2>1. (mark - k) % s \in Nat
    OBVIOUS
  <2> QED BY <1>5, <1>6, <1>7, <1>9, <2>1, MarkChanged
<1>12. back \in Nat /\ p.got \in Seq(Blocks) /\ p.start = BlockAt(home, a)
       /\ \A j \in 1..Len(p.got) : p.got[j] = home[a + j]
  BY <1>1, <1>2, <1>3 DEF Calling, Counting
<1>13. \A i \in Nat : i < W => Num(i) <= a
  <2>1. ASSUME NEW i \in Nat, i < W PROVE Num(i) <= a
    <3>1. i \in Int /\ back - 1 \in Int /\ i <= back - 1
      BY <1>4, <1>12, <2>1
    <3> QED BY <1>3, <3>1, NumMono DEF Counting
  <2> QED BY <2>1
<1>14. GivenBack(freeCount, freeCount', home, a, V)
  <2>1. /\ \A x, y \in a + 1..a + g : home[x] = home[y] => x = y
        /\ freeCount \in [Blocks -> Nat]
    BY <1>1, <1>4, <1>13, NewHomes
  <2>2. PICK took : took = p.got /\ DOMAIN took = 1..g /\ \A j \in 1..g : took[j] = home[a + j]
    <3>1. DOMAIN p.got = 1..g /\ \A j \in 1..g : p.got[j] = home[a + j]
      BY <1>3, <1>12 DEF Counting
    <3> QED BY <3>1
  <2>3. ASSUME NEW b \in Blocks
        PROVE  freeCount'[b] = freeCount[b] + IF \E x \in a + 1..V : home[x] = b THEN 1 ELSE 0
    <3>1. freeCount'[b] = freeCount[b] + TimesGot(took, b)
      BY <1>9, <2>2 DEF TimesGot
    <3>2. TimesGot(took, b)
            = IF InPlaces(home, a, g, b) THEN 1 ELSE 0
      <4>1. GotInTurn(took, home, a, g)
        BY <2>1, <2>2 DEF GotInTurn
      <4>2. OnceIn(took, home, a, g, b)
        BY <4>1, OnceGot
      <4> QED BY <4>2 DEF OnceIn
    <3>3. V = a + g
      BY <1>4
    <3> QED BY <3>1, <3>2, <3>3 DEF InPlaces
  <2>4. freeCount' = [b \in Blocks |-> freeCount[b] + IF \E x \in a + 1..V : home[x] = b THEN 1 ELSE 0]
    BY <1>9, <2>3
  <2> QED BY <2>4 DEF GivenBack
<1>15. SubOK(consumer, headIndex, headers', entries', K, lo, a, a, W, elements, emptied, freeCount', home)
  BY <1>1, <1>4, <1>10, <1>11, <1>13, <1>14, StepGiveUp, ZenonT(40)
<1>16. PICK r : r = producer' /\ r = [pc |-> "idle"] /\ r.pc = "idle"
  BY <1>9
<1>17. NewestBlock(r, back) = a /\ NewestEntry(r, back) = a /\ WrittenUpTo(r, back) = W
  <2>1. NewestBlock(r, back) = a /\ WrittenUpTo(r, back) = W
    BY <1>3, <1>4, <1>16 DEF NewestBlock, WrittenUpTo, Counting
  <2> QED BY <1>16, <2>1 DEF NewestEntry
<1>18. Calling(r, back, p.start, lo, home)
  BY <1>12, <1>16, <1>17 DEF Calling
<1> QED BY <1>2, <1>9, <1>15, <1>16, <1>17, <1>18, RunsProducing

\* Constructed, block by block and offset by offset.
Placed(el, S, b, o) == IF S = {} THEN el[b][o] ELSE CHOOSE j \in S : TRUE
Theirs(p, back, b, o) ==
    {j \in back..back + p.count - 1 :
        /\ (IF Num(j) = Num(back - 1) THEN p.start ELSE p.got[Num(j) - Num(back - 1)]) = b
        /\ Off(j) = o}
Ours(home, W, W2, b, o) == {j \in W..W2 - 1 : home[Num(j)] = b /\ Off(j) = o}

\* The elements are in the blocks the call has found, and nobody sees them.
LEMMA WriteSub ==
  ASSUME Running, kind = "implicit", SubQueue!Write
  PROVE  Running'
<1>1. PICK K, lo, home, M, V, W :
        /\ M = NewestEntry(producer, tailIndex) /\ V = NewestBlock(producer, tailIndex)
        /\ W = WrittenUpTo(producer, tailIndex)
        /\ SubOK(consumer, headIndex, headers, entries, K, lo, M, V, W, elements, emptied, freeCount, home)
        /\ Calling(producer, tailIndex, tailBlock, lo, home)
  BY DEF Running, State
<1>2. PICK p, back : p = producer /\ back = tailIndex /\ p.pc = "index"
  <2>1. producer.pc \in {"idle", "index", "block", "publish"}
    BY <1>1 DEF Calling
  <2> QED BY <2>1 DEF SubQueue!Write
<1>3. PICK n \in Nat \ {0}, g \in Nat, a \in Int : Counting(p, back, n, g, a)
  BY <1>1, <1>2, CallFacts
<1>4. /\ M = a + g /\ V = a + g /\ W = back /\ back \in Nat
      /\ p.start = BlockAt(home, a) /\ (\A j \in 1..g : p.got[j] = home[a + j])
      /\ tailBlock = BlockAt(home, V) /\ M <= Num(back + n - 1)
  <2>1. M = a + g /\ V = a + g /\ W = back
    BY <1>1, <1>2, <1>3 DEF Counting
  <2> QED BY <1>1, <1>2, <1>3, <2>1 DEF Calling, Counting
<1>5. V = Num(back + n - 1)
  <2>1. PICK z \in Int : z = Num(back + n - 1)
    BY <1>3 DEF Counting
  <2>2. z - a - g <= 0
    BY <1>2, <1>3, <2>1, TheirMissing DEF SubQueue!Write, Counting
  <2>3. M <= z
    BY <1>4, <2>1
  <2> QED BY <1>4, <2>1, <2>2, <2>3
<1>6. /\ UNCHANGED <<consumer, headIndex, headers, entries, emptied, freeCount, tailIndex, tailBlock>>
      /\ elements' = SubQueue!Constructed /\ producer' = [pc |-> "publish", count |-> n]
  <2>1. kind # "explicit"
    OBVIOUS
  <2> QED BY <1>2, <1>3, <2>1 DEF SubQueue!Write, SubQueue!counters, Counting
<1>7. PICK W2 \in Nat : W2 = back + n /\ W <= W2
  BY <1>4
<1>8. \A i \in Nat : i < W2 => Num(i) <= V
  <2>1. ASSUME NEW i \in Nat, i < W2 PROVE Num(i) <= V
    <3>1. i \in Int /\ back + n - 1 \in Int /\ i <= back + n - 1
      BY <1>4, <1>7, <2>1
    <3> QED BY <1>5, <3>1, NumMono
  <2> QED BY <2>1
<1>9. ASSUME NEW j \in W..W2 - 1
      PROVE  home[Num(j)] = IF Num(j) = a THEN p.start ELSE p.got[Num(j) - a]
  <2>1. j \in Nat /\ back - 1 \in Int /\ back - 1 <= j /\ j \in Int
    BY <1>4, <1>7
  <2>2. PICK m \in Nat : m = Num(j)
    BY <2>1, NumNat
  <2>3. a <= m /\ m <= V
    <3>1. Num(j) <= V
      BY <1>7, <1>8, <1>9, <2>1
    <3>2. Num(back - 1) <= Num(j)
      BY <2>1, NumMono
    <3> QED BY <1>3, <2>2, <3>1, <3>2 DEF Counting
  <2>4. CASE m = a
    <3>1. a # -1
      BY <2>2, <2>4
    <3> QED BY <1>4, <2>2, <2>4, <3>1 DEF BlockAt
  <2>5. CASE m # a
    <3>1. m - a \in 1..g /\ a + (m - a) = m
      BY <1>4, <2>3, <2>5
    <3>2. p.got[m - a] = home[a + (m - a)]
      BY <1>4, <3>1
    <3> QED BY <2>2, <2>5, <3>1, <3>2
  <2> QED BY <2>4, <2>5
<1>10. elements' = [b \in Blocks |-> [o \in 0..BlockSize - 1 |->
                      LET here == {j \in W..W2 - 1 : home[Num(j)] = b /\ Off(j) = o}
                      IN  IF here = {} THEN elements[b][o] ELSE CHOOSE j \in here : TRUE]]
  <2>1. elements' = [b \in Blocks |-> [o \in 0..BlockSize - 1 |->
                        Placed(elements, Theirs(producer, tailIndex, b, o), b, o)]]
    BY <1>6, Zenon DEF SubQueue!Constructed, SubQueue!Offsets, Placed, Theirs, Num, Off, SubQueue!BlockOf,
       SubQueue!Offset
  <2>2. ASSUME NEW b, NEW o
        PROVE  Theirs(producer, tailIndex, b, o) = Ours(home, W, W2, b, o)
    <3>1. back..back + n - 1 = W..W2 - 1 /\ a = Num(back - 1) /\ n = p.count
      BY <1>3, <1>4, <1>7 DEF Counting
    <3>2. Theirs(p, back, b, o) = Ours(home, W, W2, b, o)
      BY <1>9, <3>1 DEF Theirs, Ours
    <3> QED BY <1>2, <3>2
  <2>3. ASSUME NEW b \in Blocks
        PROVE  [o \in 0..BlockSize - 1 |-> Placed(elements, Theirs(producer, tailIndex, b, o), b, o)]
                 = [o \in 0..BlockSize - 1 |-> Placed(elements, Ours(home, W, W2, b, o), b, o)]
    BY <2>2
  <2>4. elements' = [b \in Blocks |-> [o \in 0..BlockSize - 1 |-> Placed(elements, Ours(home, W, W2, b, o), b, o)]]
    BY <2>1, <2>3
  <2> QED BY <2>4 DEF Placed, Ours
<1>11. SubOK(consumer, headIndex, headers, entries, K, lo, M, V, W2, elements', emptied, freeCount, home)
  BY <1>1, <1>7, <1>8, <1>10, StepWrite
<1>12. PICK r : /\ r = producer' /\ r.pc = "publish" /\ r.count = n /\ DOMAIN r = {"pc", "count"}
  BY <1>6
<1>13. NewestBlock(r, back) = V /\ NewestEntry(r, back) = M /\ WrittenUpTo(r, back) = W2
  <2>1. NewestBlock(r, back) = V /\ WrittenUpTo(r, back) = W2
    BY <1>5, <1>7, <1>12 DEF NewestBlock, WrittenUpTo
  <2> QED BY <1>4, <1>12, <2>1 DEF NewestEntry
<1>14. Calling(r, back, tailBlock, lo, home)
  BY <1>4, <1>12, <1>13 DEF Calling
<1> QED BY <1>2, <1>6, <1>11, <1>12, <1>13, <1>14, RunsProducing

\* The tail passes elements that are all written.
LEMMA PublishSub ==
  ASSUME Running, SubQueue!Publish
  PROVE  Running'
<1>1. PICK K, lo, home, M, V, W :
        /\ M = NewestEntry(producer, tailIndex) /\ V = NewestBlock(producer, tailIndex)
        /\ W = WrittenUpTo(producer, tailIndex)
        /\ SubOK(consumer, headIndex, headers, entries, K, lo, M, V, W, elements, emptied, freeCount, home)
        /\ Calling(producer, tailIndex, tailBlock, lo, home)
  BY DEF Running, State
<1>2. PICK p, back, n : p = producer /\ back = tailIndex /\ p.pc = "publish" /\ n = p.count
  BY DEF SubQueue!Publish
<1>3. n \in Nat \ {0} /\ back \in Nat /\ tailBlock = BlockAt(home, V)
  BY <1>1, <1>2 DEF Calling
<1>4. /\ UNCHANGED <<consumer, headIndex, headers, entries, elements, emptied, freeCount, tailBlock>>
      /\ tailIndex' = back + n /\ producer' = [pc |-> "idle"]
  BY <1>2 DEF SubQueue!Publish, SubQueue!blocks, SubQueue!index, SubQueue!Idle
<1>5. V = Num(back + n - 1) /\ M = V /\ W = back + n
  <2>1. V = Num(back + n - 1) /\ W = back + n
    BY <1>1, <1>2 DEF NewestBlock, WrittenUpTo
  <2>2. back + n - 1 \in Int
    BY <1>3
  <2>3. Num(back + n - 1) \in Int
    BY <2>2, NumFacts
  <2> QED BY <1>1, <1>2, <2>1, <2>3 DEF NewestEntry
<1>6. PICK r, back2 : r = producer' /\ r = [pc |-> "idle"] /\ r.pc = "idle" /\ back2 = tailIndex' /\ back2 = back + n
  BY <1>4
<1>7. NewestBlock(r, back2) = V /\ NewestEntry(r, back2) = M /\ WrittenUpTo(r, back2) = W
  <2>1. NewestBlock(r, back2) = V /\ WrittenUpTo(r, back2) = W
    <3>1. back2 - 1 = back + n - 1
      BY <1>3, <1>6
    <3> QED BY <1>5, <1>6, <3>1 DEF NewestBlock, WrittenUpTo
  <2>2. back + n - 1 \in Int
    BY <1>3
  <2>3. V \in Int
    BY <1>5, <2>2, NumFacts
  <2> QED BY <1>5, <1>6, <2>1, <2>3 DEF NewestEntry
<1>8. Calling(r, back2, tailBlock, lo, home)
  <2>1. back2 \in Nat
    BY <1>3, <1>6
  <2> QED BY <1>3, <1>6, <1>7, <2>1 DEF Calling
<1> QED BY <1>1, <1>4, <1>6, <1>7, <1>8, RunsProducing

-----------------------------------------------------------------------------
(* The beginning and the end of an implicit producer.                      *)

\* Consumers that are idle have nothing.
LEMMA IdleHold ==
  ASSUME NEW con, \A c \in Consumers : con[c] = [pc |-> "idle"]
  PROVE  /\ All(Opens(con)) = {} /\ All(Unreads(con)) = {} /\ All(Unlinks(con)) = {} /\ All(Freeings(con)) = {}
         /\ Disjoint(con)
<1>1. \A c \in Consumers : Opens(con)[c] = {} /\ Unreads(con)[c] = {} /\ Unlinks(con)[c] = {} /\ Freeings(con)[c] = {}
  BY DEF Opens, Unreads, Unlinks, Freeings, Open, Unread, Unlinked, Freeing
<1>2. /\ All(Opens(con)) = {} /\ All(Unreads(con)) = {} /\ All(Unlinks(con)) = {} /\ All(Freeings(con)) = {}
  BY <1>1 DEF All
<1> QED BY <1>1, <1>2 DEF Disjoint, Pairwise

\* A sequence of one.
LEMMA OneInSequence ==
  ASSUME NEW S, NEW r \in S
  PROVE  <<r>> \in Seq(S)
  OBVIOUS

\* The first index.
LEMMA FirstIndex ==
  ASSUME NEW hd, hd = <<[mark |-> IndexSize - 1, slots |-> [n \in 1..IndexSize |-> n]]>>,
         NEW en, en = [e \in 1..IndexSize |-> [key |-> NULL, value |-> NULL]],
         NEW K, K = [h \in 1..1 |-> 0], NEW home
  PROVE  IndexOK(hd, en, K, 0, -1, {}, home)
<1>1. PICK s \in Nat \ {0} : s = IndexSize
  BY IndexAssumption
<1>2. PICK slots : slots = [n \in 1..s |-> n]
  OBVIOUS
<1>3. slots \in Seq(Nat) /\ Len(slots) = s
  <2>1. slots \in [1..s -> Nat]
    BY <1>2
  <2> QED BY <2>1, AsSequence
<1>4. en \in Seq(EntryRec) /\ Len(en) = s
  <2>1. [key |-> NULL, value |-> NULL] \in EntryRec
    BY DEF EntryRec
  <2>2. en \in [1..s -> EntryRec]
    BY <1>1, <2>1
  <2> QED BY <2>2, AsSequence
<1>5. hd = <<[mark |-> s - 1, slots |-> slots]>>
  BY <1>1, <1>2
<1>6. hd \in Seq(HeaderRec) /\ Len(hd) = 1 /\ hd[1].mark = s - 1 /\ hd[1].slots = slots
  <2>1. PICK r : r = [mark |-> s - 1, slots |-> slots]
    OBVIOUS
  <2>2. r.mark = s - 1 /\ r.slots = slots /\ s - 1 \in Nat
    BY <2>1
  <2>3. r \in HeaderRec
    BY <1>3, <2>1, <2>2 DEF HeaderRec
  <2>4. hd = <<r>>
    BY <1>5, <2>1
  <2>5. Len(hd) = 1 /\ hd[1] = r
    BY <2>4
  <2>6. hd \in Seq(HeaderRec)
    BY <2>3, <2>4, OneInSequence
  <2> QED BY <2>2, <2>5, <2>6
<1>7. Laps(hd, 1) = s /\ K[1] = 0 /\ K \in [1..1 -> Int]
  BY <1>3, <1>6 DEF Laps
<1>8. HeadersOK(hd, en, K)
  <2>1. 1..Len(hd) = {1} /\ K \in [1..Len(hd) -> Int]
    BY <1>6, <1>7
  <2>2. \A p \in 1..Laps(hd, 1) : hd[1].slots[p] \in 1..Len(en)
    BY <1>2, <1>4, <1>6, <1>7
  <2>3. ASSUME NEW h \in 1..Len(hd)
        PROVE  Laps(hd, h) >= 1 /\ \A p \in 1..Laps(hd, h) : hd[h].slots[p] \in 1..Len(en)
    <3>1. h = 1
      BY <2>1
    <3>2. s >= 1
      OBVIOUS
    <3>3. Laps(hd, 1) >= 1
      BY <1>7, <3>2
    <3> QED BY <2>2, <3>1, <3>3
  <2>4. Len(hd) >= 1
    BY <1>6
  <2> QED BY <1>4, <1>6, <2>1, <2>3, <2>4 DEF HeadersOK
<1>9. \A e \in 1..Len(en) : en[e].key = NULL /\ en[e].value = NULL
  BY <1>1, <1>4
<1>10. \A p \in Int : At(hd, 1, p) = (p % s) + 1 /\ p % s \in 0..s - 1
  <2>1. ASSUME NEW p \in Int PROVE At(hd, 1, p) = (p % s) + 1 /\ p % s \in 0..s - 1
    <3>1. p % s \in 0..s - 1
      BY CongMod
    <3>2. slots[(p % s) + 1] = (p % s) + 1
      BY <1>2, <3>1
    <3> QED BY <1>6, <1>7, <3>1, <3>2 DEF At
  <2> QED BY <2>1
<1>11. Mapped(hd, en, K)
  <2>1. \A h \in 1..Len(hd) : h = 1
    BY <1>6
  <2>2. ASSUME NEW p \in Int PROVE KeyFits(en[At(hd, 1, p)].key, p, K[1], Laps(hd, 1))
    <3>0. PICK r \in 0..s - 1 : At(hd, 1, p) = r + 1
      BY <1>10
    <3>1. At(hd, 1, p) \in 1..Len(en)
      <4>1. r + 1 \in 1..s
        OBVIOUS
      <4> QED BY <1>4, <3>0, <4>1
    <3> QED BY <1>9, <3>1 DEF KeyFits
  <2>3. s = 1 * s /\ 1 \in Nat
    OBVIOUS
  <2>4. ASSUME NEW p \in Int, NEW q \in Int, At(hd, 1, p) = At(hd, 1, q) PROVE Cong(p, q, s)
    <3>1. p % s = q % s
      BY <1>10, <2>4
    <3> QED BY <3>1, CongFromSlot
  <2> QED BY <1>6, <1>7, <2>1, <2>2, <2>3, <2>4 DEF Mapped
<1>12. Cong(s - 1, -1, s)
  <2>1. (s - 1) - (-1) = 1 * s /\ 1 \in Int
    OBVIOUS
  <2> QED BY <2>1 DEF Cong
<1>13. InOrder(hd, en, K, 0, -1, {}, home)
  <2>1. PICK m \in Int : m = -1
    OBVIOUS
  <2>2. PICK h : h = Len(hd) /\ h = 1
    BY <1>6
  <2>3. hd[h].mark = s - 1 /\ K[h] + m = m /\ Laps(hd, h) = s /\ m - 0 < s /\ Cong(s - 1, m, s)
    BY <1>6, <1>7, <1>12, <2>1, <2>2
  <2>4. 0..m = {} /\ m >= -1 /\ 0 <= m + 1
    BY <2>1
  <2>5. InOrder(hd, en, K, 0, m, {}, home)
    BY <1>9, <2>2, <2>3, <2>4 DEF InOrder
  <2> QED BY <2>1, <2>5
<1> QED BY <1>8, <1>11, <1>13 DEF IndexOK

\* All blocks are free.
LEMMA FirstStore ==
  ASSUME NEW el, el = [b \in Blocks |-> [o \in 0..BlockSize - 1 |-> NULL]],
         NEW em, em = [b \in Blocks |-> 0], NEW fc, fc = [b \in Blocks |-> 1], NEW home
  PROVE  Store(0, {}, {}, {}, {}, -1, 0, el, em, fc, home) /\ Live(0, {}, {}, -1) = {}
<1>1. Live(0, {}, {}, -1) = {}
  BY DEF Live
<1>2. Taken(0, {}, {}, {}, -1, 0)
  BY DEF Taken
<1>3. Counted(0, {}, {}, em, home) /\ Homes({}, home) /\ Spared({}, {}, fc, home)
  BY DEF Counted, Homes, Spared
<1>4. Written(0, {}, 0, el, home)
  BY DEF Written
<1> QED BY <1>1, <1>2, <1>3, <1>4 DEF Store

\* A producer starts with an empty index and no block.
LEMMA RunsFirst ==
  ASSUME SubQueue!Init, kind = "implicit"
  PROVE  Running
<1>1. /\ tailIndex = 0 /\ headIndex = 0 /\ tailBlock = NULL
      /\ elements = [b \in Blocks |-> [o \in 0..BlockSize - 1 |-> NULL]]
      /\ emptied = [b \in Blocks |-> 0] /\ freeCount = [b \in Blocks |-> 1]
      /\ entries = [e \in 1..IndexSize |-> [key |-> NULL, value |-> NULL]]
      /\ headers = <<[mark |-> IndexSize - 1, slots |-> [n \in 1..IndexSize |-> n]]>>
      /\ producer = [pc |-> "idle"] /\ consumer = [c \in Consumers |-> [pc |-> "idle"]]
  BY DEF SubQueue!Init, SubQueue!Offsets, SubQueue!NoneEmptied, SubQueue!Unused, SubQueue!Entry,
         SubQueue!Header, SubQueue!Idle
<1>2. PICK K, home : K = [h \in 1..1 |-> 0] /\ home = [n \in Nat |-> NULL] /\ home \in [Nat -> Blocks \cup {NULL}]
  <2>1. PICK home : home = [n \in Nat |-> NULL]
    OBVIOUS
  <2>2. home \in [Nat -> Blocks \cup {NULL}]
    BY <2>1
  <2>3. PICK K : K = [h \in 1..1 |-> 0]
    OBVIOUS
  <2> QED BY <2>1, <2>2, <2>3
<1>3. \A c \in Consumers : consumer[c] = [pc |-> "idle"]
  BY <1>1
<1>4. LiveOf(consumer, 0, -1) = {} /\ StoreOf(consumer, 0, -1, 0, elements, emptied, freeCount, home)
      /\ Disjoint(consumer)
  <2>1. Store(0, {}, {}, {}, {}, -1, 0, elements, emptied, freeCount, home) /\ Live(0, {}, {}, -1) = {}
    BY <1>1, FirstStore
  <2>2. /\ All(Opens(consumer)) = {} /\ All(Unreads(consumer)) = {} /\ All(Unlinks(consumer)) = {}
        /\ All(Freeings(consumer)) = {} /\ Disjoint(consumer)
    BY <1>3, IdleHold
  <2> QED BY <2>1, <2>2 DEF LiveOf, StoreOf
<1>5. IndexOK(headers, entries, K, 0, -1, LiveOf(consumer, 0, -1), home)
  BY <1>1, <1>2, <1>4, FirstIndex
<1>6. Attentive(consumer, 0, headers, entries, K, home)
  BY <1>3 DEF Attentive, ConsumerOK, Seeing, Working
<1>7. SubOK(consumer, 0, headers, entries, K, 0, -1, -1, 0, elements, emptied, freeCount, home)
  BY <1>2, <1>4, <1>5, <1>6 DEF SubOK
<1>8. PICK p, back : p = producer /\ p = [pc |-> "idle"] /\ p.pc = "idle" /\ back = tailIndex /\ back = 0 /\ back \in Nat
  BY <1>1
<1>9. NewestBlock(p, back) = -1 /\ NewestEntry(p, back) = -1 /\ WrittenUpTo(p, back) = 0
  <2>1. Num(back - 1) = -1
    BY <1>8, NumNat
  <2> QED BY <1>8, <2>1 DEF NewestBlock, NewestEntry, WrittenUpTo
<1>10. Calling(p, back, tailBlock, 0, home)
  BY <1>1, <1>8, <1>9 DEF Calling, BlockAt
<1> QED BY <1>1, <1>7, <1>8, <1>9, <1>10 DEF Running, State

\* How the destructor finds the block n.
LookedUp(hd, en, n) ==
    en[At(hd, Len(hd), hd[Len(hd)].mark + n - Num(en[At(hd, Len(hd), hd[Len(hd)].mark)].key))].value

\* It finds it.
LEMMA LooksUp ==
  ASSUME NEW hd, NEW en, NEW K, NEW lo, NEW M, NEW L, NEW home, IndexOK(hd, en, K, lo, M, L, home),
         NEW n \in L
  PROVE  LookedUp(hd, en, n) = home[n]
<1>1. /\ M \in Int /\ lo \in Nat /\ n \in lo..M /\ en[EntryOf(hd, K, n)].value = home[n]
      /\ \A m \in lo..M : en[EntryOf(hd, K, m)].key = m * BlockSize
  BY DEF IndexOK, InOrder
<1>2. PICK mark \in Int : mark = hd[Len(hd)].mark
  <2>1. HeadersOK(hd, en, K) /\ Mapped(hd, en, K)
    BY DEF IndexOK
  <2>2. Len(hd) \in 1..Len(hd)
    BY <2>1, LastFacts
  <2> QED BY <2>1, <2>2, MarkNat
<1>3. At(hd, Len(hd), mark) = EntryOf(hd, K, M)
  <2>1. At(hd, Len(hd), mark + 0) = EntryOf(hd, K, M + 0)
    BY <1>2, AtMark
  <2>2. mark + 0 = mark /\ M + 0 = M
    BY <1>1
  <2> QED BY <2>1, <2>2
<1>4. Num(en[At(hd, Len(hd), mark)].key) = M
  <2>1. M \in lo..M
    BY <1>1
  <2>2. en[EntryOf(hd, K, M)].key = M * BlockSize
    BY <1>1, <2>1
  <2>3. 0 \in 0..BlockSize - 1 /\ M * BlockSize \in Int /\ M * BlockSize = M * BlockSize + 0
    BY <1>1, IndexAssumption
  <2>4. Num(M * BlockSize) = M
    BY <1>1, <2>3, NumIs
  <2> QED BY <1>3, <2>2, <2>4
<1>5. At(hd, Len(hd), mark + n - M) = EntryOf(hd, K, n)
  <2>1. PICK d \in Int : d = n - M
    BY <1>1
  <2>2. At(hd, Len(hd), mark + d) = EntryOf(hd, K, M + d)
    BY <1>2, AtMark
  <2>3. mark + d = mark + n - M /\ M + d = n
    BY <1>1, <2>1
  <2> QED BY <2>2, <2>3
<1> QED BY <1>1, <1>2, <1>4, <1>5 DEF LookedUp

\* With every consumer gone the live blocks are those from the head's to the
\* newest.
LEMMA LiveAtEnd ==
  ASSUME NEW first \in Nat, NEW V \in Int
  PROVE  Live(first, {}, {}, V) = Num(first)..V
<1>1. Num(first) \in Nat /\ first \in Int
  BY NumNat
<1>2. ASSUME NEW n \in Live(first, {}, {}, V) PROVE n \in Num(first)..V
  <2>1. n \in Nat /\ n <= V /\ Left(first, {}, n) # {}
    BY <1>2 DEF Live
  <2>2. PICK i : i \in Nat /\ Num(i) = n /\ first <= i
    BY <2>1 DEF Left, Elems
  <2>3. i \in Int
    BY <2>2
  <2>4. Num(first) <= n
    BY <1>1, <2>2, <2>3, NumMono
  <2> QED BY <1>1, <2>1, <2>4
<1>3. ASSUME NEW n \in Num(first)..V PROVE n \in Live(first, {}, {}, V)
  <2>1. n \in Nat /\ n <= V /\ Num(first) <= n
    BY <1>1
  <2>2. CASE n = Num(first)
    <3>1. first \in Left(first, {}, n)
      BY <2>2 DEF Left, Elems
    <3> QED BY <2>1, <3>1 DEF Live
  <2>3. CASE n # Num(first)
    <3>1. PICK i \in Nat : i = n * BlockSize
      BY <2>1, IndexAssumption
    <3>2. Num(i) = n
      <4>1. 0 \in 0..BlockSize - 1 /\ i \in Int /\ n \in Int /\ i = n * BlockSize + 0
        BY <2>1, <3>1, IndexAssumption
      <4> QED BY <4>1, NumIs
    <3>3. first <= i
      <4>1. SUFFICES ASSUME i <= first PROVE FALSE
        BY <2>3, <3>2
      <4>2. i \in Int
        OBVIOUS
      <4>3. n <= Num(first)
        BY <1>1, <3>2, <4>1, <4>2, NumMono
      <4> QED BY <1>1, <2>1, <2>3, <4>3
    <3>4. i \in Left(first, {}, n)
      BY <3>2, <3>3 DEF Left, Elems
    <3> QED BY <2>1, <3>4 DEF Live
  <2> QED BY <2>2, <2>3
<1> QED BY <1>2, <1>3

\* Blocks of which the destructor finds one before the last, and the last.
OlderOnes(hd, en, n1, n2, b) == {n \in n1..n2 : LookedUp(hd, en, n) = b}
LastOne(last, home, n1, V) == last = IF n1 <= V THEN {home[V]} ELSE {}
FreeNow(count, home, n1, V, b) == count = IF \E n \in n1..V : home[n] = b THEN 0 ELSE 1
EndHomes(hd, en, home, n1, V) ==
    /\ \A n \in n1..V : LookedUp(hd, en, n) = home[n]
    /\ \A n, m \in n1..V : home[n] = home[m] => n = m

\* Each block is given back by one step of the walk, or was free already.
LEMMA FreedOnce ==
  ASSUME NEW hd, NEW en, NEW home, NEW n1 \in Nat, NEW V \in Int, EndHomes(hd, en, home, n1, V),
         NEW b, NEW last, LastOne(last, home, n1, V), NEW count, FreeNow(count, home, n1, V, b)
  PROVE  count + Cardinality(OlderOnes(hd, en, n1, V - 1, b)) + Cardinality(last \cap {b}) = 1
<1>0. /\ \A n \in n1..V : LookedUp(hd, en, n) = home[n]
      /\ \A n, m \in n1..V : home[n] = home[m] => n = m
      /\ last = (IF n1 <= V THEN {home[V]} ELSE {})
      /\ count = IF \E n \in n1..V : home[n] = b THEN 0 ELSE 1
  BY DEF EndHomes, LastOne, FreeNow
<1>1. OlderOnes(hd, en, n1, V - 1, b) = {n \in n1..V - 1 : home[n] = b}
  <2>1. \A n \in n1..V - 1 : n \in n1..V
    OBVIOUS
  <2> QED BY <1>0, <2>1 DEF OlderOnes
<1>2. CASE ~\E n \in n1..V : home[n] = b
  <2>1. OlderOnes(hd, en, n1, V - 1, b) = {}
    <3>1. \A n \in n1..V - 1 : n \in n1..V
      OBVIOUS
    <3> QED BY <1>1, <1>2, <3>1
  <2>2. last \cap {b} = {}
    <3>1. n1 <= V => V \in n1..V
      OBVIOUS
    <3> QED BY <1>0, <1>2, <3>1
  <2>3. count = 1 /\ Cardinality(OlderOnes(hd, en, n1, V - 1, b)) = 0 /\ Cardinality(last \cap {b}) = 0
    BY <1>0, <1>2, <2>1, <2>2, FS_EmptySet
  <2> QED BY <2>3
<1>3. CASE \E n \in n1..V : home[n] = b
  <2>1. PICK n \in n1..V : home[n] = b /\ \A m \in n1..V : home[m] = b => m = n
    BY <1>0, <1>3
  <2>2. V \in n1..V /\ last = {home[V]} /\ count = 0
    BY <1>0, <1>3, <2>1
  <2>3. CASE n = V
    <3>1. OlderOnes(hd, en, n1, V - 1, b) = {}
      <4>1. \A m \in n1..V - 1 : m \in n1..V /\ m # V
        OBVIOUS
      <4> QED BY <1>1, <2>1, <2>3, <4>1
    <3>2. last \cap {b} = {b}
      BY <2>1, <2>2, <2>3
    <3>3. Cardinality(OlderOnes(hd, en, n1, V - 1, b)) = 0 /\ Cardinality(last \cap {b}) = 1
      BY <3>1, <3>2, FS_EmptySet, FS_Singleton
    <3> QED BY <2>2, <3>3
  <2>4. CASE n # V
    <3>1. OlderOnes(hd, en, n1, V - 1, b) = {n}
      <4>1. n \in n1..V - 1 /\ \A m \in n1..V - 1 : m \in n1..V
        BY <2>4
      <4> QED BY <1>1, <2>1, <4>1
    <3>2. last \cap {b} = {}
      BY <2>1, <2>2, <2>4
    <3>3. Cardinality(OlderOnes(hd, en, n1, V - 1, b)) = 1 /\ Cardinality(last \cap {b}) = 0
      BY <3>1, <3>2, FS_EmptySet, FS_Singleton
    <3> QED BY <2>2, <3>3
  <2> QED BY <2>3, <2>4
<1> QED BY <1>2, <1>3

\* What the destructor does, with the blocks it finds.
TheyDestroy(destroyed2, fc2, last) ==
    /\ destroyed2 = {elements[LookedUp(headers, entries, Num(i))][Off(i)] : i \in headIndex..tailIndex - 1}
    /\ fc2 = [b \in Blocks |-> freeCount[b]
                + Cardinality(OlderOnes(headers, entries, Num(headIndex), Num(tailIndex - 1) - 1, b))
                + Cardinality(last \cap {b})]
    /\ last = IF tailBlock # NULL /\ (headIndex # tailIndex \/ Off(tailIndex) # 0) THEN {tailBlock} ELSE {}

\* The model's destructor walks so.
LEMMA TheirDestruction ==
  ASSUME SubQueue!DestroyImplicit
  PROVE  \E last : TheyDestroy(destroyed', freeCount', last)
<1>1. PICK last :
        last = IF tailBlock # NULL /\ (headIndex # tailIndex \/ Off(tailIndex) # 0) THEN {tailBlock} ELSE {}
  OBVIOUS
<1>2. destroyed' = {elements[LookedUp(headers, entries, Num(i))][Off(i)] : i \in headIndex..tailIndex - 1}
  BY Zenon DEF SubQueue!DestroyImplicit, LookedUp, At, Laps, Num, Off, SubQueue!Slot, SubQueue!Size,
     SubQueue!Top, SubQueue!BlockOf, SubQueue!Offset
<1>3. freeCount' = [b \in Blocks |-> freeCount[b]
          + SubQueue!Cardinality(OlderOnes(headers, entries, Num(headIndex), Num(tailIndex - 1) - 1, b))
          + SubQueue!Cardinality((IF tailBlock # NULL /\ (headIndex # tailIndex \/ Off(tailIndex) # 0)
                                  THEN {tailBlock} ELSE {}) \cap {b})]
  BY Zenon DEF SubQueue!DestroyImplicit, OlderOnes, LookedUp, At, Laps, Num, Off, SubQueue!Slot, SubQueue!Size,
     SubQueue!Top, SubQueue!BlockOf, SubQueue!Offset
<1>4. freeCount' = [b \in Blocks |-> freeCount[b]
          + Cardinality(OlderOnes(headers, entries, Num(headIndex), Num(tailIndex - 1) - 1, b))
          + Cardinality(last \cap {b})]
  BY <1>1, <1>3, TheirCount
<1> QED BY <1>1, <1>2, <1>4 DEF TheyDestroy

\* What is still in the blocks and which blocks are still in use.
AtEnd(home, n1, V) ==
    /\ n1 \in Nat /\ V \in Int
    /\ n1 = Num(headIndex) /\ V = Num(tailIndex - 1) /\ tailBlock = BlockAt(home, V)
    /\ headIndex \in Nat /\ tailIndex \in Nat /\ headIndex <= tailIndex
    /\ EndHomes(headers, entries, home, n1, V) /\ \A n \in n1..V : home[n] \in Blocks
    /\ \A i \in Nat : i < tailIndex /\ headIndex <= i => elements[home[Num(i)]][Off(i)] = i
    /\ \A b \in Blocks : FreeNow(freeCount[b], home, n1, V, b)

\* They are the elements not dequeued and the blocks around them.
LEMMA LeftAtEnd ==
  ASSUME CountersInv, Running, \A c \in Consumers : consumer[c] = [pc |-> "idle"], producer = [pc |-> "idle"]
  PROVE  \E home, n1, V : AtEnd(home, n1, V)
<1>1. PICK K, lo, home, M, V, W :
        /\ M = NewestEntry(producer, tailIndex) /\ V = NewestBlock(producer, tailIndex)
        /\ W = WrittenUpTo(producer, tailIndex)
        /\ SubOK(consumer, headIndex, headers, entries, K, lo, M, V, W, elements, emptied, freeCount, home)
        /\ Calling(producer, tailIndex, tailBlock, lo, home)
  BY DEF Running, State
<1>2. headIndex \in Nat /\ tailIndex \in Nat /\ headIndex <= tailIndex
  BY HeadBehind DEF CountersInv
<1>3. PICK n1 \in Nat, v \in Int : n1 = Num(headIndex) /\ v = Num(tailIndex - 1)
  BY <1>2, NumNat
<1>4. V = v /\ W = tailIndex /\ tailBlock = BlockAt(home, v)
  <2>1. producer.pc = "idle"
    OBVIOUS
  <2>2. V = v /\ W = tailIndex
    BY <1>1, <1>3, <2>1 DEF NewestBlock, WrittenUpTo
  <2> QED BY <1>1, <2>2 DEF Calling
<1>5. /\ All(Opens(consumer)) = {} /\ All(Unreads(consumer)) = {} /\ All(Unlinks(consumer)) = {}
      /\ All(Freeings(consumer)) = {}
  BY IdleHold
<1>6. Live(headIndex, {}, {}, v) = n1..v
  BY <1>2, <1>3, LiveAtEnd
<1>7. IndexOK(headers, entries, K, lo, M, n1..v, home)
  BY <1>1, <1>4, <1>5, <1>6 DEF SubOK, LiveOf
<1>8. Store(headIndex, {}, {}, {}, {}, v, tailIndex, elements, emptied, freeCount, home)
  BY <1>1, <1>4, <1>5 DEF SubOK, StoreOf
<1>9. /\ Homes(n1..v, home) /\ Spared({}, n1..v, freeCount, home)
      /\ Written(headIndex, {}, tailIndex, elements, home)
  BY <1>6, <1>8 DEF Store
<1>10. EndHomes(headers, entries, home, n1, v) /\ \A n \in n1..v : home[n] \in Blocks
  <2>1. \A n \in n1..v : LookedUp(headers, entries, n) = home[n]
    BY <1>7, LooksUp
  <2> QED BY <1>9, <2>1 DEF EndHomes, Homes
<1>12. \A i \in Nat : i < tailIndex /\ headIndex <= i => elements[home[Num(i)]][Off(i)] = i
  BY <1>9 DEF Written
<1>13. \A b \in Blocks : FreeNow(freeCount[b], home, n1, v, b)
  BY <1>9 DEF Spared, FreeNow
<1>14. AtEnd(home, n1, v)
  BY <1>2, <1>3, <1>4, <1>10, <1>12, <1>13 DEF AtEnd
<1> QED BY <1>14

\* Nothing is left, and every block is free once.
LEMMA DestroySub ==
  ASSUME CountersInv, Running, kind = "implicit", SubQueue!Destroy
  PROVE  AllDone'
<1>1. \A c \in Consumers : consumer[c] = [pc |-> "idle"]
  BY DEF SubQueue!Destroy, SubQueue!Idle
<1>2. producer = [pc |-> "idle"]
  BY DEF SubQueue!Destroy, SubQueue!Idle
<1>3. PICK home, n1, V :
          /\ n1 \in Nat /\ V \in Int
          /\ n1 = Num(headIndex) /\ V = Num(tailIndex - 1) /\ tailBlock = BlockAt(home, V)
          /\ headIndex \in Nat /\ tailIndex \in Nat /\ headIndex <= tailIndex
          /\ EndHomes(headers, entries, home, n1, V)
          /\ \A n \in n1..V : LookedUp(headers, entries, n) = home[n] /\ home[n] \in Blocks
          /\ \A i \in Nat : i < tailIndex /\ headIndex <= i => elements[home[Num(i)]][Off(i)] = i
          /\ \A b \in Blocks : FreeNow(freeCount[b], home, n1, V, b)
  <2>1. PICK home, n1, V : AtEnd(home, n1, V)
    BY <1>1, <1>2, LeftAtEnd
  <2> QED BY <2>1 DEF AtEnd, EndHomes
<1>4. PICK last : TheyDestroy(destroyed', freeCount', last)
  BY TheirDestruction DEF SubQueue!Destroy
<1>5. UNCHANGED <<consumer, headIndex, tailIndex>>
  BY DEF SubQueue!Destroy, SubQueue!counters
<1>6. destroyed' = headIndex..tailIndex - 1
  <2>1. ASSUME NEW i \in headIndex..tailIndex - 1
        PROVE  elements[LookedUp(headers, entries, Num(i))][Off(i)] = i
    <3>1. i \in Nat /\ i \in Int /\ headIndex <= i /\ i <= tailIndex - 1 /\ i < tailIndex
          /\ headIndex \in Int /\ tailIndex - 1 \in Int
      BY <1>3
    <3>2. Num(headIndex) <= Num(i) /\ Num(i) <= Num(tailIndex - 1) /\ Num(i) \in Int
      BY <3>1, NumMono, NumFacts
    <3>3. Num(i) \in n1..V
      BY <1>3, <3>2
    <3> QED BY <1>3, <3>1, <3>3
  <2>2. destroyed' = {elements[LookedUp(headers, entries, Num(i))][Off(i)] : i \in headIndex..tailIndex - 1}
    BY <1>4 DEF TheyDestroy
  <2> QED BY <2>1, <2>2
<1>7. LastOne(last, home, n1, V)
  <2>1. last = IF tailBlock # NULL /\ (headIndex # tailIndex \/ Off(tailIndex) # 0) THEN {tailBlock} ELSE {}
    BY <1>4 DEF TheyDestroy
  <2>2. CASE n1 <= V
    <3>1. V # -1 /\ V \in n1..V
      BY <1>3, <2>2
    <3>2. tailBlock = home[V] /\ tailBlock \in Blocks
      BY <1>3, <3>1 DEF BlockAt
    <3>3. headIndex # tailIndex \/ Off(tailIndex) # 0
      <4>1. SUFFICES ASSUME headIndex = tailIndex, Off(tailIndex) = 0 PROVE FALSE
        OBVIOUS
      <4>2. V = n1 - 1
        BY <1>3, <4>1, NumNat
      <4> QED BY <1>3, <2>2, <4>2
    <3> QED BY <2>1, <2>2, <3>2, <3>3, IndexAssumption DEF LastOne
  <2>3. CASE ~(n1 <= V)
    <3>1. headIndex = tailIndex
      <4>1. SUFFICES ASSUME headIndex # tailIndex PROVE FALSE
        OBVIOUS
      <4>2. headIndex \in Int /\ tailIndex - 1 \in Int /\ headIndex <= tailIndex - 1
        BY <1>3, <4>1
      <4>3. n1 <= V
        BY <1>3, <4>2, NumMono
      <4> QED BY <2>3, <4>3
    <3>2. Off(tailIndex) = 0
      <4>1. SUFFICES ASSUME Off(tailIndex) # 0 PROVE FALSE
        OBVIOUS
      <4>2. Num(tailIndex - 1) = Num(tailIndex)
        BY <1>3, <4>1, NumNat
      <4>3. V = n1
        BY <1>3, <3>1, <4>2
      <4> QED BY <1>3, <2>3, <4>3
    <3> QED BY <2>1, <2>3, <3>1, <3>2 DEF LastOne
  <2> QED BY <2>2, <2>3
<1>8. ASSUME NEW b \in Blocks PROVE freeCount'[b] = 1
  <2>1. PICK count : count = freeCount[b] /\ FreeNow(count, home, n1, V, b)
    BY <1>3
  <2>3. count + Cardinality(OlderOnes(headers, entries, n1, V - 1, b)) + Cardinality(last \cap {b}) = 1
    BY <1>3, <1>7, <2>1, FreedOnce
  <2>4. freeCount'[b] = freeCount[b] + Cardinality(OlderOnes(headers, entries, n1, V - 1, b))
                            + Cardinality(last \cap {b})
    BY <1>3, <1>4 DEF TheyDestroy
  <2> QED BY <2>1, <2>3, <2>4
<1> QED BY <1>1, <1>5, <1>6, <1>8 DEF AllDone

-----------------------------------------------------------------------------
(* What a sub-queue of an implicit producer keeps.                         *)

\* Where the producer of a running sub-queue is.
LEMMA RunningPlaces ==
  ASSUME Running
  PROVE  producer.pc \in {"idle", "index", "block", "publish"}
  BY DEF Running, State, Calling

\* A sub-queue that runs is not destroyed.
LEMMA RunsOnAfter ==
  ASSUME Running'
  PROVE  BlocksInv'
<1>1. producer'.pc \in {"idle", "index", "block", "publish"}
  BY DEF Running, State, Calling
<1>2. producer'.pc # "destroyed"
  BY <1>1
<1> QED BY <1>2 DEF BlocksInv

\* Every step of a consumer.
LEMMA ConsumerRuns ==
  ASSUME CountersInv, CountersInv', Running, kind = "implicit", NEW c \in Consumers,
         \/ \E max \in 1..MaxBulk : SubQueue!LoadTail(c, max)
         \/ SubQueue!LoadOvercommit(c) \/ SubQueue!Check(c) \/ SubQueue!AddOptimistic(c)
         \/ SubQueue!ReloadTail(c) \/ SubQueue!AddOvercommit(c) \/ SubQueue!ClaimHead(c)
         \/ SubQueue!LoadHeader(c) \/ SubQueue!LoadMark(c) \/ SubQueue!Locate(c)
         \/ SubQueue!ReadElements(c) \/ SubQueue!SetEmpty(c) \/ SubQueue!Unlink(c) \/ SubQueue!FreeBlock(c)
  PROVE  Running'
<1>1. CASE \/ \E max \in 1..MaxBulk : SubQueue!LoadTail(c, max)
           \/ SubQueue!LoadOvercommit(c) \/ SubQueue!Check(c) \/ SubQueue!AddOptimistic(c)
           \/ SubQueue!ReloadTail(c) \/ SubQueue!AddOvercommit(c)
  BY <1>1, WaitingSteps
<1> QED BY <1>1, ClaimHeadSub, LoadHeaderSub, LoadMarkSub, LocateSub, ReadElementsSub, SetEmptySub,
           UnlinkSub, FreeBlockSub

\* Every step of an implicit producer; those of the explicit one do not happen.
LEMMA ProducerRuns ==
  ASSUME Running, kind = "implicit",
         \/ \E n \in 1..MaxBulk : SubQueue!CallEnqueue(n)
         \/ SubQueue!IndexBlock \/ SubQueue!GiveUpImplicit
         \/ \E b \in Blocks : SubQueue!TakeBlock(b) \/ SubQueue!NewBlock(b)
         \/ SubQueue!ReuseAhead \/ SubQueue!NoneAhead \/ SubQueue!GrowExplicit \/ SubQueue!GiveUpExplicit
         \/ SubQueue!Write \/ SubQueue!Publish
  PROVE  Running'
<1>1. producer.pc # "reuse" /\ producer.pc # "new"
  BY RunningPlaces
<1>2. /\ ~SubQueue!ReuseAhead /\ ~SubQueue!NoneAhead /\ ~SubQueue!GrowExplicit /\ ~SubQueue!GiveUpExplicit
      /\ \A b \in Blocks : ~SubQueue!NewBlock(b)
  BY <1>1 DEF SubQueue!ReuseAhead, SubQueue!NoneAhead, SubQueue!GrowExplicit, SubQueue!GiveUpExplicit,
              SubQueue!NewBlock
<1> QED BY <1>2, CallEnqueueSub, IndexBlockSub, GiveUpSub, TakeBlockSub, WriteSub, PublishSub

\* Once it is destroyed nothing happens any more.
LEMMA NothingAfter ==
  ASSUME AllDone, producer.pc = "destroyed", SubQueue!Next
  PROVE  FALSE
<1>1. producer.pc \notin {"idle", "index", "block", "publish", "reuse", "new"}
  OBVIOUS
<1>2. producer # [pc |-> "idle"]
  OBVIOUS
<1>3. ASSUME NEW c \in Consumers,
             \/ \E max \in 1..MaxBulk : SubQueue!LoadTail(c, max)
             \/ SubQueue!LoadOvercommit(c) \/ SubQueue!Check(c) \/ SubQueue!AddOptimistic(c)
             \/ SubQueue!ReloadTail(c) \/ SubQueue!AddOvercommit(c) \/ SubQueue!ClaimHead(c)
             \/ SubQueue!LoadHeader(c) \/ SubQueue!LoadMark(c) \/ SubQueue!Locate(c)
             \/ SubQueue!ReadElements(c) \/ SubQueue!SetEmpty(c) \/ SubQueue!Unlink(c) \/ SubQueue!FreeBlock(c)
      PROVE  FALSE
  <2>1. consumer[c].pc = "idle"
    BY DEF AllDone
  <2>2. consumer[c].pc \in {"overcommit", "check", "count", "reload", "giveback", "claim", "header", "mark",
                            "locate", "read", "empty", "unlink", "free"} \/ producer.pc # "destroyed"
    BY <1>3 DEF SubQueue!LoadTail, SubQueue!LoadOvercommit, SubQueue!Check, SubQueue!AddOptimistic,
       SubQueue!ReloadTail, SubQueue!AddOvercommit, SubQueue!ClaimHead, SubQueue!LoadHeader, SubQueue!LoadMark,
       SubQueue!Locate, SubQueue!ReadElements, SubQueue!SetEmpty, SubQueue!Unlink, SubQueue!FreeBlock
  <2> QED BY <2>1, <2>2
<1>4. ASSUME \/ \E n \in 1..MaxBulk : SubQueue!CallEnqueue(n)
             \/ SubQueue!IndexBlock \/ SubQueue!GiveUpImplicit
             \/ \E b \in Blocks : SubQueue!TakeBlock(b) \/ SubQueue!NewBlock(b)
             \/ SubQueue!ReuseAhead \/ SubQueue!NoneAhead \/ SubQueue!GrowExplicit \/ SubQueue!GiveUpExplicit
             \/ SubQueue!Write \/ SubQueue!Publish \/ SubQueue!Destroy
      PROVE  FALSE
  BY <1>1, <1>2, <1>4 DEF SubQueue!CallEnqueue, SubQueue!IndexBlock, SubQueue!GiveUpImplicit, SubQueue!TakeBlock,
     SubQueue!NewBlock, SubQueue!ReuseAhead, SubQueue!NoneAhead, SubQueue!GrowExplicit, SubQueue!GiveUpExplicit,
     SubQueue!Write, SubQueue!Publish, SubQueue!Destroy, SubQueue!Idle
<1> QED BY <1>3, <1>4 DEF SubQueue!Next

\* A producer is implicit or explicit for good.
LEMMA KindStays == SubQueue!Next => kind' = kind
<1> SUFFICES ASSUME SubQueue!Next PROVE kind' = kind
  OBVIOUS
<1>1. ASSUME NEW c \in Consumers,
             \/ \E max \in 1..MaxBulk : SubQueue!LoadTail(c, max)
             \/ SubQueue!LoadOvercommit(c) \/ SubQueue!Check(c) \/ SubQueue!AddOptimistic(c)
             \/ SubQueue!ReloadTail(c) \/ SubQueue!AddOvercommit(c) \/ SubQueue!ClaimHead(c)
             \/ SubQueue!LoadHeader(c) \/ SubQueue!LoadMark(c) \/ SubQueue!Locate(c)
             \/ SubQueue!ReadElements(c) \/ SubQueue!SetEmpty(c) \/ SubQueue!Unlink(c) \/ SubQueue!FreeBlock(c)
      PROVE  kind' = kind
  BY <1>1 DEF SubQueue!LoadTail, SubQueue!LoadOvercommit, SubQueue!Check, SubQueue!AddOptimistic,
     SubQueue!ReloadTail, SubQueue!AddOvercommit, SubQueue!ClaimHead, SubQueue!LoadHeader, SubQueue!LoadMark,
     SubQueue!Locate, SubQueue!ReadElements, SubQueue!SetEmpty, SubQueue!Unlink, SubQueue!FreeBlock,
     SubQueue!OnlyStep
<1>2. ASSUME \/ \E n \in 1..MaxBulk : SubQueue!CallEnqueue(n)
             \/ SubQueue!IndexBlock \/ SubQueue!GiveUpImplicit
             \/ \E b \in Blocks : SubQueue!TakeBlock(b) \/ SubQueue!NewBlock(b)
             \/ SubQueue!ReuseAhead \/ SubQueue!NoneAhead \/ SubQueue!GrowExplicit \/ SubQueue!GiveUpExplicit
             \/ SubQueue!Write \/ SubQueue!Publish \/ SubQueue!Destroy
      PROVE  kind' = kind
  BY <1>2 DEF SubQueue!CallEnqueue, SubQueue!IndexBlock, SubQueue!GiveUpImplicit, SubQueue!TakeBlock,
     SubQueue!NewBlock, SubQueue!ReuseAhead, SubQueue!NoneAhead, SubQueue!GrowExplicit, SubQueue!GiveUpExplicit,
     SubQueue!Write, SubQueue!Publish, SubQueue!Destroy
<1> QED BY <1>1, <1>2 DEF SubQueue!Next

\* The invariant is inductive, given that of the counters.
LEMMA BlocksStep == CountersInv /\ CountersInv' /\ BlocksInv /\ SubQueue!Next => BlocksInv'
<1> SUFFICES ASSUME CountersInv, CountersInv', BlocksInv, SubQueue!Next, kind' = "implicit" PROVE BlocksInv'
  BY DEF BlocksInv
<1>1. kind = "implicit"
  BY KindStays
<1>2. CASE producer.pc = "destroyed"
  BY <1>1, <1>2, NothingAfter DEF BlocksInv
<1>3. CASE producer.pc # "destroyed"
  <2>1. Running
    BY <1>1, <1>3 DEF BlocksInv
  <2>2. CASE SubQueue!Destroy
    <3>1. AllDone' /\ producer'.pc = "destroyed"
      BY <1>1, <2>1, <2>2, DestroySub DEF SubQueue!Destroy
    <3> QED BY <3>1 DEF BlocksInv
  <2>3. CASE ~SubQueue!Destroy
    <3>1. Running'
      BY <1>1, <2>1, <2>3, ConsumerRuns, ProducerRuns DEF SubQueue!Next
    <3> QED BY <3>1, RunsOnAfter
  <2> QED BY <2>2, <2>3
<1> QED BY <1>2, <1>3

\* What the invariant says of what is read and of who has a block.
LEMMA RunsRight ==
  ASSUME Running
  PROVE  SubQueue!ReadsItsOwn /\ SubQueue!BlocksOwnedOnce
<1>1. PICK K, lo, home, M, V, W :
        SubOK(consumer, headIndex, headers, entries, K, lo, M, V, W, elements, emptied, freeCount, home)
  BY DEF Running, State
<1>2. ASSUME NEW c \in Consumers, consumer[c].pc \in {"empty", "unlink", "free"},
             NEW i \in DOMAIN consumer[c].read
      PROVE  consumer[c].read[i] = i
  <2>1. Seeing(consumer[c], headers, entries, K, home)
    BY <1>1 DEF SubOK, Attentive
  <2> QED BY <1>2, <2>1 DEF Seeing
<1>3. ASSUME NEW b \in Blocks
      PROVE  freeCount[b] <= 1 /\ \A e \in DOMAIN entries : entries[e].value = b => freeCount[b] = 0
  <2>1. PICK F, L : /\ L = LiveOf(consumer, headIndex, V) /\ Spared(F, L, freeCount, home)
                    /\ IndexOK(headers, entries, K, lo, M, L, home)
    BY <1>1 DEF SubOK, StoreOf, Store, LiveOf
  <2>2. freeCount[b] = IF b \in F \/ \E n \in L : home[n] = b THEN 0 ELSE 1
    BY <2>1 DEF Spared
  <2>3. ASSUME NEW e \in DOMAIN entries, entries[e].value = b PROVE freeCount[b] = 0
    <3>1. e \in 1..Len(entries)
      BY <2>1 DEF IndexOK, HeadersOK
    <3>2. entries[e].value # NULL
      BY <2>3, IndexAssumption
    <3>3. PICK n \in L : e = EntryOf(headers, K, n)
      BY <2>1, <3>1, <3>2 DEF IndexOK, InOrder
    <3>4. home[n] = b
      BY <2>1, <2>3, <3>3 DEF IndexOK, InOrder
    <3> QED BY <2>2, <3>3, <3>4
  <2> QED BY <2>2, <2>3
<1>4. producer.pc # "destroyed"
  BY RunningPlaces
<1> QED BY <1>2, <1>3, <1>4 DEF SubQueue!ReadsItsOwn, SubQueue!BlocksOwnedOnce

\* What remains of it when the producer is gone.
LEMMA DoneRight ==
  ASSUME AllDone, producer.pc = "destroyed"
  PROVE  SubQueue!ReadsItsOwn /\ SubQueue!BlocksOwnedOnce
<1>1. \A c \in Consumers : consumer[c].pc = "idle"
  BY DEF AllDone
<1> QED BY <1>1 DEF AllDone, SubQueue!ReadsItsOwn, SubQueue!BlocksOwnedOnce

\* The invariant of the blocks always holds.
LEMMA BlocksAlways == MCSpec => [](BlocksInv)
<1>1. MCInit => CountersInv /\ BlocksInv
  <2> SUFFICES ASSUME MCInit PROVE CountersInv /\ BlocksInv
    OBVIOUS
  <2>1. CountersInv
    BY CountersStart DEF MCInit
  <2>2. ASSUME kind = "implicit" PROVE producer.pc # "destroyed" /\ Running
    <3>1. Running
      BY <2>2, RunsFirst DEF MCInit
    <3>2. producer.pc \in {"idle", "index", "block", "publish"}
      BY <3>1, RunningPlaces
    <3> QED BY <3>1, <3>2
  <2> QED BY <2>1, <2>2 DEF BlocksInv
<1>2. CountersInv /\ BlocksInv /\ [MCNext]_<<part, vars, subQueue, freeList>> => CountersInv' /\ BlocksInv'
  <2> SUFFICES ASSUME CountersInv, BlocksInv, [MCNext]_<<part, vars, subQueue, freeList>>
               PROVE  CountersInv' /\ BlocksInv'
    OBVIOUS
  <2>1. CASE UNCHANGED subQueue
    BY <2>1 DEF subQueue, CountersInv, BlocksInv, AllDone, Running
  <2>2. CASE SubQueue!Next
    BY <2>2, CountersStep, BlocksStep
  <2> QED BY <2>1, <2>2 DEF MCNext
<1> QED BY <1>1, <1>2, PTL DEF MCSpec

\* Whatever an implicit producer's consumers do while its block index grows, its
\* entries are taken again and its blocks are freed and reused, each reads the
\* elements it claimed, and no other.
THEOREM ClaimedIsRead == MCSpec => [](kind = "implicit" => ReadsItsOwn)
<1>1. BlocksInv => (kind = "implicit" => ReadsItsOwn)
  BY RunsRight, DoneRight DEF BlocksInv, ReadsItsOwn
<1> QED BY <1>1, BlocksAlways, PTL

\* A block of an implicit producer is free or in use but never both, and its
\* destructor gives back those in use and destroys what nobody dequeued.
THEOREM BlocksGoBackOnce == MCSpec => [](kind = "implicit" => BlocksOwnedOnce)
<1>1. BlocksInv => (kind = "implicit" => BlocksOwnedOnce)
  BY RunsRight, DoneRight DEF BlocksInv, BlocksOwnedOnce
<1> QED BY <1>1, BlocksAlways, PTL
=============================================================================
