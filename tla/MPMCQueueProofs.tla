-------------------------- MODULE MPMCQueueProofs --------------------------
(***************************************************************************)
(* Proofs about the queues of many producers and consumers.                *)
(*                                                                         *)
(* MPMCQueue, for any number of threads and any capacity of at least two.  *)
(* With one cell the numbers "written" (pos + 1) and "free for the next    *)
(* lap" (pos + Capacity) coincide, and the queue is wrong.                 *)
(*                                                                         *)
(* MoodyQueue, for any number of consumers with and without a token and of *)
(* producers: what a call leaves behind was not there when it began, or is *)
(* spoken for by others that overlap it.                                   *)
(***************************************************************************)
EXTENDS MCMPMCQueue, NumberFacts

-----------------------------------------------------------------------------
(* Slots.                                                                  *)

LEMMA CapacityNat == Capacity \in Nat \ {0}
  BY QueueAssumption

LEMMA SlotIn ==
    ASSUME NEW p \in Nat
    PROVE  Slot(p) \in Slots
  BY CapacityNat DEF Slot, Slots

LEMMA SlotInit ==
    ASSUME NEW p \in Slots
    PROVE  Slot(p) = p
  BY CapacityNat DEF Slot, Slots

\* Positions less than a lap apart have different cells.
LEMMA SlotNear ==
    ASSUME NEW p \in Nat, NEW q \in Nat, p < q, q < p + Capacity
    PROVE  Slot(p) # Slot(q)
<1>1. p \in Int /\ q \in Int
  OBVIOUS
<1>2. p % Capacity # q % Capacity
  BY <1>1, CapacityNat, SlotsDiffer
<1> QED
  BY <1>2 DEF Slot

\* A position and its successor in the next lap share a cell.
LEMMA SlotLap ==
    ASSUME NEW p \in Nat
    PROVE  Slot(p + Capacity) = Slot(p)
<1> DEFINE k == 1
<1>1. p + k * Capacity = p + Capacity
  BY CapacityNat
<1>2. k \in Int /\ p \in Int
  OBVIOUS
<1> HIDE DEF k
<1>3. (p + k * Capacity) % Capacity = p % Capacity
  BY <1>2, CapacityNat, SlotPeriodic
<1> QED
  BY <1>1, <1>3 DEF Slot

-----------------------------------------------------------------------------
(* Types.                                                                  *)

LEMMA TypeInit == Init => TypeOK
  BY CapacityNat DEF Init, TypeOK, Slots

LEMMA TypeStep == TypeOK /\ [Next]_vars => TypeOK'
<1> SUFFICES ASSUME TypeOK, [Next]_vars PROVE TypeOK'
  OBVIOUS
<1> USE CapacityNat DEF TypeOK, Goto
<1>1. ASSUME NEW t \in Threads, NEW m \in Msgs, CallEnqueue(t, m) PROVE TypeOK'
  BY <1>1 DEF CallEnqueue
<1>2. ASSUME NEW t \in Threads, EnqueueSeq(t) PROVE TypeOK'
  BY <1>2 DEF EnqueueSeq
<1>3. ASSUME NEW t \in Threads, EnqueueReload(t) PROVE TypeOK'
  BY <1>3 DEF EnqueueReload
<1>4. ASSUME NEW t \in Threads, ClaimTail(t) PROVE TypeOK'
  BY <1>4 DEF ClaimTail
<1>5. ASSUME NEW t \in Threads, MissTail(t) PROVE TypeOK'
  BY <1>5 DEF MissTail
<1>6. ASSUME NEW t \in Threads, WriteCell(t) PROVE TypeOK'
  BY <1>6, SlotIn DEF WriteCell
<1>7. ASSUME NEW t \in Threads, PublishCell(t) PROVE TypeOK'
  BY <1>7, SlotIn DEF PublishCell
<1>8. ASSUME NEW t \in Threads, CallDequeue(t) PROVE TypeOK'
  BY <1>8 DEF CallDequeue
<1>9. ASSUME NEW t \in Threads, DequeueSeq(t) PROVE TypeOK'
  BY <1>9 DEF DequeueSeq
<1>10. ASSUME NEW t \in Threads, DequeueReload(t) PROVE TypeOK'
  BY <1>10 DEF DequeueReload
<1>11. ASSUME NEW t \in Threads, ClaimHead(t) PROVE TypeOK'
  BY <1>11 DEF ClaimHead
<1>12. ASSUME NEW t \in Threads, MissHead(t) PROVE TypeOK'
  BY <1>12 DEF MissHead
<1>13. ASSUME NEW t \in Threads, ReadCell(t) PROVE TypeOK'
  BY <1>13, SlotIn DEF ReadCell
<1>14. ASSUME NEW t \in Threads, ReleaseCell(t) PROVE TypeOK'
  BY <1>14, SlotIn DEF ReleaseCell
<1>15. CASE UNCHANGED vars
  BY <1>15 DEF vars
<1> QED
  BY <1>1, <1>2, <1>3, <1>4, <1>5, <1>6, <1>7, <1>8, <1>9, <1>10, <1>11, <1>12,
     <1>13, <1>14, <1>15 DEF Next, EnqueueStep, DequeueStep

\* Cells, positions and locals keep their types for every number of threads
\* and every capacity.
THEOREM TypeCorrect == Spec => []TypeOK
  BY TypeInit, TypeStep, PTL DEF Spec
-----------------------------------------------------------------------------
(* The inductive invariant.  The positions head..tail-1 are handed to      *)
(* enqueuers and not to dequeuers, tail..head+Capacity-1 are the next      *)
(* lap's; the sequence number of a position's cell tells exactly how far   *)
(* its owner has come.                                                     *)

Window == head <= tail /\ tail <= head + Capacity

\* A position handed out is published, or its enqueuer is still at work.
UsedCells ==
    \A p \in Nat : head <= p /\ p < tail =>
        \/ seq[Slot(p)] = p + 1
        \/ seq[Slot(p)] = p /\ \E t \in Threads : Writing(t) /\ pos[t] = p

\* A position of the next lap is released to it, or the dequeuer of the lap
\* before is still at work.
FreeCells ==
    \A p \in Nat : tail <= p /\ p < head + Capacity =>
        \/ seq[Slot(p)] = p
        \/ /\ seq[Slot(p)] = p - Capacity + 1
           /\ \E t \in Threads : Reading(t) /\ pos[t] = p - Capacity

Writers ==
    \A t \in Threads : Writing(t) =>
        head <= pos[t] /\ pos[t] < tail /\ seq[Slot(pos[t])] = pos[t]

Readers ==
    \A t \in Threads : Reading(t) =>
        /\ pos[t] < head
        /\ tail <= pos[t] + Capacity
        /\ seq[Slot(pos[t])] = pos[t] + 1

OneOwner ==
    \A t, u \in Threads :
        t # u /\ ((Writing(t) /\ Writing(u)) \/ (Reading(t) /\ Reading(u)))
        => pos[t] # pos[u]

\* A local pos is a past value of tail_ or head_.
PosBehind ==
    \A t \in Threads :
        /\ pc[t] \in {"enqSeq", "enqCas"} => pos[t] <= tail
        /\ pc[t] \in {"deqSeq", "deqCas"} => pos[t] <= head

\* What a thread saw in the cell is still true when its compare-exchange can
\* succeed.
SeenValid ==
    \A t \in Threads :
        /\ pc[t] = "enqCas" /\ pos[t] = tail => seq[Slot(tail)] = tail
        /\ pc[t] = "deqCas" /\ pos[t] = head => seq[Slot(head)] = head + 1

\* Cells of positions that were handed out never fall back.
Monotone ==
    \A p \in Nat :
        /\ p < tail => seq[Slot(p)] >= p
        /\ p < head => seq[Slot(p)] >= p + 1

Inv ==
    /\ TypeOK
    /\ Window
    /\ UsedCells
    /\ FreeCells
    /\ Writers
    /\ Readers
    /\ OneOwner
    /\ PosBehind
    /\ SeenValid
    /\ Monotone

LEMMA InvInit == Init => Inv
<1> SUFFICES ASSUME Init PROVE Inv
  OBVIOUS
<1>1. TypeOK
  BY TypeInit
<1>2. head = 0 /\ tail = 0 /\ \A t \in Threads : ~Writing(t) /\ ~Reading(t) /\ pc[t] = "idle"
  BY DEF Init, Writing, Reading
<1>3. FreeCells
  <2> SUFFICES ASSUME NEW p \in Nat, p < Capacity PROVE seq[Slot(p)] = p
    BY <1>2, CapacityNat DEF FreeCells
  <2>1. p \in Slots
    BY CapacityNat DEF Slots
  <2> QED
    BY <2>1, SlotInit DEF Init
<1>4. Window /\ UsedCells /\ Writers /\ Readers /\ OneOwner /\ PosBehind /\ SeenValid /\ Monotone
  BY <1>2, CapacityNat
  DEF Window, UsedCells, Writers, Readers, OneOwner, PosBehind, SeenValid, Monotone
<1> QED
  BY <1>1, <1>3, <1>4 DEF Inv

\* Steps that change neither a sequence number nor tail_ nor head_, and no
\* thread's ownership of a cell.
LEMMA LocalStep ==
    ASSUME Inv, TypeOK', UNCHANGED <<seq, head, tail>>,
           \A u \in Threads :
               /\ Writing(u)' <=> Writing(u)
               /\ Reading(u)' <=> Reading(u)
               /\ Writing(u) \/ Reading(u) => pos'[u] = pos[u],
           PosBehind', SeenValid'
    PROVE  Inv'
<1>1. Window' /\ Monotone'
  BY DEF Inv, Window, Monotone
<1>2. UsedCells'
  BY DEF Inv, UsedCells
<1>3. FreeCells'
  BY DEF Inv, FreeCells
<1>4. Writers' /\ Readers'
  BY DEF Inv, Writers, Readers
<1>5. OneOwner'
  BY DEF Inv, OneOwner
<1> QED
  BY <1>1, <1>2, <1>3, <1>4, <1>5 DEF Inv

\* The compare-exchange on tail_: the cell is free, and no dequeuer of the lap
\* before is left in it.
LEMMA ClaimTailStep ==
    ASSUME Capacity >= 2, Inv, TypeOK', NEW t \in Threads, ClaimTail(t)
    PROVE  Inv'
<1> USE CapacityNat
<1>0. /\ head \in Nat /\ tail \in Nat /\ seq \in [Slots -> Nat]
      /\ pos \in [Threads -> Nat]
  BY DEF Inv, TypeOK
<1>1. /\ pos' = pos /\ seq' = seq /\ head' = head /\ tail' = tail + 1
      /\ pos[t] = tail
      /\ Writing(t)' /\ ~Writing(t) /\ ~Reading(t) /\ ~Reading(t)'
      /\ \A u \in Threads \ {t} :
            pc'[u] = pc[u] /\ (Writing(u)' <=> Writing(u)) /\ (Reading(u)' <=> Reading(u))
      /\ pc'[t] = "enqWrite"
  BY DEF ClaimTail, Goto, Writing, Reading, Inv, TypeOK
<1>2. seq[Slot(tail)] = tail
  BY DEF ClaimTail, Inv, SeenValid
<1>3. tail < head + Capacity
  <2> SUFFICES ASSUME tail = head + Capacity PROVE FALSE
    BY <1>0 DEF Inv, Window
  <2>1. Slot(tail) = Slot(head)
    BY <1>0, SlotLap
  <2>2. seq[Slot(head)] = head \/ seq[Slot(head)] = head + 1
    BY <1>0 DEF Inv, UsedCells
  <2> QED
    BY <1>0, <1>2, <2>1, <2>2
<1>4. Window'
  BY <1>0, <1>1, <1>3 DEF Inv, Window
<1>5. UsedCells'
  <2> SUFFICES ASSUME NEW p \in Nat, head <= p, p < tail + 1
               PROVE  \/ seq[Slot(p)] = p + 1
                      \/ seq[Slot(p)] = p /\ \E u \in Threads : Writing(u)' /\ pos[u] = p
    BY <1>1 DEF UsedCells
  <2>1. CASE p = tail
    BY <1>1, <1>2, <2>1
  <2>2. CASE p < tail
    BY <1>1, <2>2 DEF Inv, UsedCells
  <2> QED
    BY <1>0, <2>1, <2>2
<1>6. FreeCells'
  <2> SUFFICES ASSUME NEW p \in Nat, tail + 1 <= p, p < head + Capacity
               PROVE  \/ seq[Slot(p)] = p
                      \/ /\ seq[Slot(p)] = p - Capacity + 1
                         /\ \E u \in Threads : Reading(u)' /\ pos[u] = p - Capacity
    BY <1>1 DEF FreeCells
  <2>1. tail <= p
    BY <1>0
  <2> QED
    BY <1>1, <2>1 DEF Inv, FreeCells
<1>7. Writers'
  BY <1>0, <1>1, <1>2 DEF Inv, Writers, Window
<1>8. Readers'
  <2> SUFFICES ASSUME NEW u \in Threads, Reading(u), u # t
               PROVE  /\ pos[u] < head
                      /\ tail + 1 <= pos[u] + Capacity
                      /\ seq[Slot(pos[u])] = pos[u] + 1
    BY <1>1 DEF Readers
  <2>1. /\ pos[u] < head /\ tail <= pos[u] + Capacity
        /\ seq[Slot(pos[u])] = pos[u] + 1 /\ pos[u] \in Nat
    BY <1>0 DEF Inv, Readers
  <2>2. tail # pos[u] + Capacity
    BY <1>0, <1>2, <2>1, SlotLap
  <2> QED
    BY <1>0, <2>1, <2>2
<1>9. OneOwner'
  <2>1. \A u \in Threads : Writing(u) => pos[u] # tail
    BY <1>0 DEF Inv, Writers
  <2> QED
    BY <1>1, <2>1 DEF Inv, OneOwner
<1>10. PosBehind' /\ SeenValid'
  BY <1>0, <1>1 DEF Inv, PosBehind, SeenValid
<1>11. Monotone'
  BY <1>0, <1>1, <1>2 DEF Inv, Monotone
<1> QED
  BY <1>4, <1>5, <1>6, <1>7, <1>8, <1>9, <1>10, <1>11 DEF Inv

\* The store that publishes a message touches no cell but the writer's own.
LEMMA PublishStep ==
    ASSUME Capacity >= 2, Inv, TypeOK', NEW t \in Threads, PublishCell(t)
    PROVE  Inv'
<1> USE CapacityNat
<1> DEFINE q == pos[t]
<1>0. /\ head \in Nat /\ tail \in Nat /\ seq \in [Slots -> Nat]
      /\ pos \in [Threads -> Nat] /\ q \in Nat
  BY DEF Inv, TypeOK
<1>1. /\ pos' = pos /\ head' = head /\ tail' = tail
      /\ Writing(t) /\ ~Writing(t)' /\ ~Reading(t) /\ ~Reading(t)'
      /\ pc'[t] = "idle"
      /\ \A u \in Threads \ {t} :
            pc'[u] = pc[u] /\ (Writing(u)' <=> Writing(u)) /\ (Reading(u)' <=> Reading(u))
  BY DEF PublishCell, Goto, Writing, Reading, Inv, TypeOK
<1>2. head <= q /\ q < tail /\ seq[Slot(q)] = q /\ tail <= head + Capacity
  BY <1>1 DEF Inv, Writers, Window
<1>3. /\ seq'[Slot(q)] = q + 1
      /\ \A p \in Nat : Slot(p) # Slot(q) => seq'[Slot(p)] = seq[Slot(p)]
      /\ \A p \in Nat : seq'[Slot(p)] >= seq[Slot(p)] /\ seq[Slot(p)] \in Nat /\ seq'[Slot(p)] \in Nat
  <2>1. seq' = [seq EXCEPT ![Slot(q)] = q + 1]
    BY DEF PublishCell
  <2>2. \A p \in Nat : Slot(p) \in Slots
    BY SlotIn
  <2> QED
    BY <1>0, <1>2, <2>1, <2>2
<1> HIDE DEF q
<1>4. \A p \in Nat : p # q /\ head <= p /\ p < head + Capacity => Slot(p) # Slot(q)
  <2> SUFFICES ASSUME NEW p \in Nat, p # q, head <= p, p < head + Capacity
               PROVE  Slot(p) # Slot(q)
    OBVIOUS
  <2>1. CASE p < q
    <3>1. q < p + Capacity
      BY <1>0, <1>2
    <3> QED
      BY <1>0, <2>1, <3>1, SlotNear
  <2>2. CASE q < p
    <3>1. p < q + Capacity
      BY <1>0, <1>2
    <3> QED
      BY <1>0, <2>2, <3>1, SlotNear
  <2> QED
    BY <1>0, <2>1, <2>2
<1>5. \A p \in Nat : p < head /\ tail <= p + Capacity => Slot(p) # Slot(q)
  <2> SUFFICES ASSUME NEW p \in Nat, p < head, tail <= p + Capacity
               PROVE  Slot(p) # Slot(q)
    OBVIOUS
  <2>1. p < q /\ q < p + Capacity
    BY <1>0, <1>2
  <2> QED
    BY <1>0, <2>1, SlotNear
<1>6. UsedCells'
  <2> SUFFICES ASSUME NEW p \in Nat, head <= p, p < tail
               PROVE  \/ seq'[Slot(p)] = p + 1
                      \/ seq'[Slot(p)] = p /\ \E u \in Threads : Writing(u)' /\ pos[u] = p
    BY <1>1 DEF UsedCells
  <2>1. CASE p = q
    BY <1>3, <2>1
  <2>2. CASE p # q
    <3>1. seq'[Slot(p)] = seq[Slot(p)]
      BY <1>0, <1>2, <1>3, <1>4, <2>2
    <3>2. \A u \in Threads : Writing(u) /\ pos[u] = p => Writing(u)'
      BY <1>1, <2>2 DEF q
    <3> QED
      BY <3>1, <3>2 DEF Inv, UsedCells
  <2> QED
    BY <2>1, <2>2
<1>7. FreeCells'
  <2> SUFFICES ASSUME NEW p \in Nat, tail <= p, p < head + Capacity
               PROVE  \/ seq'[Slot(p)] = p
                      \/ /\ seq'[Slot(p)] = p - Capacity + 1
                         /\ \E u \in Threads : Reading(u)' /\ pos[u] = p - Capacity
    BY <1>1 DEF FreeCells
  <2>1. seq'[Slot(p)] = seq[Slot(p)]
    BY <1>0, <1>2, <1>3, <1>4
  <2> QED
    BY <1>1, <2>1 DEF Inv, FreeCells
<1>8. Writers'
  <2> SUFFICES ASSUME NEW u \in Threads, u # t, Writing(u)
               PROVE  head <= pos[u] /\ pos[u] < tail /\ seq'[Slot(pos[u])] = pos[u]
    BY <1>1 DEF Writers
  <2>1. head <= pos[u] /\ pos[u] < tail /\ seq[Slot(pos[u])] = pos[u] /\ pos[u] \in Nat
    BY <1>0 DEF Inv, Writers
  <2>2. pos[u] # q
    BY <1>1 DEF Inv, OneOwner, q
  <2> QED
    BY <1>0, <1>2, <1>3, <1>4, <2>1, <2>2
<1>9. Readers'
  <2> SUFFICES ASSUME NEW u \in Threads, Reading(u)
               PROVE  /\ pos[u] < head /\ tail <= pos[u] + Capacity
                      /\ seq'[Slot(pos[u])] = pos[u] + 1
    BY <1>1 DEF Readers
  <2>1. /\ pos[u] < head /\ tail <= pos[u] + Capacity
        /\ seq[Slot(pos[u])] = pos[u] + 1 /\ pos[u] \in Nat
    BY <1>0 DEF Inv, Readers
  <2> QED
    BY <1>3, <1>5, <2>1
<1>10. OneOwner' /\ PosBehind' /\ Window'
  BY <1>1 DEF Inv, OneOwner, PosBehind, Window
<1>11. SeenValid'
  <2>1. ASSUME seq[Slot(tail)] = tail PROVE seq'[Slot(tail)] = tail
    <3>1. tail # q + Capacity
      BY <1>0, <1>2, <2>1, SlotLap
    <3>2. q < tail /\ tail < q + Capacity
      BY <1>0, <1>2, <3>1
    <3>3. Slot(q) # Slot(tail)
      BY <1>0, <3>2, SlotNear
    <3> QED
      BY <1>0, <1>3, <2>1, <3>3
  <2>2. ASSUME seq[Slot(head)] = head + 1 PROVE seq'[Slot(head)] = head + 1
    <3>1. head # q
      BY <1>0, <1>2, <2>2
    <3> QED
      BY <1>0, <1>3, <1>4, <2>2, <3>1
  <2> QED
    BY <1>1, <2>1, <2>2 DEF Inv, SeenValid
<1>12. Monotone'
  <2> SUFFICES ASSUME NEW p \in Nat
               PROVE  /\ p < tail => seq'[Slot(p)] >= p
                      /\ p < head => seq'[Slot(p)] >= p + 1
    BY <1>1 DEF Monotone
  <2> QED
    BY <1>0, <1>3 DEF Inv, Monotone
<1> QED
  BY <1>6, <1>7, <1>8, <1>9, <1>10, <1>11, <1>12 DEF Inv

\* The compare-exchange on head_: the message is published, so no enqueuer is
\* left in its cell.
LEMMA ClaimHeadStep ==
    ASSUME Capacity >= 2, Inv, TypeOK', NEW t \in Threads, ClaimHead(t)
    PROVE  Inv'
<1> USE CapacityNat
<1>0. /\ head \in Nat /\ tail \in Nat /\ seq \in [Slots -> Nat]
      /\ pos \in [Threads -> Nat]
  BY DEF Inv, TypeOK
<1>1. /\ pos' = pos /\ seq' = seq /\ head' = head + 1 /\ tail' = tail
      /\ pos[t] = head
      /\ Reading(t)' /\ ~Writing(t) /\ ~Reading(t) /\ ~Writing(t)'
      /\ \A u \in Threads \ {t} :
            pc'[u] = pc[u] /\ (Writing(u)' <=> Writing(u)) /\ (Reading(u)' <=> Reading(u))
      /\ pc'[t] = "deqRead"
  BY DEF ClaimHead, Goto, Writing, Reading, Inv, TypeOK
<1>2. seq[Slot(head)] = head + 1
  BY DEF ClaimHead, Inv, SeenValid
<1>3. head < tail
  <2> SUFFICES ASSUME tail = head PROVE FALSE
    BY <1>0 DEF Inv, Window
  <2>1. seq[Slot(head)] = head \/ seq[Slot(head)] = head - Capacity + 1
    BY <1>0 DEF Inv, FreeCells
  <2> QED
    BY <1>0, <1>2, <2>1
<1>4. Window'
  BY <1>0, <1>1, <1>3 DEF Inv, Window
<1>5. UsedCells'
  <2> SUFFICES ASSUME NEW p \in Nat, head + 1 <= p, p < tail
               PROVE  \/ seq[Slot(p)] = p + 1
                      \/ seq[Slot(p)] = p /\ \E u \in Threads : Writing(u)' /\ pos[u] = p
    BY <1>1 DEF UsedCells
  <2>1. head <= p
    BY <1>0
  <2> QED
    BY <1>1, <2>1 DEF Inv, UsedCells
<1>6. FreeCells'
  <2> SUFFICES ASSUME NEW p \in Nat, tail <= p, p < head + 1 + Capacity
               PROVE  \/ seq[Slot(p)] = p
                      \/ /\ seq[Slot(p)] = p - Capacity + 1
                         /\ \E u \in Threads : Reading(u)' /\ pos[u] = p - Capacity
    BY <1>1 DEF FreeCells
  <2>1. CASE p = head + Capacity
    <3>1. seq[Slot(p)] = head + 1
      BY <1>0, <1>2, <2>1, SlotLap
    <3>2. p - Capacity = head
      BY <1>0, <2>1
    <3> QED
      BY <1>1, <3>1, <3>2
  <2>2. CASE p < head + Capacity
    BY <1>1, <2>2 DEF Inv, FreeCells
  <2> QED
    BY <1>0, <2>1, <2>2
<1>7. Writers'
  <2> SUFFICES ASSUME NEW u \in Threads, Writing(u), u # t
               PROVE  head + 1 <= pos[u] /\ pos[u] < tail /\ seq[Slot(pos[u])] = pos[u]
    BY <1>1 DEF Writers
  <2>1. head <= pos[u] /\ pos[u] < tail /\ seq[Slot(pos[u])] = pos[u] /\ pos[u] \in Nat
    BY <1>0 DEF Inv, Writers
  <2> QED
    BY <1>0, <1>2, <2>1
<1>8. Readers'
  <2> SUFFICES ASSUME NEW u \in Threads, Reading(u)'
               PROVE  /\ pos[u] < head + 1
                      /\ tail <= pos[u] + Capacity
                      /\ seq[Slot(pos[u])] = pos[u] + 1
    BY <1>1 DEF Readers
  <2>1. CASE u = t
    BY <1>0, <1>1, <1>2, <2>1 DEF Inv, Window
  <2>2. CASE u # t
    BY <1>0, <1>1, <2>2 DEF Inv, Readers
  <2> QED
    BY <2>1, <2>2
<1>9. OneOwner'
  <2>1. \A u \in Threads : Reading(u) => pos[u] # head
    BY <1>0 DEF Inv, Readers
  <2> QED
    BY <1>1, <2>1 DEF Inv, OneOwner
<1>10. PosBehind' /\ SeenValid'
  BY <1>0, <1>1 DEF Inv, PosBehind, SeenValid
<1>11. Monotone'
  BY <1>0, <1>1, <1>2 DEF Inv, Monotone
<1> QED
  BY <1>4, <1>5, <1>6, <1>7, <1>8, <1>9, <1>10, <1>11 DEF Inv

\* The store that releases a cell touches no cell but the reader's own.
LEMMA ReleaseStep ==
    ASSUME Capacity >= 2, Inv, TypeOK', NEW t \in Threads, ReleaseCell(t)
    PROVE  Inv'
<1> USE CapacityNat
<1> DEFINE q == pos[t]
<1>0. /\ head \in Nat /\ tail \in Nat /\ seq \in [Slots -> Nat]
      /\ pos \in [Threads -> Nat] /\ q \in Nat
  BY DEF Inv, TypeOK
<1>1. /\ pos' = pos /\ head' = head /\ tail' = tail
      /\ Reading(t) /\ ~Writing(t)' /\ ~Writing(t) /\ ~Reading(t)'
      /\ pc'[t] = "idle"
      /\ \A u \in Threads \ {t} :
            pc'[u] = pc[u] /\ (Writing(u)' <=> Writing(u)) /\ (Reading(u)' <=> Reading(u))
  BY DEF ReleaseCell, Goto, Writing, Reading, Inv, TypeOK
<1>2. q < head /\ tail <= q + Capacity /\ seq[Slot(q)] = q + 1 /\ head <= tail
  BY <1>1 DEF Inv, Readers, Window
<1>3. /\ seq'[Slot(q)] = q + Capacity
      /\ \A p \in Nat : Slot(p) # Slot(q) => seq'[Slot(p)] = seq[Slot(p)]
      /\ \A p \in Nat : seq'[Slot(p)] >= seq[Slot(p)] /\ seq[Slot(p)] \in Nat /\ seq'[Slot(p)] \in Nat
  <2>1. seq' = [seq EXCEPT ![Slot(q)] = q + Capacity]
    BY DEF ReleaseCell
  <2>2. \A p \in Nat : Slot(p) \in Slots
    BY SlotIn
  <2> QED
    BY <1>0, <1>2, <2>1, <2>2
<1> HIDE DEF q
<1>4. \A p \in Nat : head <= p /\ p < tail => Slot(p) # Slot(q)
  <2> SUFFICES ASSUME NEW p \in Nat, head <= p, p < tail PROVE Slot(p) # Slot(q)
    OBVIOUS
  <2>1. q < p /\ p < q + Capacity
    BY <1>0, <1>2
  <2> QED
    BY <1>0, <2>1, SlotNear
<1>5. \A p \in Nat : p # q /\ p < head /\ tail <= p + Capacity => Slot(p) # Slot(q)
  <2> SUFFICES ASSUME NEW p \in Nat, p # q, p < head, tail <= p + Capacity
               PROVE  Slot(p) # Slot(q)
    OBVIOUS
  <2>1. CASE p < q
    <3>1. q < p + Capacity
      BY <1>0, <1>2
    <3> QED
      BY <1>0, <2>1, <3>1, SlotNear
  <2>2. CASE q < p
    <3>1. p < q + Capacity
      BY <1>0, <1>2
    <3> QED
      BY <1>0, <2>2, <3>1, SlotNear
  <2> QED
    BY <1>0, <2>1, <2>2
<1>6. UsedCells'
  <2> SUFFICES ASSUME NEW p \in Nat, head <= p, p < tail
               PROVE  \/ seq'[Slot(p)] = p + 1
                      \/ seq'[Slot(p)] = p /\ \E u \in Threads : Writing(u)' /\ pos[u] = p
    BY <1>1 DEF UsedCells
  <2>1. seq'[Slot(p)] = seq[Slot(p)]
    BY <1>3, <1>4
  <2> QED
    BY <1>1, <2>1 DEF Inv, UsedCells
<1>7. FreeCells'
  <2> SUFFICES ASSUME NEW p \in Nat, tail <= p, p < head + Capacity
               PROVE  \/ seq'[Slot(p)] = p
                      \/ /\ seq'[Slot(p)] = p - Capacity + 1
                         /\ \E u \in Threads : Reading(u)' /\ pos[u] = p - Capacity
    BY <1>1 DEF FreeCells
  <2>1. CASE p = q + Capacity
    BY <1>0, <1>3, <2>1, SlotLap
  <2>2. CASE p # q + Capacity
    <3>1. Slot(q) # Slot(p)
      <4>1. CASE p < q + Capacity
        <5>1. q < p
          BY <1>0, <1>2
        <5> QED
          BY <1>0, <4>1, <5>1, SlotNear
      <4>2. CASE q + Capacity < p
        <5> DEFINE n == q + Capacity
        <5>1. n \in Nat /\ n < p /\ p < n + Capacity /\ Slot(n) = Slot(q)
          BY <1>0, <1>2, <4>2, SlotLap
        <5> HIDE DEF n
        <5> QED
          BY <5>1, SlotNear
      <4> QED
        BY <1>0, <2>2, <4>1, <4>2
    <3>2. seq'[Slot(p)] = seq[Slot(p)]
      BY <1>3, <3>1
    <3>3. \A u \in Threads : Reading(u) /\ pos[u] = p - Capacity => Reading(u)'
      BY <1>0, <1>1, <2>2 DEF q
    <3> QED
      BY <3>2, <3>3 DEF Inv, FreeCells
  <2> QED
    BY <2>1, <2>2
<1>8. Writers'
  <2> SUFFICES ASSUME NEW u \in Threads, Writing(u)
               PROVE  head <= pos[u] /\ pos[u] < tail /\ seq'[Slot(pos[u])] = pos[u]
    BY <1>1 DEF Writers
  <2>1. head <= pos[u] /\ pos[u] < tail /\ seq[Slot(pos[u])] = pos[u] /\ pos[u] \in Nat
    BY <1>0 DEF Inv, Writers
  <2> QED
    BY <1>3, <1>4, <2>1
<1>9. Readers'
  <2> SUFFICES ASSUME NEW u \in Threads, u # t, Reading(u)
               PROVE  /\ pos[u] < head /\ tail <= pos[u] + Capacity
                      /\ seq'[Slot(pos[u])] = pos[u] + 1
    BY <1>1 DEF Readers
  <2>1. /\ pos[u] < head /\ tail <= pos[u] + Capacity
        /\ seq[Slot(pos[u])] = pos[u] + 1 /\ pos[u] \in Nat
    BY <1>0 DEF Inv, Readers
  <2>2. pos[u] # q
    BY <1>1 DEF Inv, OneOwner, q
  <2> QED
    BY <1>3, <1>5, <2>1, <2>2
<1>10. OneOwner' /\ PosBehind' /\ Window'
  BY <1>1 DEF Inv, OneOwner, PosBehind, Window
<1>11. SeenValid'
  <2>1. ASSUME NEW p \in Nat, q < p, p <= q + Capacity, seq[Slot(p)] = p \/ seq[Slot(p)] = p + 1
        PROVE  seq'[Slot(p)] = seq[Slot(p)]
    <3>1. p # q + Capacity
      BY <1>0, <1>2, <2>1, SlotLap
    <3>2. Slot(q) # Slot(p)
      BY <1>0, <2>1, <3>1, SlotNear
    <3> QED
      BY <1>3, <3>2
  <2>2. seq[Slot(tail)] = tail => seq'[Slot(tail)] = tail
    BY <1>0, <1>2, <2>1
  <2>3. seq[Slot(head)] = head + 1 => seq'[Slot(head)] = head + 1
    BY <1>0, <1>2, <2>1
  <2> QED
    BY <1>1, <2>2, <2>3 DEF Inv, SeenValid
<1>12. Monotone'
  <2> SUFFICES ASSUME NEW p \in Nat
               PROVE  /\ p < tail => seq'[Slot(p)] >= p
                      /\ p < head => seq'[Slot(p)] >= p + 1
    BY <1>1 DEF Monotone
  <2> QED
    BY <1>0, <1>3 DEF Inv, Monotone
<1> QED
  BY <1>6, <1>7, <1>8, <1>9, <1>10, <1>11, <1>12 DEF Inv

LEMMA InvStep ==
    ASSUME Capacity >= 2
    PROVE  Inv /\ [Next]_vars => Inv'
<1> SUFFICES ASSUME Inv, [Next]_vars PROVE Inv'
  OBVIOUS
<1>t. TypeOK /\ TypeOK'
  BY TypeStep DEF Inv
<1> USE <1>t DEF TypeOK, Goto, Writing, Reading, PosBehind, SeenValid
<1>1. ASSUME NEW t \in Threads, NEW m \in Msgs, CallEnqueue(t, m) PROVE Inv'
  BY <1>1, LocalStep DEF CallEnqueue, Inv
<1>2. ASSUME NEW t \in Threads, EnqueueSeq(t) PROVE Inv'
  BY <1>2, LocalStep DEF EnqueueSeq, Inv
<1>3. ASSUME NEW t \in Threads, EnqueueReload(t) PROVE Inv'
  BY <1>3, LocalStep DEF EnqueueReload, Inv
<1>4. ASSUME NEW t \in Threads, ClaimTail(t) PROVE Inv'
  BY <1>4, ClaimTailStep
<1>5. ASSUME NEW t \in Threads, MissTail(t) PROVE Inv'
  BY <1>5, LocalStep DEF MissTail, Inv
<1>6. ASSUME NEW t \in Threads, WriteCell(t) PROVE Inv'
  BY <1>6, LocalStep DEF WriteCell, Inv
<1>7. ASSUME NEW t \in Threads, PublishCell(t) PROVE Inv'
  BY <1>7, PublishStep
<1>8. ASSUME NEW t \in Threads, CallDequeue(t) PROVE Inv'
  BY <1>8, LocalStep DEF CallDequeue, Inv
<1>9. ASSUME NEW t \in Threads, DequeueSeq(t) PROVE Inv'
  BY <1>9, LocalStep DEF DequeueSeq, Inv
<1>10. ASSUME NEW t \in Threads, DequeueReload(t) PROVE Inv'
  BY <1>10, LocalStep DEF DequeueReload, Inv
<1>11. ASSUME NEW t \in Threads, ClaimHead(t) PROVE Inv'
  BY <1>11, ClaimHeadStep
<1>12. ASSUME NEW t \in Threads, MissHead(t) PROVE Inv'
  BY <1>12, LocalStep DEF MissHead, Inv
<1>13. ASSUME NEW t \in Threads, ReadCell(t) PROVE Inv'
  BY <1>13, LocalStep DEF ReadCell, Inv
<1>14. ASSUME NEW t \in Threads, ReleaseCell(t) PROVE Inv'
  BY <1>14, ReleaseStep
<1>15. CASE UNCHANGED vars
  BY <1>15, LocalStep DEF vars, Inv
<1> QED
  BY <1>1, <1>2, <1>3, <1>4, <1>5, <1>6, <1>7, <1>8, <1>9, <1>10, <1>11, <1>12,
     <1>13, <1>14, <1>15 DEF Next, EnqueueStep, DequeueStep

LEMMA InvCorrect ==
    ASSUME Capacity >= 2
    PROVE  Spec => []Inv
  BY InvInit, InvStep, PTL DEF Spec

-----------------------------------------------------------------------------
(* What follows from the invariant.                                        *)

\* With two cells or more, enqueuers never run a lap ahead of dequeuers.
THEOREM QueueNeverOverrun ==
    ASSUME Capacity >= 2
    PROVE  Spec => []NeverOverrun
<1>1. Inv => NeverOverrun
  BY CapacityNat DEF Inv, Window, NeverOverrun, TypeOK
<1> QED
  BY <1>1, InvCorrect, PTL

\* With two cells or more, the plain accesses to a cell's data never race, for
\* any number of enqueuing and dequeuing threads.
THEOREM CellsOwned ==
    ASSUME Capacity >= 2
    PROVE  Spec => []CellOwnership
<1>1. Inv => CellOwnership
  <2> SUFFICES ASSUME Inv, NEW t \in Threads, NEW u \in Threads, t # u,
                      Writing(t) \/ Reading(t), Writing(u) \/ Reading(u),
                      pos[t] <= pos[u]
               PROVE  Slot(pos[t]) # Slot(pos[u])
    BY DEF CellOwnership, Inv, TypeOK
  <2>1. head \in Nat /\ tail \in Nat /\ pos[t] \in Nat /\ pos[u] \in Nat
    BY DEF Inv, TypeOK
  <2>2. /\ Writing(t) => head <= pos[t] /\ pos[t] < tail
        /\ Writing(u) => head <= pos[u] /\ pos[u] < tail
        /\ Reading(t) => pos[t] < head /\ tail <= pos[t] + Capacity
        /\ Reading(u) => pos[u] < head /\ tail <= pos[u] + Capacity
        /\ head <= tail /\ tail <= head + Capacity
    BY DEF Inv, Writers, Readers, Window
  <2>3. pos[t] # pos[u]
    BY <2>1, <2>2 DEF Inv, OneOwner
  <2>4. pos[t] < pos[u] /\ pos[u] < pos[t] + Capacity
    BY <2>1, <2>2, <2>3, CapacityNat
  <2> QED
    BY <2>1, <2>4, SlotNear
<1> QED
  BY <1>1, InvCorrect, PTL

\* A false from enqueue is never spurious: the queue is full, or the cell it
\* needs is being read.
THEOREM FullReported ==
    ASSUME Capacity >= 2
    PROVE  Spec => FullIsFull
<1>1. ASSUME Inv, [Next]_vars, NEW t \in Threads, pc[t] = "enqSeq", pc'[t] = "idle"
      PROVE  \/ tail - head = Capacity
             \/ \E u \in Threads : Reading(u) /\ pos[u] = tail - Capacity
  <2>1. EnqueueSeq(t)
    BY <1>1 DEF Next, EnqueueStep, DequeueStep, CallEnqueue, EnqueueSeq, EnqueueReload,
       ClaimTail, MissTail, WriteCell, PublishCell, CallDequeue, DequeueSeq, DequeueReload,
       ClaimHead, MissHead, ReadCell, ReleaseCell, Goto, Inv, TypeOK, vars
  <2>2. seq[Slot(pos[t])] < pos[t]
    BY <1>1, <2>1 DEF EnqueueSeq, Goto, Inv, TypeOK
  <2>3. head \in Nat /\ tail \in Nat /\ pos[t] \in Nat /\ seq[Slot(pos[t])] \in Nat
    BY <1>1, SlotIn DEF Inv, TypeOK
  <2>4. pos[t] = tail
    BY <1>1, <2>2, <2>3 DEF Inv, PosBehind, Monotone
  <2>5. CASE tail < head + Capacity
    BY <1>1, <2>2, <2>3, <2>4, <2>5 DEF Inv, FreeCells
  <2> QED
    BY <1>1, <2>3, <2>5, CapacityNat DEF Inv, Window
<1>2. Inv /\ [Next]_vars => [\A t \in Threads :
          pc[t] = "enqSeq" /\ pc'[t] = "idle" =>
             \/ tail - head = Capacity
             \/ \E u \in Threads : Reading(u) /\ pos[u] = tail - Capacity]_vars
  BY <1>1
<1> QED
  BY <1>2, InvCorrect, PTL DEF Spec, FullIsFull

\* A nullptr from dequeue is never spurious: the queue is empty, or its oldest
\* message is being written.
THEOREM EmptyReported ==
    ASSUME Capacity >= 2
    PROVE  Spec => EmptyIsEmpty
<1>1. ASSUME Inv, [Next]_vars, NEW t \in Threads, pc[t] = "deqSeq", pc'[t] = "idle"
      PROVE  \/ head = tail
             \/ \E u \in Threads : Writing(u) /\ pos[u] = head
  <2>1. DequeueSeq(t)
    BY <1>1 DEF Next, EnqueueStep, DequeueStep, CallEnqueue, EnqueueSeq, EnqueueReload,
       ClaimTail, MissTail, WriteCell, PublishCell, CallDequeue, DequeueSeq, DequeueReload,
       ClaimHead, MissHead, ReadCell, ReleaseCell, Goto, Inv, TypeOK, vars
  <2>2. seq[Slot(pos[t])] < pos[t] + 1
    BY <1>1, <2>1 DEF DequeueSeq, Goto, Inv, TypeOK
  <2>3. head \in Nat /\ tail \in Nat /\ pos[t] \in Nat /\ seq[Slot(pos[t])] \in Nat
    BY <1>1, SlotIn DEF Inv, TypeOK
  <2>4. pos[t] = head
    BY <1>1, <2>2, <2>3 DEF Inv, PosBehind, Monotone
  <2>5. CASE head < tail
    BY <1>1, <2>2, <2>3, <2>4, <2>5 DEF Inv, UsedCells
  <2> QED
    BY <1>1, <2>3, <2>5, CapacityNat DEF Inv, Window
<1>2. Inv /\ [Next]_vars => [\A t \in Threads :
          pc[t] = "deqSeq" /\ pc'[t] = "idle" =>
             \/ head = tail
             \/ \E u \in Threads : Writing(u) /\ pos[u] = head]_vars
  BY <1>1
<1> QED
  BY <1>2, InvCorrect, PTL DEF Spec, EmptyIsEmpty

-----------------------------------------------------------------------------
(* Refinement.  An enqueue takes effect at its compare-exchange on tail_,  *)
(* a dequeue at the one on head_; every other step leaves the abstract     *)
(* queue alone.  The invariant gives what the mapping needs: one writer    *)
(* per position, and no writer in a cell that is read.                     *)

\* An enqueuer that has not written its cell holds a message.
HoldsMessage ==
    \A t \in Threads :
        pc[t] \in {"enqSeq", "enqLoad", "enqCas", "enqWrite"} => val[t] \in Msgs

LEMMA HoldsMessageInit == Init => HoldsMessage
  BY DEF Init, HoldsMessage

LEMMA HoldsMessageStep == TypeOK /\ HoldsMessage /\ [Next]_vars => HoldsMessage'
  BY DEF TypeOK, HoldsMessage, Next, EnqueueStep, DequeueStep, CallEnqueue, EnqueueSeq,
     EnqueueReload, ClaimTail, MissTail, WriteCell, PublishCell, CallDequeue, DequeueSeq,
     DequeueReload, ClaimHead, MissHead, ReadCell, ReleaseCell, Goto, vars

\* Of a sole writer of position p, the message is the one it holds.
LEMMA SoleWriter ==
    ASSUME NEW f, NEW g, NEW v, NEW p, NEW t \in Threads, f[t] = "enqWrite", g[t] = p,
           \A u \in Threads : f[u] = "enqWrite" /\ g[u] = p => u = t
    PROVE  v[CHOOSE u \in Threads : f[u] = "enqWrite" /\ g[u] = p] = v[t]
  OBVIOUS

\* The message at a position, by who is at work there.
MessageFacts ==
    \A p \in Nat :
        /\ \A t \in Threads : pc[t] = "enqWrite" /\ pos[t] = p => MessageAt(p) = val[t]
        /\ (\A t \in Threads : ~(pc[t] = "enqWrite" /\ pos[t] = p))
             => MessageAt(p) = data[Slot(p)]
        /\ MessageAt(p) \in Msgs \cup {NULL}

ItemFacts ==
    /\ Items \in Seq(Msgs \cup {NULL})
    /\ Len(Items) = tail - head
    /\ \A i, p \in Nat : 1 <= i /\ p = head + i - 1 /\ p < tail => Items[i] = MessageAt(p)

LEMMA MapFacts == Inv => MessageFacts /\ ItemFacts
<1> SUFFICES ASSUME Inv PROVE MessageFacts /\ ItemFacts
  OBVIOUS
<1>1. MessageFacts
  <2> SUFFICES ASSUME NEW p \in Nat
               PROVE  /\ \A t \in Threads : pc[t] = "enqWrite" /\ pos[t] = p => MessageAt(p) = val[t]
                      /\ (\A t \in Threads : ~(pc[t] = "enqWrite" /\ pos[t] = p))
                           => MessageAt(p) = data[Slot(p)]
                      /\ MessageAt(p) \in Msgs \cup {NULL}
    BY DEF MessageFacts
  <2>1. ASSUME NEW t \in Threads, pc[t] = "enqWrite", pos[t] = p PROVE MessageAt(p) = val[t]
    <3>1. \A u \in Threads : pc[u] = "enqWrite" /\ pos[u] = p => u = t
      BY <2>1 DEF Inv, OneOwner, Writing
    <3> QED
      BY <2>1, <3>1, SoleWriter DEF MessageAt
  <2>2. (\A t \in Threads : ~(pc[t] = "enqWrite" /\ pos[t] = p)) => MessageAt(p) = data[Slot(p)]
    BY DEF MessageAt
  <2>3. data[Slot(p)] \in Msgs \cup {NULL} /\ \A t \in Threads : val[t] \in Msgs \cup {NULL}
    BY SlotIn DEF Inv, TypeOK
  <2> QED
    BY <2>1, <2>2, <2>3
<1>2. ItemFacts
  <2>1. tail - head \in Nat /\ head \in Nat
    BY DEF Inv, TypeOK, Window
  <2>2. \A i \in 1..(tail - head) : MessageAt(head + i - 1) \in Msgs \cup {NULL}
    BY <1>1, <2>1 DEF MessageFacts
  <2>3. Items \in Seq(Msgs \cup {NULL}) /\ Len(Items) = tail - head
    BY <2>1, <2>2 DEF Items
  <2>4. ASSUME NEW i \in Nat, NEW p \in Nat, 1 <= i, p = head + i - 1, p < tail
        PROVE  Items[i] = MessageAt(p)
    <3>1. i \in 1..(tail - head)
      BY <2>1, <2>4 DEF Inv, TypeOK
    <3>2. Items[i] = MessageAt(head + i - 1)
      BY <3>1 DEF Items
    <3> QED
      BY <2>4, <3>2
  <2> QED
    BY <2>3, <2>4 DEF ItemFacts
<1> QED
  BY <1>1, <1>2

LEMMA MapFactsNext == Inv' => MessageFacts' /\ ItemFacts'
  BY MapFacts, PTL

\* A position keeps its message when its writer, if any, and its cell do.
LEMMA MessageStays ==
    ASSUME MessageFacts, MessageFacts', NEW p \in Nat, data'[Slot(p)] = data[Slot(p)],
           \A u \in Threads :
               /\ pc'[u] = "enqWrite" /\ pos'[u] = p <=> pc[u] = "enqWrite" /\ pos[u] = p
               /\ pc[u] = "enqWrite" /\ pos[u] = p => val'[u] = val[u]
    PROVE  MessageAt(p)' = MessageAt(p)
<1>1. CASE \E t \in Threads : pc[t] = "enqWrite" /\ pos[t] = p
  <2>1. PICK t \in Threads : pc[t] = "enqWrite" /\ pos[t] = p
    BY <1>1
  <2>2. MessageAt(p) = val[t] /\ MessageAt(p)' = val'[t]
    BY <2>1 DEF MessageFacts
  <2> QED
    BY <2>1, <2>2
<1>2. CASE \A t \in Threads : ~(pc[t] = "enqWrite" /\ pos[t] = p)
  BY <1>2 DEF MessageFacts
<1> QED
  BY <1>1, <1>2

\* Steps that move no position and keep every message in place.
LEMMA ItemsStay ==
    ASSUME Inv, ItemFacts, ItemFacts', UNCHANGED <<head, tail>>,
           \A p \in Nat : head <= p /\ p < tail => MessageAt(p)' = MessageAt(p)
    PROVE  Items' = Items
<1>1. head \in Nat /\ tail \in Nat /\ head <= tail
  BY DEF Inv, TypeOK, Window
<1>2. Items' \in Seq(Msgs \cup {NULL}) /\ Items \in Seq(Msgs \cup {NULL})
      /\ Len(Items') = Len(Items) /\ Len(Items) = tail - head
  BY <1>1 DEF ItemFacts
<1>3. \A i \in 1..(tail - head) : Items'[i] = Items[i]
  <2> SUFFICES ASSUME NEW i \in 1..(tail - head) PROVE Items'[i] = Items[i]
    OBVIOUS
  <2>1. PICK p \in Nat : p = head + i - 1
    BY <1>1
  <2>2. head <= p /\ p < tail /\ 1 <= i /\ i \in Nat
    BY <1>1, <2>1
  <2>3. Items[i] = MessageAt(p) /\ Items'[i] = MessageAt(p)'
    BY <2>1, <2>2 DEF ItemFacts
  <2> QED
    BY <2>2, <2>3
<1> QED
  BY <1>2, <1>3

LEMMA AppendItem ==
    ASSUME NEW S, NEW s \in Seq(S), NEW r \in Seq(S), NEW m \in S,
           Len(r) = Len(s) + 1, \A i \in 1..Len(s) : r[i] = s[i], r[Len(s) + 1] = m
    PROVE  r = Append(s, m)
  OBVIOUS

LEMMA RemoveItem ==
    ASSUME NEW S, NEW s \in Seq(S), NEW r \in Seq(S),
           Len(s) = Len(r) + 1, \A i \in 1..Len(r) : r[i] = s[i + 1]
    PROVE  r = Tail(s) /\ s # <<>> /\ Head(s) = s[1]
  OBVIOUS

\* Every step of the queue is a step of the abstract queue or a stutter.
LEMMA RefinementStep ==
    ASSUME Inv, Inv', HoldsMessage, [Next]_vars
    PROVE  [Fifo!Next]_(Fifo!fvars)
<1> USE CapacityNat
<1>f. MessageFacts /\ ItemFacts /\ MessageFacts' /\ ItemFacts'
  BY MapFacts, MapFactsNext
<1>t. TypeOK /\ TypeOK'
  BY DEF Inv
<1>0. /\ head \in Nat /\ tail \in Nat /\ head <= tail
      /\ pos \in [Threads -> Nat] /\ val \in [Threads -> Msgs \cup {NULL}]
      /\ \A t \in Threads : pos[t] \in Nat
  BY DEF Inv, TypeOK, Window
<1>s. ASSUME UNCHANGED <<head, tail, data>>,
             \A u \in Threads :
                 /\ pc'[u] = "enqWrite" <=> pc[u] = "enqWrite"
                 /\ pc[u] = "enqWrite" => pos'[u] = pos[u] /\ val'[u] = val[u]
      PROVE  Items' = Items
  BY <1>f, <1>s, MessageStays, ItemsStay
<1>1. ASSUME NEW t \in Threads, NEW m \in Msgs, CallEnqueue(t, m) PROVE UNCHANGED Fifo!fvars
  <2>1. Items' = Items
    BY <1>1, <1>s, <1>t DEF CallEnqueue, Goto, TypeOK
  <2>2. Hand' = Hand
    BY <1>1, <1>t DEF CallEnqueue, Goto, TypeOK, Hand
  <2> QED
    BY <2>1, <2>2 DEF Fifo!fvars
<1>2. ASSUME NEW t \in Threads, EnqueueSeq(t) PROVE UNCHANGED Fifo!fvars
  <2>1. Items' = Items
    BY <1>2, <1>s, <1>t DEF EnqueueSeq, Goto, TypeOK
  <2>2. Hand' = Hand
    BY <1>2, <1>t DEF EnqueueSeq, Goto, TypeOK, Hand
  <2> QED
    BY <2>1, <2>2 DEF Fifo!fvars
<1>3. ASSUME NEW t \in Threads, EnqueueReload(t) PROVE UNCHANGED Fifo!fvars
  <2>1. Items' = Items
    BY <1>3, <1>s, <1>t DEF EnqueueReload, Goto, TypeOK
  <2>2. Hand' = Hand
    BY <1>3, <1>t DEF EnqueueReload, Goto, TypeOK, Hand
  <2> QED
    BY <2>1, <2>2 DEF Fifo!fvars
<1>4. ASSUME NEW t \in Threads, ClaimTail(t) PROVE Fifo!Enqueue(val[t])
  <2> USE <1>4
  <2>1. /\ head' = head /\ tail' = tail + 1 /\ data' = data /\ val' = val /\ pos' = pos
        /\ pos[t] = tail /\ pc'[t] = "enqWrite" /\ pc[t] = "enqCas"
        /\ \A u \in Threads \ {t} : pc'[u] = pc[u]
    BY <1>t DEF ClaimTail, Goto, TypeOK
  <2>2. tail - head < Capacity
    BY <1>0, <2>1 DEF Inv, Window
  <2>3. \A p \in Nat : p < tail => MessageAt(p)' = MessageAt(p)
    BY <1>f, <1>0, <2>1, MessageStays
  <2>4. ASSUME NEW p \in Nat, p = tail PROVE MessageAt(p)' = val[t]
    BY <1>f, <2>1, <2>4 DEF MessageFacts
  <2>5. Items' = Append(Items, val[t])
    <3>1. \A i \in 1..Len(Items) : Items'[i] = Items[i]
      <4> SUFFICES ASSUME NEW i \in 1..(tail - head) PROVE Items'[i] = Items[i]
        BY <1>f DEF ItemFacts
      <4>1. PICK p \in Nat : p = head + i - 1
        BY <1>0
      <4>2. p < tail /\ 1 <= i /\ i \in Nat
        BY <1>0, <4>1
      <4>3. Items[i] = MessageAt(p) /\ Items'[i] = MessageAt(p)'
        BY <1>f, <1>0, <2>1, <4>1, <4>2 DEF ItemFacts
      <4> QED
        BY <2>3, <4>2, <4>3
    <3>2. Items'[Len(Items) + 1] = val[t]
      <4>1. PICK p \in Nat : p = tail
        BY <1>0
      <4>2. PICK i \in Nat : i = Len(Items) + 1 /\ i = (tail - head) + 1 /\ 1 <= i
        BY <1>f, <1>0 DEF ItemFacts
      <4>3. 1 <= i /\ p = head' + i - 1 /\ p < tail'
        BY <1>0, <2>1, <4>1, <4>2
      <4>4. Items'[i] = MessageAt(p)'
        BY <1>f, <4>3 DEF ItemFacts
      <4> QED
        BY <2>4, <4>1, <4>2, <4>4
    <3>3. Len(Items') = Len(Items) + 1
      BY <1>f, <1>0, <2>1 DEF ItemFacts
    <3> QED
      BY <1>f, <1>0, <3>1, <3>2, <3>3, AppendItem DEF ItemFacts
  <2>6. Hand' = Hand
    BY <2>1 DEF Hand
  <2> QED
    BY <1>f, <2>2, <2>5, <2>6 DEF Fifo!Enqueue, ItemFacts
<1>5. ASSUME NEW t \in Threads, MissTail(t) PROVE UNCHANGED Fifo!fvars
  <2>1. Items' = Items
    BY <1>5, <1>s, <1>t DEF MissTail, Goto, TypeOK
  <2>2. Hand' = Hand
    BY <1>5, <1>t DEF MissTail, Goto, TypeOK, Hand
  <2> QED
    BY <2>1, <2>2 DEF Fifo!fvars
<1>6. ASSUME NEW t \in Threads, WriteCell(t) PROVE UNCHANGED Fifo!fvars
  <2> USE <1>6
  <2>1. /\ head' = head /\ tail' = tail /\ val' = val /\ pos' = pos
        /\ pc[t] = "enqWrite" /\ pc'[t] = "enqPublish"
        /\ \A u \in Threads \ {t} : pc'[u] = pc[u]
        /\ data'[Slot(pos[t])] = val[t]
        /\ \A p \in Nat : Slot(p) # Slot(pos[t]) => data'[Slot(p)] = data[Slot(p)]
    BY <1>t, <1>0, SlotIn DEF WriteCell, Goto, TypeOK
  <2>2. head <= pos[t] /\ pos[t] < tail
    BY <2>1 DEF Inv, Writers, Writing
  <2>3. \A p \in Nat : head <= p /\ p < tail => MessageAt(p)' = MessageAt(p)
    <3> SUFFICES ASSUME NEW p \in Nat, head <= p, p < tail
                 PROVE  MessageAt(p)' = MessageAt(p)
      OBVIOUS
    <3>1. CASE p = pos[t]
      <4>1. MessageAt(p) = val[t]
        BY <1>f, <2>1, <3>1 DEF MessageFacts
      <4>2. \A u \in Threads : ~(pc'[u] = "enqWrite" /\ pos'[u] = p)
        BY <2>1, <3>1 DEF Inv, OneOwner, Writing
      <4>3. MessageAt(p)' = data'[Slot(p)]
        BY <1>f, <4>2 DEF MessageFacts
      <4> QED
        BY <2>1, <3>1, <4>1, <4>3
    <3>2. CASE p # pos[t]
      <4>1. Slot(p) # Slot(pos[t])
        <5>1. tail <= head + Capacity
          BY DEF Inv, Window
        <5>2. (p < pos[t] /\ pos[t] < p + Capacity) \/ (pos[t] < p /\ p < pos[t] + Capacity)
          BY <1>0, <2>2, <3>2, <5>1
        <5> QED
          BY <1>0, <5>2, SlotNear
      <4> QED
        BY <1>f, <2>1, <3>2, <4>1, MessageStays
    <3> QED
      BY <3>1, <3>2
  <2>4. Items' = Items
    BY <1>f, <2>1, <2>3, ItemsStay
  <2>5. ASSUME NEW u \in Threads, pc[u] = "deqRead" PROVE data'[Slot(pos[u])] = data[Slot(pos[u])]
    <3>1. pos[u] < head /\ tail <= pos[u] + Capacity
      BY <2>5 DEF Inv, Readers, Reading
    <3>2. pos[u] < pos[t] /\ pos[t] < pos[u] + Capacity
      BY <1>0, <2>2, <3>1
    <3>3. Slot(pos[u]) # Slot(pos[t])
      BY <1>0, <3>2, SlotNear
    <3> QED
      BY <1>0, <2>1, <3>3
  <2>6. Hand' = Hand
    BY <2>1, <2>5 DEF Hand
  <2> QED
    BY <2>4, <2>6 DEF Fifo!fvars
<1>7. ASSUME NEW t \in Threads, PublishCell(t) PROVE UNCHANGED Fifo!fvars
  <2>1. Items' = Items
    BY <1>7, <1>s, <1>t DEF PublishCell, Goto, TypeOK
  <2>2. Hand' = Hand
    BY <1>7, <1>t DEF PublishCell, Goto, TypeOK, Hand
  <2> QED
    BY <2>1, <2>2 DEF Fifo!fvars
<1>8. ASSUME NEW t \in Threads, CallDequeue(t) PROVE UNCHANGED Fifo!fvars
  <2>1. Items' = Items
    BY <1>8, <1>s, <1>t DEF CallDequeue, Goto, TypeOK
  <2>2. Hand' = Hand
    BY <1>8, <1>t DEF CallDequeue, Goto, TypeOK, Hand
  <2> QED
    BY <2>1, <2>2 DEF Fifo!fvars
<1>9. ASSUME NEW t \in Threads, DequeueSeq(t) PROVE UNCHANGED Fifo!fvars
  <2>1. Items' = Items
    BY <1>9, <1>s, <1>t DEF DequeueSeq, Goto, TypeOK
  <2>2. Hand' = Hand
    BY <1>9, <1>t DEF DequeueSeq, Goto, TypeOK, Hand
  <2> QED
    BY <2>1, <2>2 DEF Fifo!fvars
<1>10. ASSUME NEW t \in Threads, DequeueReload(t) PROVE UNCHANGED Fifo!fvars
  <2>1. Items' = Items
    BY <1>10, <1>s, <1>t DEF DequeueReload, Goto, TypeOK
  <2>2. Hand' = Hand
    BY <1>10, <1>t DEF DequeueReload, Goto, TypeOK, Hand
  <2> QED
    BY <2>1, <2>2 DEF Fifo!fvars
<1>11. ASSUME NEW t \in Threads, ClaimHead(t) PROVE Fifo!Dequeue(t)
  <2> USE <1>11
  <2>1. /\ head' = head + 1 /\ tail' = tail /\ data' = data /\ val' = val /\ pos' = pos
        /\ pos[t] = head /\ pc'[t] = "deqRead" /\ pc[t] = "deqCas"
        /\ \A u \in Threads \ {t} : pc'[u] = pc[u]
        /\ pc' = [pc EXCEPT ![t] = "deqRead"]
    BY <1>t DEF ClaimHead, Goto, TypeOK
  <2>2. head < tail
    BY <1>0, <2>1 DEF Inv, Window
  <2>3. MessageAt(head) = data[Slot(head)]
    <3>1. seq[Slot(head)] = head + 1
      BY <2>1 DEF Inv, SeenValid
    <3>2. \A u \in Threads : ~(pc[u] = "enqWrite" /\ pos[u] = head)
      BY <1>0, <3>1 DEF Inv, Writers, Writing
    <3> QED
      BY <1>f, <1>0, <3>2 DEF MessageFacts
  <2>4. \A p \in Nat : MessageAt(p)' = MessageAt(p)
    BY <1>f, <2>1, MessageStays
  <2>5. Items' = Tail(Items) /\ Items # <<>> /\ Head(Items) = data[Slot(head)]
    <3>1. Len(Items) = Len(Items') + 1
      BY <1>f, <1>0, <2>1 DEF ItemFacts
    <3>2. \A i \in 1..Len(Items') : Items'[i] = Items[i + 1]
      <4> SUFFICES ASSUME NEW i \in 1..(tail - (head + 1)) PROVE Items'[i] = Items[i + 1]
        BY <1>f, <2>1 DEF ItemFacts
      <4>1. PICK p \in Nat : p = head + i
        BY <1>0
      <4>2. PICK j \in Nat : j = i + 1
        OBVIOUS
      <4>3. /\ i \in Nat /\ 1 <= i /\ p = head' + i - 1 /\ p < tail'
            /\ 1 <= j /\ p = head + j - 1 /\ p < tail
        BY <1>0, <2>1, <4>1, <4>2
      <4>4. Items'[i] = MessageAt(p)' /\ Items[j] = MessageAt(p)
        BY <1>f, <4>3 DEF ItemFacts
      <4> QED
        BY <2>4, <4>2, <4>4
    <3>3. Items' = Tail(Items) /\ Items # <<>> /\ Head(Items) = Items[1]
      BY <1>f, <3>1, <3>2, RemoveItem DEF ItemFacts
    <3>4. Items[1] = MessageAt(head)
      <4>1. head = head + 1 - 1
        BY <1>0
      <4> QED
        BY <1>f, <1>0, <2>2, <4>1 DEF ItemFacts
    <3> QED
      BY <2>3, <3>3, <3>4
  <2>6. Hand[t] = NULL /\ Hand' = [Hand EXCEPT ![t] = data[Slot(head)]]
    BY <2>1 DEF Hand
  <2> QED
    BY <2>5, <2>6 DEF Fifo!Dequeue
<1>12. ASSUME NEW t \in Threads, MissHead(t) PROVE UNCHANGED Fifo!fvars
  <2>1. Items' = Items
    BY <1>12, <1>s, <1>t DEF MissHead, Goto, TypeOK
  <2>2. Hand' = Hand
    BY <1>12, <1>t DEF MissHead, Goto, TypeOK, Hand
  <2> QED
    BY <2>1, <2>2 DEF Fifo!fvars
<1>13. ASSUME NEW t \in Threads, ReadCell(t) PROVE UNCHANGED Fifo!fvars
  <2>1. Items' = Items
    BY <1>13, <1>s, <1>t DEF ReadCell, Goto, TypeOK
  <2>2. Hand' = Hand
    BY <1>13, <1>t DEF ReadCell, Goto, TypeOK, Hand
  <2> QED
    BY <2>1, <2>2 DEF Fifo!fvars
<1>14. ASSUME NEW t \in Threads, ReleaseCell(t) PROVE Fifo!Return(t)
  <2>1. Items' = Items
    BY <1>14, <1>s, <1>t DEF ReleaseCell, Goto, TypeOK
  <2>2. Hand' = [Hand EXCEPT ![t] = NULL]
    BY <1>14, <1>t DEF ReleaseCell, Goto, TypeOK, Hand
  <2> QED
    BY <2>1, <2>2 DEF Fifo!Return
<1>15. CASE UNCHANGED vars
  <2>1. Items' = Items
    BY <1>15, <1>s DEF vars
  <2>2. Hand' = Hand
    BY <1>15 DEF vars, Hand
  <2> QED
    BY <2>1, <2>2 DEF Fifo!fvars
<1>16. ASSUME NEW t \in Threads, EnqueueStep(t) PROVE [Fifo!Next]_(Fifo!fvars)
  <2>1. CASE ClaimTail(t)
    <3>1. val[t] \in Msgs
      BY <2>1 DEF ClaimTail, HoldsMessage
    <3> QED
      BY <1>4, <2>1, <3>1 DEF Fifo!Next
  <2> QED
    BY <1>1, <1>2, <1>3, <1>5, <1>6, <1>7, <1>16, <2>1 DEF EnqueueStep
<1>17. ASSUME NEW t \in Threads, DequeueStep(t) PROVE [Fifo!Next]_(Fifo!fvars)
  BY <1>8, <1>9, <1>10, <1>11, <1>12, <1>13, <1>14, <1>17 DEF DequeueStep, Fifo!Next
<1> QED
  BY <1>15, <1>16, <1>17 DEF Next

\* With two cells or more, the queue implements BoundedFIFO for any number of
\* threads: messages come out in the order of admission, each to one dequeue.
THEOREM QueueIsFIFO ==
    ASSUME Capacity >= 2
    PROVE  Spec => ImplementsBoundedFIFO
<1>1. Init => Fifo!Init
  <2> SUFFICES ASSUME Init PROVE Fifo!Init
    OBVIOUS
  <2>1. Items = <<>>
    <3>1. ItemFacts
      BY InvInit, MapFacts
    <3> QED
      BY <3>1 DEF Init, ItemFacts
  <2>2. Hand = [t \in Threads |-> NULL]
    BY DEF Init, Hand
  <2> QED
    BY <2>1, <2>2 DEF Fifo!Init
<1>2. Inv /\ Inv' /\ HoldsMessage /\ [Next]_vars => [Fifo!Next]_(Fifo!fvars)
  BY RefinementStep
<1>3. Inv /\ HoldsMessage /\ [Next]_vars => HoldsMessage'
  BY HoldsMessageStep DEF Inv
<1> QED
  BY <1>1, <1>2, <1>3, InvCorrect, HoldsMessageInit, PTL
  DEF Spec, ImplementsBoundedFIFO, Fifo!Spec

-----------------------------------------------------------------------------
(* moodycamel's scan: what is in the list when a call begins is found.     *)
(*                                                                         *)
(* A call owes a producer a look while due[c][p] + overcommit, which no    *)
(* other consumer changes, is more than the reservations ever made of p.   *)
(* Every dequeue that comes back with less than was wanted has read        *)
(* counters that settle this debt; the reservations are those claimed,     *)
(* those given back and those now held (Balanced).                         *)

L == Len(sub)

Counters == [tailIndex : Nat, headIndex : Nat, optimistic : Nat, overcommit : Nat]

Tokens == [initialOffset : Nat, lastKnown : Nat, items : Nat,
           current : Nat \cup {NULL}, desired : Nat \cup {NULL}]

\* A token that has been used names producers of the list.
TokenOK(k, n) ==
    k # NULL => /\ k \in Tokens
                /\ k.desired # NULL => k.desired \in 1..n /\ k.current \in 1..n

\* The producers of the first n still to be looked at, from at down and round
\* the end, until the scan is back at current.
Ahead(at, current, n) ==
    {p \in 1..n : IF at >= current THEN current < p /\ p <= at ELSE p <= at \/ current < p}

\* With what was due, d, and the counters sb: the reservations ever made of p
\* would be enough at x, and the producers that are still owed a look.
Covers(p, d, sb, x) == p \in DOMAIN d => d[p] + sb[p].overcommit <= x
Owes(d, sb) == {p \in DOMAIN d : ~(d[p] + sb[p].overcommit <= sb[p].optimistic)}
DueAt(d, n) == DOMAIN d \subseteq 1..n /\ \A p \in DOMAIN d : d[p] \in Int

\* What is due is there.
Enqueued(d, sb) == \A p \in DOMAIN d : d[p] <= sb[p].tailIndex

\* Where a scoring is: F are the producers owed a look, of n.
Scores(n) == [pc : {"score"}, at : 0..n, nonEmpty : Nat, best : Nat \cup {NULL}, bestSize : Nat]
ScoreAt(s, F, n) ==
    /\ s \in Scores(n)
    /\ s.nonEmpty = 0 => F \subseteq 1..s.at /\ s.bestSize = 0
    /\ s.nonEmpty # 0 => s.best \in 1..n

\* A producer that was tried already, or none.
Bests == (Nat \ {0}) \cup {NULL}

\* Where a call without a token is.
PlainAt(s, d, F, n) ==
    \/ s.pc = "idle"
    \/ s.pc = "failed" /\ F = {}
    \/ s.pc = "score" /\ ScoreAt(s, F, n) /\ s.at # 0
    \/ /\ s.pc = "size" /\ s.tail \in Nat /\ ScoreAt(s.score, F, n) /\ s.score.at # 0
       /\ s.score.at \in DOMAIN d => d[s.score.at] <= s.tail
    \/ s \in [pc : {"best"}, at : 1..n, want : {1}]
    \/ /\ s \in [pc : {"each"}, at : 1..n, best : Bests, want : Nat]
       /\ F \subseteq 1..s.at /\ s.best \notin F

\* Where one with the token k is.
TokenAt(s, k, F, n) ==
    /\ k # NULL
    /\ \/ s \in [pc : {"token"}, want : Nat, bulk : BOOLEAN]
       \/ /\ s \in [pc : {"current"}, at : 1..n, want : Nat, bulk : BOOLEAN]
          /\ k.desired # NULL /\ s.at = k.current
       \/ s \in [pc : {"tail"}, want : Nat] /\ k.desired # NULL /\ k.current \notin F
       \/ /\ s \in [pc : {"others"}, at : 1..n, want : Nat, tail : 1..n]
          /\ k.desired # NULL /\ k.current \in 1..s.tail /\ s.at \in 1..s.tail
          /\ s.at # k.current /\ F \subseteq Ahead(s.at, k.current, s.tail)

\* Where the dequeue of producer p is, of up to w elements.
DequeueAt(l, p, w, d, sb) ==
    \/ /\ l \in [pc : {"overcommit"}, tail : Nat]
       /\ l.tail <= sb[p].tailIndex /\ (p \in DOMAIN d => d[p] <= l.tail)
    \/ /\ l \in [pc : {"check"}, tail : Nat, over : Nat]
       /\ l.tail <= sb[p].tailIndex /\ Covers(p, d, sb, l.tail + l.over)
    \/ /\ l \in [pc : {"count"}, over : Nat, desired : Nat]
       /\ l.desired <= w /\ Covers(p, d, sb, sb[p].tailIndex + l.over)
       /\ l.desired = w \/ Covers(p, d, sb, sb[p].optimistic + l.desired)
    \/ /\ l \in [pc : {"reload"}, held : Nat, from : Int]
       /\ l.held <= w
       /\ Covers(p, d, sb, sb[p].optimistic + sb[p].tailIndex - l.held - l.from)
       /\ l.held = w \/ Covers(p, d, sb, sb[p].optimistic)
    \/ /\ l \in [pc : {"giveback"}, held : Nat, n : Nat]
       /\ l.n < l.held /\ l.held <= w
       /\ Covers(p, d, sb, sb[p].optimistic - (l.held - l.n))
    \/ /\ l \in [pc : {"claim"}, held : Nat]
       /\ l.held <= w /\ (l.held = w \/ Covers(p, d, sb, sb[p].optimistic))
    \/ /\ l \in [pc : {"done"}, n : Nat]
       /\ l.n <= w /\ (l.n = w \/ Covers(p, d, sb, sb[p].optimistic))

AtPcs == {"best", "each", "current", "others"}

LookAt(l, s, d, sb) ==
    \/ l = Scan!NoLook
    \/ /\ s.pc \in AtPcs /\ s.at \in 1..Len(sb) /\ s.want \in Nat
       /\ DequeueAt(l, s.at, s.want, d, sb)

\* The call of c, with the tokens tk.
PlaceAt(c, s, d, tk, sb) ==
    \/ PlainAt(s, d, Owes(d, sb), Len(sb))
    \/ c \in TokenUsers /\ TokenAt(s, tk[c], Owes(d, sb), Len(sb))

CallAt(c, s, l, d, tk, sb) ==
    /\ DueAt(d, Len(sb)) /\ Enqueued(d, sb)
    /\ PlaceAt(c, s, d, tk, sb)
    /\ LookAt(l, s, d, sb)

\* What is reserved in p, and neither claimed nor given back.
Hold(l, s, p) == IF l.pc \in {"reload", "giveback", "claim"} /\ s.at = p THEN l.held ELSE 0
AllHeld(p) ==
    SumFunctionOnSet([e \in Scan!Consumers |-> Hold(look[e], consumer[e], p)], Scan!Consumers)
Balanced(p) == sub[p].optimistic = sub[p].headIndex + sub[p].overcommit + AllHeld(p)

Numbers ==
    /\ sub \in Seq(Counters)
    /\ producerCount \in Nat /\ L <= producerCount
    /\ globalOffset \in Nat /\ nextId \in Nat

ScanInv ==
    /\ Numbers
    /\ DOMAIN consumer = Scan!Consumers /\ DOMAIN look = Scan!Consumers
    /\ DOMAIN due = Scan!Consumers /\ DOMAIN token = TokenUsers
    /\ \A c \in TokenUsers : TokenOK(token[c], L)
    /\ \A c \in Scan!Consumers : CallAt(c, consumer[c], look[c], due[c], token, sub)
    /\ \A p \in 1..L : Balanced(p)

-----------------------------------------------------------------------------
(* What the steps of others leave as it is.                                *)

\* The producers' counters grow, and so does the list.
Grown(sb, tb) ==
    /\ Len(sb) \in Nat /\ Len(tb) \in Nat /\ Len(sb) <= Len(tb)
    /\ \A q \in 1..Len(sb) : /\ sb[q] \in Counters /\ tb[q] \in Counters
                             /\ sb[q].tailIndex <= tb[q].tailIndex
                             /\ sb[q].optimistic <= tb[q].optimistic

\* What is due becomes less by as much as overcommit grows.
Eased(d, e, sb, tb) ==
    /\ DOMAIN e = DOMAIN d
    /\ \A q \in DOMAIN d : /\ e[q] \in Int /\ e[q] <= d[q]
                           /\ e[q] + tb[q].overcommit = d[q] + sb[q].overcommit

LEMMA CoversLater ==
    ASSUME NEW sb, NEW tb, Grown(sb, tb), NEW d, NEW e, Eased(d, e, sb, tb),
           NEW p, NEW x \in Int, NEW y \in Int, x <= y, DueAt(d, Len(sb)),
           Covers(p, d, sb, x)
    PROVE  Covers(p, e, tb, y)
  <1> SUFFICES ASSUME p \in DOMAIN d PROVE e[p] + tb[p].overcommit <= y
    BY DEF Covers, Eased
  <1>1. d[p] + sb[p].overcommit <= x /\ e[p] + tb[p].overcommit = d[p] + sb[p].overcommit
    BY DEF Covers, Eased
  <1>2. d[p] \in Int /\ sb[p].overcommit \in Int
    BY DEF DueAt, Grown, Counters
  <1> QED BY <1>1, <1>2

LEMMA OwesLess ==
    ASSUME NEW sb, NEW tb, Grown(sb, tb), NEW d, NEW e, Eased(d, e, sb, tb), DueAt(d, Len(sb))
    PROVE  Owes(e, tb) \subseteq Owes(d, sb) /\ DueAt(e, Len(tb))
  <1>1. ASSUME NEW p \in Owes(e, tb) PROVE p \in Owes(d, sb)
    <2>1. p \in DOMAIN d /\ p \in 1..Len(sb) /\ d[p] \in Int /\ e[p] \in Int
      BY <1>1 DEF Owes, Eased, DueAt
    <2>2. /\ sb[p].overcommit \in Int /\ tb[p].overcommit \in Int
          /\ sb[p].optimistic \in Int /\ tb[p].optimistic \in Int
          /\ sb[p].optimistic <= tb[p].optimistic
      BY <2>1 DEF Grown, Counters
    <2>3. e[p] + tb[p].overcommit = d[p] + sb[p].overcommit
      BY <2>1 DEF Eased
    <2>4. ~(e[p] + tb[p].overcommit <= tb[p].optimistic)
      BY <1>1 DEF Owes
    <2> QED BY <2>1, <2>2, <2>3, <2>4 DEF Owes
  <1>2. DueAt(e, Len(tb))
    <2>1. 1..Len(sb) \subseteq 1..Len(tb)
      BY DEF Grown
    <2> QED BY <2>1 DEF DueAt, Eased
  <1> QED BY <1>1, <1>2

LEMMA PlainLater ==
    ASSUME NEW s, NEW d, NEW e, NEW F, NEW G \in SUBSET F, NEW n \in Nat, NEW m \in Nat, n <= m,
           DueAt(d, n), DOMAIN e = DOMAIN d, \A q \in DOMAIN d : e[q] \in Int /\ e[q] <= d[q],
           PlainAt(s, d, F, n)
    PROVE  PlainAt(s, e, G, m)
  <1>1. 0..n \subseteq 0..m /\ 1..n \subseteq 1..m
    OBVIOUS
  <1>2. ASSUME NEW r, ScoreAt(r, F, n) PROVE ScoreAt(r, G, m)
    BY <1>1, <1>2 DEF ScoreAt, Scores
  <1>3. CASE s.pc = "idle" \/ s.pc = "failed"
    BY <1>3 DEF PlainAt
  <1>4. CASE s \in [pc : {"best"}, at : 1..n, want : {1}]
    BY <1>1, <1>4 DEF PlainAt
  <1>5. CASE s.pc = "score" /\ ScoreAt(s, F, n) /\ s.at # 0
    BY <1>2, <1>5 DEF PlainAt
  <1>6. CASE /\ s.pc = "size" /\ s.tail \in Nat /\ ScoreAt(s.score, F, n) /\ s.score.at # 0
             /\ s.score.at \in DOMAIN d => d[s.score.at] <= s.tail
    <2>1. s.score.at \in DOMAIN e => e[s.score.at] <= s.tail
      BY <1>6 DEF DueAt
    <2> QED BY <1>2, <1>6, <2>1 DEF PlainAt
  <1>7. CASE /\ s \in [pc : {"each"}, at : 1..n, best : Bests, want : Nat]
             /\ F \subseteq 1..s.at /\ s.best \notin F
    BY <1>1, <1>7 DEF PlainAt
  <1> QED BY <1>3, <1>4, <1>5, <1>6, <1>7 DEF PlainAt

LEMMA TokenLater ==
    ASSUME NEW s, NEW k, NEW F, NEW G \in SUBSET F, NEW n \in Nat, NEW m \in Nat, n <= m,
           TokenAt(s, k, F, n)
    PROVE  TokenAt(s, k, G, m)
  <1>1. 1..n \subseteq 1..m
    OBVIOUS
  <1>2. CASE s.pc = "token" \/ s.pc = "tail"
    BY <1>2 DEF TokenAt
  <1>3. CASE s \in [pc : {"current"}, at : 1..n, want : Nat, bulk : BOOLEAN]
    BY <1>1, <1>3 DEF TokenAt
  <1>4. CASE s \in [pc : {"others"}, at : 1..n, want : Nat, tail : 1..n]
    BY <1>1, <1>4 DEF TokenAt
  <1> QED BY <1>2, <1>3, <1>4 DEF TokenAt

LEMMA TokenOKLater ==
    ASSUME NEW k, NEW n \in Nat, NEW m \in Nat, n <= m, TokenOK(k, n)
    PROVE  TokenOK(k, m)
  BY DEF TokenOK

LEMMA BothMore ==
    ASSUME NEW i \in Int, NEW j \in Int, NEW m \in Int, NEW n \in Int, NEW k \in Int, NEW g \in Int,
           i <= m, j <= n
    PROVE  i + j - k - g <= m + n - k - g
  OBVIOUS

LEMMA DequeueLater ==
    ASSUME NEW sb, NEW tb, Grown(sb, tb), NEW d, NEW e, Eased(d, e, sb, tb), DueAt(d, Len(sb)),
           NEW l, NEW p \in 1..Len(sb), NEW w \in Nat, DequeueAt(l, p, w, d, sb)
    PROVE  DequeueAt(l, p, w, e, tb)
  <1>1. /\ sb[p].tailIndex \in Nat /\ tb[p].tailIndex \in Nat /\ sb[p].tailIndex <= tb[p].tailIndex
        /\ sb[p].optimistic \in Nat /\ tb[p].optimistic \in Nat
        /\ sb[p].optimistic <= tb[p].optimistic
    BY DEF Grown, Counters
  <1>2. ASSUME NEW x \in Int, NEW y \in Int, x <= y, Covers(p, d, sb, x) PROVE Covers(p, e, tb, y)
    BY <1>2, CoversLater
  <1>3. Covers(p, d, sb, sb[p].optimistic) => Covers(p, e, tb, tb[p].optimistic)
    BY <1>1, <1>2
  <1>4. CASE l.pc = "overcommit"
    <2>1. l \in [pc : {"overcommit"}, tail : Nat] /\ l.tail <= sb[p].tailIndex
          /\ (p \in DOMAIN d => d[p] <= l.tail)
      BY <1>4 DEF DequeueAt
    <2>2. p \in DOMAIN e => e[p] <= l.tail
      BY <2>1 DEF Eased, DueAt
    <2>3. l.tail <= tb[p].tailIndex
      BY <1>1, <2>1
    <2> QED BY <2>1, <2>2, <2>3 DEF DequeueAt
  <1>5. CASE l.pc = "check"
    <2>1. l \in [pc : {"check"}, tail : Nat, over : Nat] /\ l.tail <= sb[p].tailIndex
          /\ Covers(p, d, sb, l.tail + l.over)
      BY <1>5 DEF DequeueAt
    <2>2. PICK x \in Int : x = l.tail + l.over
      BY <2>1
    <2>3. Covers(p, e, tb, x) /\ l.tail <= tb[p].tailIndex
      BY <1>1, <1>2, <2>1, <2>2
    <2> QED BY <2>1, <2>2, <2>3 DEF DequeueAt
  <1>6. CASE l.pc = "count"
    <2>1. /\ l \in [pc : {"count"}, over : Nat, desired : Nat]
          /\ l.desired <= w /\ Covers(p, d, sb, sb[p].tailIndex + l.over)
          /\ l.desired = w \/ Covers(p, d, sb, sb[p].optimistic + l.desired)
      BY <1>6 DEF DequeueAt
    <2>2. PICK o \in Nat, z \in Nat : o = l.over /\ z = l.desired
      BY <2>1
    <2>3. Covers(p, e, tb, tb[p].tailIndex + o)
      BY <1>1, <1>2, <2>1, <2>2
    <2>4. Covers(p, d, sb, sb[p].optimistic + z) => Covers(p, e, tb, tb[p].optimistic + z)
      BY <1>1, <1>2
    <2> QED BY <2>1, <2>2, <2>3, <2>4 DEF DequeueAt
  <1>7. CASE l.pc = "reload"
    <2>1. /\ l \in [pc : {"reload"}, held : Nat, from : Int]
          /\ l.held <= w
          /\ Covers(p, d, sb, sb[p].optimistic + sb[p].tailIndex - l.held - l.from)
          /\ l.held = w \/ Covers(p, d, sb, sb[p].optimistic)
      BY <1>7 DEF DequeueAt
    <2>2. PICK h \in Nat, f \in Int : h = l.held /\ f = l.from
      BY <2>1
    <2>3. PICK x \in Int : x = sb[p].optimistic + sb[p].tailIndex - h - f
      BY <1>1
    <2>4. PICK y \in Int : y = tb[p].optimistic + tb[p].tailIndex - h - f
      BY <1>1
    <2>5. x <= y
      <3>1. /\ sb[p].optimistic \in Int /\ sb[p].tailIndex \in Int
            /\ tb[p].optimistic \in Int /\ tb[p].tailIndex \in Int /\ h \in Int /\ f \in Int
        BY <1>1
      <3> QED BY <1>1, <2>3, <2>4, <3>1, BothMore, Zenon
    <2>6. Covers(p, e, tb, y)
      BY <1>2, <2>1, <2>2, <2>3, <2>5
    <2> QED BY <1>3, <2>1, <2>2, <2>4, <2>6 DEF DequeueAt
  <1>8. CASE l.pc = "giveback"
    <2>1. /\ l \in [pc : {"giveback"}, held : Nat, n : Nat]
          /\ l.n < l.held /\ l.held <= w
          /\ Covers(p, d, sb, sb[p].optimistic - (l.held - l.n))
      BY <1>8 DEF DequeueAt
    <2>2. PICK h \in Nat, f \in Nat : h = l.held /\ f = l.n
      BY <2>1
    <2>3. PICK x \in Int : x = sb[p].optimistic - (h - f)
      BY <1>1
    <2>4. PICK y \in Int : y = tb[p].optimistic - (h - f)
      BY <1>1
    <2>5. x <= y
      BY <1>1, <2>3, <2>4
    <2>6. Covers(p, e, tb, y)
      BY <1>2, <2>1, <2>2, <2>3, <2>5
    <2> QED BY <2>1, <2>2, <2>4, <2>6 DEF DequeueAt
  <1>9. CASE l.pc = "claim" \/ l.pc = "done"
    BY <1>3, <1>9 DEF DequeueAt
  <1> QED BY <1>4, <1>5, <1>6, <1>7, <1>8, <1>9 DEF DequeueAt

LEMMA CallLater ==
    ASSUME NEW sb, NEW tb, Grown(sb, tb), NEW d, NEW e, Eased(d, e, sb, tb),
           NEW c, NEW s, NEW l, NEW tk, NEW uk, c \in TokenUsers => uk[c] = tk[c],
           CallAt(c, s, l, d, tk, sb)
    PROVE  CallAt(c, s, l, e, uk, tb)
  <1>1. DueAt(d, Len(sb)) /\ Owes(e, tb) \in SUBSET Owes(d, sb) /\ DueAt(e, Len(tb))
    BY OwesLess DEF CallAt
  <1>2. Len(sb) \in Nat /\ Len(tb) \in Nat /\ Len(sb) <= Len(tb)
    BY DEF Grown
  <1>3. DOMAIN e = DOMAIN d /\ \A q \in DOMAIN d : e[q] \in Int /\ e[q] <= d[q]
    BY DEF Eased
  <1>4. PlaceAt(c, s, e, uk, tb)
    <2>1. CASE PlainAt(s, d, Owes(d, sb), Len(sb))
      BY <1>1, <1>2, <1>3, <2>1, PlainLater DEF PlaceAt
    <2>2. CASE c \in TokenUsers /\ TokenAt(s, tk[c], Owes(d, sb), Len(sb))
      BY <1>1, <1>2, <2>2, TokenLater DEF PlaceAt
    <2> QED BY <2>1, <2>2 DEF CallAt, PlaceAt
  <1>5. LookAt(l, s, e, tb)
    <2>1. CASE l = Scan!NoLook
      BY <2>1 DEF LookAt
    <2>2. CASE /\ s.pc \in AtPcs /\ s.at \in 1..Len(sb) /\ s.want \in Nat
               /\ DequeueAt(l, s.at, s.want, d, sb)
      <3>1. DequeueAt(l, s.at, s.want, e, tb)
        BY <1>1, <2>2, DequeueLater
      <3>2. s.at \in 1..Len(tb)
        BY <1>2, <2>2
      <3> QED BY <2>2, <3>1, <3>2 DEF LookAt
    <2> QED BY <2>1, <2>2 DEF CallAt, LookAt
  <1>6. Enqueued(e, tb)
    <2> SUFFICES ASSUME NEW p \in DOMAIN d PROVE e[p] <= tb[p].tailIndex
      BY <1>3 DEF Enqueued
    <2>1. d[p] <= sb[p].tailIndex /\ d[p] \in Int /\ e[p] \in Int /\ e[p] <= d[p] /\ p \in 1..Len(sb)
      BY <1>1, <1>3 DEF CallAt, Enqueued, DueAt
    <2>2. sb[p].tailIndex \in Int /\ tb[p].tailIndex \in Int /\ sb[p].tailIndex <= tb[p].tailIndex
      BY <2>1 DEF Grown, Counters
    <2> QED BY <2>1, <2>2
  <1> QED BY <1>1, <1>4, <1>5, <1>6 DEF CallAt

-----------------------------------------------------------------------------
(* One consumer moves.                                                     *)

\* g is f but for v at c.
Sets(f, g, c, v) ==
    /\ DOMAIN g = Scan!Consumers /\ g[c] = v
    /\ \A e \in Scan!Consumers : e # c => g[e] = f[e]

SameTokens(c) ==
    /\ DOMAIN token' = TokenUsers
    /\ \A e \in TokenUsers : e # c => token'[e] = token[e]

OthersEased(c) ==
    /\ DOMAIN due' = Scan!Consumers
    /\ \A e \in Scan!Consumers : e # c => Eased(due[e], due'[e], sub, sub')

LEMMA CallMoves ==
    ASSUME ScanInv, NEW c \in Scan!Consumers, NEW s, NEW l, NEW d,
           Sets(consumer, consumer', c, s), Sets(look, look', c, l),
           OthersEased(c), due'[c] = d, Numbers', Grown(sub, sub'), SameTokens(c),
           c \in TokenUsers => TokenOK(token'[c], L'),
           CallAt(c, s, l, d, token', sub'), \A p \in 1..L' : Balanced(p)'
    PROVE  ScanInv'
  <1>1. L \in Nat /\ L' \in Nat /\ L <= L'
    BY DEF Grown, L
  <1>2. \A e \in TokenUsers : TokenOK(token'[e], L')
    <2> SUFFICES ASSUME NEW e \in TokenUsers, e # c PROVE TokenOK(token'[e], L')
      OBVIOUS
    <2>1. token'[e] = token[e] /\ TokenOK(token[e], L)
      BY DEF ScanInv, SameTokens
    <2> QED BY <1>1, <2>1, TokenOKLater
  <1>3. \A e \in Scan!Consumers : CallAt(e, consumer'[e], look'[e], due'[e], token', sub')
    <2> SUFFICES ASSUME NEW e \in Scan!Consumers, e # c
                 PROVE  CallAt(e, consumer'[e], look'[e], due'[e], token', sub')
      BY DEF Sets
    <2>1. CallAt(e, consumer[e], look[e], due[e], token, sub)
      BY DEF ScanInv
    <2>2. consumer'[e] = consumer[e] /\ look'[e] = look[e]
          /\ Eased(due[e], due'[e], sub, sub') /\ (e \in TokenUsers => token'[e] = token[e])
      BY DEF Sets, OthersEased, SameTokens
    <2> QED BY <2>1, <2>2, CallLater
  <1> QED BY <1>2, <1>3 DEF ScanInv, Sets, OthersEased, SameTokens

\* The facts about the call of c, and about its dequeue.
LEMMA CallNow ==
    ASSUME ScanInv, NEW c \in Scan!Consumers
    PROVE  /\ CallAt(c, consumer[c], look[c], due[c], token, sub)
           /\ DueAt(due[c], L) /\ Enqueued(due[c], sub) /\ PlaceAt(c, consumer[c], due[c], token, sub)
           /\ Owes(due[c], sub) \subseteq 1..L
           /\ L \in Nat /\ sub \in Seq(Counters)
           /\ consumer[c].pc \notin AtPcs => look[c] = Scan!NoLook
  BY DEF ScanInv, CallAt, LookAt, DueAt, Owes, Numbers, L

LEMMA DequeueNow ==
    ASSUME ScanInv, NEW c \in Scan!Consumers, look[c].pc # "none"
    PROVE  /\ consumer[c].pc \in AtPcs /\ consumer[c].at \in 1..L /\ consumer[c].want \in Nat
           /\ DequeueAt(look[c], consumer[c].at, consumer[c].want, due[c], sub)
  BY DEF ScanInv, CallAt, LookAt, Scan!NoLook, L

LEMMA HoldNat ==
    ASSUME ScanInv, NEW e \in Scan!Consumers, NEW p
    PROVE  Hold(look[e], consumer[e], p) \in Nat
  <1>1. CASE look[e].pc \in {"reload", "giveback", "claim"}
    <2>1. look[e].held \in Nat
      BY <1>1, DequeueNow DEF DequeueAt
    <2> QED BY <2>1 DEF Hold
  <1>2. CASE look[e].pc \notin {"reload", "giveback", "claim"}
    BY <1>2 DEF Hold
  <1> QED BY <1>1, <1>2

LEMMA ConsumersFinite == IsFiniteSet(Scan!Consumers)
  BY ScanAssumption DEF Scan!Consumers

LEMMA HeldChange ==
    ASSUME ScanInv, NEW c \in Scan!Consumers, NEW s, NEW l, NEW p, Hold(l, s, p) \in Nat,
           Sets(consumer, consumer', c, s), Sets(look, look', c, l)
    PROVE  /\ AllHeld(p) \in Nat
           /\ AllHeld(p)' = AllHeld(p) - Hold(look[c], consumer[c], p) + Hold(l, s, p)
  <1> DEFINE f == [e \in Scan!Consumers |-> Hold(look[e], consumer[e], p)]
             h == [e \in Scan!Consumers |-> Hold(look'[e], consumer'[e], p)]
  <1>1. \A e \in Scan!Consumers : f[e] \in Nat
    BY HoldNat
  <1>2. h[c] = Hold(l, s, p) /\ f[c] = Hold(look[c], consumer[c], p)
    BY DEF Sets
  <1>3. \A e \in Scan!Consumers \ {c} : f[e] = h[e]
    BY DEF Sets
  <1>4. \A e \in Scan!Consumers : f[e] \in Nat /\ h[e] \in Nat
    BY <1>1, <1>2, <1>3
  <1>5. AllHeld(p) = SumFunctionOnSet(f, Scan!Consumers)
        /\ AllHeld(p)' = SumFunctionOnSet(h, Scan!Consumers)
    BY DEF AllHeld
  <1> HIDE DEF f, h
  <1>6. /\ SumFunctionOnSet(f, Scan!Consumers) \in Nat
        /\ SumFunctionOnSet(h, Scan!Consumers) = SumFunctionOnSet(f, Scan!Consumers) - f[c] + h[c]
    BY <1>3, <1>4, ConsumersFinite, SumChange
  <1> QED BY <1>2, <1>5, <1>6

LEMMA HeldNat ==
    ASSUME ScanInv, NEW p
    PROVE  AllHeld(p) \in Nat
  <1> DEFINE f == [e \in Scan!Consumers |-> Hold(look[e], consumer[e], p)]
  <1>1. \A e \in Scan!Consumers : f[e] \in Nat
    BY HoldNat
  <1>2. AllHeld(p) = SumFunctionOnSet(f, Scan!Consumers)
    BY DEF AllHeld
  <1> HIDE DEF f
  <1> QED BY <1>1, <1>2, ConsumersFinite, SumNat

LEMMA SubNow ==
    ASSUME Numbers, NEW p \in 1..L
    PROVE  /\ sub[p] \in Counters
           /\ sub[p].tailIndex \in Nat /\ sub[p].headIndex \in Nat
           /\ sub[p].optimistic \in Nat /\ sub[p].overcommit \in Nat
  <1>1. sub[p] \in Counters
    BY DEF Numbers, L
  <1> QED BY <1>1 DEF Counters

\* What c owes only becomes less by its own steps that leave the producers
\* and their reservations alone.
LEMMA Moves ==
    ASSUME ScanInv, NEW c \in Scan!Consumers, NEW s, NEW l, NEW d,
           Sets(consumer, consumer', c, s), Sets(look, look', c, l), Sets(due, due', c, d),
           UNCHANGED <<sub, producerCount>>, globalOffset' \in Nat, nextId' \in Nat, SameTokens(c),
           c \in TokenUsers => TokenOK(token'[c], L),
           CallAt(c, s, l, d, token', sub),
           \A p : Hold(l, s, p) = Hold(look[c], consumer[c], p)
    PROVE  ScanInv'
  <1>1. L' = L /\ L \in Nat /\ sub \in Seq(Counters)
    BY DEF L, ScanInv, Numbers
  <1>2. Numbers'
    BY <1>1 DEF ScanInv, Numbers
  <1>3. Grown(sub, sub')
    BY <1>1, SubNow DEF Grown, L, ScanInv
  <1>4. OthersEased(c)
    <2>1. ASSUME NEW e \in Scan!Consumers, e # c PROVE Eased(due[e], due'[e], sub, sub')
      <3>1. due'[e] = due[e] /\ DueAt(due[e], L)
        BY <2>1, CallNow DEF Sets
      <3> QED BY <1>1, <3>1, SubNow DEF Eased, DueAt, ScanInv
    <2> QED BY <2>1 DEF OthersEased, Sets
  <1>5. \A p \in 1..L' : Balanced(p)'
    <2> SUFFICES ASSUME NEW p \in 1..L PROVE Balanced(p)'
      BY <1>1
    <2>1. Hold(l, s, p) \in Nat /\ Hold(look[c], consumer[c], p) = Hold(l, s, p)
      BY HoldNat
    <2>2. AllHeld(p)' = AllHeld(p)
      BY <2>1, HeldChange
    <2> QED BY <2>2 DEF Balanced, ScanInv
  <1>6. due'[c] = d
    BY DEF Sets
  <1> QED BY <1>1, <1>2, <1>3, <1>4, <1>5, <1>6, CallMoves

\* The call goes on, and the dequeue it is in, if any, does not.
LEMMA Goes ==
    ASSUME ScanInv, NEW c \in Scan!Consumers, NEW s, Scan!GoOnly(c, s),
           consumer[c].pc \notin AtPcs, PlaceAt(c, s, due[c], token, sub)
    PROVE  ScanInv'
  <1>1. /\ UNCHANGED <<sub, producerCount, globalOffset, nextId, token, look, due>>
        /\ consumer' = [consumer EXCEPT ![c] = s]
    BY DEF Scan!GoOnly, Scan!Go, Scan!shared
  <1>2. look[c] = Scan!NoLook /\ DueAt(due[c], L) /\ Enqueued(due[c], sub)
        /\ PlaceAt(c, s, due[c], token', sub)
    BY <1>1, CallNow
  <1>3. CallAt(c, s, look[c], due[c], token', sub)
    BY <1>2 DEF CallAt, LookAt, L
  <1>4. Sets(consumer, consumer', c, s) /\ Sets(look, look', c, look[c]) /\ Sets(due, due', c, due[c])
    BY <1>1 DEF Sets, ScanInv
  <1>5. SameTokens(c) /\ (c \in TokenUsers => TokenOK(token'[c], L))
        /\ globalOffset' \in Nat /\ nextId' \in Nat
    BY <1>1 DEF SameTokens, ScanInv, Numbers
  <1>6. \A p : Hold(look[c], s, p) = Hold(look[c], consumer[c], p)
    BY <1>2 DEF Hold, Scan!NoLook
  <1> QED BY <1>1, <1>3, <1>4, <1>5, <1>6, Moves

\* The dequeue goes on; p is the producer it is at.
LEMMA Sees ==
    ASSUME ScanInv, NEW c \in Scan!Consumers, NEW l, Scan!SeeOnly(c, l), LookAt(l, consumer[c], due[c], sub),
           \A p : Hold(l, consumer[c], p) = Hold(look[c], consumer[c], p)
    PROVE  ScanInv'
  <1>1. /\ UNCHANGED <<sub, producerCount, globalOffset, nextId, token, consumer, due>>
        /\ look' = [look EXCEPT ![c] = l]
    BY DEF Scan!SeeOnly, Scan!See, Scan!shared
  <1>3. CallAt(c, consumer[c], l, due[c], token', sub)
    BY <1>1, CallNow DEF CallAt
  <1>4. Sets(consumer, consumer', c, consumer[c]) /\ Sets(look, look', c, l) /\ Sets(due, due', c, due[c])
    BY <1>1 DEF Sets, ScanInv
  <1>5. SameTokens(c) /\ (c \in TokenUsers => TokenOK(token'[c], L))
        /\ globalOffset' \in Nat /\ nextId' \in Nat
    BY <1>1 DEF SameTokens, ScanInv, Numbers
  <1> QED BY <1>1, <1>3, <1>4, <1>5, Moves

\* The dequeue has come back with n elements: with fewer than were wanted, the
\* producer is owed no more.
LEMMA DequeuedNow ==
    ASSUME ScanInv, NEW c \in Scan!Consumers, look[c].pc = "done"
    PROVE  /\ look[c].n \in Nat /\ look[c].n <= consumer[c].want
           /\ look[c].n # consumer[c].want => consumer[c].at \notin Owes(due[c], sub)
  BY DequeueNow DEF DequeueAt, Owes, Covers

LEMMA NothingDue == \A sb, n : DueAt(<<>>, n) /\ Enqueued(<<>>, sb)
  <1>1. DOMAIN <<>> = {}
    OBVIOUS
  <1> QED BY <1>1 DEF DueAt, Enqueued

LEMMA GoesOn ==
    ASSUME ScanInv, NEW c \in Scan!Consumers, look[c].pc = "done", look' = [look EXCEPT ![c] = Scan!NoLook],
           NEW rest, Scan!GoOn(c, look[c].n, rest),
           UNCHANGED <<sub, producerCount, nextId>>, globalOffset' \in Nat, SameTokens(c),
           c \in TokenUsers => TokenOK(token'[c], L),
           look[c].n # consumer[c].want => PlaceAt(c, rest, due[c], token', sub)
    PROVE  ScanInv'
  <1>1. nextId' \in Nat
    BY DEF ScanInv, Numbers
  <1>2. Sets(look, look', c, Scan!NoLook)
    BY DEF Sets, ScanInv
  <1>3. \A s, p : Hold(Scan!NoLook, s, p) = Hold(look[c], consumer[c], p)
    BY DEF Hold, Scan!NoLook
  <1>4. CASE look[c].n = consumer[c].want
    <2>1. consumer' = [consumer EXCEPT ![c] = Scan!Idle] /\ due' = [due EXCEPT ![c] = <<>>]
      BY <1>4 DEF Scan!GoOn, Scan!Go
    <2>2. Sets(consumer, consumer', c, Scan!Idle) /\ Sets(due, due', c, <<>>)
      BY <2>1 DEF Sets, ScanInv
    <2>3. CallAt(c, Scan!Idle, Scan!NoLook, <<>>, token', sub)
      BY NothingDue DEF CallAt, PlaceAt, PlainAt, Scan!Idle, LookAt
    <2> QED BY <1>1, <1>2, <1>3, <2>2, <2>3, Moves
  <1>5. CASE look[c].n # consumer[c].want
    <2>1. consumer' = [consumer EXCEPT ![c] = rest] /\ due' = due
      BY <1>5 DEF Scan!GoOn, Scan!Go
    <2>2. Sets(consumer, consumer', c, rest) /\ Sets(due, due', c, due[c])
      BY <2>1 DEF Sets, ScanInv
    <2>3. CallAt(c, rest, Scan!NoLook, due[c], token', sub)
      BY <1>5, CallNow DEF CallAt, LookAt, L
    <2> QED BY <1>1, <1>2, <1>3, <2>2, <2>3, Moves
  <1> QED BY <1>4, <1>5

-----------------------------------------------------------------------------
(* The steps of the producers.                                             *)

LEMMA ListGrows ==
    ASSUME ScanInv, UNCHANGED <<token, consumer, look, due>>, Numbers', Grown(sub, sub'),
           \A p \in 1..L : sub'[p].overcommit = sub[p].overcommit,
           \A p \in 1..L' : Balanced(p)'
    PROVE  ScanInv'
  <1>1. L \in Nat /\ L' \in Nat /\ L <= L'
    BY DEF Grown, L
  <1>2. \A e \in TokenUsers : TokenOK(token[e], L)'
    BY <1>1, TokenOKLater DEF ScanInv
  <1>3. ASSUME NEW e \in Scan!Consumers
        PROVE  CallAt(e, consumer[e], look[e], due[e], token, sub')
    <2>1. Eased(due[e], due[e], sub, sub')
      BY CallNow DEF Eased, DueAt
    <2> QED BY <2>1, CallNow, CallLater
  <1> QED BY <1>2, <1>3 DEF ScanInv

LEMMA CountProducerStep ==
    ASSUME ScanInv, Scan!CountProducer
    PROVE  ScanInv'
  <1>1. UNCHANGED <<sub, globalOffset, nextId, token, consumer, look, due>>
        /\ producerCount' = producerCount + 1
    BY DEF Scan!CountProducer
  <1>2. L' = L /\ L \in Nat
    BY <1>1 DEF L, ScanInv, Numbers
  <1>3. Numbers'
    BY <1>1, <1>2 DEF ScanInv, Numbers
  <1>4. Grown(sub, sub')
    BY <1>1, <1>2, SubNow DEF Grown, L, ScanInv
  <1>5. \A p \in 1..L' : Balanced(p)'
    BY <1>1, <1>2 DEF ScanInv, Balanced, AllHeld
  <1> QED BY <1>1, <1>3, <1>4, <1>5, ListGrows

LEMMA LinkProducerStep ==
    ASSUME ScanInv, Scan!LinkProducer
    PROVE  ScanInv'
  <1>1. PICK r : r = [tailIndex |-> 0, headIndex |-> 0, optimistic |-> 0, overcommit |-> 0]
    OBVIOUS
  <1>2. UNCHANGED <<producerCount, globalOffset, nextId, token, consumer, look, due>>
        /\ L < producerCount /\ sub' = Append(sub, r)
    BY <1>1 DEF Scan!LinkProducer, Scan!shared, Scan!ListTail, L
  <1>3. sub \in Seq(Counters) /\ L = Len(sub) /\ L \in Nat /\ producerCount \in Nat /\ r \in Counters
    BY <1>1 DEF ScanInv, Numbers, L, Counters
  <1>4. sub' \in Seq(Counters) /\ L' = L + 1 /\ sub'[L + 1] = r /\ \A p \in 1..L : sub'[p] = sub[p]
    BY <1>2, <1>3 DEF L
  <1>5. Numbers'
    BY <1>2, <1>3, <1>4 DEF ScanInv, Numbers
  <1>6. Grown(sub, sub')
    BY <1>3, <1>4, SubNow DEF Grown, L, ScanInv
  <1>7. \A p : AllHeld(p)' = AllHeld(p)
    BY <1>2 DEF AllHeld
  <1>8. AllHeld(L + 1) = 0
    <2> DEFINE f == [e \in Scan!Consumers |-> Hold(look[e], consumer[e], L + 1)]
    <2>1. ASSUME NEW e \in Scan!Consumers PROVE f[e] = 0
      <3>1. look[e].pc \in {"reload", "giveback", "claim"} => consumer[e].at \in 1..L
        BY DequeueNow
      <3> QED BY <1>3, <3>1 DEF Hold
    <2>2. AllHeld(L + 1) = SumFunctionOnSet(f, Scan!Consumers)
      BY DEF AllHeld
    <2> HIDE DEF f
    <2> QED BY <2>1, <2>2, ConsumersFinite, SumZero
  <1>9. \A p \in 1..L' : Balanced(p)'
    <2> SUFFICES ASSUME NEW p \in 1..L' PROVE Balanced(p)'
      OBVIOUS
    <2>1. CASE p \in 1..L
      BY <1>4, <1>7, <2>1 DEF ScanInv, Balanced
    <2>2. CASE p = L + 1
      BY <1>1, <1>4, <1>7, <1>8, <2>2 DEF Balanced
    <2> QED BY <1>3, <1>4, <2>1, <2>2
  <1>10. \A p \in 1..L : sub'[p].overcommit = sub[p].overcommit
    BY <1>4
  <1> QED BY <1>2, <1>5, <1>6, <1>9, <1>10, ListGrows

\* One producer's counters change.
LEMMA SubChange ==
    ASSUME ScanInv, NEW p \in 1..L, NEW r \in Counters, sub' = [sub EXCEPT ![p] = r],
           sub[p].tailIndex <= r.tailIndex, sub[p].optimistic <= r.optimistic,
           UNCHANGED <<producerCount, globalOffset, nextId>>
    PROVE  /\ Numbers' /\ L' = L /\ L \in Nat /\ Grown(sub, sub') /\ sub'[p] = r
           /\ \A q \in 1..L : q # p => sub'[q] = sub[q]
  <1>1. sub \in Seq(Counters) /\ L = Len(sub) /\ L \in Nat
    BY DEF ScanInv, Numbers, L
  <1>2. /\ sub' \in Seq(Counters) /\ L' = L /\ Len(sub') = Len(sub) /\ sub'[p] = r
        /\ \A q \in 1..L : q # p => sub'[q] = sub[q]
    BY <1>1 DEF L
  <1>3. Numbers'
    BY <1>2 DEF ScanInv, Numbers
  <1>4. ASSUME NEW q \in 1..L
        PROVE  /\ sub[q] \in Counters /\ sub'[q] \in Counters
               /\ sub[q].tailIndex <= sub'[q].tailIndex
               /\ sub[q].optimistic <= sub'[q].optimistic
    <2>1. CASE q = p
      BY <1>2, <2>1, SubNow DEF ScanInv
    <2>2. CASE q # p
      BY <1>2, <2>2, SubNow DEF ScanInv
    <2> QED BY <2>1, <2>2
  <1>5. Grown(sub, sub')
    BY <1>1, <1>2, <1>4 DEF Grown
  <1> QED BY <1>1, <1>2, <1>3, <1>5

LEMMA ProducerEnqueues ==
    ASSUME ScanInv, NEW p \in 1..L, Scan!Enqueue(p)
    PROVE  ScanInv'
  <1>1. PICK q : q = sub[p]
    OBVIOUS
  <1>2. PICK r : r = [q EXCEPT !.tailIndex = q.tailIndex + 1]
    OBVIOUS
  <1>3. UNCHANGED <<producerCount, globalOffset, nextId, token, consumer, look, due>>
        /\ sub' = [sub EXCEPT ![p] = r]
    BY <1>1, <1>2 DEF Scan!Enqueue
  <1>4. q \in Counters /\ q.tailIndex \in Nat /\ q.optimistic \in Nat
    BY <1>1, SubNow DEF ScanInv
  <1>5. /\ r \in Counters /\ r.tailIndex = q.tailIndex + 1 /\ r.headIndex = q.headIndex
        /\ r.optimistic = q.optimistic /\ r.overcommit = q.overcommit
    BY <1>2, <1>4 DEF Counters
  <1>6. /\ Numbers' /\ L' = L /\ L \in Nat /\ Grown(sub, sub') /\ sub'[p] = r
        /\ \A x \in 1..L : x # p => sub'[x] = sub[x]
    <2>1. sub[p].tailIndex <= r.tailIndex /\ sub[p].optimistic <= r.optimistic
      BY <1>1, <1>4, <1>5
    <2> QED BY <1>3, <1>5, <2>1, SubChange
  <1>7. \A x : AllHeld(x)' = AllHeld(x)
    BY <1>3 DEF AllHeld
  <1>8. ASSUME NEW x \in 1..L PROVE Balanced(x)'
    <2>1. Balanced(x)
      BY DEF ScanInv
    <2>2. /\ sub'[x].optimistic = sub[x].optimistic /\ sub'[x].headIndex = sub[x].headIndex
          /\ sub'[x].overcommit = sub[x].overcommit
      BY <1>1, <1>5, <1>6
    <2> QED BY <1>7, <2>1, <2>2 DEF Balanced
  <1>9. \A x \in 1..L : sub'[x].overcommit = sub[x].overcommit
    BY <1>1, <1>5, <1>6
  <1> QED BY <1>3, <1>6, <1>8, <1>9, ListGrows

-----------------------------------------------------------------------------
(* The steps of a dequeue that only read.                                  *)

LEMMA LoadTailStep ==
    ASSUME ScanInv, NEW c \in Scan!Consumers, Scan!LoadTail(c)
    PROVE  ScanInv'
  <1>1. PICK p : p = consumer[c].at
    OBVIOUS
  <1>2. PICK t : t = sub[p].tailIndex
    OBVIOUS
  <1>3. PICK l : l = [pc |-> "overcommit", tail |-> t]
    OBVIOUS
  <1>4. look[c] = Scan!NoLook /\ consumer[c].pc \in AtPcs /\ Scan!SeeOnly(c, l)
    BY <1>1, <1>2, <1>3 DEF Scan!LoadTail, Scan!AtProducer, Scan!At, AtPcs
  <1>5. p \in 1..L /\ consumer[c].want \in Nat
    <2>1. CASE PlainAt(consumer[c], due[c], Owes(due[c], sub), L)
      BY <1>1, <1>4, <2>1 DEF PlainAt, AtPcs
    <2>2. CASE TokenAt(consumer[c], token[c], Owes(due[c], sub), L)
      BY <1>1, <1>4, <2>2 DEF TokenAt, AtPcs
    <2> QED BY <2>1, <2>2, CallNow DEF PlaceAt, L
  <1>6. t \in Nat /\ (p \in DOMAIN due[c] => due[c][p] <= t)
    BY <1>2, <1>5, CallNow, SubNow DEF Enqueued, ScanInv
  <1>7. DequeueAt(l, p, consumer[c].want, due[c], sub)
    BY <1>2, <1>3, <1>6 DEF DequeueAt
  <1>8. LookAt(l, consumer[c], due[c], sub)
    BY <1>1, <1>4, <1>5, <1>7 DEF LookAt, L
  <1>9. \A x : Hold(l, consumer[c], x) = Hold(look[c], consumer[c], x)
    BY <1>3, <1>4 DEF Hold, Scan!NoLook
  <1> QED BY <1>4, <1>8, <1>9, Sees

\* What a read of the counters at p finds, p being where c is.
LEMMA ReadsNow ==
    ASSUME ScanInv, NEW c \in Scan!Consumers, look[c].pc # "none"
    PROVE  LET p == consumer[c].at IN
           /\ consumer[c].pc \in AtPcs /\ p \in 1..L /\ p \in 1..Len(sub) /\ consumer[c].want \in Nat
           /\ DequeueAt(look[c], p, consumer[c].want, due[c], sub)
           /\ sub[p] \in Counters
           /\ sub[p].tailIndex \in Nat /\ sub[p].headIndex \in Nat
           /\ sub[p].optimistic \in Nat /\ sub[p].overcommit \in Nat
           /\ p \in DOMAIN due[c] => due[c][p] \in Int
  BY DequeueNow, CallNow, SubNow DEF ScanInv, DueAt, L

\* A read by which the dequeue goes on, with nothing reserved yet.
LEMMA ReadStep ==
    ASSUME ScanInv, NEW c \in Scan!Consumers, look[c].pc \notin {"none", "reload", "giveback", "claim"},
           NEW l, l.pc \notin {"reload", "giveback", "claim"}, Scan!SeeOnly(c, l),
           DequeueAt(l, consumer[c].at, consumer[c].want, due[c], sub)
    PROVE  ScanInv'
  <1>1. LookAt(l, consumer[c], due[c], sub)
    BY ReadsNow DEF LookAt
  <1>2. \A x : Hold(l, consumer[c], x) = Hold(look[c], consumer[c], x)
    BY DEF Hold
  <1> QED BY <1>1, <1>2, Sees

LEMMA LoadOvercommitStep ==
    ASSUME ScanInv, NEW c \in Scan!Consumers, Scan!LoadOvercommit(c)
    PROVE  ScanInv'
  <1>1. PICK p : p = consumer[c].at
    OBVIOUS
  <1>2. PICK o : o = sub[p].overcommit
    OBVIOUS
  <1>3. PICK t : t = look[c].tail
    OBVIOUS
  <1>4. PICK l : l = [pc |-> "check", tail |-> t, over |-> o]
    OBVIOUS
  <1>5. look[c].pc = "overcommit" /\ Scan!SeeOnly(c, l)
    BY <1>1, <1>2, <1>3, <1>4 DEF Scan!LoadOvercommit, Scan!At
  <1>6. DequeueAt(look[c], p, consumer[c].want, due[c], sub) /\ o \in Nat
        /\ (p \in DOMAIN due[c] => due[c][p] \in Int)
    BY <1>1, <1>2, <1>5, ReadsNow
  <1>7. t \in Nat /\ t <= sub[p].tailIndex /\ (p \in DOMAIN due[c] => due[c][p] <= t)
    BY <1>3, <1>5, <1>6 DEF DequeueAt
  <1>8. Covers(p, due[c], sub, t + o)
    BY <1>2, <1>6, <1>7 DEF Covers
  <1>9. DequeueAt(l, p, consumer[c].want, due[c], sub)
    BY <1>4, <1>6, <1>7, <1>8 DEF DequeueAt
  <1> QED BY <1>1, <1>4, <1>5, <1>9, ReadStep

\* The smaller and the greater of two numbers.
LEMMA MinOfTwo ==
    ASSUME NEW a \in Int, NEW b \in Int
    PROVE  Scan!Min({a, b}) = IF a <= b THEN a ELSE b
  <1>1. PICK m \in {a, b} : m = IF a <= b THEN a ELSE b
    OBVIOUS
  <1>2. \A y \in {a, b} : m <= y
    BY <1>1
  <1>3. \A x \in {a, b} : (\A y \in {a, b} : x <= y) => x = m
    BY <1>1
  <1> QED BY <1>1, <1>2, <1>3 DEF Scan!Min

LEMMA MaxOfTwo ==
    ASSUME NEW a \in Int, NEW b \in Int
    PROVE  Scan!Max({a, b}) = IF a >= b THEN a ELSE b
  <1>1. PICK m \in {a, b} : m = IF a >= b THEN a ELSE b
    OBVIOUS
  <1>2. \A y \in {a, b} : m >= y
    BY <1>1
  <1>3. \A x \in {a, b} : (\A y \in {a, b} : x >= y) => x = m
    BY <1>1
  <1> QED BY <1>1, <1>2, <1>3 DEF Scan!Max

LEMMA CheckStep ==
    ASSUME ScanInv, NEW c \in Scan!Consumers, Scan!Check(c)
    PROVE  ScanInv'
  <1>1. PICK p : p = consumer[c].at
    OBVIOUS
  <1>2. PICK w \in Nat : w = consumer[c].want
    BY ReadsNow DEF Scan!Check
  <1>3. look[c].pc = "check"
    BY DEF Scan!Check
  <1>4. DequeueAt(look[c], p, w, due[c], sub)
    BY <1>1, <1>2, <1>3, ReadsNow
  <1>5. PICK t \in Nat, o \in Nat : t = look[c].tail /\ o = look[c].over
    BY <1>3, <1>4 DEF DequeueAt
  <1>6. t <= sub[p].tailIndex /\ Covers(p, due[c], sub, t + o)
    BY <1>3, <1>4, <1>5 DEF DequeueAt
  <1>7. PICK a \in Nat : a = sub[p].optimistic
    BY <1>1, <1>3, ReadsNow
  <1>8. PICK x \in Int : x = t - (a - o)
    OBVIOUS
  <1>9. p \in DOMAIN due[c] => due[c][p] \in Int /\ due[c][p] + sub[p].overcommit \in Int
    BY <1>1, <1>3, ReadsNow
  <1>10. CASE x <= 0
    <2>1. PICK l : l = [pc |-> "done", n |-> 0]
      OBVIOUS
    <2>2. Scan!SeeOnly(c, l)
      BY <1>1, <1>5, <1>7, <1>8, <1>10, <2>1 DEF Scan!Check, Scan!At
    <2>3. Covers(p, due[c], sub, a)
      <3>1. t + o <= a
        BY <1>8, <1>10
      <3> QED BY <1>6, <1>9, <3>1 DEF Covers
    <2>4. DequeueAt(l, p, w, due[c], sub)
      BY <1>7, <2>1, <2>3 DEF DequeueAt
    <2> QED BY <1>1, <1>2, <1>3, <2>1, <2>2, <2>4, ReadStep
  <1>11. CASE ~(x <= 0)
    <2>1. PICK z \in Nat : z = Scan!Min({x, w}) /\ z <= w /\ (z = w \/ z = x)
      BY <1>11, MinOfTwo
    <2>2. PICK l : l = [pc |-> "count", over |-> o, desired |-> z]
      OBVIOUS
    <2>3. Scan!SeeOnly(c, l)
      BY <1>1, <1>2, <1>5, <1>7, <1>8, <1>11, <2>1, <2>2 DEF Scan!Check, Scan!At
    <2>4. Covers(p, due[c], sub, sub[p].tailIndex + o)
      <3>1. PICK b \in Nat : b = sub[p].tailIndex
        BY <1>1, <1>3, ReadsNow
      <3>2. t + o <= b + o
        BY <1>6, <3>1
      <3> QED BY <1>6, <1>9, <3>1, <3>2 DEF Covers
    <2>5. z = w \/ Covers(p, due[c], sub, sub[p].optimistic + z)
      <3>1. a + x = t + o
        BY <1>8
      <3> QED BY <1>6, <1>7, <2>1, <3>1
    <2>6. DequeueAt(l, p, w, due[c], sub)
      BY <2>1, <2>2, <2>4, <2>5 DEF DequeueAt
    <2> QED BY <1>1, <1>2, <1>3, <2>2, <2>3, <2>6, ReadStep
  <1> QED BY <1>10, <1>11

LEMMA ReloadTailStep ==
    ASSUME ScanInv, NEW c \in Scan!Consumers, Scan!ReloadTail(c)
    PROVE  ScanInv'
  <1>1. PICK p : p = consumer[c].at
    OBVIOUS
  <1>2. PICK w \in Nat : w = consumer[c].want
    BY ReadsNow DEF Scan!ReloadTail
  <1>3. look[c].pc = "reload"
    BY DEF Scan!ReloadTail
  <1>4. DequeueAt(look[c], p, w, due[c], sub) /\ consumer[c].pc \in AtPcs /\ p \in 1..Len(sub)
    BY <1>1, <1>2, <1>3, ReadsNow
  <1>5. PICK h \in Nat, f \in Int : h = look[c].held /\ f = look[c].from
    BY <1>3, <1>4 DEF DequeueAt
  <1>6. PICK a \in Nat : a = sub[p].optimistic
    BY <1>1, <1>3, ReadsNow
  <1>7. PICK b \in Nat : b = sub[p].tailIndex
    BY <1>1, <1>3, ReadsNow
  <1>8. h <= w /\ Covers(p, due[c], sub, a + b - h - f) /\ (h = w \/ Covers(p, due[c], sub, a))
    BY <1>3, <1>4, <1>5, <1>6, <1>7 DEF DequeueAt
  <1>9. p \in DOMAIN due[c] => due[c][p] + sub[p].overcommit \in Int
    BY <1>1, <1>3, ReadsNow
  <1>10. PICK y \in Int : y = Scan!Min({h, b - f}) /\ y <= h /\ (y = h \/ y = b - f)
    BY MinOfTwo
  <1>11. PICK n \in Nat : n = Scan!Max({0, y}) /\ n <= h /\ y <= n /\ (n = 0 \/ n = y)
    BY <1>10, MaxOfTwo
  <1>12. CASE n < h
    <2>1. PICK l : l = [pc |-> "giveback", held |-> h, n |-> n]
      OBVIOUS
    <2>2. Scan!SeeOnly(c, l)
      BY <1>1, <1>5, <1>7, <1>10, <1>11, <1>12, <2>1 DEF Scan!ReloadTail, Scan!At
    <2>3. Covers(p, due[c], sub, a - (h - n))
      <3>1. b - f <= n
        BY <1>10, <1>11, <1>12
      <3>2. a + b - h - f <= a - (h - n)
        BY <3>1
      <3> QED BY <1>8, <1>9, <3>2 DEF Covers
    <2>4. DequeueAt(l, p, w, due[c], sub)
      BY <1>6, <1>8, <1>12, <2>1, <2>3 DEF DequeueAt
    <2>5. LookAt(l, consumer[c], due[c], sub)
      BY <1>1, <1>2, <1>4, <2>4 DEF LookAt
    <2>6. \A x : Hold(l, consumer[c], x) = Hold(look[c], consumer[c], x)
      BY <1>3, <1>5, <2>1 DEF Hold
    <2> QED BY <2>2, <2>5, <2>6, Sees
  <1>13. CASE ~(n < h)
    <2>1. n = h
      BY <1>11, <1>13
    <2>2. PICK l : l = [pc |-> "claim", held |-> n]
      OBVIOUS
    <2>3. Scan!SeeOnly(c, l)
      BY <1>1, <1>5, <1>7, <1>10, <1>11, <1>13, <2>2 DEF Scan!ReloadTail, Scan!At
    <2>4. DequeueAt(l, p, w, due[c], sub)
      BY <1>6, <1>8, <2>1, <2>2 DEF DequeueAt
    <2>5. LookAt(l, consumer[c], due[c], sub)
      BY <1>1, <1>2, <1>4, <2>4 DEF LookAt
    <2>6. \A x : Hold(l, consumer[c], x) = Hold(look[c], consumer[c], x)
      BY <1>3, <1>5, <2>1, <2>2 DEF Hold
    <2> QED BY <2>3, <2>5, <2>6, Sees
  <1> QED BY <1>12, <1>13

-----------------------------------------------------------------------------
(* The steps of a dequeue that change the counters.                        *)

\* What a producer has in excess of what is accounted for, its reservations
\* being h where c is.
Excess(q, h) == q.optimistic - q.headIndex - q.overcommit - h

LEMMA BalanceKept ==
    ASSUME NEW q \in Counters, NEW r \in Counters, NEW a \in Int, NEW g \in Nat, NEW h \in Nat,
           Excess(r, h) = Excess(q, g), q.optimistic = q.headIndex + q.overcommit + a
    PROVE  r.optimistic = r.headIndex + r.overcommit + (a - g + h)
  <1>1. PICK i \in Nat : i = q.optimistic
    BY DEF Counters
  <1>2. PICK j \in Nat : j = q.headIndex
    BY DEF Counters
  <1>3. PICK k \in Nat : k = q.overcommit
    BY DEF Counters
  <1>4. PICK x \in Nat : x = r.optimistic
    BY DEF Counters
  <1>5. PICK y \in Nat : y = r.headIndex
    BY DEF Counters
  <1>6. PICK z \in Nat : z = r.overcommit
    BY DEF Counters
  <1>7. x - y - z - h = i - j - k - g /\ i = j + k + a
    BY <1>1, <1>2, <1>3, <1>4, <1>5, <1>6 DEF Excess
  <1>8. x = y + z + (a - g + h)
    BY <1>7
  <1> QED BY <1>4, <1>5, <1>6, <1>8

LEMMA Changes ==
    ASSUME ScanInv, NEW c \in Scan!Consumers, NEW l, NEW r \in Counters, NEW p,
           p = consumer[c].at, look[c].pc # "none",
           sub' = [sub EXCEPT ![p] = r], look' = [look EXCEPT ![c] = l],
           UNCHANGED <<producerCount, globalOffset, nextId, token, consumer>>,
           sub[p].tailIndex <= r.tailIndex, sub[p].optimistic <= r.optimistic,
           OthersEased(c), due'[c] = due[c],
           Hold(l, consumer[c], p) \in Nat,
           Excess(r, Hold(l, consumer[c], p)) = Excess(sub[p], Hold(look[c], consumer[c], p)),
           Covers(p, due[c], sub, sub[p].optimistic) => Covers(p, due[c], sub', r.optimistic),
           DequeueAt(l, p, consumer[c].want, due[c], sub')
    PROVE  ScanInv'
  <1>1. p \in 1..L /\ consumer[c].pc \in AtPcs /\ consumer[c].want \in Nat
    BY ReadsNow
  <1>2. /\ Numbers' /\ L' = L /\ L \in Nat /\ Grown(sub, sub') /\ sub'[p] = r
        /\ \A q \in 1..L : q # p => sub'[q] = sub[q]
    BY <1>1, SubChange
  <1>3. Sets(consumer, consumer', c, consumer[c]) /\ Sets(look, look', c, l)
    BY DEF Sets, ScanInv
  <1>4. SameTokens(c) /\ (c \in TokenUsers => TokenOK(token'[c], L'))
    BY <1>2 DEF SameTokens, ScanInv
  <1>5. CallAt(c, consumer[c], l, due[c], token', sub')
    <2>1. DueAt(due[c], Len(sub')) /\ LookAt(l, consumer[c], due[c], sub')
      BY <1>1, <1>2, CallNow DEF LookAt, L
    <2>2. Enqueued(due[c], sub')
      <3> SUFFICES ASSUME NEW q \in DOMAIN due[c] PROVE due[c][q] <= sub'[q].tailIndex
        BY DEF Enqueued
      <3>1. q \in 1..Len(sub) /\ due[c][q] \in Int /\ due[c][q] <= sub[q].tailIndex
        BY CallNow DEF DueAt, Enqueued, L
      <3>2. sub[q].tailIndex \in Int /\ sub'[q].tailIndex \in Int /\ sub[q].tailIndex <= sub'[q].tailIndex
        BY <1>2, <3>1 DEF Grown, Counters
      <3> QED BY <3>1, <3>2
    <2>3. Owes(due[c], sub') \in SUBSET Owes(due[c], sub)
      <3> SUFFICES ASSUME NEW q \in DOMAIN due[c],
                          due[c][q] + sub[q].overcommit <= sub[q].optimistic
                   PROVE  due[c][q] + sub'[q].overcommit <= sub'[q].optimistic
        BY DEF Owes
      <3>1. q \in 1..L
        BY CallNow DEF DueAt
      <3> QED BY <1>2, <3>1 DEF Covers
    <2>4. Len(sub') \in Nat /\ Len(sub) \in Nat /\ Len(sub) <= Len(sub')
      BY <1>2 DEF Grown
    <2>5. DueAt(due[c], Len(sub)) /\ \A q \in DOMAIN due[c] : due[c][q] \in Int /\ due[c][q] <= due[c][q]
      BY CallNow DEF DueAt, L
    <2>6. PlaceAt(c, consumer[c], due[c], token, sub) /\ token' = token
      BY CallNow
    <2>7. PlaceAt(c, consumer[c], due[c], token', sub')
      <3>1. CASE PlainAt(consumer[c], due[c], Owes(due[c], sub), Len(sub))
        <4>1. PlainAt(consumer[c], due[c], Owes(due[c], sub'), Len(sub'))
          BY <2>3, <2>4, <2>5, <3>1, PlainLater
        <4> QED BY <4>1 DEF PlaceAt
      <3>2. CASE c \in TokenUsers /\ TokenAt(consumer[c], token[c], Owes(due[c], sub), Len(sub))
        <4>1. TokenAt(consumer[c], token[c], Owes(due[c], sub'), Len(sub'))
          BY <2>3, <2>4, <3>2, TokenLater
        <4> QED BY <2>6, <3>2, <4>1 DEF PlaceAt
      <3> QED BY <2>6, <3>1, <3>2 DEF PlaceAt
    <2> QED BY <2>1, <2>2, <2>7 DEF CallAt
  <1>6. \A q \in 1..L' : Balanced(q)'
    <2> SUFFICES ASSUME NEW q \in 1..L PROVE Balanced(q)'
      BY <1>2
    <2>0. Hold(l, consumer[c], q) \in Nat =>
            /\ AllHeld(q) \in Nat
            /\ AllHeld(q)' = AllHeld(q) - Hold(look[c], consumer[c], q) + Hold(l, consumer[c], q)
      <3> SUFFICES ASSUME Hold(l, consumer[c], q) \in Nat
                   PROVE  /\ AllHeld(q) \in Nat
                          /\ AllHeld(q)' = AllHeld(q) - Hold(look[c], consumer[c], q)
                                                      + Hold(l, consumer[c], q)
        OBVIOUS
      <3>1. PICK s : s = consumer[c]
        OBVIOUS
      <3>2. Sets(consumer, consumer', c, s) /\ Hold(l, s, q) \in Nat
        BY <1>3, <3>1
      <3>3. Sets(look, look', c, l)
        BY <1>3
      <3>4. /\ AllHeld(q) \in Nat
            /\ AllHeld(q)' = AllHeld(q) - Hold(look[c], consumer[c], q) + Hold(l, s, q)
        BY <3>2, <3>3, HeldChange
      <3> QED BY <3>1, <3>4
    <2>1. Balanced(q)
      BY DEF ScanInv
    <2>2. CASE q = p
      <3>1. AllHeld(p) \in Nat
            /\ AllHeld(p)' = AllHeld(p) - Hold(look[c], consumer[c], p) + Hold(l, consumer[c], p)
        BY <2>0, <2>2
      <3>2. Hold(look[c], consumer[c], p) \in Nat /\ sub[p] \in Counters
        BY <1>1, HoldNat, SubNow DEF ScanInv
      <3>3. r.optimistic = r.headIndex + r.overcommit
               + (AllHeld(p) - Hold(look[c], consumer[c], p) + Hold(l, consumer[c], p))
        BY <2>1, <2>2, <3>1, <3>2, BalanceKept DEF Balanced
      <3> QED BY <1>2, <2>2, <3>1, <3>3 DEF Balanced
    <2>3. CASE q # p
      <3>1. Hold(l, consumer[c], q) = 0 /\ Hold(look[c], consumer[c], q) = 0
            /\ Hold(l, consumer[c], q) \in Nat
        BY <2>3 DEF Hold
      <3>2. /\ AllHeld(q) \in Nat
            /\ AllHeld(q)' = AllHeld(q) - Hold(look[c], consumer[c], q) + Hold(l, consumer[c], q)
        BY <2>0, <3>1
      <3>3. sub'[q] = sub[q]
        BY <1>2, <2>3
      <3> QED BY <2>1, <3>1, <3>2, <3>3 DEF Balanced
    <2> QED BY <2>2, <2>3
  <1> QED BY <1>2, <1>3, <1>4, <1>5, <1>6, CallMoves

\* Others are eased by nothing while the overcommits stay.
LEMMA SameDue ==
    ASSUME ScanInv, NEW c \in Scan!Consumers, due' = due, L' = L,
           \A q \in 1..L : sub'[q].overcommit = sub[q].overcommit
    PROVE  OthersEased(c) /\ due'[c] = due[c]
  <1>1. ASSUME NEW e \in Scan!Consumers PROVE Eased(due[e], due'[e], sub, sub')
    BY CallNow DEF Eased, DueAt
  <1> QED BY <1>1 DEF OthersEased, ScanInv

LEMMA AddOptimisticStep ==
    ASSUME ScanInv, NEW c \in Scan!Consumers, Scan!AddOptimistic(c)
    PROVE  ScanInv'
  <1>1. PICK p : p = consumer[c].at
    OBVIOUS
  <1>2. look[c].pc = "count"
    BY DEF Scan!AddOptimistic
  <1>3. PICK w \in Nat : w = consumer[c].want
    BY <1>2, ReadsNow
  <1>4. PICK q \in Counters : q = sub[p]
    BY <1>1, <1>2, ReadsNow
  <1>5. PICK a \in Nat : a = q.optimistic
    BY DEF Counters
  <1>6. PICK b \in Nat : b = q.tailIndex
    BY DEF Counters
  <1>7. DequeueAt(look[c], p, w, due[c], sub) /\ p \in 1..L
    BY <1>1, <1>2, <1>3, ReadsNow
  <1>8. PICK o \in Nat, z \in Nat : o = look[c].over /\ z = look[c].desired
    BY <1>2, <1>7 DEF DequeueAt
  <1>9. z <= w /\ Covers(p, due[c], sub, b + o) /\ (z = w \/ Covers(p, due[c], sub, a + z))
    BY <1>2, <1>4, <1>5, <1>6, <1>7, <1>8 DEF DequeueAt
  <1>10. PICK r : r = [q EXCEPT !.optimistic = a + z]
    OBVIOUS
  <1>11. PICK f \in Int : f = a - o
    OBVIOUS
  <1>12. PICK l : l = [pc |-> "reload", held |-> z, from |-> f]
    OBVIOUS
  <1>13. /\ sub' = [sub EXCEPT ![p] = r] /\ look' = [look EXCEPT ![c] = l]
         /\ UNCHANGED <<producerCount, globalOffset, nextId, token, consumer, due>>
    BY <1>1, <1>4, <1>5, <1>8, <1>10, <1>11, <1>12
    DEF Scan!AddOptimistic, Scan!See, Scan!At, Scan!shared
  <1>14. /\ r \in Counters /\ r.tailIndex = b /\ r.headIndex = q.headIndex
         /\ r.optimistic = a + z /\ r.overcommit = q.overcommit
    BY <1>5, <1>6, <1>10 DEF Counters
  <1>15. L' = L /\ sub'[p] = r /\ \A x \in 1..L : sub'[x].overcommit = sub[x].overcommit
    BY <1>4, <1>7, <1>13, <1>14 DEF L, ScanInv, Numbers
  <1>16. OthersEased(c) /\ due'[c] = due[c]
    BY <1>13, <1>15, SameDue
  <1>17. \A x : Covers(p, due[c], sub, x) => Covers(p, due[c], sub', x)
    BY <1>7, <1>15 DEF Covers
  <1>18. Hold(l, consumer[c], p) = z /\ Hold(look[c], consumer[c], p) = 0
    BY <1>1, <1>2, <1>12 DEF Hold
  <1>19. Excess(r, z) = Excess(q, 0)
    <2>1. PICK i \in Nat : i = q.headIndex
      BY DEF Counters
    <2>2. PICK j \in Nat : j = q.overcommit
      BY DEF Counters
    <2>3. (a + z) - i - j - z = a - i - j - 0
      OBVIOUS
    <2> QED BY <1>5, <1>14, <2>1, <2>2, <2>3 DEF Excess
  <1>20. DequeueAt(l, p, w, due[c], sub')
    <2>1. (a + z) + b - z - f = b + o
      BY <1>11
    <2>2. Covers(p, due[c], sub', (a + z) + b - z - f)
      BY <1>9, <1>17, <2>1
    <2> QED BY <1>9, <1>12, <1>14, <1>15, <1>17, <2>2 DEF DequeueAt
  <1>21. Covers(p, due[c], sub, a) => Covers(p, due[c], sub', a + z)
    <2>1. p \in DOMAIN due[c] => due[c][p] + sub[p].overcommit \in Int
      BY <1>1, <1>2, ReadsNow
    <2> QED BY <1>7, <1>15, <2>1 DEF Covers
  <1>22. sub[p].tailIndex <= r.tailIndex /\ sub[p].optimistic <= r.optimistic
    BY <1>4, <1>5, <1>6, <1>14
  <1> QED BY <1>1, <1>2, <1>3, <1>4, <1>5, <1>13, <1>14, <1>16, <1>18, <1>19, <1>20, <1>21, <1>22, Changes

LEMMA ClaimStep ==
    ASSUME ScanInv, NEW c \in Scan!Consumers, Scan!ClaimHead(c)
    PROVE  ScanInv'
  <1>1. PICK p : p = consumer[c].at
    OBVIOUS
  <1>2. look[c].pc = "claim"
    BY DEF Scan!ClaimHead
  <1>3. PICK w \in Nat : w = consumer[c].want
    BY <1>2, ReadsNow
  <1>4. PICK q \in Counters : q = sub[p]
    BY <1>1, <1>2, ReadsNow
  <1>5. PICK i \in Nat : i = q.headIndex
    BY DEF Counters
  <1>6. DequeueAt(look[c], p, w, due[c], sub) /\ p \in 1..L
    BY <1>1, <1>2, <1>3, ReadsNow
  <1>7. PICK h \in Nat : h = look[c].held
    BY <1>2, <1>6 DEF DequeueAt
  <1>8. h <= w /\ (h = w \/ Covers(p, due[c], sub, q.optimistic))
    BY <1>2, <1>4, <1>6, <1>7 DEF DequeueAt
  <1>9. PICK r : r = [q EXCEPT !.headIndex = i + h]
    OBVIOUS
  <1>10. PICK l : l = [pc |-> "done", n |-> h]
    OBVIOUS
  <1>11. /\ sub' = [sub EXCEPT ![p] = r] /\ look' = [look EXCEPT ![c] = l]
         /\ UNCHANGED <<producerCount, globalOffset, nextId, token, consumer, due>>
    BY <1>1, <1>4, <1>5, <1>7, <1>9, <1>10
    DEF Scan!ClaimHead, Scan!See, Scan!shared
  <1>12. /\ r \in Counters /\ r.tailIndex = q.tailIndex /\ r.headIndex = i + h
         /\ r.optimistic = q.optimistic /\ r.overcommit = q.overcommit
    BY <1>5, <1>9 DEF Counters
  <1>13. L' = L /\ sub'[p] = r /\ \A x \in 1..L : sub'[x].overcommit = sub[x].overcommit
    BY <1>4, <1>6, <1>11, <1>12 DEF L, ScanInv, Numbers
  <1>14. OthersEased(c) /\ due'[c] = due[c]
    BY <1>11, <1>13, SameDue
  <1>15. \A x : Covers(p, due[c], sub, x) => Covers(p, due[c], sub', x)
    BY <1>6, <1>13 DEF Covers
  <1>16. Hold(l, consumer[c], p) = 0 /\ Hold(look[c], consumer[c], p) = h
    BY <1>1, <1>2, <1>7, <1>10 DEF Hold
  <1>17. Excess(r, 0) = Excess(q, h)
    <2>1. PICK a \in Nat : a = q.optimistic
      BY DEF Counters
    <2>2. PICK j \in Nat : j = q.overcommit
      BY DEF Counters
    <2>3. a - (i + h) - j - 0 = a - i - j - h
      OBVIOUS
    <2> QED BY <1>5, <1>12, <2>1, <2>2, <2>3 DEF Excess
  <1>18. DequeueAt(l, p, w, due[c], sub')
    BY <1>8, <1>10, <1>12, <1>13, <1>15 DEF DequeueAt
  <1>19. sub[p].tailIndex <= r.tailIndex /\ sub[p].optimistic <= r.optimistic
    BY <1>4, <1>12 DEF Counters
  <1>20. Covers(p, due[c], sub, sub[p].optimistic) => Covers(p, due[c], sub', r.optimistic)
    BY <1>4, <1>12, <1>15
  <1>21. Hold(l, consumer[c], p) \in Nat
    BY <1>16
  <1>22. Excess(r, Hold(l, consumer[c], p)) = Excess(sub[p], Hold(look[c], consumer[c], p))
    BY <1>4, <1>16, <1>17
  <1>23. DequeueAt(l, p, consumer[c].want, due[c], sub')
    BY <1>3, <1>18
  <1>24. look[c].pc # "none"
    BY <1>2
  <1> QED BY <1>1, <1>11, <1>12, <1>14, <1>19, <1>20, <1>21, <1>22, <1>23, <1>24, Changes

LEMMA AddOvercommitStep ==
    ASSUME ScanInv, NEW c \in Scan!Consumers, Scan!AddOvercommit(c)
    PROVE  ScanInv'
  <1>1. PICK p : p = consumer[c].at
    OBVIOUS
  <1>2. look[c].pc = "giveback"
    BY DEF Scan!AddOvercommit
  <1>3. PICK w \in Nat : w = consumer[c].want
    BY <1>2, ReadsNow
  <1>4. PICK q \in Counters : q = sub[p]
    BY <1>1, <1>2, ReadsNow
  <1>5. PICK v \in Nat : v = q.overcommit
    BY DEF Counters
  <1>6. PICK a \in Nat : a = q.optimistic
    BY DEF Counters
  <1>7. DequeueAt(look[c], p, w, due[c], sub) /\ p \in 1..L
    BY <1>1, <1>2, <1>3, ReadsNow
  <1>8. PICK h \in Nat, n \in Nat : h = look[c].held /\ n = look[c].n
    BY <1>2, <1>7 DEF DequeueAt
  <1>9. n < h /\ h <= w /\ Covers(p, due[c], sub, a - (h - n))
    BY <1>2, <1>4, <1>6, <1>7, <1>8 DEF DequeueAt
  <1>10. PICK g \in Nat : g = h - n
    BY <1>9
  <1>11. PICK r : r = [q EXCEPT !.overcommit = v + g]
    OBVIOUS
  <1>12. PICK l : l = IF n = 0 THEN [pc |-> "done", n |-> 0] ELSE [pc |-> "claim", held |-> n]
    OBVIOUS
  <1>13. /\ sub' = [sub EXCEPT ![p] = r] /\ look' = [look EXCEPT ![c] = l]
         /\ due' = [e \in Scan!Consumers |-> IF e = c THEN due[c]
                      ELSE [x \in DOMAIN due[e] |-> due[e][x] - (IF x = p THEN g ELSE 0)]]
         /\ UNCHANGED <<producerCount, globalOffset, nextId, token, consumer>>
    BY <1>1, <1>4, <1>5, <1>8, <1>10, <1>11, <1>12
    DEF Scan!AddOvercommit, Scan!See, Scan!shared
  <1>14. /\ r \in Counters /\ r.tailIndex = q.tailIndex /\ r.headIndex = q.headIndex
         /\ r.optimistic = a /\ r.overcommit = v + g
    BY <1>5, <1>6, <1>11 DEF Counters
  <1>15. L' = L /\ sub'[p] = r /\ \A x \in 1..L : x # p => sub'[x] = sub[x]
    BY <1>7, <1>13, <1>14 DEF L, ScanInv, Numbers
  <1>16. due'[c] = due[c] /\ DOMAIN due' = Scan!Consumers
    BY <1>13
  <1>17. OthersEased(c)
    <2> SUFFICES ASSUME NEW e \in Scan!Consumers, e # c PROVE Eased(due[e], due'[e], sub, sub')
      BY <1>16 DEF OthersEased
    <2>1. due'[e] = [x \in DOMAIN due[e] |-> due[e][x] - (IF x = p THEN g ELSE 0)]
      BY <1>13
    <2>2. ASSUME NEW x \in DOMAIN due[e]
          PROVE  /\ due'[e][x] \in Int /\ due'[e][x] <= due[e][x]
                 /\ due'[e][x] + sub'[x].overcommit = due[e][x] + sub[x].overcommit
      <3>1. due[e][x] \in Int /\ x \in 1..L
        BY CallNow DEF DueAt
      <3>2. sub[x].overcommit \in Int
        BY <3>1, SubNow DEF ScanInv
      <3>3. CASE x = p
        <4>1. due'[e][x] = due[e][x] - g /\ sub[x].overcommit = v /\ sub'[x].overcommit = v + g
          BY <1>4, <1>5, <1>14, <1>15, <2>1, <3>3
        <4> QED BY <3>1, <4>1
      <3>4. CASE x # p
        <4>1. due'[e][x] = due[e][x] - 0 /\ sub'[x].overcommit = sub[x].overcommit
          BY <1>15, <2>1, <3>1, <3>4
        <4> QED BY <3>1, <3>2, <4>1
      <3> QED BY <3>3, <3>4
    <2> QED BY <2>1, <2>2 DEF Eased
  <1>18. Covers(p, due[c], sub', a)
    <2> SUFFICES ASSUME p \in DOMAIN due[c] PROVE due[c][p] + (v + g) <= a
      BY <1>14, <1>15 DEF Covers
    <2>1. due[c][p] \in Int /\ due[c][p] + v <= a - (h - n)
      BY <1>1, <1>2, <1>4, <1>5, <1>9, ReadsNow DEF Covers
    <2> QED BY <1>10, <2>1
  <1>19. Hold(l, consumer[c], p) = n /\ Hold(look[c], consumer[c], p) = h
    BY <1>1, <1>2, <1>8, <1>12 DEF Hold
  <1>20. Excess(r, n) = Excess(q, h)
    <2>1. PICK i \in Nat : i = q.headIndex
      BY DEF Counters
    <2>2. a - i - (v + g) - n = a - i - v - h
      BY <1>10
    <2> QED BY <1>5, <1>6, <1>14, <2>1, <2>2 DEF Excess
  <1>21. DequeueAt(l, p, w, due[c], sub')
    <2>1. CASE n = 0
      BY <1>12, <1>14, <1>15, <1>18, <2>1 DEF DequeueAt
    <2>2. CASE n # 0
      <3>1. n <= w
        BY <1>9
      <3> QED BY <1>12, <1>14, <1>15, <1>18, <2>2, <3>1 DEF DequeueAt
    <2> QED BY <2>1, <2>2
  <1>22. sub[p].tailIndex <= r.tailIndex /\ sub[p].optimistic <= r.optimistic
    BY <1>4, <1>6, <1>14 DEF Counters
  <1> QED BY <1>1, <1>2, <1>3, <1>4, <1>13, <1>14, <1>16, <1>17, <1>18, <1>19, <1>20, <1>21, <1>22, Changes

-----------------------------------------------------------------------------
(* The steps of a call without a token.                                    *)

LEMMA BeginStep ==
    ASSUME ScanInv, NEW c \in Scan!Consumers, NEW s, Scan!Begin(c, s),
           \A d : Owes(d, sub) \subseteq 1..L => PlaceAt(c, s, d, token, sub)
    PROVE  ScanInv'
  <1>1. PICK d : d = [p \in 1..L |-> sub[p].tailIndex]
    OBVIOUS
  <1>2. /\ UNCHANGED <<sub, producerCount, globalOffset, nextId, token, look>>
        /\ consumer' = [consumer EXCEPT ![c] = s] /\ due' = [due EXCEPT ![c] = d]
        /\ consumer[c] = Scan!Idle
    BY <1>1 DEF Scan!Begin, Scan!Go, Scan!shared, Scan!ListTail, L
  <1>3. look[c] = Scan!NoLook
    BY <1>2, CallNow DEF Scan!Idle, AtPcs
  <1>4. Sets(consumer, consumer', c, s) /\ Sets(look, look', c, look[c]) /\ Sets(due, due', c, d)
    BY <1>2 DEF Sets, ScanInv
  <1>5. SameTokens(c) /\ (c \in TokenUsers => TokenOK(token'[c], L))
        /\ globalOffset' \in Nat /\ nextId' \in Nat
    BY <1>2 DEF SameTokens, ScanInv, Numbers
  <1>6. CallAt(c, s, look[c], d, token', sub)
    <2>1. DOMAIN d = 1..L /\ \A p \in 1..L : d[p] = sub[p].tailIndex /\ d[p] \in Nat
      BY <1>1, SubNow DEF ScanInv
    <2>2. DueAt(d, Len(sub)) /\ Enqueued(d, sub)
      BY <2>1 DEF DueAt, Enqueued, L
    <2>3. PlaceAt(c, s, d, token', sub)
      <3>1. Owes(d, sub) \subseteq 1..L
        BY <2>1 DEF Owes
      <3> QED BY <1>2, <3>1
    <2> QED BY <1>3, <2>2, <2>3 DEF CallAt, LookAt
  <1>7. \A p : Hold(look[c], s, p) = Hold(look[c], consumer[c], p)
    BY <1>3 DEF Hold, Scan!NoLook
  <1> QED BY <1>2, <1>4, <1>5, <1>6, <1>7, Moves

LEMMA ScoredOK ==
    ASSUME NEW s, NEW d, NEW F, NEW n \in Nat, ScoreAt(s, F, n)
    PROVE  PlainAt(Scan!Scored(s), d, F, n)
  <1>1. s.pc = "score" /\ s.at \in 0..n /\ s.nonEmpty \in Nat
    BY DEF ScoreAt, Scores
  <1>2. CASE s.at > 0 /\ s.nonEmpty < 3
    <2>1. Scan!Scored(s) = s /\ s.at # 0
      BY <1>1, <1>2 DEF Scan!Scored
    <2> QED BY <1>1, <2>1 DEF PlainAt
  <1>3. CASE ~(s.at > 0 /\ s.nonEmpty < 3) /\ s.nonEmpty = 0
    <2>1. Scan!Scored(s) = Scan!Failed /\ s.at = 0
      BY <1>1, <1>3 DEF Scan!Scored
    <2>2. F = {}
      BY <1>3, <2>1 DEF ScoreAt
    <2> QED BY <2>1, <2>2 DEF PlainAt, Scan!Failed
  <1>4. CASE ~(s.at > 0 /\ s.nonEmpty < 3) /\ s.nonEmpty # 0
    <2>1. s.best \in 1..n
      BY <1>4 DEF ScoreAt
    <2>2. Scan!Scored(s) = [pc |-> "best", at |-> s.best, want |-> 1]
      BY <1>4 DEF Scan!Scored
    <2> QED BY <2>1, <2>2 DEF PlainAt
  <1> QED BY <1>2, <1>3, <1>4

LEMMA EachOK ==
    ASSUME NEW at \in Nat, NEW best \in Bests, NEW want \in Nat, NEW d, NEW F, NEW n \in Nat,
           at <= n, F \subseteq 1..at, best \notin F
    PROVE  PlainAt(Scan!Each(at, best, want), d, F, n)
  <1>1. PICK p \in 0..n : p = IF at = best THEN at - 1 ELSE at
    BY ScanAssumption DEF Bests
  <1>2. F \subseteq 1..p
    BY <1>1
  <1>3. CASE p = 0
    <2>1. F = {} /\ Scan!Each(at, best, want) = Scan!Failed
      BY <1>1, <1>2, <1>3 DEF Scan!Each
    <2> QED BY <2>1 DEF PlainAt, Scan!Failed
  <1>4. CASE p # 0
    <2>1. PICK s : s = [pc |-> "each", at |-> p, best |-> best, want |-> want]
      OBVIOUS
    <2>2. Scan!Each(at, best, want) = s
      BY <1>1, <1>4, <2>1 DEF Scan!Each
    <2>3. s \in [pc : {"each"}, at : 1..n, best : Bests, want : Nat] /\ s.at = p /\ s.best = best
      BY <1>4, <2>1
    <2> QED BY <1>2, <2>2, <2>3 DEF PlainAt
  <1> QED BY <1>3, <1>4

LEMMA CallTryDequeueStep ==
    ASSUME ScanInv, NEW c \in Scan!Consumers, Scan!CallTryDequeue(c)
    PROVE  ScanInv'
  <1>1. PICK s : s = [pc |-> "score", at |-> L, nonEmpty |-> 0, best |-> NULL, bestSize |-> 0]
    OBVIOUS
  <1>2. L \in Nat
    BY CallNow
  <1>3. \A d : Owes(d, sub) \subseteq 1..L => PlaceAt(c, Scan!Scored(s), d, token, sub)
    <2> SUFFICES ASSUME NEW d, Owes(d, sub) \subseteq 1..L
                 PROVE  PlainAt(Scan!Scored(s), d, Owes(d, sub), L)
      BY DEF PlaceAt, L
    <2>1. ScoreAt(s, Owes(d, sub), L)
      BY <1>1, <1>2 DEF ScoreAt, Scores
    <2> QED BY <1>2, <2>1, ScoredOK
  <1>4. Scan!Begin(c, Scan!Scored(s))
    BY <1>1 DEF Scan!CallTryDequeue, Scan!ListTail, L
  <1> QED BY <1>3, <1>4, BeginStep

LEMMA CallInOrderStep ==
    ASSUME ScanInv, NEW c \in Scan!Consumers, NEW max \in Nat, Scan!CallInOrder(c, max)
    PROVE  ScanInv'
  <1>1. PICK s : s = Scan!Each(L, NULL, max)
    OBVIOUS
  <1>2. L \in Nat
    BY CallNow
  <1>3. \A d : Owes(d, sub) \subseteq 1..L => PlaceAt(c, s, d, token, sub)
    <2> SUFFICES ASSUME NEW d, Owes(d, sub) \subseteq 1..L
                 PROVE  PlainAt(s, d, Owes(d, sub), L)
      BY DEF PlaceAt, L
    <2>1. NULL \in Bests /\ NULL \notin Owes(d, sub)
      BY <1>2, ScanAssumption DEF Bests
    <2> QED BY <1>1, <1>2, <2>1, EachOK
  <1>4. Scan!Begin(c, s)
    BY <1>1 DEF Scan!CallInOrder, Scan!ListTail, L
  <1> QED BY <1>3, <1>4, BeginStep

LEMMA CallWithTokenStep ==
    ASSUME ScanInv, NEW c \in TokenUsers, NEW max \in Nat, NEW bulk \in BOOLEAN,
           Scan!CallWithToken(c, max, bulk)
    PROVE  ScanInv'
  <1>1. PICK s : s = [pc |-> "token", want |-> max, bulk |-> bulk]
    OBVIOUS
  <1>2. token[c] # NULL /\ Scan!Begin(c, s)
    BY <1>1 DEF Scan!CallWithToken
  <1>3. \A d : PlaceAt(c, s, d, token, sub)
    BY <1>1, <1>2 DEF PlaceAt, TokenAt
  <1>4. c \in Scan!Consumers
    BY DEF Scan!Consumers
  <1> QED BY <1>2, <1>3, <1>4, BeginStep

LEMMA PlainCall ==
    ASSUME ScanInv, NEW c \in Scan!Consumers, consumer[c].pc \in {"score", "size", "best", "each"}
    PROVE  PlainAt(consumer[c], due[c], Owes(due[c], sub), L) /\ L \in Nat
  BY CallNow DEF PlaceAt, TokenAt, L

LEMMA SizeTailStep ==
    ASSUME ScanInv, NEW c \in Scan!Consumers, Scan!SizeTail(c)
    PROVE  ScanInv'
  <1>1. PICK q : q = consumer[c]
    OBVIOUS
  <1>2. PICK t : t = sub[q.at].tailIndex
    OBVIOUS
  <1>3. PICK s : s = [pc |-> "size", tail |-> t, score |-> q]
    OBVIOUS
  <1>4. q.pc = "score" /\ Scan!GoOnly(c, s)
    BY <1>1, <1>2, <1>3 DEF Scan!SizeTail, Scan!At
  <1>5. ScoreAt(q, Owes(due[c], sub), L) /\ q.at # 0 /\ L \in Nat
    BY <1>1, <1>4, PlainCall DEF PlainAt
  <1>6. q.at \in 1..L
    BY <1>5 DEF ScoreAt, Scores
  <1>7. t \in Nat /\ (q.at \in DOMAIN due[c] => due[c][q.at] <= t)
    BY <1>2, <1>6, CallNow, SubNow DEF ScanInv, Enqueued
  <1>8. PlaceAt(c, s, due[c], token, sub)
    BY <1>3, <1>5, <1>7 DEF PlaceAt, PlainAt, L
  <1> QED BY <1>1, <1>4, <1>8, Goes DEF AtPcs

\* A producer that is owed a look is not empty.
LEMMA OwedIsThere ==
    ASSUME ScanInv, NEW c \in Scan!Consumers, NEW p \in Owes(due[c], sub)
    PROVE  due[c][p] \in Int /\ sub[p].headIndex + AllHeld(p) < due[c][p]
  <1>1. p \in 1..L /\ due[c][p] \in Int
    BY CallNow DEF Owes, DueAt
  <1>2. PICK h \in Nat : h = sub[p].headIndex
    BY <1>1, SubNow DEF ScanInv
  <1>3. PICK v \in Nat : v = sub[p].overcommit
    BY <1>1, SubNow DEF ScanInv
  <1>4. PICK b \in Nat : b = AllHeld(p)
    BY HeldNat
  <1>5. sub[p].optimistic = h + v + b
    BY <1>1, <1>2, <1>3, <1>4 DEF ScanInv, Balanced
  <1>6. ~(due[c][p] + v <= h + v + b)
    BY <1>3, <1>5 DEF Owes
  <1>7. h + b < due[c][p]
    BY <1>1, <1>6
  <1> QED BY <1>1, <1>2, <1>4, <1>7

LEMMA ScoreStep ==
    ASSUME ScanInv, NEW c \in Scan!Consumers, Scan!Score(c)
    PROVE  ScanInv'
  <1> DEFINE F == Owes(due[c], sub)
  <1>1. PICK s : s = consumer[c].score
    OBVIOUS
  <1>2. PICK t : t = consumer[c].tail
    OBVIOUS
  <1>3. consumer[c].pc = "size"
    BY DEF Scan!Score
  <1>4. /\ t \in Nat /\ ScoreAt(s, F, L) /\ s.at # 0 /\ L \in Nat
        /\ s.at \in DOMAIN due[c] => due[c][s.at] <= t
    BY <1>1, <1>2, <1>3, PlainCall DEF PlainAt
  <1>5. s \in Scores(L) /\ s.at \in 1..L /\ s.nonEmpty \in Nat /\ s.bestSize \in Nat
    BY <1>4 DEF ScoreAt, Scores
  <1>6. PICK i \in 0..L : i = s.at - 1
    BY <1>4, <1>5
  <1>7. PICK h \in Nat : h = sub[s.at].headIndex
    BY <1>5, SubNow DEF ScanInv
  <1>8. PICK n \in Nat : n = Scan!Max({0, t - h}) /\ (n = 0 => t <= h)
    <2>1. PICK x \in Int : x = t - h
      BY <1>4
    <2>2. Scan!Max({0, x}) = IF 0 >= x THEN 0 ELSE x
      BY MaxOfTwo
    <2> QED BY <1>4, <2>1, <2>2
  <1>9. PICK m \in Nat : m = Scan!Max({n, s.bestSize}) /\ (n <= s.bestSize => m = s.bestSize)
    BY <1>5, MaxOfTwo
  <1>10. PICK e \in Nat : e = (IF n > 0 THEN s.nonEmpty + 1 ELSE s.nonEmpty)
    BY <1>5
  <1>11. PICK b \in Nat \cup {NULL} : b = IF n > s.bestSize THEN s.at ELSE s.best
    <2>1. s.at \in Nat \cup {NULL} /\ s.best \in Nat \cup {NULL}
      BY <1>5 DEF Scores
    <2> QED BY <2>1
  <1>12. PICK r : r = [s EXCEPT !.at = i, !.nonEmpty = e, !.best = b, !.bestSize = m]
    OBVIOUS
  <1>13. Scan!GoOnly(c, Scan!Scored(r))
    <2>1. r = [s EXCEPT !.at = @ - 1, !.nonEmpty = IF n > 0 THEN @ + 1 ELSE @,
                        !.best = IF n > s.bestSize THEN s.at ELSE @,
                        !.bestSize = Scan!Max({n, @})]
      BY <1>5, <1>6, <1>9, <1>10, <1>11, <1>12 DEF Scores
    <2> QED BY <1>1, <1>2, <1>7, <1>8, <2>1 DEF Scan!Score
  <1>14. /\ r \in Scores(L) /\ r.at = i /\ r.nonEmpty = e /\ r.best = b /\ r.bestSize = m
    BY <1>5, <1>6, <1>12 DEF Scores
  <1>15. n = 0 => s.at \notin F
    <2> SUFFICES ASSUME n = 0, s.at \in F PROVE FALSE
      OBVIOUS
    <2>1. t <= h /\ due[c][s.at] <= t /\ due[c][s.at] \in Int
      BY <1>4, <1>8, OwedIsThere DEF Owes
    <2>2. PICK k \in Nat : k = AllHeld(s.at)
      BY HeldNat
    <2>3. h + k < due[c][s.at]
      BY <1>7, <2>2, OwedIsThere
    <2> QED BY <1>4, <2>1, <2>3
  <1>16. e = 0 => F \subseteq 1..i /\ m = 0
    <2> SUFFICES ASSUME e = 0 PROVE F \subseteq 1..i /\ m = 0
      OBVIOUS
    <2>1. n = 0 /\ s.nonEmpty = 0
      BY <1>5, <1>10
    <2>2. F \subseteq 1..s.at /\ s.bestSize = 0 /\ s.at \notin F
      BY <1>4, <1>15, <2>1 DEF ScoreAt
    <2>3. m = 0
      BY <1>9, <2>1, <2>2
    <2>4. ASSUME NEW x \in F PROVE x \in 1..i
      <3>1. x \in 1..s.at /\ x # s.at
        BY <2>2
      <3> QED BY <1>5, <1>6, <3>1
    <2> QED BY <2>3, <2>4
  <1>17. e # 0 => b \in 1..L
    <2> SUFFICES ASSUME e # 0, ~(n > s.bestSize) PROVE s.best \in 1..L
      BY <1>5, <1>11
    <2>1. s.nonEmpty # 0
      <3>1. CASE n = 0
        BY <1>10, <3>1
      <3>2. CASE n # 0
        <4>1. s.bestSize # 0
          BY <1>5, <3>2
        <4> QED BY <1>4, <4>1 DEF ScoreAt
      <3> QED BY <3>1, <3>2
    <2> QED BY <1>4, <2>1 DEF ScoreAt
  <1>18. ScoreAt(r, F, L)
    BY <1>14, <1>16, <1>17 DEF ScoreAt
  <1>19. PlaceAt(c, Scan!Scored(r), due[c], token, sub)
    BY <1>4, <1>18, ScoredOK DEF PlaceAt, L
  <1> QED BY <1>3, <1>13, <1>19, Goes DEF AtPcs

LEMMA TryBestStep ==
    ASSUME ScanInv, NEW c \in Scan!Consumers, Scan!TryBest(c)
    PROVE  ScanInv'
  <1>1. PICK s : s = consumer[c]
    OBVIOUS
  <1>2. PICK rest : rest = Scan!Each(L, s.at, 1)
    OBVIOUS
  <1>3. /\ s.pc = "best" /\ look[c].pc = "done" /\ look' = [look EXCEPT ![c] = Scan!NoLook]
        /\ Scan!GoOn(c, look[c].n, rest)
        /\ UNCHANGED <<sub, producerCount, globalOffset, nextId, token>>
    BY <1>1, <1>2 DEF Scan!TryBest, Scan!Dequeued, Scan!See, Scan!shared, Scan!ListTail, L
  <1>4. s.at \in 1..L /\ L \in Nat
    BY <1>1, <1>3, PlainCall DEF PlainAt
  <1>5. SameTokens(c) /\ (c \in TokenUsers => TokenOK(token'[c], L)) /\ globalOffset' \in Nat
    BY <1>3 DEF SameTokens, ScanInv, Numbers
  <1>6. look[c].n # consumer[c].want => PlaceAt(c, rest, due[c], token', sub)
    <2> SUFFICES ASSUME look[c].n # consumer[c].want
                 PROVE  PlainAt(rest, due[c], Owes(due[c], sub), L)
      BY DEF PlaceAt, L
    <2>1. s.at \notin Owes(due[c], sub) /\ Owes(due[c], sub) \subseteq 1..L
      BY <1>1, <1>3, DequeuedNow, CallNow
    <2>2. s.at \in Bests
      BY <1>4 DEF Bests
    <2> QED BY <1>2, <1>4, <2>1, <2>2, EachOK
  <1> QED BY <1>3, <1>5, <1>6, GoesOn

LEMMA TryEachStep ==
    ASSUME ScanInv, NEW c \in Scan!Consumers, Scan!TryEach(c)
    PROVE  ScanInv'
  <1>1. PICK s : s = consumer[c]
    OBVIOUS
  <1>2. PICK n : n = look[c].n
    OBVIOUS
  <1>3. PICK rest : rest = Scan!Each(s.at - 1, s.best, s.want - n)
    OBVIOUS
  <1>4. /\ s.pc = "each" /\ look[c].pc = "done" /\ look' = [look EXCEPT ![c] = Scan!NoLook]
        /\ Scan!GoOn(c, n, rest)
        /\ UNCHANGED <<sub, producerCount, globalOffset, nextId, token>>
    BY <1>1, <1>2, <1>3 DEF Scan!TryEach, Scan!Dequeued, Scan!See, Scan!shared
  <1>5. /\ s \in [pc : {"each"}, at : 1..L, best : Bests, want : Nat] /\ L \in Nat
        /\ Owes(due[c], sub) \subseteq 1..s.at /\ s.best \notin Owes(due[c], sub)
    BY <1>1, <1>4, PlainCall DEF PlainAt
  <1>6. SameTokens(c) /\ (c \in TokenUsers => TokenOK(token'[c], L)) /\ globalOffset' \in Nat
    BY <1>4 DEF SameTokens, ScanInv, Numbers
  <1>7. n # s.want => PlaceAt(c, rest, due[c], token', sub)
    <2> SUFFICES ASSUME n # s.want
                 PROVE  PlainAt(rest, due[c], Owes(due[c], sub), L)
      BY DEF PlaceAt, L
    <2>1. s.at \notin Owes(due[c], sub) /\ n \in Nat /\ n <= s.want
      BY <1>1, <1>2, <1>4, DequeuedNow
    <2>2. PICK i \in Nat : i = s.at - 1 /\ i <= L
      BY <1>5
    <2>3. PICK w \in Nat : w = s.want - n
      BY <1>5, <2>1
    <2>4. Owes(due[c], sub) \subseteq 1..i
      <3> SUFFICES ASSUME NEW x \in Owes(due[c], sub) PROVE x \in 1..i
        OBVIOUS
      <3>1. x \in 1..s.at /\ x # s.at
        BY <1>5, <2>1
      <3> QED BY <1>5, <2>2, <3>1
    <2> QED BY <1>3, <1>5, <2>2, <2>3, <2>4, EachOK
  <1> QED BY <1>1, <1>2, <1>4, <1>6, <1>7, GoesOn

LEMMA ReturnStep ==
    ASSUME ScanInv, NEW c \in Scan!Consumers, Scan!Return(c)
    PROVE  ScanInv'
  <1>1. /\ consumer[c] = Scan!Failed /\ consumer' = [consumer EXCEPT ![c] = Scan!Idle]
        /\ due' = [due EXCEPT ![c] = <<>>]
        /\ UNCHANGED <<sub, producerCount, globalOffset, nextId, token, look>>
    BY DEF Scan!Return, Scan!Go, Scan!shared
  <1>2. look[c] = Scan!NoLook
    BY <1>1, CallNow DEF Scan!Failed, AtPcs
  <1>3. Sets(consumer, consumer', c, Scan!Idle) /\ Sets(look, look', c, look[c]) /\ Sets(due, due', c, <<>>)
    BY <1>1 DEF Sets, ScanInv
  <1>4. SameTokens(c) /\ (c \in TokenUsers => TokenOK(token'[c], L))
        /\ globalOffset' \in Nat /\ nextId' \in Nat
    BY <1>1 DEF SameTokens, ScanInv, Numbers
  <1>5. CallAt(c, Scan!Idle, look[c], <<>>, token', sub)
    BY <1>2, NothingDue DEF CallAt, PlaceAt, PlainAt, Scan!Idle, LookAt
  <1>6. \A p : Hold(look[c], Scan!Idle, p) = Hold(look[c], consumer[c], p)
    BY <1>2 DEF Hold, Scan!NoLook
  <1> QED BY <1>1, <1>3, <1>4, <1>5, <1>6, Moves


-----------------------------------------------------------------------------
(* The steps of a call with a token.                                       *)

LEMMA MakeTokenStep ==
    ASSUME ScanInv, NEW c \in TokenUsers, Scan!MakeToken(c)
    PROVE  ScanInv'
  <1>1. PICK k : k = [initialOffset |-> nextId, lastKnown |-> OffsetWidth - 1, items |-> 0,
                      current |-> NULL, desired |-> NULL]
    OBVIOUS
  <1>2. /\ token[c] = NULL /\ token' = [token EXCEPT ![c] = k]
        /\ nextId' = (nextId + 1) % OffsetWidth
        /\ UNCHANGED <<sub, producerCount, globalOffset, consumer, look, due>>
    BY <1>1 DEF Scan!MakeToken
  <1>3. k \in Tokens /\ k.desired = NULL
    BY <1>1, ScanAssumption DEF Tokens, ScanInv, Numbers
  <1>4. nextId' \in Nat
    <2>1. nextId + 1 \in Int /\ OffsetWidth \in Nat \ {0}
      BY ScanAssumption DEF ScanInv, Numbers
    <2> QED BY <1>2, <2>1, DivMod
  <1>5. c \in Scan!Consumers
    BY DEF Scan!Consumers
  <1>6. Sets(consumer, consumer', c, consumer[c]) /\ Sets(look, look', c, look[c]) /\ Sets(due, due', c, due[c])
    BY <1>2 DEF Sets, ScanInv
  <1>7. SameTokens(c) /\ TokenOK(token'[c], L) /\ globalOffset' \in Nat
    BY <1>2, <1>3 DEF SameTokens, TokenOK, ScanInv, Numbers
  <1>8. CallAt(c, consumer[c], look[c], due[c], token', sub)
    <2>1. PlaceAt(c, consumer[c], due[c], token', sub)
      BY <1>2, <1>5, CallNow DEF PlaceAt, TokenAt
    <2> QED BY <1>5, <2>1, CallNow DEF CallAt
  <1> QED BY <1>2, <1>4, <1>5, <1>6, <1>7, <1>8, Moves

LEMMA AlongIn ==
    ASSUME NEW p \in Int, NEW n \in Int, NEW m \in Nat \ {0}
    PROVE  Scan!Along(p, n, m) \in 1..m
  <1>1. PICK b \in Int : b = p - 1 - n
    OBVIOUS
  <1>2. b % m \in 0..(m - 1)
    BY DivMod
  <1> QED BY <1>1, <1>2 DEF Scan!Along

\* A rotated token names a producer of the list.
LEMMA RotatedOK ==
    ASSUME ScanInv, L > 0, NEW k \in Tokens, k.desired # NULL => k.desired \in 1..L
    PROVE  LET r == Scan!Rotated(k)
           IN  r \in Tokens /\ r.desired \in 1..L /\ r.current \in 1..L
  <1>1. L \in Nat \ {0} /\ producerCount \in Nat \ {0} /\ globalOffset \in Nat /\ Scan!ListTail = L
        /\ OffsetWidth \in Nat \ {0}
    BY ScanAssumption DEF ScanInv, Numbers, L, Scan!ListTail
  <1>2. k.initialOffset \in Int /\ k.lastKnown \in Int /\ k.desired \in Nat \cup {NULL}
    BY DEF Tokens
  <1>3. PICK first \in Int : first = producerCount - 1 - (k.initialOffset % producerCount)
    <2>1. k.initialOffset % producerCount \in 0..(producerCount - 1)
      BY <1>1, <1>2, DivMod
    <2> QED BY <1>1, <2>1
  <1>4. PICK start \in Int : start = IF k.desired = NULL THEN Scan!Along(L, first, L) ELSE k.desired
    <2>1. L \in Int
      BY <1>1
    <2>2. Scan!Along(L, first, L) \in 1..L
      BY <1>1, <2>1, AlongIn
    <2> QED BY <1>1, <2>2
  <1>5. PICK delta \in Int : delta = ((globalOffset - k.lastKnown) % OffsetWidth) % producerCount
    <2>1. PICK b \in Int : b = globalOffset - k.lastKnown
      BY <1>1, <1>2
    <2>2. b % OffsetWidth \in Int
      BY <1>1, DivMod
    <2>3. (b % OffsetWidth) % producerCount \in Int
      BY <1>1, <2>2, DivMod
    <2> QED BY <2>1, <2>3
  <1>6. PICK p \in 1..L : p = Scan!Along(start, delta, L)
    BY <1>1, AlongIn
  <1>7. Scan!Rotated(k) = [k EXCEPT !.lastKnown = globalOffset, !.desired = p, !.current = p, !.items = 0]
    BY <1>1, <1>3, <1>4, <1>5, <1>6 DEF Scan!Rotated
  <1>8. PICK r : r = Scan!Rotated(k)
    OBVIOUS
  <1>9. p \in Nat
    BY <1>1, <1>6
  <1>10. r \in Tokens /\ r.desired = p /\ r.current = p
    <2>1. PICK g \in Nat : g = globalOffset
      BY <1>1
    <2>2. PICK q1 : q1 = [k EXCEPT !.lastKnown = g, !.items = 0]
      OBVIOUS
    <2>3. q1 \in Tokens
      BY <2>2 DEF Tokens
    <2>4. PICK q2 : q2 = [q1 EXCEPT !.desired = p, !.current = p]
      OBVIOUS
    <2>5. q2 \in Tokens /\ q2.desired = p /\ q2.current = p
      BY <1>9, <2>3, <2>4 DEF Tokens
    <2>6. r = q2
      BY <1>7, <1>8, <2>1, <2>2, <2>4 DEF Tokens
    <2> QED BY <2>5, <2>6
  <1> QED BY <1>6, <1>8, <1>10

\* A call with a token that is at pc is there as TokenAt says.
LEMMA TokenCall ==
    ASSUME ScanInv, NEW c \in TokenUsers, consumer[c].pc \in {"token", "current", "tail", "others"}
    PROVE  /\ TokenAt(consumer[c], token[c], Owes(due[c], sub), L) /\ token[c] \in Tokens
           /\ token[c] # NULL
           /\ token[c].desired # NULL => token[c].desired \in 1..L /\ token[c].current \in 1..L
           /\ Owes(due[c], sub) \subseteq 1..L /\ L \in Nat /\ c \in Scan!Consumers
  <1>1. c \in Scan!Consumers
    BY DEF Scan!Consumers
  <1>2. TokenAt(consumer[c], token[c], Owes(due[c], sub), L)
    BY <1>1, CallNow DEF PlaceAt, PlainAt, L
  <1>3. token[c] # NULL /\ TokenOK(token[c], L)
    BY <1>2 DEF ScanInv, TokenAt
  <1> QED BY <1>1, <1>2, <1>3, CallNow DEF TokenOK

LEMMA TokenCheckStep ==
    ASSUME ScanInv, NEW c \in TokenUsers, Scan!TokenCheck(c)
    PROVE  ScanInv'
  <1>1. PICK q : q = consumer[c]
    OBVIOUS
  <1>2. PICK k : k = token[c]
    OBVIOUS
  <1>3. /\ q \in [pc : {"token"}, want : Nat, bulk : BOOLEAN] /\ k \in Tokens
        /\ k.desired # NULL => k.desired \in 1..L /\ k.current \in 1..L
        /\ Owes(due[c], sub) \subseteq 1..L /\ L \in Nat /\ c \in Scan!Consumers
    BY <1>1, <1>2, TokenCall DEF Scan!TokenCheck, TokenAt
  <1>4. UNCHANGED <<sub, producerCount, globalOffset, nextId, look, due>>
    BY DEF Scan!TokenCheck, Scan!shared
  <1>5. Scan!ListTail = L
    BY DEF Scan!ListTail, L
  <1>6. CASE k.desired = NULL /\ L = 0
    <2>1. Owes(due[c], sub) = {}
      BY <1>3, <1>6
    <2>2. PlaceAt(c, Scan!Failed, due[c], token, sub)
      BY <2>1 DEF PlaceAt, PlainAt, Scan!Failed
    <2>3. Scan!GoOnly(c, Scan!Failed)
      BY <1>2, <1>5, <1>6 DEF Scan!TokenCheck, Scan!GoOnly
    <2> QED BY <1>1, <1>3, <2>2, <2>3, Goes DEF AtPcs
  <1>7. CASE ~(k.desired = NULL /\ L = 0)
    <2>1. PICK r : r = IF k.desired = NULL \/ k.lastKnown # globalOffset THEN Scan!Rotated(k) ELSE k
      OBVIOUS
    <2>2. PICK s : s = [pc |-> "current", at |-> r.current, want |-> q.want, bulk |-> q.bulk]
      OBVIOUS
    <2>3. token' = [token EXCEPT ![c] = r] /\ consumer' = [consumer EXCEPT ![c] = s]
      BY <1>1, <1>2, <1>5, <1>7, <2>1, <2>2 DEF Scan!TokenCheck, Scan!Go
    <2>4. L > 0
      BY <1>3, <1>7
    <2>5. r \in Tokens /\ r.desired \in 1..L /\ r.current \in 1..L
      <3>1. CASE k.desired = NULL \/ k.lastKnown # globalOffset
        <4>1. r = Scan!Rotated(k)
          BY <2>1, <3>1
        <4> QED BY <1>3, <2>4, <4>1, RotatedOK
      <3>2. CASE ~(k.desired = NULL \/ k.lastKnown # globalOffset)
        BY <1>3, <2>1, <3>2
      <3> QED BY <3>1, <3>2
    <2>6. s \in [pc : {"current"}, at : 1..L, want : Nat, bulk : BOOLEAN] /\ s.at = r.current
      BY <1>3, <2>2, <2>5
    <2>7. r # NULL /\ r.desired # NULL
      BY <1>3, <2>5, ScanAssumption DEF Tokens
    <2>8. token'[c] = r /\ SameTokens(c)
      BY <2>3 DEF SameTokens, ScanInv
    <2>9. look[c] = Scan!NoLook
      BY <1>1, <1>3, CallNow DEF AtPcs
    <2>10. CallAt(c, s, look[c], due[c], token', sub)
      <3>1. TokenAt(s, token'[c], Owes(due[c], sub), L)
        BY <2>6, <2>7, <2>8 DEF TokenAt
      <3> QED BY <1>3, <2>9, <3>1, CallNow DEF CallAt, PlaceAt, LookAt, L
    <2>11. TokenOK(token'[c], L) /\ globalOffset' \in Nat /\ nextId' \in Nat
      BY <1>4, <2>5, <2>8 DEF TokenOK, ScanInv, Numbers
    <2>12. Sets(consumer, consumer', c, s) /\ Sets(look, look', c, look[c]) /\ Sets(due, due', c, due[c])
      BY <1>3, <1>4, <2>3 DEF Sets, ScanInv
    <2>13. \A p : Hold(look[c], s, p) = Hold(look[c], consumer[c], p)
      BY <2>9 DEF Hold, Scan!NoLook
    <2> QED BY <1>3, <1>4, <2>8, <2>10, <2>11, <2>12, <2>13, Moves
  <1> QED BY <1>6, <1>7

LEMMA TokenCurrentStep ==
    ASSUME ScanInv, NEW c \in TokenUsers, Scan!TokenCurrent(c)
    PROVE  ScanInv'
  <1>1. PICK q : q = consumer[c]
    OBVIOUS
  <1>2. PICK k : k = token[c]
    OBVIOUS
  <1>3. PICK n : n = look[c].n
    OBVIOUS
  <1>4. /\ q \in [pc : {"current"}, at : 1..L, want : Nat, bulk : BOOLEAN] /\ k \in Tokens /\ k # NULL
        /\ k.desired # NULL /\ k.desired \in 1..L /\ k.current \in 1..L /\ q.at = k.current
        /\ L \in Nat /\ c \in Scan!Consumers
    BY <1>1, <1>2, TokenCall DEF Scan!TokenCurrent, Scan!Dequeued, TokenAt
  <1>5. PICK x : x = k.items + n
    OBVIOUS
  <1>6. PICK y : y = q.want - n
    OBVIOUS
  <1>7. PICK s : s = [pc |-> "tail", want |-> y]
    OBVIOUS
  <1>8. /\ look[c].pc = "done" /\ look' = [look EXCEPT ![c] = Scan!NoLook]
        /\ token' = [token EXCEPT ![c].items = x] /\ Scan!GoOn(c, n, s)
        /\ UNCHANGED <<sub, producerCount, nextId>>
        /\ globalOffset' \in {globalOffset, (globalOffset + 1) % OffsetWidth}
    BY <1>1, <1>2, <1>3, <1>5, <1>6, <1>7 DEF Scan!TokenCurrent, Scan!Dequeued, Scan!See
  <1>9. globalOffset' \in Nat
    <2>1. globalOffset \in Nat /\ globalOffset + 1 \in Int /\ OffsetWidth \in Nat \ {0}
      BY ScanAssumption DEF ScanInv, Numbers
    <2>2. (globalOffset + 1) % OffsetWidth \in Nat
      BY <2>1, DivMod
    <2> QED BY <1>8, <2>1, <2>2
  <1>10. n \in Nat /\ n <= q.want /\ (n # q.want => k.current \notin Owes(due[c], sub))
    BY <1>1, <1>3, <1>4, <1>8, DequeuedNow
  <1>11. PICK r : r = [k EXCEPT !.items = x]
    OBVIOUS
  <1>12. x \in Nat
    BY <1>4, <1>5, <1>10 DEF Tokens
  <1>13. r \in Tokens /\ r.desired = k.desired /\ r.current = k.current
    BY <1>4, <1>11, <1>12 DEF Tokens
  <1>14. token'[c] = r /\ SameTokens(c)
    BY <1>2, <1>8, <1>11 DEF ScanInv, SameTokens
  <1>15. TokenOK(token'[c], L)
    BY <1>4, <1>13, <1>14 DEF TokenOK
  <1>16. r # NULL
    BY <1>13, ScanAssumption DEF Tokens
  <1>17. n # q.want => PlaceAt(c, s, due[c], token', sub)
    <2> SUFFICES ASSUME n # q.want PROVE TokenAt(s, r, Owes(due[c], sub), L)
      BY <1>14 DEF PlaceAt, L
    <2>1. y \in Nat
      BY <1>4, <1>6, <1>10
    <2> QED BY <1>4, <1>7, <1>10, <1>13, <1>16, <2>1 DEF TokenAt
  <1> QED BY <1>1, <1>3, <1>4, <1>8, <1>9, <1>14, <1>15, <1>17, GoesOn

\* One producer further: what was ahead still is, but for the one looked at,
\* whether it becomes current or not.
LEMMA AheadNext ==
    ASSUME NEW n \in Nat, NEW at \in 1..n, NEW current \in 1..n, at # current,
           NEW next, next = IF at = 1 THEN n ELSE at - 1
    PROVE  /\ next \in 1..n /\ next \in Nat
           /\ Ahead(at, current, n) \ {at} \subseteq Ahead(next, current, n)
           /\ Ahead(at, current, n) \ {at} \subseteq Ahead(next, at, n)
  <1>1. next \in 1..n /\ next \in Nat
    OBVIOUS
  <1>2. ASSUME NEW p \in 1..n, p # at, IF at >= current THEN current < p /\ p <= at ELSE p <= at \/ current < p
        PROVE  /\ IF next >= current THEN current < p /\ p <= next ELSE p <= next \/ current < p
               /\ IF next >= at THEN at < p /\ p <= next ELSE p <= next \/ at < p
    BY <1>1, <1>2
  <1> QED BY <1>1, <1>2 DEF Ahead

LEMMA OthersOK ==
    ASSUME NEW k, k # NULL, k.desired # NULL, NEW d, NEW F, NEW n \in Nat, NEW end \in 1..n,
           NEW at \in 1..end, NEW next, next = IF at = 1 THEN end ELSE at - 1,
           k.current \in 1..end, NEW want \in Nat,
           next \in 1..end, next # k.current => F \subseteq Ahead(next, k.current, end),
           next = k.current => F = {}
    PROVE  LET s == Scan!Others(at, k.current, want, end)
           IN  PlainAt(s, d, F, n) \/ TokenAt(s, k, F, n)
  <1>1. CASE next = k.current
    <2>1. Scan!Others(at, k.current, want, end) = Scan!Failed
      BY <1>1 DEF Scan!Others
    <2> QED BY <1>1, <2>1 DEF PlainAt, Scan!Failed
  <1>2. CASE next # k.current
    <2>1. PICK s : s = [pc |-> "others", at |-> next, want |-> want, tail |-> end]
      OBVIOUS
    <2>2. Scan!Others(at, k.current, want, end) = s
      BY <1>2, <2>1 DEF Scan!Others
    <2>3. s \in [pc : {"others"}, at : 1..n, want : Nat, tail : 1..n] /\ s.at = next /\ s.tail = end
      BY <2>1
    <2>4. TokenAt(s, k, F, n)
      BY <1>2, <2>3 DEF TokenAt
    <2> QED BY <2>2, <2>4
  <1> QED BY <1>1, <1>2

\* Back at current, nothing is ahead.
LEMMA AheadNone == \A current, n \in Nat : Ahead(current, current, n) = {}
  BY DEF Ahead

LEMMA TokenTailStep ==
    ASSUME ScanInv, NEW c \in TokenUsers, Scan!TokenTail(c)
    PROVE  ScanInv'
  <1> DEFINE F == Owes(due[c], sub)
  <1>1. PICK q : q = consumer[c]
    OBVIOUS
  <1>2. PICK k : k = token[c]
    OBVIOUS
  <1>3. /\ q \in [pc : {"tail"}, want : Nat] /\ k \in Tokens /\ k # NULL
        /\ k.desired # NULL /\ k.current \in 1..L /\ k.current \notin F
        /\ F \subseteq 1..L /\ L \in Nat /\ c \in Scan!Consumers
    BY <1>1, <1>2, TokenCall DEF Scan!TokenTail, TokenAt
  <1>4. PICK next : next = IF k.current = 1 THEN L ELSE k.current - 1
    OBVIOUS
  <1>5. PICK s : s = Scan!Others(k.current, k.current, q.want, L)
    OBVIOUS
  <1>6. Scan!GoOnly(c, s)
    BY <1>1, <1>2, <1>5 DEF Scan!TokenTail, Scan!ListTail, L
  <1>7. next \in 1..L /\ L \in 1..L
    BY <1>3, <1>4
  <1>8. next # k.current => F \subseteq Ahead(next, k.current, L)
    <2>1. \A p \in 1..L : p # k.current => p \in Ahead(next, k.current, L)
      BY <1>3, <1>4, <1>7 DEF Ahead
    <2> QED BY <1>3, <2>1
  <1>9. next = k.current => F = {}
    BY <1>3, <1>4
  <1>10. PlainAt(s, due[c], F, L) \/ TokenAt(s, k, F, L)
    <2>1. q.want \in Nat
      BY <1>3
    <2> QED BY <1>3, <1>4, <1>5, <1>7, <1>8, <1>9, <2>1, OthersOK
  <1>11. PlaceAt(c, s, due[c], token, sub)
    BY <1>2, <1>10 DEF PlaceAt, L
  <1> QED BY <1>1, <1>3, <1>6, <1>11, Goes DEF AtPcs

LEMMA TokenOthersStep ==
    ASSUME ScanInv, NEW c \in TokenUsers, Scan!TokenOthers(c)
    PROVE  ScanInv'
  <1> DEFINE F == Owes(due[c], sub)
  <1>1. PICK q : q = consumer[c]
    OBVIOUS
  <1>2. PICK k : k = token[c]
    OBVIOUS
  <1>3. PICK n : n = look[c].n
    OBVIOUS
  <1>4. /\ q \in [pc : {"others"}, at : 1..L, want : Nat, tail : 1..L] /\ k \in Tokens /\ k # NULL
        /\ k.desired # NULL /\ k.desired \in 1..L /\ k.current \in 1..L
        /\ k.current \in 1..q.tail /\ q.at \in 1..q.tail /\ q.at # k.current
        /\ F \subseteq Ahead(q.at, k.current, q.tail)
        /\ L \in Nat /\ c \in Scan!Consumers
    BY <1>1, <1>2, TokenCall DEF Scan!TokenOthers, Scan!Dequeued, TokenAt
  <1>5. PICK y : y = q.want - n
    OBVIOUS
  <1>6. PICK cur : cur = IF n = 0 THEN k.current ELSE q.at
    OBVIOUS
  <1>7. PICK s : s = Scan!Others(q.at, cur, y, q.tail)
    OBVIOUS
  <1>8. PICK r : r = IF n = 0 THEN k ELSE [k EXCEPT !.current = q.at, !.items = n]
    OBVIOUS
  <1>9. /\ look[c].pc = "done" /\ look' = [look EXCEPT ![c] = Scan!NoLook]
        /\ token' = IF n = 0 THEN token ELSE [token EXCEPT ![c].current = q.at, ![c].items = n]
        /\ Scan!GoOn(c, n, s)
        /\ UNCHANGED <<sub, producerCount, globalOffset, nextId>>
    BY <1>1, <1>2, <1>3, <1>5, <1>6, <1>7
    DEF Scan!TokenOthers, Scan!Dequeued, Scan!See, Scan!shared
  <1>10. n \in Nat /\ n <= q.want /\ (n # q.want => q.at \notin F)
    BY <1>1, <1>3, <1>4, <1>9, DequeuedNow
  <1>11. token'[c] = r /\ SameTokens(c)
    BY <1>2, <1>8, <1>9 DEF ScanInv, SameTokens
  <1>12. r \in Tokens /\ r.desired = k.desired /\ r.current = cur
    <2>1. q.at \in Nat
      BY <1>4
    <2>2. [k EXCEPT !.current = q.at, !.items = n] \in Tokens
          /\ [k EXCEPT !.current = q.at, !.items = n].desired = k.desired
          /\ [k EXCEPT !.current = q.at, !.items = n].current = q.at
      BY <1>4, <1>10, <2>1 DEF Tokens
    <2> QED BY <1>4, <1>6, <1>8, <2>2
  <1>13. cur \in 1..q.tail /\ cur \in 1..L
    BY <1>4, <1>6
  <1>14. TokenOK(token'[c], L)
    BY <1>4, <1>11, <1>12, <1>13 DEF TokenOK
  <1>15. r # NULL
    BY <1>12, ScanAssumption DEF Tokens
  <1>16. n # q.want => PlaceAt(c, s, due[c], token', sub)
    <2> SUFFICES ASSUME n # q.want PROVE PlainAt(s, due[c], F, L) \/ TokenAt(s, r, F, L)
      BY <1>11 DEF PlaceAt, L
    <2>1. PICK next : next = IF q.at = 1 THEN q.tail ELSE q.at - 1
      OBVIOUS
    <2>2. q.tail \in Nat /\ q.tail \in 1..L /\ y \in Nat
      BY <1>4, <1>5, <1>10
    <2>3. next \in 1..q.tail
          /\ Ahead(q.at, k.current, q.tail) \ {q.at} \subseteq Ahead(next, k.current, q.tail)
          /\ Ahead(q.at, k.current, q.tail) \ {q.at} \subseteq Ahead(next, q.at, q.tail)
      BY <1>4, <2>1, <2>2, AheadNext
    <2>4. F \subseteq Ahead(next, cur, q.tail)
      BY <1>4, <1>6, <1>10, <2>3
    <2>5. next = cur => F = {}
      BY <1>13, <2>2, <2>4, AheadNone
    <2>6. r.desired # NULL /\ r.current \in 1..q.tail
      BY <1>4, <1>12, <1>13
    <2>7. next \in 1..q.tail /\ q.at \in 1..q.tail
      BY <1>4, <2>3
    <2> QED BY <1>4, <1>7, <1>12, <1>15, <2>1, <2>2, <2>4, <2>5, <2>6, <2>7, OthersOK
  <1> QED BY <1>1, <1>3, <1>4, <1>9, <1>11, <1>14, <1>16, GoesOn DEF ScanInv, Numbers

-----------------------------------------------------------------------------

LEMMA ScanStart == Scan!Init => ScanInv
  <1> SUFFICES ASSUME Scan!Init PROVE ScanInv
    OBVIOUS
  <1>1. sub = <<>> /\ L = 0 /\ sub \in Seq(Counters) /\ Len(sub) = 0
    BY DEF Scan!Init, L
  <1>2. Numbers
    BY <1>1 DEF Scan!Init, Numbers
  <1>3. /\ DOMAIN consumer = Scan!Consumers /\ DOMAIN look = Scan!Consumers
        /\ DOMAIN due = Scan!Consumers /\ DOMAIN token = TokenUsers
        /\ \A c \in TokenUsers : TokenOK(token[c], L)
    BY DEF Scan!Init, TokenOK
  <1>4. ASSUME NEW c \in Scan!Consumers
        PROVE  CallAt(c, consumer[c], look[c], due[c], token, sub)
    <2>1. consumer[c] = Scan!Idle /\ look[c] = Scan!NoLook /\ due[c] = <<>>
      BY DEF Scan!Init
    <2> QED BY <2>1, NothingDue DEF CallAt, PlaceAt, PlainAt, Scan!Idle, LookAt
  <1>5. 1..L = {}
    BY <1>1
  <1> QED BY <1>2, <1>3, <1>4, <1>5 DEF ScanInv

LEMMA ScanStep == ScanInv /\ Scan!Next => ScanInv'
  <1> SUFFICES ASSUME ScanInv, Scan!Next PROVE ScanInv'
    OBVIOUS
  <1>1. CASE Scan!CountProducer \/ Scan!LinkProducer \/ \E p \in 1..L : Scan!Enqueue(p)
    BY <1>1, CountProducerStep, LinkProducerStep, ProducerEnqueues
  <1>2. ASSUME NEW c \in Plain, \/ Scan!CallTryDequeue(c) \/ \E max \in 1..MaxBulk : Scan!CallInOrder(c, max)
                                \/ Scan!SizeTail(c) \/ Scan!Score(c) \/ Scan!TryBest(c) \/ Scan!TryEach(c)
        PROVE  ScanInv'
    <2>1. c \in Scan!Consumers /\ 1..MaxBulk \subseteq Nat
      BY ScanAssumption DEF Scan!Consumers
    <2> QED BY <1>2, <2>1, CallTryDequeueStep, CallInOrderStep, SizeTailStep, ScoreStep,
               TryBestStep, TryEachStep
  <1>3. ASSUME NEW c \in Scan!Consumers,
               \/ Scan!LoadTail(c) \/ Scan!LoadOvercommit(c) \/ Scan!Check(c)
               \/ Scan!AddOptimistic(c) \/ Scan!ReloadTail(c) \/ Scan!AddOvercommit(c)
               \/ Scan!ClaimHead(c) \/ Scan!Return(c)
        PROVE  ScanInv'
    BY <1>3, LoadTailStep, LoadOvercommitStep, CheckStep, AddOptimisticStep, ReloadTailStep,
       AddOvercommitStep, ClaimStep, ReturnStep
  <1>4. ASSUME NEW c \in TokenUsers,
               \/ Scan!MakeToken(c)
               \/ \E max \in 1..MaxBulk, bulk \in BOOLEAN : Scan!CallWithToken(c, max, bulk)
               \/ Scan!TokenCheck(c) \/ Scan!TokenCurrent(c) \/ Scan!TokenTail(c) \/ Scan!TokenOthers(c)
        PROVE  ScanInv'
    <2>1. 1..MaxBulk \subseteq Nat
      BY ScanAssumption
    <2> QED BY <1>4, <2>1, MakeTokenStep, CallWithTokenStep, TokenCheckStep, TokenCurrentStep,
               TokenTailStep, TokenOthersStep
  <1>5. Scan!ListTail = L
    BY DEF Scan!ListTail, L
  <1> QED BY <1>1, <1>2, <1>3, <1>4, <1>5 DEF Scan!Next

\* The sum that the property takes is the one above.
LEMMA HeldIsReserved == \A p : Scan!ReservedOf(p) = AllHeld(p)
  <1> SUFFICES ASSUME NEW p PROVE Scan!ReservedOf(p) = AllHeld(p)
    OBVIOUS
  <1>1. [e \in Scan!Consumers |-> Scan!Reserved(e, p)]
          = [e \in Scan!Consumers |-> Hold(look[e], consumer[e], p)]
    BY DEF Scan!Reserved, Hold
  <1>2. \A f, S : Scan!SumFunctionOnSet(f, S) = SumFunctionOnSet(f, S)
    BY DEF Scan!SumFunctionOnSet, Scan!FoldFunctionOnSet, Scan!MapThenFoldSet,
           SumFunctionOnSet, FoldFunctionOnSet, MapThenFoldSet
  <1> QED BY <1>1, <1>2 DEF Scan!ReservedOf, AllHeld

\* However many producers and consumers there are: when a dequeue of
\* moodycamel's queue returns with less than it wanted, with or without a token
\* and whatever was rotated meanwhile, what was in each producer's queue as the
\* call began is taken, or reserved by a call that is still at it, but for as
\* many elements as others reserved in vain and gave back meanwhile.
THEOREM NoProducerOverlooked == MCSpec => []NothingOverlooked
  <1>1. MCInit => ScanInv
    BY ScanStart DEF MCInit
  <1>2. ScanInv /\ [MCNext]_<<part, vars, scan>> => ScanInv'
    <2> SUFFICES ASSUME ScanInv, [MCNext]_<<part, vars, scan>> PROVE ScanInv'
      OBVIOUS
    <2>1. CASE Scan!Next
      BY <2>1, ScanStep
    <2>2. CASE UNCHANGED scan
      <3>1. UNCHANGED <<sub, producerCount, globalOffset, nextId, token, consumer, look, due>> /\ L' = L
        BY <2>2 DEF scan, L
      <3> QED BY <3>1 DEF ScanInv, Numbers, CallAt, Balanced, AllHeld
    <2> QED BY <2>1, <2>2 DEF MCNext
  <1>3. ScanInv => NothingOverlooked
    <2> SUFFICES ASSUME ScanInv, NEW c \in Scan!Consumers, consumer[c] = Scan!Failed,
                        NEW p \in DOMAIN due[c]
                 PROVE  due[c][p] <= sub[p].headIndex + Scan!ReservedOf(p)
      BY DEF NothingOverlooked, Scan!NothingOverlooked
    <2>1. PlaceAt(c, consumer[c], due[c], token, sub) /\ consumer[c].pc = "failed"
      BY CallNow DEF Scan!Failed
    <2>2. Owes(due[c], sub) = {}
      BY <2>1 DEF PlaceAt, PlainAt, TokenAt
    <2>3. p \in 1..L /\ due[c][p] \in Int
      BY CallNow DEF DueAt
    <2>4. PICK h \in Nat : h = sub[p].headIndex
      BY <2>3, SubNow DEF ScanInv
    <2>5. PICK v \in Nat : v = sub[p].overcommit
      BY <2>3, SubNow DEF ScanInv
    <2>6. PICK b \in Nat : b = AllHeld(p)
      BY HeldNat
    <2>7. due[c][p] + v <= h + v + b
      BY <2>2, <2>3, <2>4, <2>5, <2>6 DEF Owes, ScanInv, Balanced
    <2>8. due[c][p] <= h + b
      BY <2>3, <2>7
    <2> QED BY <2>4, <2>6, <2>8, HeldIsReserved
  <1> QED BY <1>1, <1>2, <1>3, PTL DEF MCSpec
=============================================================================
