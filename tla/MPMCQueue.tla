----------------------------- MODULE MPMCQueue -----------------------------
(***************************************************************************)
(* CustomMPMCLockFreeQueue of HFT/Queue.hpp: a ring of cells, each with a  *)
(* sequence number that says whose turn the cell is.  Position pos may be  *)
(* written when its cell's number is pos, read when it is pos + 1, and is  *)
(* handed to the next lap as pos + Capacity.  Threads compete for          *)
(* positions with compare_exchange_weak on tail_ and head_.                *)
(*                                                                         *)
(* Every load, compare-exchange and store of shared memory is a step; any  *)
(* thread may call either operation.  Positions are size_t values that     *)
(* grow for the life of the queue; MaxPos bounds the calls explored.  A    *)
(* wrap-around would take 2^64 operations.                                 *)
(***************************************************************************)
EXTENDS Integers, Sequences

CONSTANTS
    Threads,     \* the threads that use the queue
    Msgs,        \* message pointers
    NULL,        \* nullptr
    Capacity,    \* Const::queueCapacity
    MaxPos       \* bound: no enqueue is called once tail_ has come this far

ASSUME QueueAssumption ==
    /\ NULL \notin Msgs
    /\ Capacity \in Nat \ {0}
    /\ MaxPos \in Nat

VARIABLES
    seq,         \* seq[i]: cell i's sequence number
    data,        \* data[i]: cell i's message
    head,        \* head_
    tail,        \* tail_
    pc,          \* pc[t]: where thread t is
    pos,         \* pos[t]: the local pos
    val          \* val[t]: enqueue's ptr, or dequeue's value

vars == <<seq, data, head, tail, pc, pos, val>>

Slots == 0..(Capacity - 1)

\* pos & mask_
Slot(p) == p % Capacity

Init ==
    /\ seq = [i \in Slots |-> i]
    /\ data = [i \in Slots |-> NULL]
    /\ head = 0
    /\ tail = 0
    /\ pc = [t \in Threads |-> "idle"]
    /\ pos = [t \in Threads |-> 0]
    /\ val = [t \in Threads |-> NULL]

Goto(t, l) == pc' = [pc EXCEPT ![t] = l]

-----------------------------------------------------------------------------
(* enqueue                                                                 *)

\* The call and the first load of tail_.
CallEnqueue(t, m) ==
    /\ pc[t] = "idle"
    /\ tail < MaxPos
    /\ val' = [val EXCEPT ![t] = m]
    /\ pos' = [pos EXCEPT ![t] = tail]
    /\ Goto(t, "enqSeq")
    /\ UNCHANGED <<seq, data, head, tail>>

\* Mutant: a cell of an earlier lap is taken for a free one.
EnqueueSeqNoFullTest(t) ==
    /\ pc[t] = "enqSeq"
    /\ \/ seq[Slot(pos[t])] <= pos[t] /\ Goto(t, "enqCas")
       \/ seq[Slot(pos[t])] > pos[t] /\ Goto(t, "enqLoad")
    /\ UNCHANGED <<seq, data, head, tail, pos, val>>

\* Load the cell's sequence number and branch on diff: it is this thread's
\* turn, the queue is full (return false), or the position is taken.
EnqueueSeq(t) ==
    /\ pc[t] = "enqSeq"
    /\ \/ seq[Slot(pos[t])] = pos[t] /\ Goto(t, "enqCas")
       \/ seq[Slot(pos[t])] < pos[t] /\ Goto(t, "idle")
       \/ seq[Slot(pos[t])] > pos[t] /\ Goto(t, "enqLoad")
    /\ UNCHANGED <<seq, data, head, tail, pos, val>>

\* Load tail_ again.
EnqueueReload(t) ==
    /\ pc[t] = "enqLoad"
    /\ pos' = [pos EXCEPT ![t] = tail]
    /\ Goto(t, "enqSeq")
    /\ UNCHANGED <<seq, data, head, tail, val>>

\* Mutant: tail_ is advanced by a load and a store instead of a
\* compare-exchange, so a position can be claimed twice.
ClaimTailNoCompare(t) ==
    /\ pc[t] = "enqCas"
    /\ tail' = pos[t] + 1
    /\ Goto(t, "enqWrite")
    /\ UNCHANGED <<seq, data, head, pos, val>>

\* The compare-exchange succeeds: the position is this thread's.
ClaimTail(t) ==
    /\ pc[t] = "enqCas"
    /\ tail = pos[t]
    /\ tail' = pos[t] + 1
    /\ Goto(t, "enqWrite")
    /\ UNCHANGED <<seq, data, head, pos, val>>

\* It fails, spuriously or not, and loads tail_ into pos.
MissTail(t) ==
    /\ pc[t] = "enqCas"
    /\ pos' = [pos EXCEPT ![t] = tail]
    /\ Goto(t, "enqSeq")
    /\ UNCHANGED <<seq, data, head, tail, val>>

WriteCell(t) ==
    /\ pc[t] = "enqWrite"
    /\ data' = [data EXCEPT ![Slot(pos[t])] = val[t]]
    /\ Goto(t, "enqPublish")
    /\ UNCHANGED <<seq, head, tail, pos, val>>

\* The release store of seq; enqueue returns true.
PublishCell(t) ==
    /\ pc[t] = "enqPublish"
    /\ seq' = [seq EXCEPT ![Slot(pos[t])] = pos[t] + 1]
    /\ Goto(t, "idle")
    /\ UNCHANGED <<data, head, tail, pos, val>>

-----------------------------------------------------------------------------
(* dequeue                                                                 *)

CallDequeue(t) ==
    /\ pc[t] = "idle"
    /\ val' = [val EXCEPT ![t] = NULL]
    /\ pos' = [pos EXCEPT ![t] = head]
    /\ Goto(t, "deqSeq")
    /\ UNCHANGED <<seq, data, head, tail>>

\* Mutant: dequeue compares with pos and not with pos + 1.
DequeueSeqOffByOne(t) ==
    /\ pc[t] = "deqSeq"
    /\ \/ seq[Slot(pos[t])] = pos[t] /\ Goto(t, "deqCas")
       \/ seq[Slot(pos[t])] < pos[t] /\ Goto(t, "idle")
       \/ seq[Slot(pos[t])] > pos[t] /\ Goto(t, "deqLoad")
    /\ UNCHANGED <<seq, data, head, tail, pos, val>>

\* A message is ready, none is (return nullptr), or the position is taken.
DequeueSeq(t) ==
    /\ pc[t] = "deqSeq"
    /\ \/ seq[Slot(pos[t])] = pos[t] + 1 /\ Goto(t, "deqCas")
       \/ seq[Slot(pos[t])] < pos[t] + 1 /\ Goto(t, "idle")
       \/ seq[Slot(pos[t])] > pos[t] + 1 /\ Goto(t, "deqLoad")
    /\ UNCHANGED <<seq, data, head, tail, pos, val>>

DequeueReload(t) ==
    /\ pc[t] = "deqLoad"
    /\ pos' = [pos EXCEPT ![t] = head]
    /\ Goto(t, "deqSeq")
    /\ UNCHANGED <<seq, data, head, tail, val>>

ClaimHead(t) ==
    /\ pc[t] = "deqCas"
    /\ head = pos[t]
    /\ head' = pos[t] + 1
    /\ Goto(t, "deqRead")
    /\ UNCHANGED <<seq, data, tail, pos, val>>

MissHead(t) ==
    /\ pc[t] = "deqCas"
    /\ pos' = [pos EXCEPT ![t] = head]
    /\ Goto(t, "deqSeq")
    /\ UNCHANGED <<seq, data, head, tail, val>>

ReadCell(t) ==
    /\ pc[t] = "deqRead"
    /\ val' = [val EXCEPT ![t] = data[Slot(pos[t])]]
    /\ Goto(t, "deqRelease")
    /\ UNCHANGED <<seq, data, head, tail, pos>>

\* Mutant: the cell is released to the lap it is already in.
ReleaseCellSameLap(t) ==
    /\ pc[t] = "deqRelease"
    /\ seq' = [seq EXCEPT ![Slot(pos[t])] = pos[t]]
    /\ Goto(t, "idle")
    /\ UNCHANGED <<data, head, tail, pos, val>>

\* Mutant: the lap is subtracted.
ReleaseCellBackwards(t) ==
    /\ pc[t] = "deqRelease"
    /\ seq' = [seq EXCEPT ![Slot(pos[t])] = pos[t] - Capacity]
    /\ Goto(t, "idle")
    /\ UNCHANGED <<data, head, tail, pos, val>>

\* The cell is handed to the next lap; dequeue returns the value.
ReleaseCell(t) ==
    /\ pc[t] = "deqRelease"
    /\ seq' = [seq EXCEPT ![Slot(pos[t])] = pos[t] + Capacity]
    /\ Goto(t, "idle")
    /\ UNCHANGED <<data, head, tail, pos, val>>

EnqueueStep(t) ==
    \/ \E m \in Msgs : CallEnqueue(t, m)
    \/ EnqueueSeq(t)
    \/ EnqueueReload(t)
    \/ ClaimTail(t)
    \/ MissTail(t)
    \/ WriteCell(t)
    \/ PublishCell(t)

DequeueStep(t) ==
    \/ CallDequeue(t)
    \/ DequeueSeq(t)
    \/ DequeueReload(t)
    \/ ClaimHead(t)
    \/ MissHead(t)
    \/ ReadCell(t)
    \/ ReleaseCell(t)

Next == \E t \in Threads : EnqueueStep(t) \/ DequeueStep(t)

Spec == Init /\ [][Next]_vars

-----------------------------------------------------------------------------
(* Properties.                                                             *)

Writing(t) == pc[t] \in {"enqWrite", "enqPublish"}

Reading(t) == pc[t] \in {"deqRead", "deqRelease"}

TypeOK ==
    /\ seq \in [Slots -> Nat]
    /\ data \in [Slots -> Msgs \cup {NULL}]
    /\ head \in Nat
    /\ tail \in Nat
    /\ pc \in [Threads -> {"idle", "enqSeq", "enqLoad", "enqCas", "enqWrite",
                           "enqPublish", "deqSeq", "deqLoad", "deqCas",
                           "deqRead", "deqRelease"}]
    /\ pos \in [Threads -> Nat]
    /\ val \in [Threads -> Msgs \cup {NULL}]

\* A cell belongs to one thread at a time: between winning a position and
\* storing the cell's sequence number no other thread touches the cell, so the
\* plain accesses to data do not race.
CellOwnership ==
    \A t, u \in Threads :
        /\ t # u
        /\ Writing(t) \/ Reading(t)
        /\ Writing(u) \/ Reading(u)
        => Slot(pos[t]) # Slot(pos[u])

\* The positions handed to enqueuers and not yet to dequeuers never exceed
\* the capacity, and no dequeuer gets ahead of the enqueuers.
NeverOverrun == head <= tail /\ tail - head <= Capacity

\* enqueue returns false only when every cell is taken: by a message, or, for
\* the cell it needs, by a dequeue that has not released it yet.
FullIsFull ==
    [][\A t \in Threads :
          pc[t] = "enqSeq" /\ pc'[t] = "idle" =>
             \/ tail - head = Capacity
             \/ \E u \in Threads : Reading(u) /\ pos[u] = tail - Capacity]_vars

\* dequeue returns nullptr only when no message is there, or the oldest one is
\* still being written by the enqueue that owns its cell.
EmptyIsEmpty ==
    [][\A t \in Threads :
          pc[t] = "deqSeq" /\ pc'[t] = "idle" =>
             \/ head = tail
             \/ \E u \in Threads : Writing(u) /\ pos[u] = head]_vars

-----------------------------------------------------------------------------
(* MPMCQueue implements BoundedFIFO.  Both operations take effect at their *)
(* compare-exchange; until the enqueuer has written its cell the message   *)
(* is the one in the enqueuer's hands.                                     *)

MessageAt(p) ==
    IF \E t \in Threads : pc[t] = "enqWrite" /\ pos[t] = p
    THEN val[CHOOSE t \in Threads : pc[t] = "enqWrite" /\ pos[t] = p]
    ELSE data[Slot(p)]

Items == [i \in 1..(tail - head) |-> MessageAt(head + i - 1)]

Hand ==
    [t \in Threads |-> CASE pc[t] = "deqRead"    -> data[Slot(pos[t])]
                         [] pc[t] = "deqRelease" -> val[t]
                         [] OTHER                -> NULL]

Fifo == INSTANCE BoundedFIFO WITH items <- Items, hand <- Hand

\* Messages leave in the order in which the compare-exchanges on tail_
\* admitted them, each one once, and never more than Capacity are inside.
ImplementsBoundedFIFO == Fifo!Spec
=============================================================================
