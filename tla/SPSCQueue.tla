----------------------------- MODULE SPSCQueue -----------------------------
(***************************************************************************)
(* CustomSPSCLockFreeQueue of HFT/Queue.hpp: a ring of Capacity slots with *)
(* two free-running unsigned indices, used by one producer thread and one  *)
(* consumer thread.  Every shared access is a step of its own: the two     *)
(* index loads, the slot write, the index store, the fetch_add and the     *)
(* slot read.                                                              *)
(*                                                                         *)
(* Indices are size_t: they wrap at IndexMod (2^64 in the program, a small *)
(* multiple of Capacity here), so nothing in this model is cut off by a    *)
(* bound.  dequeue loads tail_ relaxed, but the read-modify-write of head_ *)
(* that follows is a full fence on the x86-64 builds of the repository:    *)
(* loads and stores are interleaved here and not reordered.  The race on a *)
(* slot is between aligned pointers: a read returns the old or the new     *)
(* pointer, never a mixture.                                               *)
(***************************************************************************)
EXTENDS Integers, Sequences

CONSTANTS
    Msgs,        \* message pointers
    NULL,        \* nullptr
    Capacity,    \* Const::queueCapacity
    IndexMod     \* 2^64: where size_t wraps around

ASSUME NullAssumption == NULL \notin Msgs

\* The constructor throws unless the capacity is a power of two.  What the
\* queue relies on is that the capacity divides the index range, and is so
\* far below it that a full ring plus one does not wrap to an empty one.
ValidCapacity ==
    /\ Capacity \in Nat \ {0}
    /\ IndexMod \in Nat
    /\ Capacity + 1 < IndexMod
    /\ \E k \in 1..IndexMod : IndexMod = k * Capacity

ASSUME CapacityAssumption == ValidCapacity

VARIABLES
    buffer,      \* buffer_
    head,        \* head_
    tail,        \* tail_
    ppc,         \* where the producer is in enqueue
    pmsg,        \* enqueue's argument ptr
    cpc,         \* where the consumer is in dequeue
    chead,       \* dequeue's local head: the index fetch_add returned
    got,         \* what the last dequeue returned
    due          \* history: the message in the slot when dequeue claimed it

vars == <<buffer, head, tail, ppc, pmsg, cpc, chead, got, due>>

Indices == 0..(IndexMod - 1)

Slots == 0..(Capacity - 1)

\* pos & mask_
Slot(pos) == pos % Capacity

\* Mutant: an index that is not reduced to its width.
SuccNoWrap(pos) == pos + 1

\* size_t increment and subtraction
Succ(pos) == (pos + 1) % IndexMod

Dist(a, b) == (a - b) % IndexMod

Init ==
    /\ buffer = [i \in Slots |-> NULL]
    /\ head = 0
    /\ tail = 0
    /\ ppc = "idle"
    /\ pmsg = NULL
    /\ cpc = "idle"
    /\ chead = 0
    /\ got = NULL
    /\ due = NULL

-----------------------------------------------------------------------------
(* enqueue.  tail_ is written by the producer alone, so its relaxed load   *)
(* needs no step of its own.                                               *)

CallEnqueue(m) ==
    /\ ppc = "idle"
    /\ ppc' = "check"
    /\ pmsg' = m
    /\ UNCHANGED <<buffer, head, tail, cpc, chead, got, due>>

\* Mutant: the capacity test lets one message too many in.
RoomOffByOne == Dist(Succ(tail), head) <= Capacity + 1

Room == Dist(Succ(tail), head) <= Capacity

\* The acquire load of head_: go on, or return false when the ring is full.
CheckFull ==
    /\ ppc = "check"
    /\ ppc' = IF Room THEN "write" ELSE "idle"
    /\ UNCHANGED <<buffer, head, tail, pmsg, cpc, chead, got, due>>

\* Mutant: the slot is taken from the index after the increment.
WriteSlotNextIndex ==
    /\ ppc = "write"
    /\ buffer' = [buffer EXCEPT ![Slot(Succ(tail))] = pmsg]
    /\ ppc' = "publish"
    /\ UNCHANGED <<head, tail, pmsg, cpc, chead, got, due>>

WriteSlot ==
    /\ ppc = "write"
    /\ buffer' = [buffer EXCEPT ![Slot(tail)] = pmsg]
    /\ ppc' = "publish"
    /\ UNCHANGED <<head, tail, pmsg, cpc, chead, got, due>>

\* The release store of tail_; enqueue returns true.
PublishTail ==
    /\ ppc = "publish"
    /\ tail' = Succ(tail)
    /\ ppc' = "idle"
    /\ UNCHANGED <<buffer, head, pmsg, cpc, chead, got, due>>

-----------------------------------------------------------------------------
(* dequeue.  head_ is written by the consumer alone.                       *)

\* head_ equals tail_: return nullptr.
FoundEmpty ==
    /\ cpc = "idle"
    /\ head = tail
    /\ got' = NULL
    /\ due' = NULL
    /\ UNCHANGED <<buffer, head, tail, ppc, pmsg, cpc, chead>>

\* Mutant: the emptiness test of dequeue is lost.
FoundMessageUnchecked ==
    /\ cpc = "idle"
    /\ cpc' = "take"
    /\ UNCHANGED <<buffer, head, tail, ppc, pmsg, chead, got, due>>

FoundMessage ==
    /\ cpc = "idle"
    /\ head # tail
    /\ cpc' = "take"
    /\ UNCHANGED <<buffer, head, tail, ppc, pmsg, chead, got, due>>

\* head_.fetch_add(1): from here on the producer counts the slot as free.
TakeHead ==
    /\ cpc = "take"
    /\ chead' = head
    /\ head' = Succ(head)
    /\ due' = buffer[Slot(head)]
    /\ cpc' = "read"
    /\ UNCHANGED <<buffer, tail, ppc, pmsg, got>>

\* The slot is read after the slot was given back.
ReadSlot ==
    /\ cpc = "read"
    /\ got' = buffer[Slot(chead)]
    /\ cpc' = "idle"
    /\ UNCHANGED <<buffer, head, tail, ppc, pmsg, chead, due>>

Producer == (\E m \in Msgs : CallEnqueue(m)) \/ CheckFull \/ WriteSlot \/ PublishTail

Consumer == FoundEmpty \/ FoundMessage \/ TakeHead \/ ReadSlot

Next == Producer \/ Consumer

Spec == Init /\ [][Next]_vars

-----------------------------------------------------------------------------
(* Properties.                                                             *)

TypeOK ==
    /\ buffer \in [Slots -> Msgs \cup {NULL}]
    /\ head \in Indices
    /\ tail \in Indices
    /\ ppc \in {"idle", "check", "write", "publish"}
    /\ pmsg \in Msgs \cup {NULL}
    /\ ppc # "idle" => pmsg \in Msgs
    /\ cpc \in {"idle", "take", "read"}
    /\ chead \in Indices
    /\ got \in Msgs \cup {NULL}
    /\ due \in Msgs \cup {NULL}

\* The index up to which slots are written, published or not.
WrittenTail == IF ppc = "publish" THEN Succ(tail) ELSE tail

\* The ring never holds more messages than slots, whatever the wrap-around:
\* enqueue's unsigned test `next_tail - head > capacity` is exact.
NeverOverfull == Dist(WrittenTail, head) <= Capacity

\* The claimed slot still holds the message dequeue claimed, unless the
\* producer has filled the whole ring since: dequeue frees the slot (fetch_add)
\* before it reads it, and only the last free slot is that one.
OverwrittenOnlyWhenFull ==
    cpc = "read" /\ buffer[Slot(chead)] # due => Dist(WrittenTail, head) = Capacity

-----------------------------------------------------------------------------
(* SPSCQueue implements RingQueue.  An enqueue takes effect when the slot  *)
(* is written, a claim when head_ is advanced.                             *)

Ring == INSTANCE RingQueue WITH
    items <- [i \in 1..Dist(WrittenTail, head) |->
                 buffer[Slot((head + i - 1) % IndexMod)]],
    claim <- IF cpc = "read" THEN buffer[Slot(chead)] ELSE NULL,
    out   <- got

\* Every behaviour of the ring is one of the lossy-lap FIFO of RingQueue:
\* messages keep their order, and at most the claimed one is replaced.
ImplementsRingQueue == Ring!Spec
=============================================================================
