--------------------------- MODULE MoodyProducer ---------------------------
(***************************************************************************)
(* One sub-queue of moodycamel::ConcurrentQueue, the queue behind          *)
(* MoodycamelLockFreeQueue: an ImplicitProducer, or an ExplicitProducer    *)
(* when the kind says so, which one thread enqueues to and any number of   *)
(* consumers dequeue from.  Elements live in blocks; a block index finds   *)
(* the block of an index.                                                  *)
(*                                                                         *)
(* Element i is the number i.  A call for one element and a bulk call for  *)
(* one take the same steps, so a count is the only difference between      *)
(* them.  T is a pointer, as it is in Queue.hpp: its moves cannot throw.   *)
(* Indices stay far from wrapping, so no sub-queue is ever "full", and     *)
(* malloc fails only where a failure is a choice below.                    *)
(***************************************************************************)
EXTENDS Integers, Sequences, FiniteSets, FiniteSetsExt, SequencesExt

CONSTANTS
    Kinds,        \* "implicit" and "explicit", the ones explored
    Consumers,
    Blocks,       \* the blocks of the initial pool and of the heap
    BlockSize,    \* BLOCK_SIZE
    IndexSize,    \* the first size of the block index
    MaxBulk,      \* bound: the most elements of one call
    MaxElements,  \* bound: elements enqueued in a behaviour
    FailingBulk,  \* the kinds whose bulk calls may run out of memory half-way
    MaxSpurious,  \* bound: attempts that find their element gone
    NULL

VARIABLES
    kind,
    tailIndex, headIndex, dequeueOptimisticCount, dequeueOvercommit,
    tailBlock,
    elements,     \* elements[b][o]: the element at offset o of block b
    emptied,      \* emptied[b]: the emptyFlags that are set in b, or in an
                  \* implicit producer elementsCompletelyDequeued
    next,         \* next[b]: the block after b in an explicit ring
    freeCount,    \* freeCount[b]: how often b is in the pool
    entries,      \* the BlockIndexEntry objects, <<key, value>> each
    headers,      \* the BlockIndexHeaders; blockIndex points to the last
    slotsUsed,    \* pr_blockIndexSlotsUsed
    front,        \* pr_blockIndexFront
    producer, consumer,  \* where each thread is and what it holds
    destroyed     \* the elements ~T() was called on by the destructor

counters == <<tailIndex, headIndex, dequeueOptimisticCount, dequeueOvercommit>>
blocks == <<tailBlock, elements, emptied, next, freeCount>>
index == <<entries, headers, slotsUsed, front>>
vars == <<kind, counters, blocks, index, producer, consumer, destroyed>>

Idle == [pc |-> "idle"]
BlockOf(i) == i \div BlockSize
Offset(i) == i % BlockSize
Entry(key, value) == [key |-> key, value |-> value]
Unused == Entry(NULL, NULL)
Header(mark, slots) == [mark |-> mark, slots |-> slots]
Size(h) == Len(headers[h].slots)
Slot(h, n) == headers[h].slots[(n % Size(h)) + 1]
Top == Len(headers)

Offsets == 0..BlockSize - 1
NoneEmptied == IF kind = "explicit" THEN {} ELSE 0
AllEmptied == IF kind = "explicit" THEN Offsets ELSE BlockSize
IsEmpty(b) == emptied[b] = AllEmptied

Init ==
    /\ kind \in Kinds
    /\ tailIndex = 0 /\ headIndex = 0
    /\ dequeueOptimisticCount = 0 /\ dequeueOvercommit = 0
    /\ tailBlock = NULL
    /\ elements = [b \in Blocks |-> [o \in Offsets |-> NULL]]
    /\ emptied = [b \in Blocks |-> NoneEmptied]
    /\ next = [b \in Blocks |-> NULL]
    /\ freeCount = [b \in Blocks |-> 1]
    /\ entries = [e \in 1..IndexSize |-> Unused]
    /\ headers = <<Header(IndexSize - 1, [n \in 1..IndexSize |-> n])>>
    /\ slotsUsed = 0 /\ front = 0
    /\ producer = Idle
    /\ consumer = [c \in Consumers |-> Idle]
    /\ destroyed = {}

Pool == {b \in Blocks : freeCount[b] > 0}

-----------------------------------------------------------------------------
(* enqueue and enqueue_bulk: blocks first, then the elements, then the tail *)

CallEnqueue(n) ==
    /\ producer = Idle
    /\ tailIndex + n <= MaxElements
    /\ \/ n = 1 \/ kind \in FailingBulk
       \/ BlockOf(tailIndex + n - 1) - BlockOf(tailIndex - 1) <= Cardinality(Pool)
    /\ producer' = [pc |-> IF kind = "explicit" THEN "reuse" ELSE "index",
                    count |-> n, got |-> <<>>, start |-> tailBlock,
                    front |-> front, used |-> slotsUsed]
    /\ UNCHANGED <<kind, counters, blocks, index, consumer, destroyed>>

\* The blocks that the call still lacks, and the first index of the next.
Missing ==
    BlockOf(tailIndex + producer.count - 1) - BlockOf(tailIndex - 1)
        - Len(producer.got)
NextBase == (BlockOf(tailIndex - 1) + Len(producer.got) + 1) * BlockSize

firstAllocatedBlock == IF producer.got = <<>> THEN NULL ELSE Head(producer.got)
Got(b, pc) == producer' = [producer EXCEPT !.got = Append(@, b), !.pc = pc]

\* ImplicitProducer::new_block_index: the entries are shared with the old
\* index, which a consumer may still be looking at.
GrownImplicit ==
    LET old == headers[Top]
        n == Size(Top)
        turned == [i \in 1..n |-> Slot(Top, old.mark + i)]
        fresh == [i \in 1..n |-> Len(entries) + i]
    IN  Header(n - 1, turned \o fresh)

\* insert_block_index_entry, in the index as it is or in one twice as large.
IndexBlock ==
    /\ producer.pc = "index" /\ Missing > 0
    /\ LET e == Slot(Top, headers[Top].mark + 1)
           h == GrownImplicit
           f == h.slots[Size(Top) + 1]
       IN  \/ /\ entries[e].key = NULL \/ entries[e].value = NULL
              /\ entries' = [entries EXCEPT ![e].key = NextBase]
              /\ headers' = [headers EXCEPT ![Top].mark = (@ + 1) % Size(Top)]
           \/ /\ entries[e].key # NULL /\ entries[e].value # NULL
              /\ entries' = entries \o [i \in 1..Size(Top) |->
                                IF i = 1 THEN Entry(NextBase, NULL) ELSE Unused]
              /\ headers' = Append(headers, [h EXCEPT !.mark = @ + 1])
    /\ producer' = [producer EXCEPT !.pc = "block"]
    /\ UNCHANGED <<kind, counters, blocks, slotsUsed, front, consumer, destroyed>>

\* Mutant: reset_empty is forgotten.
TakeBlockNoReset(b) ==
    /\ producer.pc = "block" /\ b \in Pool
    /\ freeCount' = [freeCount EXCEPT ![b] = @ - 1]
    /\ tailBlock' = b
    /\ entries' = [entries EXCEPT ![Slot(Top, headers[Top].mark)].value = b]
    /\ Got(b, "index")
    /\ UNCHANGED <<kind, counters, elements, emptied, next, headers, slotsUsed,
                   front, consumer, destroyed>>

\* requisition_block and reset_empty; the block goes into the index.
TakeBlock(b) ==
    /\ producer.pc = "block" /\ b \in Pool
    /\ freeCount' = [freeCount EXCEPT ![b] = @ - 1]
    /\ emptied' = [emptied EXCEPT ![b] = NoneEmptied]
    /\ tailBlock' = b
    /\ entries' = [entries EXCEPT ![Slot(Top, headers[Top].mark)].value = b]
    /\ Got(b, "index")
    /\ UNCHANGED <<kind, counters, elements, next, headers, slotsUsed, front,
                   consumer, destroyed>>

\* No memory for the index ("index") or for a block ("block"): the entries
\* of this call are emptied, the index tail is rewound and the blocks go back.
GiveUpImplicit ==
    /\ \/ /\ producer.pc = "index" /\ Missing > 0
          /\ entries[Slot(Top, headers[Top].mark + 1)].value # NULL
       \/ producer.pc = "block" /\ Pool = {}
    /\ LET k == Len(producer.got) + (IF producer.pc = "block" THEN 1 ELSE 0)
           undone == {Slot(Top, headers[Top].mark - i) : i \in 0..k - 1}
       IN  /\ entries' = [e \in DOMAIN entries |->
                            IF e \in undone THEN [entries[e] EXCEPT !.value = NULL]
                                            ELSE entries[e]]
           /\ headers' = [headers EXCEPT ![Top].mark = (@ - k) % Size(Top)]
    /\ freeCount' = [b \in Blocks |->
                       freeCount[b] + Cardinality({i \in DOMAIN producer.got : producer.got[i] = b})]
    /\ tailBlock' = producer.start
    /\ producer' = Idle
    /\ UNCHANGED <<kind, counters, elements, emptied, next, slotsUsed, front,
                   consumer, destroyed>>

\* An explicit producer's entry for the block at pr_blockIndexFront.
PutEntry(b) ==
    /\ entries' = [entries EXCEPT ![Slot(Top, front)] = Entry(NextBase, b)]
    /\ front' = (front + 1) % Size(Top)

\* Mutant: the block ahead is taken whether or not it is empty.
AheadUnchecked ==
    IF tailBlock = NULL THEN FALSE ELSE next[tailBlock] # firstAllocatedBlock

\* The block ahead in the ring is empty and is not one this call has taken.
Ahead ==
    IF tailBlock = NULL THEN FALSE
    ELSE /\ IsEmpty(next[tailBlock])
         /\ next[tailBlock] # firstAllocatedBlock

ReuseAhead ==
    /\ producer.pc = "reuse" /\ Missing > 0 /\ Ahead
    /\ tailBlock' = next[tailBlock]
    /\ PutEntry(tailBlock')
    /\ Got(tailBlock', "reuse")
    /\ UNCHANGED <<kind, counters, elements, emptied, next, freeCount, headers,
                   slotsUsed, consumer, destroyed>>

NoneAhead ==
    /\ producer.pc = "reuse" /\ Missing > 0 /\ ~Ahead
    /\ producer' = [producer EXCEPT !.pc = "new"]
    /\ UNCHANGED <<kind, counters, blocks, index, consumer, destroyed>>

\* ExplicitProducer::new_block_index: the used entries are copied.
GrowExplicit ==
    /\ producer.pc = "new" /\ Missing > 0
    /\ slotsUsed = Size(Top)
    /\ LET n == Size(Top)
           m == Len(entries)
       IN  /\ entries' = entries \o [i \in 1..2 * n |->
                            IF i <= n THEN entries[Slot(Top, front + i - 1)] ELSE Unused]
           /\ headers' = Append(headers,
                            Header(producer.used - 1, [i \in 1..2 * n |-> m + i]))
    /\ front' = slotsUsed
    /\ producer' = [producer EXCEPT !.front = producer.used]
    /\ UNCHANGED <<kind, counters, blocks, slotsUsed, consumer, destroyed>>

\* A new block is linked into the ring behind the tail block.
NewBlock(b) ==
    /\ producer.pc = "new" /\ Missing > 0
    /\ slotsUsed # Size(Top)
    /\ b \in Pool
    /\ freeCount' = [freeCount EXCEPT ![b] = @ - 1]
    /\ emptied' = [emptied EXCEPT ![b] = AllEmptied]
    /\ next' = IF tailBlock = NULL THEN [next EXCEPT ![b] = b]
               ELSE [next EXCEPT ![b] = next[tailBlock], ![tailBlock] = b]
    /\ tailBlock' = b
    /\ slotsUsed' = slotsUsed + 1
    /\ PutEntry(b)
    /\ Got(b, "new")
    /\ UNCHANGED <<kind, counters, elements, headers, consumer, destroyed>>

\* No memory: the bookkeeping goes back, the blocks stay in the ring.
GiveUpExplicit ==
    /\ producer.pc = "new" /\ Missing > 0
    /\ producer.count = 1 \/ kind \in FailingBulk
    /\ slotsUsed = Size(Top) \/ Pool = {}
    /\ front' = producer.front
    /\ slotsUsed' = producer.used
    /\ tailBlock' = IF producer.start # NULL THEN producer.start
                    ELSE firstAllocatedBlock
    /\ producer' = Idle
    /\ UNCHANGED <<kind, counters, elements, emptied, next, freeCount, entries,
                   headers, consumer, destroyed>>

\* What is in the blocks once the elements of the call are constructed: in
\* what is left of the tail block, and then in the blocks the call got.
Constructed ==
    LET s == tailIndex
        Home(i) == IF BlockOf(i) = BlockOf(s - 1) THEN producer.start
                   ELSE producer.got[BlockOf(i) - BlockOf(s - 1)]
        mine == s..s + producer.count - 1
    IN  [b \in Blocks |-> [o \in Offsets |->
            LET i == {j \in mine : Home(j) = b /\ Offset(j) = o}
            IN  IF i = {} THEN elements[b][o] ELSE CHOOSE j \in i : TRUE]]

\* Every block is there.  An explicit producer marks its blocks used and
\* stores the index front first.
Write ==
    /\ producer.pc \in {"index", "reuse", "new"} /\ Missing <= 0
    /\ elements' = Constructed
    /\ IF kind = "explicit" /\ producer.got # <<>>
       THEN /\ emptied' = [b \in Blocks |->
                              IF b \in ToSet(producer.got) THEN NoneEmptied ELSE emptied[b]]
            /\ headers' = [headers EXCEPT ![Top].mark = (front - 1) % Size(Top)]
       ELSE UNCHANGED <<emptied, headers>>
    /\ producer' = [pc |-> "publish", count |-> producer.count]
    /\ UNCHANGED <<kind, counters, tailBlock, next, freeCount, entries, slotsUsed,
                   front, consumer, destroyed>>

Publish ==
    /\ producer.pc = "publish"
    /\ tailIndex' = tailIndex + producer.count
    /\ producer' = Idle
    /\ UNCHANGED <<kind, headIndex, dequeueOptimisticCount, dequeueOvercommit,
                   blocks, index, consumer, destroyed>>

-----------------------------------------------------------------------------
(* dequeue and dequeue_bulk: the counters                                  *)

Step(c, r) == consumer' = [consumer EXCEPT ![c] = r]
OnlyStep(c, r) == Step(c, r) /\ UNCHANGED <<kind, counters, blocks, index, producer, destroyed>>

LoadTail(c, max) ==
    /\ producer.pc # "destroyed" /\ consumer[c] = Idle
    /\ dequeueOvercommit <= MaxSpurious
    /\ OnlyStep(c, [pc |-> "overcommit", max |-> max, tail |-> tailIndex])

LoadOvercommit(c) ==
    /\ consumer[c].pc = "overcommit"
    /\ OnlyStep(c, [pc |-> "check", max |-> consumer[c].max, tail |-> consumer[c].tail,
                    over |-> dequeueOvercommit])

\* Elements seem to be there, or not.
Check(c) ==
    /\ consumer[c].pc = "check"
    /\ LET s == consumer[c]
           desired == s.tail - (dequeueOptimisticCount - s.over)
       IN  OnlyStep(c, IF desired <= 0 THEN Idle
                       ELSE [pc |-> "count", over |-> s.over,
                             desired |-> Min({desired, s.max})])

AddOptimistic(c) ==
    /\ consumer[c].pc = "count"
    /\ dequeueOptimisticCount' = dequeueOptimisticCount + consumer[c].desired
    /\ Step(c, [pc |-> "reload", desired |-> consumer[c].desired,
                from |-> dequeueOptimisticCount - consumer[c].over])
    /\ UNCHANGED <<kind, tailIndex, headIndex, dequeueOvercommit, blocks, index,
                   producer, destroyed>>

\* Mutant: the tail is not read again.
ReloadTailTrusting(c) ==
    /\ consumer[c].pc = "reload"
    /\ OnlyStep(c, [pc |-> "claim", n |-> consumer[c].desired, rest |-> 0])

\* The tail is read again: how many of the elements are really there.
ReloadTail(c) ==
    /\ consumer[c].pc = "reload"
    /\ LET s == consumer[c]
           actual == Max({0, Min({s.desired, tailIndex - s.from})})
       IN  OnlyStep(c, [pc |-> IF actual < s.desired THEN "giveback" ELSE "claim",
                        n |-> actual, rest |-> s.desired - actual])

AddOvercommit(c) ==
    /\ consumer[c].pc = "giveback"
    /\ dequeueOvercommit' = dequeueOvercommit + consumer[c].rest
    /\ Step(c, IF consumer[c].n = 0 THEN Idle ELSE [consumer[c] EXCEPT !.pc = "claim", !.rest = 0])
    /\ UNCHANGED <<kind, tailIndex, headIndex, dequeueOptimisticCount, blocks,
                   index, producer, destroyed>>

ClaimHead(c) ==
    /\ consumer[c].pc = "claim"
    /\ headIndex' = headIndex + consumer[c].n
    /\ Step(c, [pc |-> "header", at |-> headIndex, end |-> headIndex + consumer[c].n])
    /\ UNCHANGED <<kind, tailIndex, dequeueOptimisticCount, dequeueOvercommit,
                   blocks, index, producer, destroyed>>

-----------------------------------------------------------------------------
(* dequeue and dequeue_bulk: the elements, a block at a time               *)

LoadHeader(c) ==
    /\ consumer[c].pc = "header"
    /\ OnlyStep(c, [pc |-> "mark", at |-> consumer[c].at, end |-> consumer[c].end, header |-> Top])

LoadMark(c) ==
    /\ consumer[c].pc = "mark"
    /\ LET s == consumer[c]
       IN  OnlyStep(c, [pc |-> "locate", at |-> s.at, end |-> s.end, header |-> s.header,
                        slot |-> headers[s.header].mark])

\* get_block_index_index_for_index and its like in ExplicitProducer::dequeue:
\* from the newest entry back to the one of this index.
Locate(c) ==
    /\ consumer[c].pc = "locate"
    /\ LET s == consumer[c]
           base == entries[Slot(s.header, s.slot)].key
       IN  OnlyStep(c, [s EXCEPT !.pc = "read",
                                 !.slot = (@ + BlockOf(s.at) - BlockOf(base)) % Size(s.header)])

\* The elements of this block up to the end of the claim.
Here(s) == {i \in s.at..s.end - 1 : BlockOf(i) = BlockOf(s.at)}

ReadElements(c) ==
    /\ consumer[c].pc = "read"
    /\ LET s == consumer[c]
           b == entries[Slot(s.header, s.slot)].value
       IN  /\ Step(c, [pc |-> "empty", at |-> s.at, end |-> s.end, header |-> s.header,
                       slot |-> s.slot, block |-> b,
                       read |-> [i \in Here(s) |-> elements[b][Offset(i)]]])
           /\ elements' = [elements EXCEPT ![b] =
                [o \in DOMAIN @ |-> IF o \in {Offset(i) : i \in Here(s)} THEN NULL ELSE @[o]]]
    /\ UNCHANGED <<kind, counters, tailBlock, emptied, next, freeCount, index,
                   producer, destroyed>>

\* On to the next block of the claim, if there is one.
Onward(s) ==
    LET i == s.at + Cardinality(Here(s))
    IN  IF i = s.end THEN Idle
        ELSE [pc |-> "read", at |-> i, end |-> s.end, header |-> s.header,
              slot |-> (s.slot + 1) % Size(s.header)]

\* set_empty, set_many_empty.  The last consumer of an implicit producer's
\* block takes it out of the index and frees it.
SetEmpty(c) ==
    /\ consumer[c].pc = "empty"
    /\ LET s == consumer[c]
           done == IF kind = "explicit"
                   THEN emptied[s.block] \cup {Offset(i) : i \in Here(s)}
                   ELSE emptied[s.block] + Cardinality(Here(s))
       IN  /\ emptied' = [emptied EXCEPT ![s.block] = done]
           /\ Step(c, IF kind = "implicit" /\ done = AllEmptied
                      THEN [s EXCEPT !.pc = "unlink"] ELSE Onward(s))
    /\ UNCHANGED <<kind, counters, tailBlock, elements, next, freeCount, index,
                   producer, destroyed>>

Unlink(c) ==
    /\ consumer[c].pc = "unlink"
    /\ LET s == consumer[c]
       IN  /\ entries' = [entries EXCEPT ![Slot(s.header, s.slot)].value = NULL]
           /\ Step(c, [s EXCEPT !.pc = "free"])
    /\ UNCHANGED <<kind, counters, blocks, headers, slotsUsed, front, producer, destroyed>>

FreeBlock(c) ==
    /\ consumer[c].pc = "free"
    /\ freeCount' = [freeCount EXCEPT ![consumer[c].block] = @ + 1]
    /\ Step(c, Onward(consumer[c]))
    /\ UNCHANGED <<kind, counters, tailBlock, elements, emptied, next, index,
                   producer, destroyed>>

-----------------------------------------------------------------------------
(* The destructors, when every call has returned                           *)

\* ~ImplicitProducer: every block between head and tail, the last of them
\* being the tail block; a drained tail block only while it is half used.
DestroyImplicit ==
    LET mark == headers[Top].mark
        Lookup(n) == entries[Slot(Top, mark + n - BlockOf(entries[Slot(Top, mark)].key))].value
        older == BlockOf(headIndex)..BlockOf(tailIndex - 1) - 1
        last == IF /\ tailBlock # NULL
                   /\ headIndex # tailIndex \/ Offset(tailIndex) # 0
                THEN {tailBlock} ELSE {}
    IN  /\ destroyed' = {elements[Lookup(BlockOf(i))][Offset(i)] : i \in headIndex..tailIndex - 1}
        /\ freeCount' = [b \in Blocks |-> freeCount[b]
                            + Cardinality({n \in older : Lookup(n) = b})
                            + Cardinality(last \cap {b})]

\* ~ExplicitProducer: every block of the ring; of the half dequeued block the
\* rest, of the tail block what is before the tail.
DestroyExplicit ==
    LET ring == {b \in Blocks : next[b] # NULL}
        oldest == CHOOSE i \in 0..slotsUsed - 1 :
            LET Base(j) == entries[Slot(Top, front - slotsUsed + j)].key IN
            /\ Base(i) + BlockSize >= headIndex
            /\ \A j \in 0..i - 1 : Base(j) + BlockSize < headIndex
        half == IF tailBlock # NULL /\ Offset(headIndex) # 0
                THEN entries[Slot(Top, front - slotsUsed + oldest)].value ELSE NULL
        From(b) == IF b = half THEN Offset(headIndex) ELSE 0
        To(b) == IF b = tailBlock THEN Offset(tailIndex - 1) + 1 ELSE BlockSize
    IN  /\ destroyed' = UNION {{elements[b][o] : o \in From(b)..To(b) - 1} :
                                   b \in {r \in ring : ~IsEmpty(r)}}
        /\ freeCount' = [b \in Blocks |-> freeCount[b] + (IF b \in ring THEN 1 ELSE 0)]

Destroy ==
    /\ producer = Idle
    /\ \A c \in Consumers : consumer[c] = Idle
    /\ IF kind = "implicit" THEN DestroyImplicit ELSE DestroyExplicit
    /\ producer' = [pc |-> "destroyed"]
    /\ UNCHANGED <<kind, counters, tailBlock, elements, emptied, next, index, consumer>>

-----------------------------------------------------------------------------
Next ==
    \/ \E n \in 1..MaxBulk : CallEnqueue(n)
    \/ IndexBlock \/ GiveUpImplicit
    \/ \E b \in Blocks : TakeBlock(b) \/ NewBlock(b)
    \/ ReuseAhead \/ NoneAhead \/ GrowExplicit \/ GiveUpExplicit
    \/ Write \/ Publish
    \/ \E c \in Consumers :
        \/ \E max \in 1..MaxBulk : LoadTail(c, max)
        \/ LoadOvercommit(c) \/ Check(c) \/ AddOptimistic(c) \/ ReloadTail(c)
        \/ AddOvercommit(c) \/ ClaimHead(c) \/ LoadHeader(c) \/ LoadMark(c)
        \/ Locate(c) \/ ReadElements(c) \/ SetEmpty(c) \/ Unlink(c) \/ FreeBlock(c)
    \/ Destroy

Spec == Init /\ [][Next]_vars

-----------------------------------------------------------------------------
\* The two counters of the dequeue side let no consumer claim an element
\* before it is there: the head never passes the tail, however many
\* consumers added themselves to dequeueOptimisticCount at once.
NeverPastTail == headIndex <= tailIndex

\* The index leads every claimed element to the block it is in, while
\* blocks are freed, reused and the index grows, and it is read only once.
ReadsItsOwn ==
    \A c \in Consumers :
        consumer[c].pc \in {"empty", "unlink", "free"} =>
            \A i \in DOMAIN consumer[c].read : consumer[c].read[i] = i

\* A free block is free once and in no entry; the destructor destroys the
\* elements nobody dequeued and gives back exactly the blocks still in use.
BlocksOwnedOnce ==
    IF producer.pc = "destroyed"
    THEN /\ destroyed = headIndex..tailIndex - 1
         /\ \A b \in Blocks : freeCount[b] = 1
    ELSE \A b \in Blocks : /\ freeCount[b] <= 1
                           /\ \A e \in DOMAIN entries :
                                entries[e].value = b => freeCount[b] = 0
=============================================================================
