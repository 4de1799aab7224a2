------------------------------ MODULE MCQueues ------------------------------
(***************************************************************************)
(* Two of the queues HFT/Queue.hpp offers.  SPSCQueue has two slots and    *)
(* indices that wrap after eight positions, and a message more than there  *)
(* are slots, so that a lap of the ring shows.  moodycamel's queue is      *)
(* explored part by part; which part a behaviour is about is chosen at its *)
(* start, and the others stand still.                                      *)
(***************************************************************************)
EXTENDS SPSCQueue, FiniteSets, TLC

CONSTANTS
    Kinds, Consumers, Blocks, BlockSize, IndexSize, MaxBulk, MaxElements,
    FailingBulk, MaxSpurious,
    ListThreads, Nodes, SHOULD_BE_ON_FREELIST

\* The bit of the free list lies above every count its threads can reach, as
\* 0x80000000 does for fewer than 2^31 threads.
ASSUME FreeListAssumption ==
    /\ IsFiniteSet(ListThreads)
    /\ IsFiniteSet(Nodes) /\ NULL \notin Nodes
    /\ SHOULD_BE_ON_FREELIST \in Nat
    /\ SHOULD_BE_ON_FREELIST > Cardinality(ListThreads) + 1

ASSUME CounterAssumption == IsFiniteSet(Consumers) /\ MaxBulk \in Nat

\* No block is the null pointer, and neither it nor the mark of an unused entry
\* is an index.
ASSUME IndexAssumption ==
    /\ BlockSize \in Nat \ {0} /\ IndexSize \in Nat \ {0}
    /\ NULL \notin Blocks /\ NULL \notin Nat

VARIABLES
    part,    \* "spsc", or the part of moodycamel's queue
    kind, tailIndex, headIndex, dequeueOptimisticCount, dequeueOvercommit,
    tailBlock, elements, emptied, next, freeCount, entries, headers, slotsUsed,
    front, producer, consumer, destroyed,
    freeListHead, freeListRefs, freeListNext, out, lister

subQueue == <<kind, tailIndex, headIndex, dequeueOptimisticCount,
              dequeueOvercommit, tailBlock, elements, emptied, next, freeCount,
              entries, headers, slotsUsed, front, producer, consumer, destroyed>>
freeList == <<freeListHead, freeListRefs, freeListNext, out, lister>>

SubQueue == INSTANCE MoodyProducer
FreeList == INSTANCE MoodyFreeList WITH Threads <- ListThreads, thread <- lister

MCInit ==
    /\ Init /\ SubQueue!Init /\ FreeList!Init
    /\ part \in {"spsc", "subqueue", "freelist"}
    /\ part = "subqueue" \/ kind = "implicit"

MCNext ==
    /\ \/ part = "spsc" /\ Next /\ UNCHANGED <<subQueue, freeList>>
       \/ part = "subqueue" /\ SubQueue!Next /\ UNCHANGED <<vars, freeList>>
       \/ part = "freelist" /\ FreeList!Next /\ UNCHANGED <<vars, subQueue>>
    /\ UNCHANGED part

MCSpec == MCInit /\ [][MCNext]_<<part, vars, subQueue, freeList>>

\* Consumers and blocks are only compared with each other.
Symmetry == Permutations(Consumers) \cup Permutations(Blocks)

-----------------------------------------------------------------------------
\* No consumer of a sub-queue claims an element before it is there, however
\* many add themselves to dequeueOptimisticCount at once.
NeverPastTail == part = "subqueue" => SubQueue!NeverPastTail

\* The block index leads every claimed element of a sub-queue to its block.
ReadsItsOwn == part = "subqueue" => SubQueue!ReadsItsOwn

\* Blocks are free or in use, once, and the destructor gives back the rest.
BlocksOwnedOnce == part = "subqueue" => SubQueue!BlocksOwnedOnce

\* The free list of blocks hands out a node once and loses none.
FreeListExact == part = "freelist" => FreeList!FreeListExact
=============================================================================
