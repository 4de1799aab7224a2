---------------------------- MODULE MCOrderBook ----------------------------
(***************************************************************************)
(* The sequential structures with bookkeeping that every call must keep    *)
(* right.  The order books have two orders, and one that lost its id, on   *)
(* four price levels, so that a scan has two levels to choose from; the    *)
(* reference counts have three owners and two observers of two objects;    *)
(* two vectors grow to four elements; the feeds have two names, and post   *)
(* more than a feed shows.                                                 *)
(***************************************************************************)
EXTENDS OrderBook, TLC

CONSTANTS
    SharedPtrs, WeakPtrs, ControlBlocks, NONE,
    Vecs, Allocations, Elements, Sizes, MaxCapacity,
    Names, Newest, MaxPosts, MaxFeed

VARIABLES
    part,   \* "book", "pointers", "vectors" or "feeds"
    control, heap,
    vec, vecHeap, contents, trivial,
    design, timestamp, events, follows, userFeed, source, late

pointers == <<control, heap>>
vectors == <<vec, vecHeap, contents, trivial>>
feeds == <<design, timestamp, events, follows, userFeed, source, late>>

Pointers == INSTANCE RefCounts
Vectors == INSTANCE Vector WITH heap <- vecHeap
Feeds == INSTANCE NewsFeeds

\* A pointer variable is of one kind, there are finitely many, and a control
\* block is neither the null pointer nor the mark of a destroyed one.
ASSUME PointerAssumption ==
    /\ IsFiniteSet(SharedPtrs) /\ IsFiniteSet(WeakPtrs)
    /\ SharedPtrs \cap WeakPtrs = {}
    /\ NULL \notin ControlBlocks /\ NONE \notin ControlBlocks /\ NULL # NONE

\* operator new returns no null pointer, and neither the mark of a vector that is
\* not there nor the null pointer is a record.
ASSUME VectorAssumption ==
    /\ NULL \notin Allocations /\ Sizes \subseteq Nat
    /\ NULL \notin [room : Nat, elems : Seq(Elements)]
    /\ NONE \notin [data_ : Allocations \cup {NULL}, size_ : Nat, capacity_ : Nat]

MCInit ==
    /\ Init /\ Pointers!Init /\ Vectors!Init /\ Feeds!Init
    /\ part \in {"book", "pointers", "vectors", "feeds"}
    /\ part # "book" => kind = "hft"
    /\ part # "vectors" => trivial
    /\ part # "feeds" => design = "stocks"

MCNext ==
    /\ \/ part = "book" /\ Next /\ UNCHANGED <<pointers, vectors, feeds>>
       \/ part = "pointers" /\ Pointers!Next /\ UNCHANGED <<vars, vectors, feeds>>
       \/ part = "vectors" /\ Vectors!Next /\ UNCHANGED <<vars, pointers, feeds>>
       \/ part = "feeds" /\ Feeds!Next /\ UNCHANGED <<vars, pointers, vectors>>
    /\ UNCHANGED part

MCSpec == MCInit /\ [][MCNext]_<<part, vars, pointers, vectors, feeds>>

\* Ids and addresses are only looked up.
Symmetry == Permutations(OrderIds) \cup Permutations(Allocations)

-----------------------------------------------------------------------------
\* SharedPtr and WeakPtr delete the object with its last owner, and the control
\* block with the last pointer to it.
DeletedWithLastPointer == part = "pointers" => Pointers!DeletedWithLastPointer

\* The elements of zam::vector stay what the calls stored, in memory of its own
\* that is freed once and, unless moved over, without elements, until a vector
\* of a type that needs construction is filled by its constructor.
ElementsAccounted == part = "vectors" => Vectors!ElementsAccounted

\* The two StockFeedManagers, and the two Twitters, show the same.
FeedsAgree == part = "feeds" => Feeds!FeedsAgree
=============================================================================
