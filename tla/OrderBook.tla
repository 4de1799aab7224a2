----------------------------- MODULE OrderBook -----------------------------
(***************************************************************************)
(* OrderBook<false> of HFT/OrderBook.hpp ("hft"), and the two books of     *)
(* c++20 it grew from, MockOrderBook.cpp ("pooled", which copies an order  *)
(* into a pool) and MockOrderBook_ZeroCopy.cpp ("zerocopy"): orders by id, *)
(* the quantity that rests at each price level of each side, and the index *)
(* of the best level of each side.                                         *)
(*                                                                         *)
(* orderMap_ is used through operator[], contains and erase only, for      *)
(* which HashMap shows its FixedSizedChainingHashMap to be a map; so it is *)
(* a function here.  The Order a caller passes in is only read and written *)
(* through the book, so an entry holds the order itself.  A call that      *)
(* throws ("Order not found", "Order pool is full") changes nothing and is *)
(* no step.                                                                *)
(***************************************************************************)
EXTENDS Integers, Sequences, FiniteSetsExt

CONSTANTS
    Kinds,          \* the books explored
    OrderIds,       \* the order ids used
    MaxPriceLevels, \* Const::MaxPriceLevels
    Quantities,     \* the quantities of inserts and updates
    FallsShort,     \* the prices, in ticks, whose product with TicksPerUnit
                    \* comes out below the tick in floating point
    PoolSize,       \* POOL_SIZE of the pooled book
    NULL,           \* no order
    MaxGhosts       \* bound: how often an order is inserted under an id in use

Levels == 0..(MaxPriceLevels - 1)
Prices == Levels    \* in ticks

Order == [price : Prices, quantity : Quantities, is_buy : BOOLEAN]

ASSUME BookAssumption ==
    /\ IsFiniteSet(OrderIds)
    /\ NULL \notin Order
    /\ MaxPriceLevels \in Nat \ {0}
    /\ Quantities \subseteq Nat
    /\ FallsShort \subseteq 1..(MaxPriceLevels - 1)
    /\ PoolSize \in Nat
    /\ MaxGhosts \in Nat

VARIABLES
    kind,
    orderMap,       \* orderMap_
    bidLevels,      \* bidLevels_
    askLevels,      \* askLevels_
    bestBidIndex,   \* bestBidIndex_
    bestAskIndex,   \* bestAskIndex_
    wild,           \* a scan has left the levels at the wrong end
    ghosts,         \* history: the orders that lost their id to a later insert
    zeroed          \* history: an order had quantity 0

vars == <<kind, orderMap, bidLevels, askLevels, bestBidIndex, bestAskIndex, wild,
          ghosts, zeroed>>

\* A best_bid_index of -1 is the largest size_t in the zerocopy book.
Init ==
    /\ kind \in Kinds
    /\ orderMap = [id \in OrderIds |-> NULL]
    /\ bidLevels = [i \in Levels |-> 0]
    /\ askLevels = [i \in Levels |-> 0]
    /\ bestBidIndex = -1
    /\ bestAskIndex = MaxPriceLevels
    /\ wild = FALSE
    /\ ghosts = <<>>
    /\ zeroed = FALSE

\* The cast to int truncates: 0.29 * 100 is 28.999..., level 28.
priceToIndex(p) == IF p \in FallsShort THEN p - 1 ELSE p

-----------------------------------------------------------------------------
\* insert does not look whether its id is in use.  The order that loses its
\* entry stays in its price level, and in the pool.
Displace(id) ==
    \/ orderMap[id] = NULL /\ UNCHANGED ghosts
    \/ /\ orderMap[id] # NULL
       /\ Len(ghosts) < MaxGhosts
       /\ ghosts' = Append(ghosts, orderMap[id])

\* order_count of the pooled book: cancel alone gives memory back.
OrderCount == Cardinality({id \in OrderIds : orderMap[id] # NULL}) + Len(ghosts)

Storage == kind = "pooled" => OrderCount < PoolSize

\* No index is above the largest size_t.
RaiseBid(idx) ==
    IF kind = "zerocopy" /\ bestBidIndex = -1 THEN -1 ELSE Max({idx, bestBidIndex})

InsertBid(id, p, q) ==
    /\ ~wild /\ Storage
    /\ LET idx == priceToIndex(p)
       IN  /\ orderMap' = [orderMap EXCEPT ![id] =
                              [price |-> p, quantity |-> q, is_buy |-> TRUE]]
           /\ bidLevels' = [bidLevels EXCEPT ![idx] = @ + q]
           /\ bestBidIndex' = RaiseBid(idx)
    /\ Displace(id)
    /\ zeroed' = (zeroed \/ q = 0)
    /\ UNCHANGED <<kind, askLevels, bestAskIndex, wild>>

InsertAsk(id, p, q) ==
    /\ ~wild /\ Storage
    /\ LET idx == priceToIndex(p)
       IN  /\ orderMap' = [orderMap EXCEPT ![id] =
                              [price |-> p, quantity |-> q, is_buy |-> FALSE]]
           /\ askLevels' = [askLevels EXCEPT ![idx] = @ + q]
           /\ bestAskIndex' = Min({idx, bestAskIndex})
    /\ Displace(id)
    /\ zeroed' = (zeroed \/ q = 0)
    /\ UNCHANGED <<kind, bidLevels, bestBidIndex, wild>>

-----------------------------------------------------------------------------
\* Mutant: the scan for the next bid takes the lowest level.
UpdateBidLevelLowest(p, d) ==
    LET idx == priceToIndex(p)
        below == {i \in 0..(idx - 1) : bidLevels[i] > 0}
    IN  /\ kind = "hft"
        /\ bidLevels' = [bidLevels EXCEPT ![idx] = @ + d]
        /\ bestBidIndex' = IF idx = bestBidIndex /\ bidLevels[idx] + d = 0
                           THEN Min(below \cup {idx}) ELSE bestBidIndex
        /\ UNCHANGED <<askLevels, bestAskIndex, wild>>

\* updatePriceLevel<true>: when the best level runs dry, the scan goes down to
\* the next level with a quantity, and to level 0 when there is none.
UpdateBidLevel(p, d) ==
    LET idx == priceToIndex(p)
        below == {i \in 0..(idx - 1) : bidLevels[i] > 0}
    IN  /\ kind = "hft"
        /\ bidLevels' = [bidLevels EXCEPT ![idx] = @ + d]
        /\ bestBidIndex' = IF idx = bestBidIndex /\ bidLevels[idx] + d = 0
                           THEN Max(below \cup {0}) ELSE bestBidIndex
        /\ UNCHANGED <<askLevels, bestAskIndex, wild>>

\* updatePriceLevel<false>, up to level MaxPriceLevels - 1.
UpdateAskLevel(p, d) ==
    LET idx == priceToIndex(p)
        above == {i \in (idx + 1)..(MaxPriceLevels - 1) : askLevels[i] > 0}
    IN  /\ kind = "hft"
        /\ askLevels' = [askLevels EXCEPT ![idx] = @ + d]
        /\ bestAskIndex' = IF idx = bestAskIndex /\ askLevels[idx] + d = 0
                           THEN Min(above \cup {MaxPriceLevels - 1}) ELSE bestAskIndex
        /\ UNCHANGED <<bidLevels, bestBidIndex, wild>>

\* Mutant: an index that is not found again stays.
MockBidLevelStays(p, d) ==
    /\ kind # "hft"
    /\ bidLevels' = [bidLevels EXCEPT ![priceToIndex(p)] = @ + d]
    /\ UNCHANGED <<askLevels, bestAskIndex, bestBidIndex, wild>>

\* update_price_level of the c++20 books: whatever was not found by a scan is
\* level 0.  The zerocopy scan tests an unsigned i for i >= 0 and does not
\* stop at the lowest level.
MockBidLevel(p, d) ==
    LET idx == priceToIndex(p)
        below == {i \in 0..(idx - 1) : bidLevels[i] > 0}
        scans == idx = bestBidIndex /\ bidLevels[idx] + d = 0
    IN  /\ kind # "hft"
        /\ bidLevels' = [bidLevels EXCEPT ![idx] = @ + d]
        /\ bestBidIndex' = IF scans THEN Max(below \cup {0}) ELSE 0
        /\ wild' = (kind = "zerocopy" /\ scans /\ below = {})
        /\ UNCHANGED <<askLevels, bestAskIndex>>

MockAskLevel(p, d) ==
    LET idx == priceToIndex(p)
        above == {i \in (idx + 1)..(MaxPriceLevels - 1) : askLevels[i] > 0}
        scans == idx = bestAskIndex /\ askLevels[idx] + d = 0
    IN  /\ kind # "hft"
        /\ askLevels' = [askLevels EXCEPT ![idx] = @ + d]
        /\ bestAskIndex' = IF scans THEN Min(above \cup {MaxPriceLevels - 1})
                           ELSE MaxPriceLevels - 1
        /\ UNCHANGED <<bidLevels, bestBidIndex, wild>>

updatePriceLevel(order, d) ==
    /\ ~wild
    /\ \/ order.is_buy /\ (UpdateBidLevel(order.price, d) \/ MockBidLevel(order.price, d))
       \/ ~order.is_buy /\ (UpdateAskLevel(order.price, d) \/ MockAskLevel(order.price, d))

\* Mutant: the order keeps its old quantity.
UpdateForgets(id, q) ==
    /\ orderMap[id] # NULL
    /\ updatePriceLevel(orderMap[id], q - orderMap[id].quantity)
    /\ zeroed' = (zeroed \/ q = 0)
    /\ UNCHANGED <<kind, orderMap, ghosts>>

Update(id, q) ==
    /\ orderMap[id] # NULL
    /\ updatePriceLevel(orderMap[id], q - orderMap[id].quantity)
    /\ orderMap' = [orderMap EXCEPT ![id].quantity = q]
    /\ zeroed' = (zeroed \/ q = 0)
    /\ UNCHANGED <<kind, ghosts>>

Cancel(id) ==
    /\ orderMap[id] # NULL
    /\ updatePriceLevel(orderMap[id], -orderMap[id].quantity)
    /\ orderMap' = [orderMap EXCEPT ![id] = NULL]
    /\ UNCHANGED <<kind, ghosts, zeroed>>

\* The quantity that the accessors return.
bestBid == bidLevels[bestBidIndex]
bestAsk == askLevels[bestAskIndex]

Next ==
    \E id \in OrderIds :
        \/ \E q \in Quantities :
              \/ \E p \in Prices : InsertBid(id, p, q) \/ InsertAsk(id, p, q)
              \/ Update(id, q)
        \/ Cancel(id)

Spec == Init /\ [][Next]_vars

-----------------------------------------------------------------------------
(* Properties.                                                             *)

TypeOK ==
    /\ kind \in Kinds
    /\ orderMap \in [OrderIds -> Order \cup {NULL}]
    /\ bidLevels \in [Levels -> Nat]
    /\ askLevels \in [Levels -> Nat]
    /\ bestBidIndex \in Levels \cup {-1}
    /\ bestAskIndex \in Levels \cup {MaxPriceLevels}
    /\ wild \in BOOLEAN
    /\ ghosts \in Seq(Order)
    /\ zeroed \in BOOLEAN

\* What an order adds to level i of a side.
Rests(order, is_buy, i) ==
    IF order # NULL /\ order.is_buy = is_buy /\ priceToIndex(order.price) = i
    THEN order.quantity ELSE 0

\* What the live orders, and the ghosts, add up to at a level of a side.
Resting(is_buy, i) ==
    SumFunction([id \in OrderIds |-> Rests(orderMap[id], is_buy, i)])
Haunting(is_buy, i) ==
    SumFunction([g \in DOMAIN ghosts |-> Rests(ghosts[g], is_buy, i)])

\* Through any sequence of inserts, updates and cancels, a level holds exactly
\* what the live orders of its side put there, and what orders whose id was
\* taken over left behind for good.
LevelsMatchOrders ==
    /\ TypeOK
    /\ \A i \in Levels : /\ bidLevels[i] = Resting(TRUE, i) + Haunting(TRUE, i)
                         /\ askLevels[i] = Resting(FALSE, i) + Haunting(FALSE, i)

Positive(levels) == {i \in Levels : levels[i] > 0}

\* In the HFT book the best bid is the highest level with a quantity and the
\* best ask the lowest, as long as no order has had quantity 0 (an update that
\* fills an emptied level again does not look at the best index).
BestIsTop ==
    kind = "hft" /\ ~zeroed =>
        /\ Positive(bidLevels) # {} => bestBidIndex = Max(Positive(bidLevels))
        /\ Positive(askLevels) # {} => bestAskIndex = Min(Positive(askLevels))

\* What a book quotes rests in it.  Whichever orders were inserted, updated and
\* cancelled, the best bid and the best ask of the three books are levels that
\* hold a quantity, or the end of the book, where a c++20 book puts its index on
\* nearly every update: no index stays behind at a level that ran dry, or goes
\* to one that is dry.  (No order has had quantity 0.)
QuoteRests ==
    ~zeroed /\ ~wild =>
        /\ bestBidIndex > 0 => bestBid > 0
        /\ bestAskIndex < MaxPriceLevels - 1 => bestAsk > 0
=============================================================================
