-------------------------- MODULE OrderBookProofs --------------------------
(***************************************************************************)
(* What the structures that MCOrderBook explores keep true, for every      *)
(* value of their constants.  For OrderBook, what each call does to the    *)
(* totals of the levels, and the inductive invariant BookInv: beside the   *)
(* levels, where the best index of either side may be.  For SharedPtr and  *)
(* WeakPtr, what each part of an operation does to the counts.  For        *)
(* zam::vector, what each part of a call does to the memory of one vector, *)
(* and that it touches no other's.                                         *)
(***************************************************************************)
EXTENDS MCOrderBook, NumberFacts, FiniteSetTheorems, SequenceTheorems

\* The largest and the least of a set of levels.
LEMMA MaxOf ==
    ASSUME NEW n \in Nat, NEW S, S \subseteq 0..n, S # {}
    PROVE  Max(S) \in S /\ \A y \in S : y <= Max(S)
<1> DEFINE D == {n - s : s \in S}
<1>1. D \subseteq Nat /\ D # {}
  <2>1. \A s \in S : n - s \in Nat
    <3> TAKE s \in S
    <3>1. s \in Int /\ s <= n
      OBVIOUS
    <3> QED
      BY <3>1
  <2> QED
    BY <2>1
<1>2. PICK d \in D : \A e \in D : d <= e
  BY <1>1, LeastNumber, Zenon
<1>3. PICK x \in S : d = n - x
  OBVIOUS
<1>4. \A y \in S : x >= y
  BY <1>2, <1>3
<1>5. \E z \in S : \A y \in S : z >= y
  BY <1>4
<1>6. Max(S) \in S /\ \A y \in S : Max(S) >= y
  BY <1>5, Zenon DEF Max
<1> QED
  BY <1>6

LEMMA MinOf ==
    ASSUME NEW S, S \subseteq Nat, S # {}
    PROVE  Min(S) \in S /\ \A y \in S : Min(S) <= y
<1>1. \E z \in S : \A y \in S : z =< y
  BY LeastNumber, Zenon
<1> QED
  BY <1>1, Zenon DEF Min

LEMMA MaxOfTwo ==
    ASSUME NEW a \in Int, NEW b \in Int
    PROVE  Max({a, b}) = IF a >= b THEN a ELSE b
  BY DEF Max

LEMMA MinOfTwo ==
    ASSUME NEW a \in Int, NEW b \in Int
    PROVE  Min({a, b}) = IF a <= b THEN a ELSE b
  BY DEF Min

-----------------------------------------------------------------------------
(* What the orders of a map, and those of a list, add up to at a level.    *)

\* What an entry of the map holds.
Entry == Order \cup {NULL}
Maps == [OrderIds -> Entry]

RestingIn(m, is_buy, i) == SumFunction([id \in OrderIds |-> Rests(m[id], is_buy, i)])
HauntingIn(gs, is_buy, i) == SumFunction([g \in DOMAIN gs |-> Rests(gs[g], is_buy, i)])

\* priceToIndex finds a level for every price.
LEMMA LevelOfPrice ==
    ASSUME NEW p \in Prices
    PROVE  priceToIndex(p) \in Levels
  BY BookAssumption DEF Prices, Levels, priceToIndex

\* What an order adds to a level is a number.
LEMMA RestsNat ==
    ASSUME NEW o \in Entry, NEW b, NEW i
    PROVE  Rests(o, b, i) \in Nat
  BY BookAssumption DEF Entry, Order, Rests

\* Two maps that differ in one order differ by what it adds.
LEMMA RestingChange ==
    ASSUME NEW m \in Maps, NEW n \in Maps, NEW id \in OrderIds,
           \A j \in OrderIds \ {id} : m[j] = n[j], NEW b, NEW i
    PROVE  /\ RestingIn(m, b, i) \in Nat
           /\ Rests(m[id], b, i) <= RestingIn(m, b, i)
           /\ RestingIn(n, b, i) =
                 RestingIn(m, b, i) - Rests(m[id], b, i) + Rests(n[id], b, i)
<1> DEFINE f == [j \in OrderIds |-> Rests(m[j], b, i)]
           h == [j \in OrderIds |-> Rests(n[j], b, i)]
<1>1. \A j \in OrderIds : f[j] \in Nat /\ h[j] \in Nat
  BY RestsNat DEF Maps
<1>2. \A j \in OrderIds \ {id} : f[j] = h[j]
  OBVIOUS
<1>3. f[id] = Rests(m[id], b, i) /\ h[id] = Rests(n[id], b, i)
  OBVIOUS
<1>4. /\ RestingIn(m, b, i) = SumFunctionOnSet(f, OrderIds)
      /\ RestingIn(n, b, i) = SumFunctionOnSet(h, OrderIds)
  BY DEF RestingIn, SumFunction
<1>5. IsFiniteSet(OrderIds)
  BY BookAssumption
<1> HIDE DEF f, h
<1>6. /\ SumFunctionOnSet(f, OrderIds) \in Nat
      /\ f[id] <= SumFunctionOnSet(f, OrderIds)
      /\ SumFunctionOnSet(h, OrderIds) = SumFunctionOnSet(f, OrderIds) - f[id] + h[id]
  BY <1>1, <1>2, <1>5, SumChange
<1> QED
  BY <1>3, <1>4, <1>6

\* The live orders add up to a number.
LEMMA RestingNat ==
    ASSUME NEW m \in Maps, NEW b, NEW i
    PROVE  RestingIn(m, b, i) \in Nat
<1> DEFINE f == [j \in OrderIds |-> Rests(m[j], b, i)]
<1>1. \A j \in OrderIds : f[j] \in Nat
  BY RestsNat DEF Maps
<1>2. RestingIn(m, b, i) = SumFunctionOnSet(f, OrderIds)
  BY DEF RestingIn, SumFunction
<1> HIDE DEF f
<1> QED
  BY <1>1, <1>2, SumNat, BookAssumption

\* One more order without an id.
LEMMA HauntingAppend ==
    ASSUME NEW gs \in Seq(Order), NEW o \in Order, NEW b, NEW i
    PROVE  /\ HauntingIn(gs, b, i) \in Nat
           /\ HauntingIn(Append(gs, o), b, i) = HauntingIn(gs, b, i) + Rests(o, b, i)
<1> DEFINE n == Len(gs)
           hs == Append(gs, o)
           f == [g \in DOMAIN gs |-> Rests(gs[g], b, i)]
           h == [g \in DOMAIN hs |-> Rests(hs[g], b, i)]
<1>1. /\ n \in Nat /\ DOMAIN gs = 1..n /\ DOMAIN hs = 1..(n + 1)
      /\ \A g \in 1..n : gs[g] \in Order /\ hs[g] = gs[g]
      /\ hs[n + 1] = o
  OBVIOUS
<1> HIDE DEF n, hs
<1>2. \A g \in 1..n : f[g] \in Nat /\ f[g] = h[g]
  BY <1>1, RestsNat DEF Entry
<1>3. h[n + 1] = Rests(o, b, i) /\ h[n + 1] \in Nat
  BY <1>1, RestsNat DEF Entry
<1>4. \A g \in 1..(n + 1) : h[g] \in Nat
  <2> TAKE g \in 1..(n + 1)
  <2>1. g \in 1..n \/ g = n + 1
    BY <1>1
  <2> HIDE DEF f, h
  <2> QED
    BY <1>2, <1>3, <2>1
<1>5. /\ HauntingIn(gs, b, i) = SumFunctionOnSet(f, 1..n)
      /\ HauntingIn(hs, b, i) = SumFunctionOnSet(h, 1..(n + 1))
  BY <1>1 DEF HauntingIn, SumFunction
<1> HIDE DEF f, h
<1>6. /\ IsFiniteSet(1..n) /\ IsFiniteSet(1..(n + 1))
      /\ n + 1 \in 1..(n + 1) /\ (1..(n + 1)) \ {n + 1} = 1..n
  <2>1. IsFiniteSet(1..n) /\ IsFiniteSet(1..(n + 1))
    <3>1. 1 \in Int /\ n \in Int /\ n + 1 \in Int
      BY <1>1
    <3> QED
      BY <3>1, FS_Interval, Zenon
  <2>2. n + 1 \in 1..(n + 1)
    BY <1>1
  <2>3. (1..(n + 1)) \ {n + 1} = 1..n
    BY <1>1
  <2> QED
    BY <2>1, <2>2, <2>3, Zenon
<1>7. SumFunctionOnSet(f, 1..n) \in Nat
  BY <1>2, <1>6, SumNat
<1>8. SumFunctionOnSet(h, 1..(n + 1)) = h[n + 1] + SumFunctionOnSet(h, 1..n)
  <2>1. SumFunctionOnSet(h, 1..(n + 1)) =
            h[n + 1] + SumFunctionOnSet(h, (1..(n + 1)) \ {n + 1})
    BY <1>4, <1>6, SumAny
  <2> QED
    BY <2>1, <1>6, Zenon
<1>9. SumFunctionOnSet(f, 1..n) = SumFunctionOnSet(h, 1..n)
  <2>1. IsFiniteSet(1..n)
    BY <1>6
  <2>2. \A x \in 1..n : f[x] = h[x]
    BY <1>2
  <2> QED
    BY <2>1, <2>2, SumSame, Zenon
<1> QED
  BY <1>3, <1>5, <1>7, <1>8, <1>9 DEF hs

\* The orders without an id add up to a number.
LEMMA HauntingNat ==
    ASSUME NEW gs \in Seq(Order), NEW b, NEW i
    PROVE  HauntingIn(gs, b, i) \in Nat
<1> DEFINE f == [g \in DOMAIN gs |-> Rests(gs[g], b, i)]
<1>1. DOMAIN gs = 1..Len(gs) /\ Len(gs) \in Nat /\ \A g \in 1..Len(gs) : gs[g] \in Order
  OBVIOUS
<1>2. \A g \in 1..Len(gs) : f[g] \in Nat
  BY <1>1, RestsNat DEF Entry
<1>3. HauntingIn(gs, b, i) = SumFunctionOnSet(f, 1..Len(gs))
  BY <1>1 DEF HauntingIn, SumFunction
<1> HIDE DEF f
<1>4. IsFiniteSet(1..Len(gs))
  <2>1. 1 \in Int /\ Len(gs) \in Int
    BY <1>1
  <2> QED
    BY <2>1, FS_Interval, Zenon
<1> QED
  BY <1>2, <1>3, <1>4, SumNat, Zenon

-----------------------------------------------------------------------------
(* The inductive invariant.                                                *)

\* Every quantity is positive as long as no order had quantity 0.
NoneEmpty ==
    ~zeroed => \A id \in OrderIds : orderMap[id] # NULL => orderMap[id].quantity > 0

\* Nothing rests beyond the best level of the HFT book, which is empty only at
\* its end of the book.
TopBid ==
    kind = "hft" /\ ~zeroed =>
        /\ \A i \in Levels : bidLevels[i] > 0 => i <= bestBidIndex
        /\ bestBidIndex > 0 => bidLevels[bestBidIndex] > 0
TopAsk ==
    kind = "hft" /\ ~zeroed =>
        /\ \A i \in Levels : askLevels[i] > 0 => bestAskIndex <= i
        /\ bestAskIndex < MaxPriceLevels - 1 => askLevels[bestAskIndex] > 0

\* What any book quotes rests, or is its end.
QuotedBid ==
    ~zeroed /\ ~wild /\ bestBidIndex > 0 => bidLevels[bestBidIndex] > 0
QuotedAsk ==
    ~zeroed /\ ~wild /\ bestAskIndex < MaxPriceLevels - 1 => askLevels[bestAskIndex] > 0

BookInv ==
    LevelsMatchOrders /\ NoneEmpty /\ TopBid /\ TopAsk /\ QuotedBid /\ QuotedAsk

\* The level totals in terms of the map and the list.
TotalAt(m, gs, is_buy, i) == RestingIn(m, is_buy, i) + HauntingIn(gs, is_buy, i)

Matched ==
    \A i \in Levels : /\ bidLevels[i] = TotalAt(orderMap, ghosts, TRUE, i)
                      /\ askLevels[i] = TotalAt(orderMap, ghosts, FALSE, i)

\* LevelsMatchOrders is what it says of TotalAt.
LEMMA MatchedLevels == LevelsMatchOrders <=> TypeOK /\ Matched
  BY DEF LevelsMatchOrders, Matched, TotalAt, RestingIn, HauntingIn, Resting, Haunting

\* A total is a number.
LEMMA TotalNat ==
    ASSUME NEW m \in Maps, NEW gs \in Seq(Order), NEW b, NEW i
    PROVE  TotalAt(m, gs, b, i) \in Nat
<1>1. RestingIn(m, b, i) \in Nat /\ HauntingIn(gs, b, i) \in Nat
  BY RestingNat, HauntingNat
<1> QED
  BY <1>1 DEF TotalAt

\* What the map adds up to when one entry changes.
LEMMA RestingMoves ==
    ASSUME orderMap \in Maps, orderMap' \in Maps, NEW id \in OrderIds,
           \A j \in OrderIds \ {id} : orderMap[j] = orderMap'[j], NEW b, NEW i
    PROVE  /\ RestingIn(orderMap, b, i) \in Nat
           /\ Rests(orderMap[id], b, i) <= RestingIn(orderMap, b, i)
           /\ RestingIn(orderMap', b, i) =
                 RestingIn(orderMap, b, i) - Rests(orderMap[id], b, i)
                     + Rests(orderMap'[id], b, i)
  BY RestingChange, SMT

\* An insert adds its order to the totals, whether or not its id was in use.
LEMMA InsertTotals ==
    ASSUME TypeOK, NEW id \in OrderIds, NEW o \in Order,
           orderMap' = [orderMap EXCEPT ![id] = o], Displace(id), NEW b, NEW i
    PROVE  /\ ghosts' \in Seq(Order)
           /\ TotalAt(orderMap', ghosts', b, i) =
                 TotalAt(orderMap, ghosts, b, i) + Rests(o, b, i)
<1> DEFINE old == orderMap[id]
<1>1. /\ orderMap \in Maps /\ ghosts \in Seq(Order)
      /\ old \in Entry /\ o \in Entry
  BY DEF TypeOK, Entry, Maps
<1>2. /\ RestingIn(orderMap, b, i) \in Nat
      /\ RestingIn(orderMap', b, i) =
           RestingIn(orderMap, b, i) - Rests(old, b, i) + Rests(o, b, i)
  <2>1. /\ orderMap' \in Maps /\ orderMap'[id] = o
        /\ \A j \in OrderIds \ {id} : orderMap[j] = orderMap'[j]
    BY <1>1 DEF Maps
  <2> QED
    BY <1>1, <2>1, RestingMoves
<1>3. Rests(old, b, i) \in Nat /\ Rests(o, b, i) \in Nat /\ HauntingIn(ghosts, b, i) \in Nat
  BY <1>1, RestsNat, HauntingNat
<1>4. CASE old = NULL /\ UNCHANGED ghosts
  <2>1. Rests(old, b, i) = 0
    BY <1>4 DEF Rests
  <2>2. HauntingIn(ghosts', b, i) = HauntingIn(ghosts, b, i)
    BY <1>4
  <2> QED
    BY <1>1, <1>2, <1>3, <1>4, <2>1, <2>2 DEF TotalAt
<1>5. CASE old # NULL /\ ghosts' = Append(ghosts, old)
  <2>1. HauntingIn(ghosts', b, i) = HauntingIn(ghosts, b, i) + Rests(old, b, i)
    BY <1>1, <1>5, HauntingAppend DEF Entry
  <2>2. ghosts' \in Seq(Order)
    BY <1>1, <1>5 DEF Entry
  <2> QED
    BY <1>2, <1>3, <2>1, <2>2 DEF TotalAt
<1> QED
  BY <1>4, <1>5 DEF Displace

\* An update or a cancel replaces what its order adds to the totals.
LEMMA AmendTotals ==
    ASSUME TypeOK, NEW id \in OrderIds, NEW n \in Entry,
           orderMap' = [orderMap EXCEPT ![id] = n], UNCHANGED ghosts, NEW b, NEW i
    PROVE  /\ TotalAt(orderMap, ghosts, b, i) \in Nat
           /\ Rests(orderMap[id], b, i) <= TotalAt(orderMap, ghosts, b, i)
           /\ TotalAt(orderMap', ghosts', b, i) =
                 TotalAt(orderMap, ghosts, b, i) - Rests(orderMap[id], b, i) + Rests(n, b, i)
<1>1. /\ orderMap \in Maps /\ ghosts \in Seq(Order)
      /\ orderMap[id] \in Entry
  BY DEF TypeOK, Entry, Maps
<1>2. /\ RestingIn(orderMap, b, i) \in Nat
      /\ Rests(orderMap[id], b, i) <= RestingIn(orderMap, b, i)
      /\ RestingIn(orderMap', b, i) =
           RestingIn(orderMap, b, i) - Rests(orderMap[id], b, i) + Rests(n, b, i)
  <2>1. /\ orderMap' \in Maps /\ orderMap'[id] = n
        /\ \A j \in OrderIds \ {id} : orderMap[j] = orderMap'[j]
    BY <1>1 DEF Maps
  <2> QED
    BY <1>1, <2>1, RestingMoves
<1>3. /\ Rests(orderMap[id], b, i) \in Nat /\ Rests(n, b, i) \in Nat
      /\ HauntingIn(ghosts, b, i) \in Nat /\ HauntingIn(ghosts', b, i) = HauntingIn(ghosts, b, i)
  BY <1>1, RestsNat, HauntingNat
<1> QED
  BY <1>2, <1>3 DEF TotalAt

\* Inserting on the bid side.
LEMMA InsertBidKeeps ==
    ASSUME BookInv, NEW id \in OrderIds, NEW p \in Prices, NEW q \in Quantities,
           InsertBid(id, p, q)
    PROVE  BookInv'
<1> DEFINE idx == priceToIndex(p)
           o == [price |-> p, quantity |-> q, is_buy |-> TRUE]
<1>1. TypeOK /\ Matched
  BY MatchedLevels DEF BookInv
<1>2. /\ idx \in Levels /\ q \in Nat /\ o \in Order
      /\ MaxPriceLevels \in Nat /\ Levels = 0..(MaxPriceLevels - 1)
  BY LevelOfPrice, BookAssumption DEF Order, Levels
<1>3. /\ orderMap' = [orderMap EXCEPT ![id] = o] /\ Displace(id)
      /\ bidLevels' = [bidLevels EXCEPT ![idx] = @ + q]
      /\ UNCHANGED <<kind, askLevels, bestAskIndex, wild>> /\ ~wild
      /\ zeroed' = (zeroed \/ q = 0)
  BY DEF InsertBid
<1>4. \A i \in Levels : /\ Rests(o, TRUE, i) = IF i = idx THEN q ELSE 0
                        /\ Rests(o, FALSE, i) = 0
  BY <1>2, BookAssumption DEF Rests
<1>5. /\ ghosts' \in Seq(Order)
      /\ \A i \in Levels :
            /\ TotalAt(orderMap', ghosts', TRUE, i) =
                  TotalAt(orderMap, ghosts, TRUE, i) + Rests(o, TRUE, i)
            /\ TotalAt(orderMap', ghosts', FALSE, i) =
                  TotalAt(orderMap, ghosts, FALSE, i) + Rests(o, FALSE, i)
  BY <1>1, <1>2, <1>3, InsertTotals
<1> HIDE DEF idx, o
<1>6. /\ bidLevels \in [Levels -> Nat] /\ bidLevels' \in [Levels -> Nat]
      /\ bidLevels'[idx] = bidLevels[idx] + q
      /\ \A i \in Levels : i # idx => bidLevels'[i] = bidLevels[i]
      /\ askLevels \in [Levels -> Nat] /\ askLevels' = askLevels
  BY <1>1, <1>2, <1>3 DEF TypeOK
<1>7. Matched'
  <2> SUFFICES ASSUME NEW i \in Levels
               PROVE  /\ bidLevels'[i] = TotalAt(orderMap', ghosts', TRUE, i)
                      /\ askLevels'[i] = TotalAt(orderMap', ghosts', FALSE, i)
    BY DEF Matched
  <2>1. /\ bidLevels[i] = TotalAt(orderMap, ghosts, TRUE, i)
        /\ askLevels[i] = TotalAt(orderMap, ghosts, FALSE, i)
    BY <1>1 DEF Matched
  <2> DEFINE here == TotalAt(orderMap', ghosts', TRUE, i)
             there == TotalAt(orderMap', ghosts', FALSE, i)
  <2>2. here = bidLevels[i] + (IF i = idx THEN q ELSE 0) /\ there = askLevels[i] + 0
    BY <1>4, <1>5, <2>1
  <2> HIDE DEF here, there
  <2>3. bidLevels[i] \in Nat /\ askLevels[i] \in Nat
    BY <1>6
  <2>4. ASSUME i = idx PROVE bidLevels'[i] = here /\ askLevels'[i] = there
    BY <1>2, <1>6, <2>2, <2>3, <2>4
  <2>5. ASSUME i # idx PROVE bidLevels'[i] = here /\ askLevels'[i] = there
    BY <1>6, <2>2, <2>3, <2>5
  <2>6. bidLevels'[i] = here /\ askLevels'[i] = there
    BY <2>4, <2>5
  <2> QED
    BY <2>6, Zenon DEF here, there
<1>8. orderMap' \in [OrderIds -> Order \cup {NULL}] /\ orderMap'[id] = o
  BY <1>1, <1>2, <1>3 DEF TypeOK
<1>9. /\ bestBidIndex \in Levels \cup {-1}
      /\ \/ kind = "zerocopy" /\ bestBidIndex' = -1
         \/ bestBidIndex' = IF idx >= bestBidIndex THEN idx ELSE bestBidIndex
  <2>1. bestBidIndex \in Levels \cup {-1}
    BY <1>1 DEF TypeOK
  <2>2. bestBidIndex' = RaiseBid(idx)
    BY DEF InsertBid, idx
  <2>3. Max({idx, bestBidIndex}) = IF idx >= bestBidIndex THEN idx ELSE bestBidIndex
    BY <1>2, <2>1, MaxOfTwo
  <2> QED
    BY <2>1, <2>2, <2>3 DEF RaiseBid
<1>10. bestBidIndex' \in Levels \cup {-1}
  BY <1>2, <1>9
<1>11. TypeOK'
  <2>1. zeroed' \in BOOLEAN
    BY <1>3
  <2> QED
    BY <1>1, <1>3, <1>5, <1>6, <1>8, <1>10, <2>1 DEF TypeOK
<1>12. ~zeroed' => ~zeroed /\ q > 0
  <2>1. ~zeroed' => ~zeroed /\ q # 0
    BY <1>3, Zenon
  <2>2. q # 0 => q > 0
    BY <1>2
  <2> QED
    BY <2>1, <2>2, Zenon
<1>13. NoneEmpty'
  <2> SUFFICES ASSUME ~zeroed', NEW j \in OrderIds, orderMap'[j] # NULL
               PROVE  orderMap'[j].quantity > 0
    BY DEF NoneEmpty
  <2>1. CASE j = id
    BY <1>8, <1>12, <2>1 DEF o
  <2>2. CASE j # id
    <3>1. orderMap'[j] = orderMap[j]
      BY <1>1, <1>3, <2>2 DEF TypeOK
    <3> QED
      BY <1>12, <3>1 DEF BookInv, NoneEmpty
  <2> QED
    BY <2>1, <2>2
<1>14. TopBid'
  BY <1>2, <1>3, <1>6, <1>9, <1>12 DEF BookInv, TopBid
<1>15. QuotedBid'
  BY <1>2, <1>3, <1>6, <1>9, <1>12 DEF BookInv, QuotedBid
<1>16. TopAsk' /\ QuotedAsk'
  BY <1>3, <1>12 DEF BookInv, TopAsk, QuotedAsk
<1>17. LevelsMatchOrders'
  BY <1>7, <1>11, MatchedLevels, PTL
<1> QED
  BY <1>13, <1>14, <1>15, <1>16, <1>17 DEF BookInv

\* Inserting on the ask side.
LEMMA InsertAskKeeps ==
    ASSUME BookInv, NEW id \in OrderIds, NEW p \in Prices, NEW q \in Quantities,
           InsertAsk(id, p, q)
    PROVE  BookInv'
<1> DEFINE idx == priceToIndex(p)
           o == [price |-> p, quantity |-> q, is_buy |-> FALSE]
<1>1. TypeOK /\ Matched
  BY MatchedLevels DEF BookInv
<1>2. /\ idx \in Levels /\ q \in Nat /\ o \in Order
      /\ MaxPriceLevels \in Nat /\ Levels = 0..(MaxPriceLevels - 1)
  BY LevelOfPrice, BookAssumption DEF Order, Levels
<1>3. /\ orderMap' = [orderMap EXCEPT ![id] = o] /\ Displace(id)
      /\ askLevels' = [askLevels EXCEPT ![idx] = @ + q]
      /\ UNCHANGED <<kind, bidLevels, bestBidIndex, wild>> /\ ~wild
      /\ zeroed' = (zeroed \/ q = 0)
  BY DEF InsertAsk
<1>4. \A i \in Levels : /\ Rests(o, FALSE, i) = IF i = idx THEN q ELSE 0
                        /\ Rests(o, TRUE, i) = 0
  BY <1>2, BookAssumption DEF Rests
<1>5. /\ ghosts' \in Seq(Order)
      /\ \A i \in Levels :
            /\ TotalAt(orderMap', ghosts', TRUE, i) =
                  TotalAt(orderMap, ghosts, TRUE, i) + Rests(o, TRUE, i)
            /\ TotalAt(orderMap', ghosts', FALSE, i) =
                  TotalAt(orderMap, ghosts, FALSE, i) + Rests(o, FALSE, i)
  BY <1>1, <1>2, <1>3, InsertTotals
<1> HIDE DEF idx, o
<1>6. /\ askLevels \in [Levels -> Nat] /\ askLevels' \in [Levels -> Nat]
      /\ askLevels'[idx] = askLevels[idx] + q
      /\ \A i \in Levels : i # idx => askLevels'[i] = askLevels[i]
      /\ bidLevels \in [Levels -> Nat] /\ bidLevels' = bidLevels
  BY <1>1, <1>2, <1>3 DEF TypeOK
<1>7. Matched'
  <2> SUFFICES ASSUME NEW i \in Levels
               PROVE  /\ askLevels'[i] = TotalAt(orderMap', ghosts', FALSE, i)
                      /\ bidLevels'[i] = TotalAt(orderMap', ghosts', TRUE, i)
    BY DEF Matched
  <2>1. /\ askLevels[i] = TotalAt(orderMap, ghosts, FALSE, i)
        /\ bidLevels[i] = TotalAt(orderMap, ghosts, TRUE, i)
    BY <1>1 DEF Matched
  <2> DEFINE here == TotalAt(orderMap', ghosts', FALSE, i)
             there == TotalAt(orderMap', ghosts', TRUE, i)
  <2>2. here = askLevels[i] + (IF i = idx THEN q ELSE 0) /\ there = bidLevels[i] + 0
    BY <1>4, <1>5, <2>1
  <2> HIDE DEF here, there
  <2>3. bidLevels[i] \in Nat /\ askLevels[i] \in Nat
    BY <1>6
  <2>4. ASSUME i = idx PROVE askLevels'[i] = here /\ bidLevels'[i] = there
    BY <1>2, <1>6, <2>2, <2>3, <2>4
  <2>5. ASSUME i # idx PROVE askLevels'[i] = here /\ bidLevels'[i] = there
    BY <1>6, <2>2, <2>3, <2>5
  <2>6. askLevels'[i] = here /\ bidLevels'[i] = there
    BY <2>4, <2>5
  <2> QED
    BY <2>6, Zenon DEF here, there
<1>8. orderMap' \in [OrderIds -> Order \cup {NULL}] /\ orderMap'[id] = o
  BY <1>1, <1>2, <1>3 DEF TypeOK
<1>9. /\ bestAskIndex \in Levels \cup {MaxPriceLevels}
      /\ bestAskIndex' = IF idx <= bestAskIndex THEN idx ELSE bestAskIndex
  <2>1. bestAskIndex \in Levels \cup {MaxPriceLevels}
    BY <1>1 DEF TypeOK
  <2>2. bestAskIndex' = Min({idx, bestAskIndex})
    BY DEF InsertAsk, idx
  <2> QED
    BY <1>2, <2>1, <2>2, MinOfTwo
<1>10. bestAskIndex' \in Levels \cup {MaxPriceLevels}
  BY <1>2, <1>9
<1>11. TypeOK'
  <2>1. zeroed' \in BOOLEAN
    BY <1>3
  <2> QED
    BY <1>1, <1>3, <1>5, <1>6, <1>8, <1>10, <2>1 DEF TypeOK
<1>12. ~zeroed' => ~zeroed /\ q > 0
  <2>1. ~zeroed' => ~zeroed /\ q # 0
    BY <1>3, Zenon
  <2>2. q # 0 => q > 0
    BY <1>2
  <2> QED
    BY <2>1, <2>2, Zenon
<1>13. NoneEmpty'
  <2> SUFFICES ASSUME ~zeroed', NEW j \in OrderIds, orderMap'[j] # NULL
               PROVE  orderMap'[j].quantity > 0
    BY DEF NoneEmpty
  <2>1. CASE j = id
    BY <1>8, <1>12, <2>1 DEF o
  <2>2. CASE j # id
    <3>1. orderMap'[j] = orderMap[j]
      BY <1>1, <1>3, <2>2 DEF TypeOK
    <3> QED
      BY <1>12, <3>1 DEF BookInv, NoneEmpty
  <2> QED
    BY <2>1, <2>2
<1>14. TopAsk'
  BY <1>2, <1>3, <1>6, <1>9, <1>12 DEF BookInv, TopAsk
<1>15. QuotedAsk'
  BY <1>2, <1>3, <1>6, <1>9, <1>12 DEF BookInv, QuotedAsk
<1>16. TopBid' /\ QuotedBid'
  BY <1>3, <1>12 DEF BookInv, TopBid, QuotedBid
<1>17. LevelsMatchOrders'
  BY <1>7, <1>11, MatchedLevels, PTL
<1> QED
  BY <1>13, <1>14, <1>15, <1>16, <1>17 DEF BookInv

\* What the scan of a bid level that ran dry finds.
LEMMA BidScan ==
    ASSUME TypeOK, NEW idx \in Levels, NEW below,
           below = {i \in 0..(idx - 1) : bidLevels[i] > 0}
    PROVE  LET next == Max(below \cup {0})
           IN  /\ next \in Levels
               /\ next # 0 => next # idx /\ bidLevels[next] > 0
               /\ \A i \in Levels : i < idx /\ bidLevels[i] > 0 => i <= next
<1> DEFINE S == below \cup {0}
           next == Max(S)
<1>1. MaxPriceLevels - 1 \in Nat /\ Levels = 0..(MaxPriceLevels - 1)
  BY BookAssumption DEF Levels
<1>2. S \subseteq 0..(MaxPriceLevels - 1) /\ S # {}
  BY <1>1
<1>3. S \subseteq Nat
  BY <1>1, <1>2
<1> HIDE DEF S
<1>4. next \in S /\ \A y \in S : y <= next
  BY <1>1, <1>2, <1>3, MaxOf
<1> HIDE DEF next
<1> USE DEF S
<1>5. next \in Levels
  BY <1>1, <1>2, <1>4
<1>6. next # 0 => next # idx /\ bidLevels[next] > 0
  BY <1>1, <1>4
<1>7. ASSUME NEW i \in Levels, i < idx, bidLevels[i] > 0
      PROVE  i <= next
  <2>1. i \in below
    BY <1>1, <1>7
  <2> QED
    BY <1>4, <2>1
<1> QED
  BY <1>5, <1>6, <1>7 DEF next

\* Changing an order of the bid side.
LEMMA AmendBidKeeps ==
    ASSUME BookInv, NEW id \in OrderIds, NEW n \in Entry, NEW d \in Int,
           orderMap[id] # NULL, orderMap[id].is_buy = TRUE,
           \A i \in Levels :
              /\ Rests(n, TRUE, i) =
                    Rests(orderMap[id], TRUE, i) + (IF i = priceToIndex(orderMap[id].price) THEN d ELSE 0)
              /\ Rests(n, FALSE, i) = Rests(orderMap[id], FALSE, i),
           orderMap' = [orderMap EXCEPT ![id] = n], UNCHANGED <<kind, ghosts>>,
           zeroed' \in BOOLEAN, zeroed => zeroed', NoneEmpty', ~wild,
           UpdateBidLevel(orderMap[id].price, d) \/ MockBidLevel(orderMap[id].price, d)
    PROVE  BookInv'
<1> DEFINE idx == priceToIndex(orderMap[id].price)
<1>1. TypeOK /\ Matched
  BY MatchedLevels DEF BookInv
<1>2. /\ idx \in Levels /\ MaxPriceLevels \in Nat /\ MaxPriceLevels - 1 \in Levels
      /\ 0 \in Levels /\ Levels = 0..(MaxPriceLevels - 1)
  <2>1. orderMap[id].price \in Prices
    BY <1>1 DEF TypeOK, Order
  <2> QED
    BY <2>1, LevelOfPrice, BookAssumption DEF Levels
<1> DEFINE below == {i \in 0..(idx - 1) : bidLevels[i] > 0}
           next == Max(below \cup {0})
<1>3. /\ next \in Levels
      /\ next # 0 => next # idx /\ bidLevels[next] > 0
      /\ \A i \in Levels : i < idx /\ bidLevels[i] > 0 => i <= next
  BY <1>1, <1>2, BidScan
<1>4. /\ bidLevels' = [bidLevels EXCEPT ![idx] = @ + d]
      /\ UNCHANGED <<askLevels, bestAskIndex>>
      /\ wild' \in BOOLEAN
  BY <1>1 DEF UpdateBidLevel, MockBidLevel, TypeOK
<1>5. \/ /\ kind = "hft"
         /\ bestBidIndex' = IF idx = bestBidIndex /\ bidLevels[idx] + d = 0
                            THEN next ELSE bestBidIndex
      \/ kind # "hft" /\ bestBidIndex' \in {next, 0}
  BY DEF UpdateBidLevel, MockBidLevel
<1> HIDE DEF idx, next, below
<1>6. /\ orderMap \in Maps /\ ghosts \in Seq(Order) /\ orderMap' \in Maps
      /\ bidLevels \in [Levels -> Nat] /\ askLevels \in [Levels -> Nat]
  BY <1>1 DEF TypeOK, Maps, Entry
<1>7. ASSUME NEW i \in Levels
      PROVE  /\ bidLevels'[i] = TotalAt(orderMap', ghosts', TRUE, i)
             /\ askLevels'[i] = TotalAt(orderMap', ghosts', FALSE, i)
             /\ bidLevels'[i] = bidLevels[i] + (IF i = idx THEN d ELSE 0)
             /\ bidLevels'[i] \in Nat
  <2> DEFINE here == TotalAt(orderMap', ghosts', TRUE, i)
             there == TotalAt(orderMap', ghosts', FALSE, i)
             old == Rests(orderMap[id], TRUE, i)
             other == Rests(orderMap[id], FALSE, i)
  <2>1. bidLevels[i] = TotalAt(orderMap, ghosts, TRUE, i) /\ askLevels[i] = TotalAt(orderMap, ghosts, FALSE, i)
    BY <1>1 DEF Matched
  <2>2. /\ here = bidLevels[i] - old + Rests(n, TRUE, i)
        /\ there = askLevels[i] - other + Rests(n, FALSE, i)
    <3>1. UNCHANGED ghosts
      OBVIOUS
    <3>2. here = TotalAt(orderMap, ghosts, TRUE, i) - old + Rests(n, TRUE, i)
      BY <1>1, <3>1, AmendTotals, Zenon
    <3>3. there = TotalAt(orderMap, ghosts, FALSE, i) - other + Rests(n, FALSE, i)
      BY <1>1, <3>1, AmendTotals, Zenon
    <3> QED
      BY <2>1, <3>2, <3>3, Zenon
  <2>3. /\ Rests(n, TRUE, i) = old + (IF i = idx THEN d ELSE 0)
        /\ Rests(n, FALSE, i) = other
    BY DEF idx
  <2>4. orderMap[id] \in Entry
    BY <1>6 DEF Maps
  <2>5. old \in Nat /\ other \in Nat
    BY <2>4, RestsNat
  <2>6. here \in Nat
    BY <1>6, TotalNat
  <2>7. bidLevels'[i] = bidLevels[i] + (IF i = idx THEN d ELSE 0) /\ askLevels'[i] = askLevels[i]
    BY <1>4, <1>6
  <2>8. bidLevels[i] \in Nat /\ askLevels[i] \in Nat
    BY <1>6
  <2> HIDE DEF here, there, old, other
  <2>9. bidLevels'[i] = here /\ askLevels'[i] = there
    <3> DEFINE change == IF i = idx THEN d ELSE 0
    <3>1. change \in Int
      OBVIOUS
    <3>2. /\ here = bidLevels[i] - old + (old + change) /\ there = askLevels[i] - other + other
          /\ bidLevels'[i] = bidLevels[i] + change /\ askLevels'[i] = askLevels[i]
      BY <2>2, <2>3, <2>7
    <3> HIDE DEF change
    <3> QED
      BY <2>5, <2>8, <3>1, <3>2
  <2> QED
    BY <2>6, <2>7, <2>9, Zenon DEF here, there
<1>8. Matched'
  BY <1>7 DEF Matched
<1>9. bidLevels' \in [Levels -> Nat]
  BY <1>4, <1>6, <1>7
<1>10. bestBidIndex' \in Levels \cup {-1}
  BY <1>1, <1>2, <1>3, <1>5 DEF TypeOK
<1>11. TypeOK'
  <2>1. orderMap' \in [OrderIds -> Order \cup {NULL}]
    BY <1>6 DEF Maps, Entry
  <2> QED
    BY <1>1, <1>4, <1>9, <1>10, <2>1 DEF TypeOK
<1>12. ~zeroed' => ~zeroed
  OBVIOUS
<1>13. bestBidIndex \in Levels \cup {-1}
  BY <1>1 DEF TypeOK
<1>14. TopBid'
  <2> SUFFICES ASSUME kind = "hft", ~zeroed'
               PROVE  /\ \A i \in Levels : bidLevels'[i] > 0 => i <= bestBidIndex'
                      /\ bestBidIndex' > 0 => bidLevels'[bestBidIndex'] > 0
    BY DEF TopBid
  <2>1. /\ \A i \in Levels : bidLevels[i] > 0 => i <= bestBidIndex
        /\ bestBidIndex > 0 => bidLevels[bestBidIndex] > 0
    BY <1>12 DEF BookInv, TopBid
  <2>2. CASE idx = bestBidIndex /\ bidLevels[idx] + d = 0
    <3>1. bestBidIndex' = next /\ bidLevels'[idx] = 0
      BY <1>2, <1>5, <1>7, <2>2
    <3>2. \A i \in Levels : i # idx => bidLevels'[i] = bidLevels[i]
      BY <1>4, <1>6
    <3> QED
      BY <1>2, <1>3, <2>1, <2>2, <3>1, <3>2
  <2>3. CASE ~(idx = bestBidIndex /\ bidLevels[idx] + d = 0)
    <3>1. bestBidIndex' = bestBidIndex
      BY <1>5, <2>3
    <3>2. \A i \in Levels : i # idx => bidLevels'[i] = bidLevels[i]
      BY <1>4, <1>6
    <3>3. bidLevels'[idx] = bidLevels[idx] + d /\ bidLevels'[idx] \in Nat
      BY <1>2, <1>7
    <3>4. bidLevels[idx] > 0
      <4>1. Rests(orderMap[id], TRUE, idx) = orderMap[id].quantity
        BY DEF Rests, idx
      <4>2. orderMap[id].quantity > 0
        BY <1>12 DEF BookInv, NoneEmpty
      <4>3. Rests(orderMap[id], TRUE, idx) <= TotalAt(orderMap, ghosts, TRUE, idx)
        <5>1. UNCHANGED ghosts
          OBVIOUS
        <5> QED
          BY <1>1, <5>1, AmendTotals, Zenon
      <4>4. TotalAt(orderMap, ghosts, TRUE, idx) = bidLevels[idx]
        BY <1>1, <1>2 DEF Matched
      <4>5. orderMap[id].quantity \in Nat /\ bidLevels[idx] \in Nat
        BY <1>1, <1>2, <1>6, BookAssumption DEF TypeOK, Order
      <4>6. orderMap[id].quantity <= bidLevels[idx]
        BY <4>1, <4>3, <4>4, Zenon
      <4> QED
        BY <4>2, <4>5, <4>6
    <3> QED
      BY <1>2, <1>13, <2>1, <2>3, <3>1, <3>2, <3>3, <3>4
  <2> QED
    BY <2>2, <2>3
<1>15. QuotedBid'
  <2> SUFFICES ASSUME ~zeroed', ~wild', bestBidIndex' > 0
               PROVE  bidLevels'[bestBidIndex'] > 0
    BY DEF QuotedBid
  <2>1. CASE kind = "hft"
    BY <1>2, <1>10, <1>14, <2>1 DEF TopBid
  <2>2. CASE kind # "hft"
    <3>1. bestBidIndex' = next /\ next # 0 /\ next \in Levels
      BY <1>2, <1>3, <1>5, <2>2
    <3>2. bidLevels'[next] > 0
      BY <1>3, <1>4, <1>6, <3>1
    <3> QED
      BY <1>2, <3>1, <3>2
  <2> QED
    BY <2>1, <2>2
<1>16. TopAsk' /\ QuotedAsk'
  BY <1>4, <1>12 DEF BookInv, TopAsk, QuotedAsk
<1>17. LevelsMatchOrders'
  BY <1>8, <1>11, MatchedLevels, PTL
<1> QED
  BY <1>14, <1>15, <1>16, <1>17 DEF BookInv

\* What the scan of a ask level that ran dry finds.
LEMMA AskScan ==
    ASSUME TypeOK, NEW idx \in Levels, NEW above,
           above = {i \in (idx + 1)..(MaxPriceLevels - 1) : askLevels[i] > 0}
    PROVE  LET next == Min(above \cup {MaxPriceLevels - 1})
           IN  /\ next \in Levels
               /\ next # MaxPriceLevels - 1 => next # idx /\ askLevels[next] > 0
               /\ \A i \in Levels : idx < i /\ askLevels[i] > 0 => next <= i
<1> DEFINE S == above \cup {MaxPriceLevels - 1}
           next == Min(S)
<1>1. MaxPriceLevels - 1 \in Nat /\ Levels = 0..(MaxPriceLevels - 1)
  BY BookAssumption DEF Levels
<1>2. S \subseteq 0..(MaxPriceLevels - 1) /\ S # {}
  BY <1>1
<1>3. S \subseteq Nat
  BY <1>1, <1>2
<1> HIDE DEF S
<1>4. next \in S /\ \A y \in S : next <= y
  BY <1>1, <1>2, <1>3, MinOf
<1> HIDE DEF next
<1> USE DEF S
<1>5. next \in Levels
  BY <1>1, <1>2, <1>4
<1>6. next # MaxPriceLevels - 1 => next # idx /\ askLevels[next] > 0
  BY <1>1, <1>4
<1>7. ASSUME NEW i \in Levels, idx < i, askLevels[i] > 0
      PROVE  next <= i
  <2>1. i \in above
    BY <1>1, <1>7
  <2> QED
    BY <1>4, <2>1
<1> QED
  BY <1>5, <1>6, <1>7 DEF next

\* Changing an order of the ask side.
LEMMA AmendAskKeeps ==
    ASSUME BookInv, NEW id \in OrderIds, NEW n \in Entry, NEW d \in Int,
           orderMap[id] # NULL, orderMap[id].is_buy = FALSE,
           \A i \in Levels :
              /\ Rests(n, FALSE, i) =
                    Rests(orderMap[id], FALSE, i) + (IF i = priceToIndex(orderMap[id].price) THEN d ELSE 0)
              /\ Rests(n, TRUE, i) = Rests(orderMap[id], TRUE, i),
           orderMap' = [orderMap EXCEPT ![id] = n], UNCHANGED <<kind, ghosts>>,
           zeroed' \in BOOLEAN, zeroed => zeroed', NoneEmpty', ~wild,
           UpdateAskLevel(orderMap[id].price, d) \/ MockAskLevel(orderMap[id].price, d)
    PROVE  BookInv'
<1> DEFINE idx == priceToIndex(orderMap[id].price)
<1>1. TypeOK /\ Matched
  BY MatchedLevels DEF BookInv
<1>2. /\ idx \in Levels /\ MaxPriceLevels \in Nat /\ MaxPriceLevels - 1 \in Levels
      /\ 0 \in Levels /\ Levels = 0..(MaxPriceLevels - 1)
  <2>1. orderMap[id].price \in Prices
    BY <1>1 DEF TypeOK, Order
  <2> QED
    BY <2>1, LevelOfPrice, BookAssumption DEF Levels
<1> DEFINE above == {i \in (idx + 1)..(MaxPriceLevels - 1) : askLevels[i] > 0}
           next == Min(above \cup {MaxPriceLevels - 1})
<1>3. /\ next \in Levels
      /\ next # MaxPriceLevels - 1 => next # idx /\ askLevels[next] > 0
      /\ \A i \in Levels : idx < i /\ askLevels[i] > 0 => next <= i
  BY <1>1, <1>2, AskScan
<1>4. /\ askLevels' = [askLevels EXCEPT ![idx] = @ + d]
      /\ UNCHANGED <<bidLevels, bestBidIndex>>
      /\ wild' \in BOOLEAN
  BY <1>1 DEF UpdateAskLevel, MockAskLevel, TypeOK
<1>5. \/ /\ kind = "hft"
         /\ bestAskIndex' = IF idx = bestAskIndex /\ askLevels[idx] + d = 0
                            THEN next ELSE bestAskIndex
      \/ kind # "hft" /\ bestAskIndex' \in {next, MaxPriceLevels - 1}
  BY DEF UpdateAskLevel, MockAskLevel
<1> HIDE DEF idx, next, above
<1>6. /\ orderMap \in Maps /\ ghosts \in Seq(Order) /\ orderMap' \in Maps
      /\ askLevels \in [Levels -> Nat] /\ bidLevels \in [Levels -> Nat]
  BY <1>1 DEF TypeOK, Maps, Entry
<1>7. ASSUME NEW i \in Levels
      PROVE  /\ askLevels'[i] = TotalAt(orderMap', ghosts', FALSE, i)
             /\ bidLevels'[i] = TotalAt(orderMap', ghosts', TRUE, i)
             /\ askLevels'[i] = askLevels[i] + (IF i = idx THEN d ELSE 0)
             /\ askLevels'[i] \in Nat
  <2> DEFINE here == TotalAt(orderMap', ghosts', FALSE, i)
             there == TotalAt(orderMap', ghosts', TRUE, i)
             old == Rests(orderMap[id], FALSE, i)
             other == Rests(orderMap[id], TRUE, i)
  <2>1. askLevels[i] = TotalAt(orderMap, ghosts, FALSE, i) /\ bidLevels[i] = TotalAt(orderMap, ghosts, TRUE, i)
    BY <1>1 DEF Matched
  <2>2. /\ here = askLevels[i] - old + Rests(n, FALSE, i)
        /\ there = bidLevels[i] - other + Rests(n, TRUE, i)
    <3>1. UNCHANGED ghosts
      OBVIOUS
    <3>2. here = TotalAt(orderMap, ghosts, FALSE, i) - old + Rests(n, FALSE, i)
      BY <1>1, <3>1, AmendTotals, Zenon
    <3>3. there = TotalAt(orderMap, ghosts, TRUE, i) - other + Rests(n, TRUE, i)
      BY <1>1, <3>1, AmendTotals, Zenon
    <3> QED
      BY <2>1, <3>2, <3>3, Zenon
  <2>3. /\ Rests(n, FALSE, i) = old + (IF i = idx THEN d ELSE 0)
        /\ Rests(n, TRUE, i) = other
    BY DEF idx
  <2>4. orderMap[id] \in Entry
    BY <1>6 DEF Maps
  <2>5. old \in Nat /\ other \in Nat
    BY <2>4, RestsNat
  <2>6. here \in Nat
    BY <1>6, TotalNat
  <2>7. askLevels'[i] = askLevels[i] + (IF i = idx THEN d ELSE 0) /\ bidLevels'[i] = bidLevels[i]
    BY <1>4, <1>6
  <2>8. askLevels[i] \in Nat /\ bidLevels[i] \in Nat
    BY <1>6
  <2> HIDE DEF here, there, old, other
  <2>9. askLevels'[i] = here /\ bidLevels'[i] = there
    <3> DEFINE change == IF i = idx THEN d ELSE 0
    <3>1. change \in Int
      OBVIOUS
    <3>2. /\ here = askLevels[i] - old + (old + change) /\ there = bidLevels[i] - other + other
          /\ askLevels'[i] = askLevels[i] + change /\ bidLevels'[i] = bidLevels[i]
      BY <2>2, <2>3, <2>7
    <3> HIDE DEF change
    <3> QED
      BY <2>5, <2>8, <3>1, <3>2
  <2> QED
    BY <2>6, <2>7, <2>9, Zenon DEF here, there
<1>8. Matched'
  BY <1>7 DEF Matched
<1>9. askLevels' \in [Levels -> Nat]
  BY <1>4, <1>6, <1>7
<1>10. bestAskIndex' \in Levels \cup {MaxPriceLevels}
  BY <1>1, <1>2, <1>3, <1>5 DEF TypeOK
<1>11. TypeOK'
  <2>1. orderMap' \in [OrderIds -> Order \cup {NULL}]
    BY <1>6 DEF Maps, Entry
  <2> QED
    BY <1>1, <1>4, <1>9, <1>10, <2>1 DEF TypeOK
<1>12. ~zeroed' => ~zeroed
  OBVIOUS
<1>13. bestAskIndex \in Levels \cup {MaxPriceLevels}
  BY <1>1 DEF TypeOK
<1>14. TopAsk'
  <2> SUFFICES ASSUME kind = "hft", ~zeroed'
               PROVE  /\ \A i \in Levels : askLevels'[i] > 0 => bestAskIndex' <= i
                      /\ bestAskIndex' < MaxPriceLevels - 1 => askLevels'[bestAskIndex'] > 0
    BY DEF TopAsk
  <2>1. /\ \A i \in Levels : askLevels[i] > 0 => bestAskIndex <= i
        /\ bestAskIndex < MaxPriceLevels - 1 => askLevels[bestAskIndex] > 0
    BY <1>12 DEF BookInv, TopAsk
  <2>2. CASE idx = bestAskIndex /\ askLevels[idx] + d = 0
    <3>1. bestAskIndex' = next /\ askLevels'[idx] = 0
      BY <1>2, <1>5, <1>7, <2>2
    <3>2. \A i \in Levels : i # idx => askLevels'[i] = askLevels[i]
      BY <1>4, <1>6
    <3> QED
      BY <1>2, <1>3, <2>1, <2>2, <3>1, <3>2
  <2>3. CASE ~(idx = bestAskIndex /\ askLevels[idx] + d = 0)
    <3>1. bestAskIndex' = bestAskIndex
      BY <1>5, <2>3
    <3>2. \A i \in Levels : i # idx => askLevels'[i] = askLevels[i]
      BY <1>4, <1>6
    <3>3. askLevels'[idx] = askLevels[idx] + d /\ askLevels'[idx] \in Nat
      BY <1>2, <1>7
    <3>4. askLevels[idx] > 0
      <4>1. Rests(orderMap[id], FALSE, idx) = orderMap[id].quantity
        BY DEF Rests, idx
      <4>2. orderMap[id].quantity > 0
        BY <1>12 DEF BookInv, NoneEmpty
      <4>3. Rests(orderMap[id], FALSE, idx) <= TotalAt(orderMap, ghosts, FALSE, idx)
        <5>1. UNCHANGED ghosts
          OBVIOUS
        <5> QED
          BY <1>1, <5>1, AmendTotals, Zenon
      <4>4. TotalAt(orderMap, ghosts, FALSE, idx) = askLevels[idx]
        BY <1>1, <1>2 DEF Matched
      <4>5. orderMap[id].quantity \in Nat /\ askLevels[idx] \in Nat
        BY <1>1, <1>2, <1>6, BookAssumption DEF TypeOK, Order
      <4>6. orderMap[id].quantity <= askLevels[idx]
        BY <4>1, <4>3, <4>4, Zenon
      <4> QED
        BY <4>2, <4>5, <4>6
    <3> QED
      BY <1>2, <1>13, <2>1, <2>3, <3>1, <3>2, <3>3, <3>4
  <2> QED
    BY <2>2, <2>3
<1>15. QuotedAsk'
  <2> SUFFICES ASSUME ~zeroed', ~wild', bestAskIndex' < MaxPriceLevels - 1
               PROVE  askLevels'[bestAskIndex'] > 0
    BY DEF QuotedAsk
  <2>1. CASE kind = "hft"
    BY <1>2, <1>10, <1>14, <2>1 DEF TopAsk
  <2>2. CASE kind # "hft"
    <3>1. bestAskIndex' = next /\ next # MaxPriceLevels - 1 /\ next \in Levels
      BY <1>2, <1>3, <1>5, <2>2
    <3>2. askLevels'[next] > 0
      BY <1>3, <1>4, <1>6, <3>1
    <3> QED
      BY <1>2, <3>1, <3>2
  <2> QED
    BY <2>1, <2>2
<1>16. TopBid' /\ QuotedBid'
  BY <1>4, <1>12 DEF BookInv, TopBid, QuotedBid
<1>17. LevelsMatchOrders'
  BY <1>8, <1>11, MatchedLevels, PTL
<1> QED
  BY <1>14, <1>15, <1>16, <1>17 DEF BookInv

-----------------------------------------------------------------------------
\* An update and a cancel are changes of one order.
LEMMA UpdateKeeps ==
    ASSUME BookInv, NEW id \in OrderIds, NEW q \in Quantities, Update(id, q)
    PROVE  BookInv'
<1> DEFINE old == orderMap[id]
           n == [old EXCEPT !.quantity = q]
           d == q - old.quantity
<1>1. TypeOK
  BY DEF BookInv, LevelsMatchOrders
<1>2. old \in Order /\ old # NULL /\ q \in Nat /\ old.quantity \in Nat
  BY <1>1, BookAssumption DEF TypeOK, Update, Order
<1>3. /\ n \in Order /\ n # NULL /\ n.quantity = q
      /\ n.is_buy = old.is_buy /\ n.price = old.price
  BY <1>2, BookAssumption DEF Order
<1>4. d \in Int
  BY <1>2
<1>5. /\ ~wild /\ UNCHANGED <<kind, ghosts>> /\ zeroed' = (zeroed \/ q = 0)
      /\ orderMap' = [orderMap EXCEPT ![id] = n]
      /\ \/ old.is_buy /\ (UpdateBidLevel(old.price, d) \/ MockBidLevel(old.price, d))
         \/ ~old.is_buy /\ (UpdateAskLevel(old.price, d) \/ MockAskLevel(old.price, d))
  BY DEF Update, updatePriceLevel
<1> HIDE DEF n, d
<1>6. zeroed' \in BOOLEAN /\ (zeroed => zeroed') /\ (~zeroed' => q > 0)
  <2>1. zeroed' \in BOOLEAN /\ (zeroed => zeroed') /\ (~zeroed' => q # 0)
    BY <1>1, <1>5, Zenon DEF TypeOK
  <2>2. q # 0 => q > 0
    BY <1>2
  <2> QED
    BY <2>1, <2>2, Zenon
<1>7. NoneEmpty'
  <2> SUFFICES ASSUME ~zeroed', NEW j \in OrderIds, orderMap'[j] # NULL
               PROVE  orderMap'[j].quantity > 0
    BY DEF NoneEmpty
  <2>1. CASE j = id
    <3>1. orderMap'[j] = n
      BY <1>1, <1>5, <2>1 DEF TypeOK
    <3> QED
      BY <1>3, <1>6, <3>1
  <2>2. CASE j # id
    <3>1. orderMap'[j] = orderMap[j]
      BY <1>1, <1>5, <2>2 DEF TypeOK
    <3> QED
      BY <1>6, <3>1 DEF BookInv, NoneEmpty
  <2> QED
    BY <2>1, <2>2
<1>8. n \in Entry
  BY <1>3 DEF Entry
<1>9. CASE old.is_buy
  <2>1. old.is_buy = TRUE /\ n.is_buy = TRUE
    BY <1>2, <1>3, <1>9 DEF Order
  <2>2. ASSUME NEW i \in Levels
        PROVE  /\ Rests(n, TRUE, i) =
                     Rests(old, TRUE, i) + (IF i = priceToIndex(old.price) THEN d ELSE 0)
               /\ Rests(n, FALSE, i) = Rests(old, FALSE, i)
    BY <1>2, <1>3, <2>1 DEF Rests, d
  <2>3. UpdateBidLevel(old.price, d) \/ MockBidLevel(old.price, d)
    BY <1>5, <1>9
  <2> QED
    BY <1>2, <1>4, <1>5, <1>6, <1>7, <1>8, <2>1, <2>2, <2>3, AmendBidKeeps
<1>10. CASE ~old.is_buy
  <2>1. old.is_buy = FALSE /\ n.is_buy = FALSE
    BY <1>2, <1>3, <1>10 DEF Order
  <2>2. ASSUME NEW i \in Levels
        PROVE  /\ Rests(n, FALSE, i) =
                     Rests(old, FALSE, i) + (IF i = priceToIndex(old.price) THEN d ELSE 0)
               /\ Rests(n, TRUE, i) = Rests(old, TRUE, i)
    BY <1>2, <1>3, <2>1 DEF Rests, d
  <2>3. UpdateAskLevel(old.price, d) \/ MockAskLevel(old.price, d)
    BY <1>5, <1>10
  <2> QED
    BY <1>2, <1>4, <1>5, <1>6, <1>7, <1>8, <2>1, <2>2, <2>3, AmendAskKeeps
<1> QED
  BY <1>9, <1>10

LEMMA CancelKeeps ==
    ASSUME BookInv, NEW id \in OrderIds, Cancel(id)
    PROVE  BookInv'
<1> DEFINE old == orderMap[id]
           d == -old.quantity
<1>1. TypeOK
  BY DEF BookInv, LevelsMatchOrders
<1>2. old \in Order /\ old # NULL /\ old.quantity \in Nat
  BY <1>1, BookAssumption DEF TypeOK, Cancel, Order
<1>3. d \in Int
  BY <1>2
<1>4. /\ ~wild /\ UNCHANGED <<kind, ghosts>> /\ UNCHANGED zeroed
      /\ orderMap' = [orderMap EXCEPT ![id] = NULL]
      /\ \/ old.is_buy /\ (UpdateBidLevel(old.price, d) \/ MockBidLevel(old.price, d))
         \/ ~old.is_buy /\ (UpdateAskLevel(old.price, d) \/ MockAskLevel(old.price, d))
  BY DEF Cancel, updatePriceLevel
<1> HIDE DEF d
<1>5. zeroed' \in BOOLEAN /\ (zeroed => zeroed') /\ (~zeroed' => ~zeroed)
  BY <1>1, <1>4, Zenon DEF TypeOK
<1>6. NoneEmpty'
  <2> SUFFICES ASSUME ~zeroed', NEW j \in OrderIds, orderMap'[j] # NULL
               PROVE  orderMap'[j].quantity > 0
    BY DEF NoneEmpty
  <2>1. orderMap'[j] = orderMap[j]
    BY <1>1, <1>4 DEF TypeOK
  <2> QED
    BY <1>5, <2>1 DEF BookInv, NoneEmpty
<1>7. NULL \in Entry
  BY DEF Entry
<1>8. CASE old.is_buy
  <2>1. old.is_buy = TRUE
    BY <1>2, <1>8 DEF Order
  <2>2. ASSUME NEW i \in Levels
        PROVE  /\ Rests(NULL, TRUE, i) =
                     Rests(old, TRUE, i) + (IF i = priceToIndex(old.price) THEN d ELSE 0)
               /\ Rests(NULL, FALSE, i) = Rests(old, FALSE, i)
    BY <1>2, <2>1 DEF Rests, d
  <2>3. UpdateBidLevel(old.price, d) \/ MockBidLevel(old.price, d)
    BY <1>4, <1>8
  <2> QED
    BY <1>2, <1>3, <1>4, <1>5, <1>6, <1>7, <2>1, <2>2, <2>3, AmendBidKeeps
<1>9. CASE ~old.is_buy
  <2>1. old.is_buy = FALSE
    BY <1>2, <1>9 DEF Order
  <2>2. ASSUME NEW i \in Levels
        PROVE  /\ Rests(NULL, FALSE, i) =
                     Rests(old, FALSE, i) + (IF i = priceToIndex(old.price) THEN d ELSE 0)
               /\ Rests(NULL, TRUE, i) = Rests(old, TRUE, i)
    BY <1>2, <2>1 DEF Rests, d
  <2>3. UpdateAskLevel(old.price, d) \/ MockAskLevel(old.price, d)
    BY <1>4, <1>9
  <2> QED
    BY <1>2, <1>3, <1>4, <1>5, <1>6, <1>7, <2>1, <2>2, <2>3, AmendAskKeeps
<1> QED
  BY <1>8, <1>9

-----------------------------------------------------------------------------
\* Where there is no order, every level is 0.
LEMMA NoOrders ==
    ASSUME NEW b, NEW i, \A id \in OrderIds : orderMap[id] = NULL, ghosts = <<>>
    PROVE  TotalAt(orderMap, ghosts, b, i) = 0
<1> DEFINE f == [id \in OrderIds |-> Rests(orderMap[id], b, i)]
           h == [g \in DOMAIN ghosts |-> Rests(ghosts[g], b, i)]
<1>1. \A id \in OrderIds : f[id] = 0
  BY DEF Rests
<1>2. RestingIn(orderMap, b, i) = SumFunctionOnSet(f, OrderIds)
  BY DEF RestingIn, SumFunction
<1>3. HauntingIn(ghosts, b, i) = SumFunctionOnSet(h, {})
  BY DEF HauntingIn, SumFunction
<1> HIDE DEF f, h
<1>4. SumFunctionOnSet(f, OrderIds) = 0
  BY <1>1, SumZero, BookAssumption, Zenon
<1>5. SumFunctionOnSet(h, {}) = 0
  BY SumFirst, FS_EmptySet
<1> QED
  BY <1>2, <1>3, <1>4, <1>5 DEF TotalAt

\* The book starts in the invariant, and every step keeps it.
LEMMA InitBook == Init => BookInv
<1> SUFFICES ASSUME Init PROVE BookInv
  OBVIOUS
<1> USE DEF Init
<1>1. MaxPriceLevels \in Nat \ {0}
  BY BookAssumption
<1>2. TypeOK
  <2>1. ghosts \in Seq(Order)
    BY EmptySeq, Zenon
  <2>2. bestAskIndex \in {MaxPriceLevels} /\ bestBidIndex \in {-1}
    OBVIOUS
  <2>3. orderMap \in [OrderIds -> Order \cup {NULL}]
    OBVIOUS
  <2>4. bidLevels \in [Levels -> Nat] /\ askLevels \in [Levels -> Nat]
    OBVIOUS
  <2> QED
    BY <2>1, <2>2, <2>3, <2>4 DEF TypeOK
<1>3. Matched
  BY NoOrders DEF Matched
<1>4. NoneEmpty /\ TopBid /\ TopAsk /\ QuotedBid /\ QuotedAsk
  BY <1>1 DEF NoneEmpty, TopBid, TopAsk, QuotedBid, QuotedAsk, Levels
<1> QED
  BY <1>2, <1>3, <1>4, MatchedLevels DEF BookInv

LEMMA NextBook == BookInv /\ [Next]_vars => BookInv'
<1> SUFFICES ASSUME BookInv, [Next]_vars PROVE BookInv'
  OBVIOUS
<1>1. ASSUME NEW id \in OrderIds, NEW p \in Prices, NEW q \in Quantities, InsertBid(id, p, q)
      PROVE  BookInv'
  BY <1>1, InsertBidKeeps
<1>2. ASSUME NEW id \in OrderIds, NEW p \in Prices, NEW q \in Quantities, InsertAsk(id, p, q)
      PROVE  BookInv'
  BY <1>2, InsertAskKeeps
<1>3. ASSUME NEW id \in OrderIds, NEW q \in Quantities, Update(id, q)
      PROVE  BookInv'
  BY <1>3, UpdateKeeps
<1>4. ASSUME NEW id \in OrderIds, Cancel(id)
      PROVE  BookInv'
  BY <1>4, CancelKeeps
<1>5. CASE UNCHANGED vars
  <2> USE <1>5 DEF vars
  <2>1. LevelsMatchOrders'
    <3>1. TypeOK'
      BY DEF BookInv, LevelsMatchOrders, TypeOK
    <3>2. Matched => Matched'
      BY DEF Matched
    <3>3. TypeOK /\ Matched
      BY MatchedLevels DEF BookInv
    <3> QED
      BY <3>1, <3>2, <3>3, MatchedLevels, PTL
  <2> QED
    BY <2>1 DEF BookInv, NoneEmpty, TopBid, TopAsk, QuotedBid, QuotedAsk
<1> QED
  BY <1>1, <1>2, <1>3, <1>4, <1>5 DEF Next

LEMMA BookInvariant == Spec => []BookInv
  BY InitBook, NextBook, PTL DEF Spec

\* Through any calls of insert, update and cancel, on any number of orders and
\* levels, each level of OrderBook holds what its orders put there, and what
\* was left by those whose id insert gave away.
THEOREM LevelsAreSums == Spec => []LevelsMatchOrders
<1>1. BookInv => LevelsMatchOrders
  BY DEF BookInv
<1> QED
  BY <1>1, BookInvariant, PTL

\* The scans of updatePriceLevel and the comparison in insert keep the best
\* bid at the highest and the best ask at the lowest level with a quantity.
THEOREM BestAtTop == Spec => []BestIsTop
<1>1. BookInv => BestIsTop
  <2> SUFFICES ASSUME BookInv, kind = "hft", ~zeroed
               PROVE  /\ Positive(bidLevels) # {} => bestBidIndex = Max(Positive(bidLevels))
                      /\ Positive(askLevels) # {} => bestAskIndex = Min(Positive(askLevels))
    BY DEF BestIsTop
  <2> DEFINE bids == Positive(bidLevels)
             asks == Positive(askLevels)
  <2>1. /\ MaxPriceLevels - 1 \in Nat /\ Levels = 0..(MaxPriceLevels - 1)
        /\ bestBidIndex \in Levels \cup {-1}
        /\ bestAskIndex \in Levels \cup {MaxPriceLevels}
    BY BookAssumption DEF Levels, BookInv, LevelsMatchOrders, TypeOK
  <2>2. bids \subseteq 0..(MaxPriceLevels - 1) /\ asks \subseteq Nat /\ asks \subseteq Levels
    BY <2>1 DEF Positive
  <2>3. ASSUME bids # {} PROVE bestBidIndex = Max(bids)
    <3>1. Max(bids) \in bids /\ \A y \in bids : y <= Max(bids)
      BY <2>1, <2>2, <2>3, MaxOf
    <3>2. Max(bids) <= bestBidIndex
      BY <3>1 DEF BookInv, TopBid, Positive
    <3>3. bestBidIndex > 0 => bestBidIndex \in bids
      BY <2>1 DEF BookInv, TopBid, Positive
    <3> QED
      BY <2>1, <2>2, <3>1, <3>2, <3>3
  <2>4. ASSUME asks # {} PROVE bestAskIndex = Min(asks)
    <3>1. Min(asks) \in asks /\ \A y \in asks : Min(asks) <= y
      BY <2>2, <2>4, MinOf
    <3>2. bestAskIndex <= Min(asks)
      BY <3>1 DEF BookInv, TopAsk, Positive
    <3>3. bestAskIndex < MaxPriceLevels - 1 => bestAskIndex \in asks
      BY <2>1 DEF BookInv, TopAsk, Positive
    <3> QED
      BY <2>1, <2>2, <3>1, <3>2, <3>3
  <2> QED
    BY <2>3, <2>4
<1> QED
  BY <1>1, BookInvariant, PTL

\* However a c++20 book resets its best index, and wherever the scans of the
\* three books stop, the best bid and ask are levels with a quantity, or the
\* end of the book.
THEOREM QuotesRest == Spec => []QuoteRests
<1>1. BookInv => QuoteRests
  BY DEF BookInv, QuotedBid, QuotedAsk, QuoteRests, bestBid, bestAsk
<1> QED
  BY <1>1, BookInvariant, PTL

-----------------------------------------------------------------------------
(* SharedPtr and WeakPtr.  The two assignments are a release followed by   *)
(* another operation, on a control block that may be the same; so the      *)
(* invariant is stated of any pointers ctl and any heap h, and shown to be *)
(* kept by the parts.                                                      *)

USE PointerAssumption

Values == ControlBlocks \cup {NULL, NONE}

Controls == [Pointers!Ptrs -> Values]

Heaps == [blocks : SUBSET ControlBlocks, objects : SUBSET ControlBlocks,
          shared_count : [ControlBlocks -> Nat], weak_count : [ControlBlocks -> Nat]]

OwnersOf(ctl, c) == {p \in SharedPtrs : ctl[p] = c}
ObserversOf(ctl, c) == {w \in WeakPtrs : ctl[w] = c}

\* The counts of a block are the numbers of its pointers, all owners together
\* being one more weak pointer, and it lives as long as it should.
Counted(ctl, h, c) ==
    /\ h.shared_count[c] = Cardinality(OwnersOf(ctl, c))
    /\ h.weak_count[c] = Cardinality(ObserversOf(ctl, c)) + (IF OwnersOf(ctl, c) = {} THEN 0 ELSE 1)
    /\ c \in h.objects <=> OwnersOf(ctl, c) # {}
    /\ c \in h.blocks <=> OwnersOf(ctl, c) # {} \/ ObserversOf(ctl, c) # {}

Good(ctl, h) == h \in Heaps /\ ctl \in Controls /\ \A c \in ControlBlocks : Counted(ctl, h, c)

PointersInv == Good(control, heap)

-----------------------------------------------------------------------------
(* Lemmas about sets of pointers.                                          *)

\* The numbers of owners and observers.
LEMMA Numbers ==
  ASSUME NEW ctl, NEW c
  PROVE  /\ IsFiniteSet(OwnersOf(ctl, c)) /\ Cardinality(OwnersOf(ctl, c)) \in Nat
         /\ Cardinality(OwnersOf(ctl, c)) = 0 <=> OwnersOf(ctl, c) = {}
         /\ IsFiniteSet(ObserversOf(ctl, c)) /\ Cardinality(ObserversOf(ctl, c)) \in Nat
         /\ Cardinality(ObserversOf(ctl, c)) = 0 <=> ObserversOf(ctl, c) = {}
  <1>1. OwnersOf(ctl, c) \subseteq SharedPtrs /\ ObserversOf(ctl, c) \subseteq WeakPtrs
    BY DEF OwnersOf, ObserversOf
  <1>2. IsFiniteSet(OwnersOf(ctl, c)) /\ IsFiniteSet(ObserversOf(ctl, c))
    BY <1>1, FS_Subset DEF PointerAssumption
  <1> QED BY <1>2, FS_CardinalityType, FS_EmptySet

\* Setting a pointer takes it from the owners or observers of one block to
\* those of another.
LEMMA SetWeak ==
  ASSUME NEW ctl \in Controls, NEW w \in WeakPtrs, NEW v \in Values
  PROVE  /\ [ctl EXCEPT ![w] = v] \in Controls
         /\ \A c : /\ ObserversOf([ctl EXCEPT ![w] = v], c) =
                         IF c = v THEN ObserversOf(ctl, c) \cup {w} ELSE ObserversOf(ctl, c) \ {w}
                   /\ OwnersOf([ctl EXCEPT ![w] = v], c) = OwnersOf(ctl, c)
  BY DEF PointerAssumption, Controls, Pointers!Ptrs, OwnersOf, ObserversOf

\* The counts of a block without news.
LEMMA SameCounted ==
  ASSUME NEW ctl, NEW new, NEW h, NEW g, NEW c, Counted(ctl, h, c),
         OwnersOf(new, c) = OwnersOf(ctl, c), ObserversOf(new, c) = ObserversOf(ctl, c),
         g.shared_count[c] = h.shared_count[c], g.weak_count[c] = h.weak_count[c],
         c \in g.objects <=> c \in h.objects, c \in g.blocks <=> c \in h.blocks
  PROVE  Counted(new, g, c)
  BY DEF Counted

-----------------------------------------------------------------------------
(* The parts of the operations.                                            *)

\* An operation that sets a pointer that leads nowhere to lead nowhere.
LEMMA SetNothing ==
  ASSUME NEW ctl, NEW h, Good(ctl, h), NEW p \in Pointers!Ptrs,
         ctl[p] \in {NULL, NONE}, NEW v \in {NULL, NONE}
  PROVE  Good([ctl EXCEPT ![p] = v], h)
  <1> DEFINE new == [ctl EXCEPT ![p] = v]
  <1>1. ctl \in Controls /\ v \in Values
    BY DEF Good, Values
  <1>2. new \in Controls
    BY <1>1 DEF Controls
  <1>3. ASSUME NEW c \in ControlBlocks PROVE Counted(new, h, c)
    <2>1. OwnersOf(new, c) = OwnersOf(ctl, c) /\ ObserversOf(new, c) = ObserversOf(ctl, c)
      BY <1>1 DEF PointerAssumption, Controls, Pointers!Ptrs, OwnersOf, ObserversOf
    <2>2. Counted(ctl, h, c)
      BY DEF Good
    <2> QED BY <2>1, <2>2, SameCounted
  <1> QED BY <1>2, <1>3 DEF Good

\* SharedPtr::release of the block that p leads to.
LEMMA ReleaseSharedGood ==
  ASSUME NEW ctl, NEW h, Good(ctl, h), NEW p \in SharedPtrs,
         ctl[p] # NONE, NEW v \in {NULL, NONE}
  PROVE  Good([ctl EXCEPT ![p] = v], Pointers!ReleaseShared(h, ctl[p]))
  <1>1. CASE ctl[p] = NULL
    <2>1. p \in Pointers!Ptrs
      BY DEF Pointers!Ptrs
    <2> QED BY <1>1, <2>1, SetNothing DEF Pointers!ReleaseShared
  <1>2. CASE ctl[p] # NULL
    <2> DEFINE b == ctl[p]
               new == [ctl EXCEPT ![p] = v]
               last == h.shared_count[b] = 1
               g == Pointers!ReleaseShared(h, b)
    <2>1. ctl \in Controls /\ h \in Heaps /\ v \in Values
      BY DEF Good, Values
    <2>2. b \in ControlBlocks /\ b # v
      BY <1>2, <2>1 DEF Controls, Values, Pointers!Ptrs, PointerAssumption
    <2>3. /\ g \in Heaps
          /\ g.shared_count = [h.shared_count EXCEPT ![b] = h.shared_count[b] - 1]
          /\ g.weak_count = [h.weak_count EXCEPT ![b] = IF last THEN h.weak_count[b] - 1 ELSE h.weak_count[b]]
          /\ g.objects = IF last THEN h.objects \ {b} ELSE h.objects
          /\ g.blocks = IF last /\ h.weak_count[b] = 1 THEN h.blocks \ {b} ELSE h.blocks
      <3>1. g = [blocks |-> IF last /\ h.weak_count[b] = 1 THEN h.blocks \ {b} ELSE h.blocks,
                 objects |-> IF last THEN h.objects \ {b} ELSE h.objects,
                 shared_count |-> [h.shared_count EXCEPT ![b] = h.shared_count[b] - 1],
                 weak_count |-> [h.weak_count EXCEPT ![b] = IF last THEN h.weak_count[b] - 1 ELSE h.weak_count[b]]]
        BY <1>2, <2>1 DEF Pointers!ReleaseShared, Heaps
      <3>2. p \in OwnersOf(ctl, b)
        BY DEF OwnersOf
      <3>3. Counted(ctl, h, b)
        BY <2>2 DEF Good
      <3>4. h.shared_count[b] \in Nat \ {0} /\ h.weak_count[b] \in Nat \ {0}
        BY <2>1, <2>2, <3>2, <3>3, Numbers DEF Counted, Heaps
      <3>5. g \in Heaps
        BY <2>1, <2>2, <3>1, <3>4 DEF Heaps
      <3> QED BY <3>1, <3>5
    <2> HIDE DEF g, last
    <2>4. /\ new \in Controls
          /\ \A c \in ControlBlocks : /\ ObserversOf(new, c) = ObserversOf(ctl, c)
                                      /\ OwnersOf(new, c) = OwnersOf(ctl, c) \ {p}
      <3>1. /\ new \in Controls
            /\ \A c : /\ OwnersOf(new, c) = IF c = v THEN OwnersOf(ctl, c) \cup {p} ELSE OwnersOf(ctl, c) \ {p}
                      /\ ObserversOf(new, c) = ObserversOf(ctl, c)
        BY <2>1 DEF Controls, Pointers!Ptrs, OwnersOf, ObserversOf
      <3> QED BY <3>1 DEF PointerAssumption
    <2> HIDE DEF new
    <2>5. Counted(new, g, b)
      <3>1. p \in OwnersOf(ctl, b)
        BY DEF OwnersOf
      <3>2. Counted(ctl, h, b)
        BY <2>2 DEF Good
      <3>3. Cardinality(OwnersOf(new, b)) = Cardinality(OwnersOf(ctl, b)) - 1
        BY <2>2, <2>4, <3>1, Numbers, FS_RemoveElement
      <3>4. last <=> OwnersOf(new, b) = {}
        BY <3>2, <3>3, Numbers DEF Counted, last
      <3>5. h.weak_count[b] = Cardinality(ObserversOf(new, b)) + 1
        BY <2>2, <2>4, <3>1, <3>2 DEF Counted
      <3>6. g.shared_count[b] = Cardinality(OwnersOf(new, b))
        BY <2>1, <2>2, <2>3, <3>2, <3>3 DEF Counted, Heaps
      <3>7. g.weak_count[b] = Cardinality(ObserversOf(new, b)) + (IF OwnersOf(new, b) = {} THEN 0 ELSE 1)
        BY <2>1, <2>2, <2>3, <3>4, <3>5, Numbers DEF Heaps
      <3>8. b \in g.objects <=> OwnersOf(new, b) # {}
        BY <2>3, <3>1, <3>2, <3>4 DEF Counted
      <3>9. b \in g.blocks <=> OwnersOf(new, b) # {} \/ ObserversOf(new, b) # {}
        BY <2>3, <3>1, <3>2, <3>4, <3>5, Numbers DEF Counted
      <3> QED BY <3>6, <3>7, <3>8, <3>9 DEF Counted
    <2>6. ASSUME NEW c \in ControlBlocks, c # b PROVE Counted(new, g, c)
      <3>1. Counted(ctl, h, c)
        BY DEF Good
      <3>2. OwnersOf(new, c) = OwnersOf(ctl, c)
        BY <2>4, <2>6 DEF OwnersOf
      <3>3. g.shared_count[c] = h.shared_count[c] /\ g.weak_count[c] = h.weak_count[c]
        BY <2>1, <2>3, <2>6 DEF Heaps
      <3>4. (c \in g.objects <=> c \in h.objects) /\ (c \in g.blocks <=> c \in h.blocks)
        BY <2>3, <2>6
      <3> QED BY <2>4, <3>1, <3>2, <3>3, <3>4, SameCounted
    <2>7. Good(new, g)
      BY <2>3, <2>4, <2>5, <2>6 DEF Good
    <2> QED BY <2>7 DEF new, g
  <1> QED BY <1>1, <1>2

\* A shared pointer that leads nowhere becomes one more owner of c.
LEMMA IncrementSharedGood ==
  ASSUME NEW ctl, NEW h, Good(ctl, h), NEW p \in SharedPtrs,
         ctl[p] \in {NULL, NONE}, NEW b \in Values, b # NONE, b # NULL => OwnersOf(ctl, b) # {}
  PROVE  Good([ctl EXCEPT ![p] = b], Pointers!IncrementShared(h, b))
  <1>1. CASE b = NULL
    <2>1. p \in Pointers!Ptrs
      BY DEF Pointers!Ptrs
    <2> QED BY <1>1, <2>1, SetNothing DEF Pointers!IncrementShared
  <1>2. CASE b # NULL
    <2> DEFINE new == [ctl EXCEPT ![p] = b]
               g == Pointers!IncrementShared(h, b)
    <2>1. ctl \in Controls /\ h \in Heaps
      BY DEF Good
    <2>2. b \in ControlBlocks /\ p \notin OwnersOf(ctl, b)
      BY <1>2 DEF PointerAssumption, OwnersOf, Values
    <2>3. /\ g \in Heaps
          /\ g.shared_count = [h.shared_count EXCEPT ![b] = h.shared_count[b] + 1]
          /\ g.weak_count = h.weak_count /\ g.objects = h.objects /\ g.blocks = h.blocks
      BY <1>2, <2>1, <2>2 DEF Pointers!IncrementShared, Heaps
    <2> HIDE DEF g
    <2>4. /\ new \in Controls
          /\ \A c : /\ OwnersOf(new, c) = IF c = b THEN OwnersOf(ctl, c) \cup {p} ELSE OwnersOf(ctl, c) \ {p}
                    /\ ObserversOf(new, c) = ObserversOf(ctl, c)
      BY <2>1 DEF PointerAssumption, Controls, Pointers!Ptrs, OwnersOf, ObserversOf
    <2> HIDE DEF new
    <2>5. Counted(new, g, b)
      <3>1. Counted(ctl, h, b)
        BY <2>2 DEF Good
      <3>2. Cardinality(OwnersOf(new, b)) = Cardinality(OwnersOf(ctl, b)) + 1
        BY <2>2, <2>4, Numbers, FS_AddElement
      <3>3. g.shared_count[b] = Cardinality(OwnersOf(new, b))
        BY <2>1, <2>2, <2>3, <3>1, <3>2 DEF Counted, Heaps
      <3>4. OwnersOf(new, b) # {} /\ OwnersOf(ctl, b) # {}
        BY <1>2, <2>4
      <3> QED BY <2>3, <2>4, <3>1, <3>3, <3>4 DEF Counted
    <2>6. ASSUME NEW c \in ControlBlocks, c # b PROVE Counted(new, g, c)
      <3>1. Counted(ctl, h, c)
        BY DEF Good
      <3>2. OwnersOf(new, c) = OwnersOf(ctl, c)
        BY <2>4, <2>6 DEF OwnersOf, PointerAssumption
      <3>3. g.shared_count[c] = h.shared_count[c] /\ g.weak_count[c] = h.weak_count[c]
        BY <2>1, <2>3, <2>6 DEF Heaps
      <3> QED BY <2>3, <2>4, <3>1, <3>2, <3>3, SameCounted
    <2>7. Good(new, g)
      BY <2>3, <2>4, <2>5, <2>6 DEF Good
    <2> QED BY <2>7 DEF new, g
  <1> QED BY <1>1, <1>2

\* A new pointer to a new block, or to one that is allocated again.
LEMMA MakeSharedGood ==
  ASSUME NEW ctl, NEW h, Good(ctl, h), NEW p \in SharedPtrs, ctl[p] = NONE,
         NEW b \in ControlBlocks, b \notin h.blocks
  PROVE  Good([ctl EXCEPT ![p] = b],
              [blocks |-> h.blocks \cup {b}, objects |-> h.objects \cup {b},
               shared_count |-> [h.shared_count EXCEPT ![b] = 1],
               weak_count |-> [h.weak_count EXCEPT ![b] = 1]])
  <1> DEFINE new == [ctl EXCEPT ![p] = b]
             g == [blocks |-> h.blocks \cup {b}, objects |-> h.objects \cup {b},
                   shared_count |-> [h.shared_count EXCEPT ![b] = 1],
                   weak_count |-> [h.weak_count EXCEPT ![b] = 1]]
  <1>1. ctl \in Controls /\ h \in Heaps /\ b \in Values
    BY DEF Good, Values
  <1>2. /\ g \in Heaps /\ g.blocks = h.blocks \cup {b} /\ g.objects = h.objects \cup {b}
        /\ g.shared_count = [h.shared_count EXCEPT ![b] = 1]
        /\ g.weak_count = [h.weak_count EXCEPT ![b] = 1]
    BY <1>1 DEF Heaps
  <1> HIDE DEF g
  <1>3. /\ new \in Controls
        /\ \A c : /\ OwnersOf(new, c) = IF c = b THEN OwnersOf(ctl, c) \cup {p} ELSE OwnersOf(ctl, c) \ {p}
                  /\ ObserversOf(new, c) = ObserversOf(ctl, c)
    BY <1>1 DEF Controls, Pointers!Ptrs, OwnersOf, ObserversOf
  <1> HIDE DEF new
  <1>4. Counted(new, g, b)
    <2>1. OwnersOf(ctl, b) = {} /\ ObserversOf(ctl, b) = {}
      BY DEF Good, Counted
    <2>2. OwnersOf(new, b) = {p} /\ ObserversOf(new, b) = {}
      BY <1>3, <2>1
    <2>3. Cardinality({p}) = 1 /\ Cardinality({}) = 0
      BY FS_Singleton, FS_EmptySet
    <2>4. Cardinality(OwnersOf(new, b)) = 1 /\ Cardinality(ObserversOf(new, b)) = 0
      BY <2>2, <2>3
    <2>5. g.shared_count[b] = 1 /\ g.weak_count[b] = 1
      BY <1>1, <1>2 DEF Heaps
    <2> QED BY <1>2, <2>2, <2>4, <2>5 DEF Counted
  <1>5. ASSUME NEW c \in ControlBlocks, c # b PROVE Counted(new, g, c)
    <2>1. Counted(ctl, h, c)
      BY DEF Good
    <2>2. OwnersOf(new, c) = OwnersOf(ctl, c)
      BY <1>3, <1>5 DEF OwnersOf, PointerAssumption
    <2>3. g.shared_count[c] = h.shared_count[c] /\ g.weak_count[c] = h.weak_count[c]
      BY <1>1, <1>2, <1>5 DEF Heaps
    <2>4. (c \in g.objects <=> c \in h.objects) /\ (c \in g.blocks <=> c \in h.blocks)
      BY <1>2, <1>5
    <2> QED BY <1>3, <2>1, <2>2, <2>3, <2>4, SameCounted
  <1>6. Good(new, g)
    BY <1>2, <1>3, <1>4, <1>5 DEF Good
  <1> QED BY <1>6 DEF new, g

\* A shared pointer that leads nowhere takes over what q leads to.
LEMMA MoveGood ==
  ASSUME NEW ctl, NEW h, Good(ctl, h),
         NEW p \in SharedPtrs, NEW q \in SharedPtrs, p # q,
         ctl[p] \in {NULL, NONE}, ctl[q] # NONE
  PROVE  Good([ctl EXCEPT ![p] = ctl[q], ![q] = NULL], h)
  <1> DEFINE new == [ctl EXCEPT ![p] = ctl[q], ![q] = NULL]
  <1>1. ctl \in Controls
    BY DEF Good
  <1>2. new \in Controls /\ new[p] = ctl[q] /\ new[q] = NULL /\ \A r \in Pointers!Ptrs : r # p /\ r # q => new[r] = ctl[r]
    BY <1>1 DEF Controls, Pointers!Ptrs, Values
  <1> HIDE DEF new
  <1>3. ASSUME NEW c \in ControlBlocks PROVE Counted(new, h, c)
    <2>1. Counted(ctl, h, c)
      BY DEF Good
    <2>2. ObserversOf(new, c) = ObserversOf(ctl, c)
      BY <1>2 DEF ObserversOf, Pointers!Ptrs, PointerAssumption
    <2>3. CASE ctl[q] # c
      <3>1. OwnersOf(new, c) = OwnersOf(ctl, c)
        BY <1>2, <2>3 DEF OwnersOf, Pointers!Ptrs, PointerAssumption
      <3> QED BY <2>1, <2>2, <3>1, SameCounted
    <2>4. CASE ctl[q] = c
      <3> DEFINE rest == OwnersOf(ctl, c) \ {q}
      <3>1. q \in OwnersOf(ctl, c) /\ p \notin rest /\ p \in OwnersOf(new, c)
        BY <1>2, <2>4 DEF OwnersOf, PointerAssumption
      <3>2. OwnersOf(new, c) = rest \cup {p}
        BY <1>2, <2>4 DEF OwnersOf, Pointers!Ptrs, PointerAssumption
      <3>3. Cardinality(rest) = Cardinality(OwnersOf(ctl, c)) - 1 /\ IsFiniteSet(rest)
        BY <3>1, Numbers, FS_RemoveElement
      <3>4. Cardinality(rest \cup {p}) = Cardinality(rest) + 1
        BY <3>1, <3>3, FS_AddElement
      <3>5. Cardinality(OwnersOf(new, c)) = Cardinality(OwnersOf(ctl, c))
        BY <3>2, <3>3, <3>4, Numbers
      <3> QED BY <2>1, <2>2, <3>1, <3>5 DEF Counted
    <2> QED BY <2>3, <2>4
  <1>4. Good(new, h)
    BY <1>2, <1>3 DEF Good
  <1> QED BY <1>4 DEF new

\* WeakPtr::release of the block that w leads to.
LEMMA ReleaseWeakGood ==
  ASSUME NEW ctl, NEW h, Good(ctl, h), NEW w \in WeakPtrs,
         ctl[w] # NONE, NEW v \in {NULL, NONE}
  PROVE  Good([ctl EXCEPT ![w] = v], Pointers!ReleaseWeak(h, ctl[w]))
  <1>1. CASE ctl[w] = NULL
    <2>1. w \in Pointers!Ptrs
      BY DEF Pointers!Ptrs
    <2> QED BY <1>1, <2>1, SetNothing DEF Pointers!ReleaseWeak
  <1>2. CASE ctl[w] # NULL
    <2> DEFINE b == ctl[w]
               new == [ctl EXCEPT ![w] = v]
               g == Pointers!ReleaseWeak(h, b)
    <2>1. ctl \in Controls /\ h \in Heaps /\ v \in Values
      BY DEF Good, Values
    <2>2. b \in ControlBlocks /\ b # v /\ w \in ObserversOf(ctl, b)
      BY <1>2, <2>1 DEF Controls, Values, Pointers!Ptrs, PointerAssumption, ObserversOf
    <2>3. Counted(ctl, h, b)
      BY <2>2 DEF Good
    <2>4. h.weak_count[b] \in Nat \ {0}
      BY <2>1, <2>2, <2>3, Numbers DEF Counted, Heaps
    <2>5. /\ g \in Heaps
          /\ g.shared_count = h.shared_count /\ g.objects = h.objects
          /\ g.weak_count = [h.weak_count EXCEPT ![b] = h.weak_count[b] - 1]
          /\ g.blocks = IF h.shared_count[b] = 0 /\ h.weak_count[b] = 1 THEN h.blocks \ {b} ELSE h.blocks
      <3>1. g = [blocks |-> IF h.shared_count[b] = 0 /\ h.weak_count[b] = 1 THEN h.blocks \ {b} ELSE h.blocks,
                 objects |-> h.objects, shared_count |-> h.shared_count,
                 weak_count |-> [h.weak_count EXCEPT ![b] = h.weak_count[b] - 1]]
        BY <1>2, <2>1 DEF Pointers!ReleaseWeak, Heaps
      <3>2. g \in Heaps
        BY <2>1, <2>2, <2>4, <3>1 DEF Heaps
      <3> QED BY <3>1, <3>2
    <2> HIDE DEF g
    <2>6. /\ new \in Controls
          /\ \A c : /\ ObserversOf(new, c) = IF c = v THEN ObserversOf(ctl, c) \cup {w} ELSE ObserversOf(ctl, c) \ {w}
                    /\ OwnersOf(new, c) = OwnersOf(ctl, c)
      BY <2>1, SetWeak, Zenon
    <2> HIDE DEF new
    <2>7. Counted(new, g, b)
      <3>1. Cardinality(ObserversOf(new, b)) = Cardinality(ObserversOf(ctl, b)) - 1
        BY <2>2, <2>6, Numbers, FS_RemoveElement
      <3>2. g.weak_count[b] = Cardinality(ObserversOf(new, b)) + (IF OwnersOf(new, b) = {} THEN 0 ELSE 1)
        BY <2>1, <2>2, <2>3, <2>5, <2>6, <3>1, Numbers DEF Counted, Heaps
      <3>3. h.shared_count[b] = 0 /\ h.weak_count[b] = 1 <=> OwnersOf(new, b) = {} /\ ObserversOf(new, b) = {}
        BY <2>3, <2>6, <3>1, Numbers DEF Counted
      <3>4. b \in g.blocks <=> OwnersOf(new, b) # {} \/ ObserversOf(new, b) # {}
        BY <2>2, <2>3, <2>5, <3>3 DEF Counted
      <3> QED BY <2>3, <2>5, <2>6, <3>2, <3>4 DEF Counted
    <2>8. ASSUME NEW c \in ControlBlocks, c # b PROVE Counted(new, g, c)
      <3>1. Counted(ctl, h, c)
        BY DEF Good
      <3>2. ObserversOf(new, c) = ObserversOf(ctl, c)
        BY <2>6, <2>8 DEF ObserversOf, PointerAssumption
      <3>3. g.weak_count[c] = h.weak_count[c]
        BY <2>1, <2>5, <2>8 DEF Heaps
      <3>4. c \in g.blocks <=> c \in h.blocks
        BY <2>5, <2>8
      <3> QED BY <2>5, <2>6, <3>1, <3>2, <3>3, <3>4, SameCounted
    <2>9. Good(new, g)
      BY <2>5, <2>6, <2>7, <2>8 DEF Good
    <2> QED BY <2>9 DEF new, g
  <1> QED BY <1>1, <1>2

\* A weak pointer that leads nowhere becomes one more observer of b.
LEMMA IncrementWeakGood ==
  ASSUME NEW ctl, NEW h, Good(ctl, h), NEW w \in WeakPtrs,
         ctl[w] \in {NULL, NONE}, NEW b \in Values, b # NONE,
         b # NULL => OwnersOf(ctl, b) # {} \/ ObserversOf(ctl, b) # {}
  PROVE  Good([ctl EXCEPT ![w] = b], Pointers!IncrementWeak(h, b))
  <1>1. CASE b = NULL
    <2>1. w \in Pointers!Ptrs
      BY DEF Pointers!Ptrs
    <2> QED BY <1>1, <2>1, SetNothing DEF Pointers!IncrementWeak
  <1>2. CASE b # NULL
    <2> DEFINE new == [ctl EXCEPT ![w] = b]
               g == Pointers!IncrementWeak(h, b)
    <2>1. ctl \in Controls /\ h \in Heaps
      BY DEF Good
    <2>2. b \in ControlBlocks /\ w \notin ObserversOf(ctl, b)
      BY <1>2 DEF PointerAssumption, ObserversOf, Values
    <2>3. /\ g \in Heaps
          /\ g.weak_count = [h.weak_count EXCEPT ![b] = h.weak_count[b] + 1]
          /\ g.shared_count = h.shared_count /\ g.objects = h.objects /\ g.blocks = h.blocks
      BY <1>2, <2>1, <2>2 DEF Pointers!IncrementWeak, Heaps
    <2> HIDE DEF g
    <2>4. /\ new \in Controls
          /\ \A c : /\ ObserversOf(new, c) = IF c = b THEN ObserversOf(ctl, c) \cup {w} ELSE ObserversOf(ctl, c) \ {w}
                    /\ OwnersOf(new, c) = OwnersOf(ctl, c)
      BY <2>1 DEF PointerAssumption, Controls, Pointers!Ptrs, OwnersOf, ObserversOf
    <2> HIDE DEF new
    <2>5. Counted(new, g, b)
      <3>1. Counted(ctl, h, b)
        BY <2>2 DEF Good
      <3>2. Cardinality(ObserversOf(new, b)) = Cardinality(ObserversOf(ctl, b)) + 1
        BY <2>2, <2>4, Numbers, FS_AddElement
      <3>3. g.weak_count[b] = Cardinality(ObserversOf(new, b)) + (IF OwnersOf(new, b) = {} THEN 0 ELSE 1)
        BY <2>1, <2>2, <2>3, <2>4, <3>1, <3>2, Numbers DEF Counted, Heaps
      <3>4. ObserversOf(new, b) # {}
        BY <2>4
      <3> QED BY <1>2, <2>3, <2>4, <3>1, <3>3, <3>4 DEF Counted
    <2>6. ASSUME NEW c \in ControlBlocks, c # b PROVE Counted(new, g, c)
      <3>1. Counted(ctl, h, c)
        BY DEF Good
      <3>2. ObserversOf(new, c) = ObserversOf(ctl, c)
        BY <2>4, <2>6 DEF ObserversOf, PointerAssumption
      <3>3. g.weak_count[c] = h.weak_count[c]
        BY <2>1, <2>3, <2>6 DEF Heaps
      <3> QED BY <2>3, <2>4, <3>1, <3>2, <3>3, SameCounted
    <2>7. Good(new, g)
      BY <2>3, <2>4, <2>5, <2>6 DEF Good
    <2> QED BY <2>7 DEF new, g
  <1> QED BY <1>1, <1>2

-----------------------------------------------------------------------------
(* The operations.                                                         *)

LEMMA PointersInit == Pointers!Init => PointersInv
  <1> SUFFICES ASSUME Pointers!Init PROVE PointersInv
    OBVIOUS
  <1>1. control \in Controls /\ heap \in Heaps
    BY DEF Pointers!Init, Controls, Values, Heaps
  <1>2. ASSUME NEW c \in ControlBlocks PROVE Counted(control, heap, c)
    <2>1. OwnersOf(control, c) = {} /\ ObserversOf(control, c) = {}
      BY DEF Pointers!Init, PointerAssumption, OwnersOf, ObserversOf, Pointers!Ptrs
    <2>2. heap.shared_count[c] = 0 /\ heap.weak_count[c] = 0 /\ heap.objects = {} /\ heap.blocks = {}
      BY DEF Pointers!Init
    <2>3. Cardinality(OwnersOf(control, c)) = 0 /\ Cardinality(ObserversOf(control, c)) = 0
      BY <2>1, FS_EmptySet
    <2> QED BY <2>1, <2>2, <2>3 DEF Counted
  <1> QED BY <1>1, <1>2 DEF PointersInv, Good

LEMMA PointersStep == PointersInv /\ (Pointers!Next \/ UNCHANGED pointers) => PointersInv'
  <1> SUFFICES ASSUME PointersInv, Pointers!Next \/ UNCHANGED pointers PROVE Good(control', heap')
    BY DEF PointersInv
  <1>g. Good(control, heap) /\ control \in Controls
    BY DEF PointersInv, Good
  <1>v. /\ \A r \in Pointers!Ptrs : control[r] \in Values
        /\ \A r \in SharedPtrs : r \in Pointers!Ptrs
        /\ \A r \in WeakPtrs : r \in Pointers!Ptrs
    BY <1>g DEF Controls, Pointers!Ptrs
  <1>o. /\ \A r \in SharedPtrs : r \in OwnersOf(control, control[r])
        /\ \A r \in WeakPtrs : r \in ObserversOf(control, control[r])
    BY DEF OwnersOf, ObserversOf
  <1>1. ASSUME NEW p \in SharedPtrs, Pointers!MakeEmpty(p) PROVE Good(control', heap')
    <2>1. control[p] = NONE /\ control' = [control EXCEPT ![p] = NULL] /\ heap' = heap
      BY <1>1 DEF Pointers!MakeEmpty, Pointers!There, Pointers!Set
    <2> QED BY <1>g, <1>v, <2>1, SetNothing
  <1>2. ASSUME NEW p \in SharedPtrs, Pointers!DestroyShared(p) PROVE Good(control', heap')
    <2>1. /\ control[p] # NONE /\ control' = [control EXCEPT ![p] = NONE]
          /\ heap' = Pointers!ReleaseShared(heap, control[p])
      BY <1>2 DEF Pointers!DestroyShared, Pointers!There, Pointers!Set
    <2> QED BY <1>g, <2>1, ReleaseSharedGood
  <1>3. ASSUME NEW p \in SharedPtrs, NEW c \in ControlBlocks, Pointers!MakeShared(p, c)
        PROVE  Good(control', heap')
    <2>1. control[p] = NONE /\ c \notin heap.blocks /\ control' = [control EXCEPT ![p] = c]
      BY <1>3 DEF Pointers!MakeShared, Pointers!There, Pointers!Set
    <2>2. heap' = [blocks |-> heap.blocks \cup {c}, objects |-> heap.objects \cup {c},
                   shared_count |-> [heap.shared_count EXCEPT ![c] = 1],
                   weak_count |-> [heap.weak_count EXCEPT ![c] = 1]]
      BY <1>3 DEF Pointers!MakeShared
    <2>3. Good([control EXCEPT ![p] = c],
               [blocks |-> heap.blocks \cup {c}, objects |-> heap.objects \cup {c},
                shared_count |-> [heap.shared_count EXCEPT ![c] = 1],
                weak_count |-> [heap.weak_count EXCEPT ![c] = 1]])
      BY <1>g, <2>1, MakeSharedGood
    <2> QED BY <2>1, <2>2, <2>3, Zenon
  <1>4. ASSUME NEW p \in SharedPtrs, NEW q \in SharedPtrs, Pointers!CopyShared(p, q)
        PROVE  Good(control', heap')
    <2>1. /\ control[p] = NONE /\ control[q] # NONE /\ control' = [control EXCEPT ![p] = control[q]]
          /\ heap' = Pointers!IncrementShared(heap, control[q])
      BY <1>4 DEF Pointers!CopyShared, Pointers!There, Pointers!Set
    <2>2. control[q] \in Values /\ OwnersOf(control, control[q]) # {}
      BY <1>v, <1>o
    <2> QED BY <1>g, <2>1, <2>2, IncrementSharedGood
  <1>5. ASSUME NEW p \in SharedPtrs, NEW q \in SharedPtrs, Pointers!MoveShared(p, q)
        PROVE  Good(control', heap')
    <2>1. /\ control[p] = NONE /\ control[q] # NONE /\ p # q /\ heap' = heap
          /\ control' = [control EXCEPT ![p] = control[q], ![q] = NULL]
      BY <1>5 DEF Pointers!MoveShared, Pointers!There
    <2> QED BY <1>g, <2>1, MoveGood
  <1>r. ASSUME NEW p \in SharedPtrs, NEW q \in SharedPtrs, p # q, Pointers!There(p), Pointers!There(q)
        PROVE  LET mid == [control EXCEPT ![p] = NULL]
               IN  /\ Good(mid, Pointers!ReleaseShared(heap, control[p]))
                   /\ mid[p] = NULL /\ mid[q] = control[q] /\ control[q] # NONE
                   /\ OwnersOf(mid, control[q]) # {}
    <2>1. control[p] # NONE /\ control[q] # NONE
      BY <1>r DEF Pointers!There
    <2>2. Good([control EXCEPT ![p] = NULL], Pointers!ReleaseShared(heap, control[p]))
      BY <1>g, <2>1, ReleaseSharedGood
    <2>3. [control EXCEPT ![p] = NULL][p] = NULL /\ [control EXCEPT ![p] = NULL][q] = control[q]
      BY <1>g, <1>r, <1>v DEF Controls
    <2>4. q \in OwnersOf([control EXCEPT ![p] = NULL], control[q])
      BY <2>3 DEF OwnersOf
    <2> QED BY <2>1, <2>2, <2>3, <2>4
  <1>6. ASSUME NEW p \in SharedPtrs, NEW q \in SharedPtrs, Pointers!AssignShared(p, q)
        PROVE  Good(control', heap')
    <2> DEFINE mid == [control EXCEPT ![p] = NULL]
    <2>1. /\ p # q /\ Pointers!There(p) /\ Pointers!There(q) /\ control' = [control EXCEPT ![p] = control[q]]
          /\ heap' = Pointers!IncrementShared(Pointers!ReleaseShared(heap, control[p]), control[q])
      BY <1>6 DEF Pointers!AssignShared, Pointers!Set
    <2>2. /\ Good(mid, Pointers!ReleaseShared(heap, control[p])) /\ mid[p] = NULL /\ control[q] # NONE
          /\ OwnersOf(mid, control[q]) # {}
      BY <1>r, <2>1
    <2>3. control' = [mid EXCEPT ![p] = control[q]]
      BY <1>g, <2>1 DEF Controls
    <2>4. control[q] \in Values
      BY <1>v
    <2> HIDE DEF mid
    <2>5. Good([mid EXCEPT ![p] = control[q]], Pointers!IncrementShared(Pointers!ReleaseShared(heap, control[p]), control[q]))
      BY <2>2, <2>4, IncrementSharedGood
    <2> QED BY <2>1, <2>3, <2>5
  <1>7. ASSUME NEW p \in SharedPtrs, NEW q \in SharedPtrs, Pointers!MoveAssignShared(p, q)
        PROVE  Good(control', heap')
    <2> DEFINE mid == [control EXCEPT ![p] = NULL]
    <2>1. /\ p # q /\ Pointers!There(p) /\ Pointers!There(q) /\ control' = [control EXCEPT ![p] = control[q], ![q] = NULL]
          /\ heap' = Pointers!ReleaseShared(heap, control[p])
      BY <1>7 DEF Pointers!MoveAssignShared
    <2>2. /\ Good(mid, Pointers!ReleaseShared(heap, control[p])) /\ mid[p] = NULL /\ mid[q] = control[q]
          /\ control[q] # NONE
      BY <1>r, <2>1
    <2>3. control' = [mid EXCEPT ![p] = mid[q], ![q] = NULL]
      BY <1>g, <2>1, <2>2 DEF Controls
    <2> HIDE DEF mid
    <2>4. Good([mid EXCEPT ![p] = mid[q], ![q] = NULL], Pointers!ReleaseShared(heap, control[p]))
      BY <2>1, <2>2, MoveGood
    <2> QED BY <2>1, <2>3, <2>4
  <1>8. ASSUME NEW p \in SharedPtrs, NEW w \in WeakPtrs, Pointers!Lock(p, w) PROVE Good(control', heap')
    <2> DEFINE c == IF Pointers!expired(control[w]) THEN NULL ELSE control[w]
    <2>1. /\ control[p] = NONE /\ control[w] # NONE /\ control' = [control EXCEPT ![p] = c]
          /\ heap' = Pointers!IncrementShared(heap, c)
      BY <1>8 DEF Pointers!Lock, Pointers!There, Pointers!Set
    <2>2. c \in Values /\ c # NONE
      BY <1>v, <2>1 DEF Values, PointerAssumption
    <2>3. c # NULL => OwnersOf(control, c) # {}
      <3> SUFFICES ASSUME c # NULL PROVE OwnersOf(control, c) # {}
        OBVIOUS
      <3>1. heap.shared_count[c] # 0
        BY DEF Pointers!expired
      <3>2. c \in ControlBlocks
        BY <2>2 DEF Values
      <3>3. heap.shared_count[c] = Cardinality(OwnersOf(control, c))
        BY <1>g, <3>2 DEF Good, Counted
      <3> HIDE DEF c
      <3> QED BY <3>1, <3>3, Numbers
    <2> HIDE DEF c
    <2> QED BY <1>g, <2>1, <2>2, <2>3, IncrementSharedGood
  <1>9. ASSUME NEW w \in WeakPtrs, Pointers!MakeWeak(w) PROVE Good(control', heap')
    <2>1. control[w] = NONE /\ control' = [control EXCEPT ![w] = NULL] /\ heap' = heap
      BY <1>9 DEF Pointers!MakeWeak, Pointers!There, Pointers!Set
    <2> QED BY <1>g, <1>v, <2>1, SetNothing
  <1>10. ASSUME NEW w \in WeakPtrs, Pointers!DestroyWeak(w) PROVE Good(control', heap')
    <2>1. /\ control[w] # NONE /\ control' = [control EXCEPT ![w] = NONE]
          /\ heap' = Pointers!ReleaseWeak(heap, control[w])
      BY <1>10 DEF Pointers!DestroyWeak, Pointers!There, Pointers!Set
    <2> QED BY <1>g, <2>1, ReleaseWeakGood
  <1>11. ASSUME NEW w \in WeakPtrs, NEW p \in Pointers!Ptrs, Pointers!CopyWeak(w, p) PROVE Good(control', heap')
    <2>1. /\ control[w] = NONE /\ control[p] # NONE /\ control' = [control EXCEPT ![w] = control[p]]
          /\ heap' = Pointers!IncrementWeak(heap, control[p])
      BY <1>11 DEF Pointers!CopyWeak, Pointers!There, Pointers!Set
    <2>2. OwnersOf(control, control[p]) # {} \/ ObserversOf(control, control[p]) # {}
      BY <1>o DEF Pointers!Ptrs
    <2>3. control[p] \in Values
      BY <1>v
    <2> QED BY <1>g, <2>1, <2>2, <2>3, IncrementWeakGood
  <1>12. ASSUME NEW w \in WeakPtrs, NEW x \in WeakPtrs, Pointers!AssignWeak(w, x) PROVE Good(control', heap')
    <2> DEFINE mid == [control EXCEPT ![w] = NULL]
    <2>1. /\ w # x /\ control[w] # NONE /\ control[x] # NONE
          /\ control' = [control EXCEPT ![w] = control[x]]
          /\ heap' = Pointers!IncrementWeak(Pointers!ReleaseWeak(heap, control[w]), control[x])
      BY <1>12 DEF Pointers!AssignWeak, Pointers!Set, Pointers!There
    <2>2. Good(mid, Pointers!ReleaseWeak(heap, control[w]))
      BY <1>g, <2>1, ReleaseWeakGood
    <2>3. mid[w] = NULL /\ mid[x] = control[x] /\ control' = [mid EXCEPT ![w] = control[x]]
      BY <1>g, <1>v, <2>1 DEF Controls
    <2> HIDE DEF mid
    <2>4. x \in ObserversOf(mid, control[x])
      BY <2>3 DEF ObserversOf
    <2>5. control[x] \in Values
      BY <1>v
    <2>6. Good([mid EXCEPT ![w] = control[x]], Pointers!IncrementWeak(Pointers!ReleaseWeak(heap, control[w]), control[x]))
      BY <2>1, <2>2, <2>3, <2>4, <2>5, IncrementWeakGood
    <2> QED BY <2>1, <2>3, <2>6
  <1>13. CASE UNCHANGED pointers
    BY <1>g, <1>13 DEF pointers
  <1> QED BY <1>1, <1>2, <1>3, <1>4, <1>5, <1>6, <1>7, <1>8, <1>9, <1>10, <1>11, <1>12, <1>13
          DEF Pointers!Next

\* However SharedPtr and WeakPtr variables are made, copied, moved, assigned,
\* locked and destroyed, in any number, the object is deleted by its last owner
\* and the control block by its last pointer, and neither earlier.
THEOREM DeletedByLast == MCSpec => []DeletedWithLastPointer
  <1>1. PointersInv => DeletedWithLastPointer
    BY DEF PointersInv, Good, Counted, DeletedWithLastPointer, Pointers!DeletedWithLastPointer,
           OwnersOf, ObserversOf, Pointers!Owners, Pointers!Observers
  <1>2. MCInit => PointersInv
    BY PointersInit DEF MCInit
  <1>3. PointersInv /\ [MCNext]_<<part, vars, pointers, vectors, feeds>> => PointersInv'
    <2>1. ASSUME PointersInv, UNCHANGED pointers PROVE PointersInv'
      BY <2>1, PointersStep
    <2>2. ASSUME PointersInv, Pointers!Next PROVE PointersInv'
      BY <2>2, PointersStep
    <2> QED BY <2>1, <2>2 DEF MCNext
  <1> QED BY <1>1, <1>2, <1>3, PTL DEF MCSpec

-----------------------------------------------------------------------------
(* The vectors.  What a vector stores and what the heap holds is stated    *)
(* for any members, heap and elements, so that it can be followed through  *)
(* the functions of which a call is made.                                  *)

Members == [data_ : Allocations \cup {NULL}, size_ : Nat, capacity_ : Nat]
Blocks == [room : Nat, elems : Seq(Elements)]
Memories == [memory : [Allocations -> Blocks \cup {NULL}],
             trouble : SUBSET {"misuse", "leak", "moved over", "dangling"}]

\* The members m, with heap h, store the elements xs.
Stores(h, m, xs) ==
    /\ m \in Members /\ xs \in Seq(Elements) /\ Len(xs) = m.size_
    /\ IF m.data_ = NULL THEN m = Vectors!Empty
       ELSE h.memory[m.data_] = [room |-> m.capacity_, elems |-> xs] /\ m.size_ <= m.capacity_

\* On the way from heap h and members m to heap g and members n, the memory of
\* m is given back or kept, that of n is new or kept, and no other is touched.
Moved(h, m, g, n, xs) ==
    /\ h \in Memories /\ g \in Memories /\ g.trouble = h.trouble
    /\ m \in Members /\ Stores(g, n, xs)
    /\ \A b \in Allocations : b # m.data_ /\ b # n.data_ => g.memory[b] = h.memory[b]
    /\ m.data_ # n.data_ /\ m.data_ # NULL => g.memory[m.data_] = NULL
    /\ m.data_ # n.data_ /\ n.data_ # NULL => h.memory[n.data_] = NULL

\* What the calls should have stored is c, and it is there.
Keeps(h, m, c) ==
    \E xs : /\ Stores(h, m, xs) /\ Len(xs) = Len(c)
            /\ "dangling" \notin h.trouble => xs = c

Sound(V, h, C) ==
    /\ V \in [Vecs -> Members \cup {NONE}] /\ h \in Memories /\ C \in [Vecs -> Seq(Elements)]
    /\ "misuse" \notin h.trouble
    /\ "leak" \in h.trouble => "moved over" \in h.trouble
    /\ \A v \in Vecs : V[v] # NONE => Keeps(h, V[v], C[v])
    /\ \A v, w \in Vecs :
          v # w /\ V[v] # NONE /\ V[w] # NONE /\ V[v].data_ = V[w].data_ => V[v].data_ = NULL
    /\ \A a \in Allocations : h.memory[a] # NULL => \E v \in Vecs : V[v] # NONE /\ V[v].data_ = a

VectorsInv == Sound(vec, vecHeap, contents)

-----------------------------------------------------------------------------
LEMMA EmptyMember == Vectors!Empty \in Members /\ Vectors!Empty.data_ = NULL
                     /\ Vectors!Empty.size_ = 0 /\ Vectors!Empty.capacity_ = 0
  BY DEF Members, Vectors!Empty

LEMMA EmptyStores ==
  ASSUME NEW h
  PROVE  Stores(h, Vectors!Empty, <<>>)
  <1>1. <<>> \in Seq(Elements) /\ Len(<<>>) = 0
    BY EmptySeq, Zenon
  <1> QED BY <1>1, EmptyMember DEF Stores

\* Nothing moves.
LEMMA StandStill ==
  ASSUME NEW h \in Memories, NEW m, NEW xs, Stores(h, m, xs)
  PROVE  Moved(h, m, h, m, xs)
  BY DEF Moved, Stores

\* The memory of a vector changes its elements.
LEMMA MovedWithin ==
  ASSUME NEW h \in Memories, NEW m \in Members, NEW a \in Allocations, m.data_ = a,
         NEW n \in Members, n.data_ = a, n.size_ <= n.capacity_,
         NEW xs \in Seq(Elements), Len(xs) = n.size_,
         NEW g \in Memories, g.trouble = h.trouble,
         g.memory = [h.memory EXCEPT ![a] = [room |-> n.capacity_, elems |-> xs]]
  PROVE  Moved(h, m, g, n, xs)
  <1>1. h.memory \in [Allocations -> Blocks \cup {NULL}] /\ a # NULL
    BY VectorAssumption DEF Memories
  <1>2. g.memory[a] = [room |-> n.capacity_, elems |-> xs] /\ \A b \in Allocations : b # a => g.memory[b] = h.memory[b]
    BY <1>1
  <1> QED BY <1>1, <1>2 DEF Moved, Stores

\* new.
LEMMA NewMoved ==
  ASSUME NEW h \in Memories, NEW a \in Allocations, h.memory[a] = NULL, NEW n \in Nat
  PROVE  Moved(h, Vectors!Empty, Vectors!New(h, a, n),
               [data_ |-> a, size_ |-> 0, capacity_ |-> n], <<>>)
  <1>1. <<>> \in Seq(Elements) /\ Len(<<>>) = 0
    BY EmptySeq, Zenon
  <1>2. PICK g : g = Vectors!New(h, a, n)
    OBVIOUS
  <1>3. PICK x : x = [data_ |-> a, size_ |-> 0, capacity_ |-> n]
    OBVIOUS
  <1>4. /\ h.memory \in [Allocations -> Blocks \cup {NULL}] /\ a # NULL
        /\ [room |-> n, elems |-> <<>>] \in Blocks
    BY <1>1, VectorAssumption DEF Memories, Blocks
  <1>5. /\ g \in Memories /\ g.trouble = h.trouble
        /\ g.memory = [h.memory EXCEPT ![a] = [room |-> n, elems |-> <<>>]]
    BY <1>2, <1>4 DEF Vectors!New, Memories
  <1>6. g.memory[a] = [room |-> n, elems |-> <<>>] /\ \A b \in Allocations : b # a => g.memory[b] = h.memory[b]
    BY <1>4, <1>5
  <1>7. x \in Members /\ x.data_ = a /\ x.size_ = 0 /\ x.capacity_ = n
    BY <1>3 DEF Members
  <1>8. Stores(g, x, <<>>)
    BY <1>1, <1>4, <1>6, <1>7 DEF Stores
  <1>9. Moved(h, Vectors!Empty, g, x, <<>>)
    BY <1>4, <1>5, <1>6, <1>7, <1>8, EmptyMember DEF Moved
  <1> QED BY <1>2, <1>3, <1>9

\* A second step on the same memory.
LEMMA MovedThen ==
  ASSUME NEW h, NEW m, NEW g, NEW n, NEW xs, Moved(h, m, g, n, xs),
         NEW f, NEW k, NEW ys, Moved(g, n, f, k, ys), k.data_ = n.data_
  PROVE  Moved(h, m, f, k, ys)
  <1>1. /\ h \in Memories /\ f \in Memories /\ f.trouble = h.trouble
        /\ m \in Members /\ Stores(f, k, ys)
    BY DEF Moved
  <1>2. ASSUME NEW b \in Allocations, b # m.data_, b # k.data_ PROVE f.memory[b] = h.memory[b]
    BY <1>2 DEF Moved
  <1>3. ASSUME m.data_ # k.data_, m.data_ # NULL PROVE f.memory[m.data_] = NULL
    <2>1. m.data_ \in Allocations
      BY <1>3 DEF Moved, Members
    <2> QED BY <1>3, <2>1 DEF Moved
  <1>4. ASSUME m.data_ # k.data_, k.data_ # NULL PROVE h.memory[k.data_] = NULL
    BY <1>4 DEF Moved
  <1> QED BY <1>1, <1>2, <1>3, <1>4 DEF Moved

\* Memory in use is not NULL.
LEMMA InUse ==
  ASSUME NEW h \in Memories, NEW m, NEW xs, Stores(h, m, xs), m.data_ # NULL
  PROVE  /\ m.data_ \in Allocations /\ Vectors!Live(h, m.data_)
         /\ h.memory[m.data_] = [room |-> m.capacity_, elems |-> xs]
         /\ [room |-> m.capacity_, elems |-> xs] \in Blocks
         /\ h.memory[m.data_].room = m.capacity_ /\ h.memory[m.data_].elems = xs
         /\ m.size_ \in Nat /\ m.capacity_ \in Nat /\ m.size_ <= m.capacity_ /\ Len(xs) = m.size_
  <1>1. m.data_ \in Allocations
    BY DEF Stores, Members
  <1>2. h.memory[m.data_] = [room |-> m.capacity_, elems |-> xs] /\ [room |-> m.capacity_, elems |-> xs] \in Blocks
    BY DEF Stores, Members, Blocks
  <1>3. h.memory[m.data_] # NULL
    BY <1>2, VectorAssumption DEF Blocks
  <1>4. m.size_ \in Nat /\ m.capacity_ \in Nat /\ m.size_ <= m.capacity_ /\ Len(xs) = m.size_
    BY DEF Stores, Members
  <1> QED BY <1>1, <1>2, <1>3, <1>4 DEF Vectors!Live

\* The elements of a vector.
LEMMA AtStored ==
  ASSUME NEW h \in Memories, NEW m, NEW xs, Stores(h, m, xs)
  PROVE  Vectors!At([h |-> h, m |-> m]) = xs
  <1>1. CASE m.data_ = NULL
    <2>1. xs = <<>>
      <3>1. xs \in Seq(Elements) /\ Len(xs) = 0
        BY <1>1, EmptyMember DEF Stores
      <3> QED BY <3>1, EmptySeq
    <2> QED BY <1>1, <2>1 DEF Vectors!At, Vectors!Live
  <1>2. CASE m.data_ # NULL
    <2>1. Vectors!Live(h, m.data_)
      BY <1>2, InUse
    <2>3. h.memory[m.data_].elems = xs /\ Len(xs) = m.size_
      BY <1>2 DEF Stores
    <2>2. SubSeq(xs, 1, Len(xs)) = xs
      <3>1. xs \in Seq(Elements)
        BY DEF Stores
      <3> QED BY <3>1
    <2> QED BY <2>1, <2>2, <2>3 DEF Vectors!At
  <1> QED BY <1>1, <1>2

\* The elements of one allocation are replaced.
LEMMA ElementsReplaced ==
  ASSUME NEW h \in Memories, NEW a \in Allocations, NEW r, NEW xs, NEW ys,
         h.memory[a] = [room |-> r, elems |-> xs], [room |-> r, elems |-> ys] \in Blocks
  PROVE  /\ [h EXCEPT !.memory[a].elems = ys] \in Memories
         /\ [h EXCEPT !.memory[a].elems = ys].trouble = h.trouble
         /\ [h EXCEPT !.memory[a].elems = ys].memory
                = [h.memory EXCEPT ![a] = [room |-> r, elems |-> ys]]
  <1>1. [h.memory[a] EXCEPT !.elems = ys] = [room |-> r, elems |-> ys]
    OBVIOUS
  <1>2. h.memory \in [Allocations -> Blocks \cup {NULL}]
    BY DEF Memories
  <1>3. PICK x : x = [h.memory EXCEPT ![a] = [room |-> r, elems |-> ys]]
    OBVIOUS
  <1>4. x \in [Allocations -> Blocks \cup {NULL}]
    BY <1>2, <1>3
  <1>5. [h EXCEPT !.memory[a].elems = ys] = [h EXCEPT !.memory = x]
    BY <1>1, <1>3
  <1>6. [h EXCEPT !.memory = x] \in Memories /\ [h EXCEPT !.memory = x].trouble = h.trouble
        /\ [h EXCEPT !.memory = x].memory = x
    BY <1>4 DEF Memories
  <1> QED BY <1>3, <1>5, <1>6

\* Construct, where there is room.
LEMMA ConstructMoved ==
  ASSUME NEW h, NEW m, NEW g, NEW n, NEW xs, Moved(h, m, g, n, xs),
         NEW es \in Seq(Elements), n.size_ + Len(es) <= n.capacity_,
         NEW k \in Members, k.data_ = n.data_, k.capacity_ = n.capacity_, k.size_ = n.size_ + Len(es)
  PROVE  Moved(h, m, Vectors!Construct(g, n.data_, n.size_, es), k, xs \o es)
  <1>1. /\ g \in Memories /\ n \in Members /\ xs \in Seq(Elements) /\ Stores(g, n, xs)
        /\ n.size_ \in Nat /\ n.capacity_ \in Nat /\ n.size_ = Len(xs) /\ Len(es) \in Nat
    BY DEF Moved, Stores, Members
  <1>2. CASE es = <<>>
    <2>1. Len(es) = 0 /\ xs \o es = xs
      BY <1>1, <1>2
    <2>2. k = n
      BY <1>1, <2>1 DEF Members
    <2>3. Vectors!Construct(g, n.data_, n.size_, es) = g
      BY <1>2 DEF Vectors!Construct
    <2> QED BY <2>1, <2>2, <2>3
  <1>3. CASE es # <<>>
    <2>1. Len(es) > 0
      BY <1>3, EmptySeq
    <2>2. n.data_ # NULL
      <3>1. CASE n.data_ = NULL
        <4>1. n.capacity_ = 0
          BY <1>1, <3>1, EmptyMember DEF Stores
        <4> QED BY <1>1, <2>1, <4>1
      <3> QED BY <3>1
    <2>3. /\ n.data_ \in Allocations /\ Vectors!Live(g, n.data_)
          /\ g.memory[n.data_] = [room |-> n.capacity_, elems |-> xs]
          /\ g.memory[n.data_].room = n.capacity_ /\ g.memory[n.data_].elems = xs
      BY <1>1, <2>2, InUse
    <2>4. PICK f : f = Vectors!Construct(g, n.data_, n.size_, es)
      OBVIOUS
    <2>5. f = [g EXCEPT !.memory[n.data_].elems = @ \o es]
      BY <1>1, <1>3, <2>3, <2>4 DEF Vectors!Construct
    <2>6. xs \o es \in Seq(Elements) /\ Len(xs \o es) = k.size_
      BY <1>1
    <2>7. PICK ys : ys = xs \o es
      OBVIOUS
    <2>8. ys \in Seq(Elements) /\ Len(ys) = k.size_
      BY <2>6, <2>7
    <2>9. [room |-> n.capacity_, elems |-> ys] \in Blocks
      BY <1>1, <2>8 DEF Blocks
    <2>10. f = [g EXCEPT !.memory[n.data_].elems = ys]
      BY <2>3, <2>5, <2>7
    <2>11. /\ f \in Memories /\ f.trouble = g.trouble
           /\ f.memory = [g.memory EXCEPT ![n.data_] = [room |-> n.capacity_, elems |-> ys]]
      <3>1. g \in Memories /\ g.memory[n.data_] = [room |-> n.capacity_, elems |-> xs]
        BY <1>1, <2>3
      <3>2. [g EXCEPT !.memory[n.data_].elems = ys] \in Memories
        BY <2>3, <2>9, <3>1, ElementsReplaced
      <3>3. [g EXCEPT !.memory[n.data_].elems = ys].trouble = g.trouble
        BY <2>3, <2>9, <3>1, ElementsReplaced
      <3>4. [g EXCEPT !.memory[n.data_].elems = ys].memory
                = [g.memory EXCEPT ![n.data_] = [room |-> n.capacity_, elems |-> ys]]
        BY <2>3, <2>9, <3>1, ElementsReplaced
      <3> QED BY <2>10, <3>2, <3>3, <3>4
    <2>13. k.size_ <= k.capacity_
      OBVIOUS
    <2>14. Moved(g, n, f, k, ys)
      BY <1>1, <2>3, <2>8, <2>11, <2>13, MovedWithin
    <2>15. Moved(h, m, f, k, ys)
      BY <2>14, MovedThen
    <2> QED BY <2>4, <2>7, <2>15
  <1> QED BY <1>2, <1>3

\* Destroying all elements of a vector.
LEMMA DestroyMoved ==
  ASSUME NEW h \in Memories, NEW m, NEW xs, Stores(h, m, xs)
  PROVE  Moved(h, m, Vectors!Destroy(h, m.data_, m.size_), [m EXCEPT !.size_ = 0], <<>>)
  <1>1. <<>> \in Seq(Elements) /\ Len(<<>>) = 0
    BY EmptySeq, Zenon
  <1>2. m \in Members /\ xs \in Seq(Elements) /\ Len(xs) = m.size_ /\ m.size_ \in Nat
    BY DEF Stores, Members
  <1>3. PICK n : n = [m EXCEPT !.size_ = 0]
    OBVIOUS
  <1>4. n \in Members /\ n.data_ = m.data_ /\ n.capacity_ = m.capacity_ /\ n.size_ = 0
    BY <1>2, <1>3 DEF Members
  <1>5. PICK g : g = Vectors!Destroy(h, m.data_, m.size_)
    OBVIOUS
  <1>6. CASE m.size_ = 0
    <2>1. g = h
      BY <1>5, <1>6 DEF Vectors!Destroy
    <2>2. xs = <<>>
      BY <1>2, <1>6, EmptySeq
    <2>3. n = m
      BY <1>2, <1>3, <1>6 DEF Members
    <2>4. Moved(h, m, h, m, xs)
      BY StandStill
    <2>5. Moved(h, m, g, n, <<>>)
      BY <2>1, <2>2, <2>3, <2>4
    <2> QED BY <1>3, <1>5, <2>5
  <1>7. CASE m.size_ # 0
    <2>1. m.data_ # NULL
      BY <1>7, EmptyMember DEF Stores
    <2>2. m.data_ \in Allocations /\ Vectors!Live(h, m.data_)
      BY <2>1, InUse
    <2>3. h.memory[m.data_] = [room |-> m.capacity_, elems |-> xs] /\ h.memory[m.data_].elems = xs
      BY <2>1 DEF Stores
    <2>4. g = [h EXCEPT !.memory[m.data_].elems = SubSeq(xs, Len(xs) + 1, Len(xs))]
      BY <1>2, <1>5, <1>7, <2>2, <2>3 DEF Vectors!Destroy
    <2>5. SubSeq(xs, Len(xs) + 1, Len(xs)) = <<>>
      BY <1>2
    <2>6. PICK ys : ys = <<>>
      OBVIOUS
    <2>7. g = [h EXCEPT !.memory[m.data_].elems = ys]
      BY <2>4, <2>5, <2>6
    <2>8. ys \in Seq(Elements) /\ Len(ys) = 0
      BY <1>1, <2>6
    <2>9. [room |-> m.capacity_, elems |-> ys] \in Blocks
      BY <1>2, <2>8 DEF Members, Blocks
    <2>10. [h EXCEPT !.memory[m.data_].elems = ys] \in Memories
      BY <2>2, <2>3, <2>9, ElementsReplaced
    <2>11. [h EXCEPT !.memory[m.data_].elems = ys].trouble = h.trouble
      BY <2>2, <2>3, <2>9, ElementsReplaced
    <2>12. [h EXCEPT !.memory[m.data_].elems = ys].memory
              = [h.memory EXCEPT ![m.data_] = [room |-> m.capacity_, elems |-> ys]]
      BY <2>2, <2>3, <2>9, ElementsReplaced
    <2>13. g \in Memories /\ g.trouble = h.trouble
           /\ g.memory = [h.memory EXCEPT ![m.data_] = [room |-> n.capacity_, elems |-> ys]]
      BY <1>4, <2>7, <2>10, <2>11, <2>12
    <2>14. n.size_ <= n.capacity_
      BY <1>4 DEF Members
    <2>15. Moved(h, m, g, n, ys)
      BY <1>2, <1>4, <2>2, <2>8, <2>13, <2>14, MovedWithin
    <2> QED BY <1>3, <1>5, <2>6, <2>15
  <1> QED BY <1>6, <1>7

\* delete[], after the elements were destroyed.
FreedFrom(h, a, g) ==
    /\ g \in Memories /\ g.trouble = h.trouble
    /\ \A b \in Allocations : g.memory[b] = IF b = a THEN NULL ELSE h.memory[b]

LEMMA DeleteFrees ==
  ASSUME NEW h \in Memories, NEW m, NEW xs, Stores(h, m, xs)
  PROVE  FreedFrom(h, m.data_, Vectors!Delete(Vectors!Destroy(h, m.data_, m.size_), m.data_))
  <1>1. PICK g : g = Vectors!Destroy(h, m.data_, m.size_)
    OBVIOUS
  <1>2. PICK n : n = [m EXCEPT !.size_ = 0]
    OBVIOUS
  <1>3. Moved(h, m, g, n, <<>>)
    BY <1>1, <1>2, DestroyMoved
  <1>4. m \in Members /\ n.data_ = m.data_
    BY <1>2 DEF Stores, Members
  <1>5. g \in Memories /\ g.trouble = h.trouble /\ Stores(g, n, <<>>)
        /\ \A b \in Allocations : b # m.data_ => g.memory[b] = h.memory[b]
    BY <1>3, <1>4 DEF Moved
  <1>6. PICK f : f = Vectors!Delete(g, m.data_)
    OBVIOUS
  <1>7. CASE m.data_ = NULL
    <2>1. f = g
      BY <1>6, <1>7 DEF Vectors!Delete
    <2>2. \A b \in Allocations : b # m.data_
      BY <1>7, VectorAssumption
    <2> QED BY <1>1, <1>5, <1>6, <2>1, <2>2 DEF FreedFrom
  <1>8. CASE m.data_ # NULL
    <2>1. m.data_ \in Allocations /\ Vectors!Live(g, m.data_)
      BY <1>4, <1>5, <1>8, InUse
    <2>2. g.memory[m.data_].elems = <<>>
      BY <1>4, <1>5, <1>8 DEF Stores
    <2>3. f = [memory |-> [g.memory EXCEPT ![m.data_] = NULL], trouble |-> g.trouble]
      BY <1>6, <1>8, <2>1, <2>2 DEF Vectors!Delete
    <2>4. g.memory \in [Allocations -> Blocks \cup {NULL}] /\ g.trouble \in SUBSET {"misuse", "leak", "moved over", "dangling"}
      BY <1>5 DEF Memories
    <2>5. f \in Memories /\ f.trouble = h.trouble
      BY <1>5, <2>3, <2>4 DEF Memories
    <2>6. \A b \in Allocations : f.memory[b] = IF b = m.data_ THEN NULL ELSE h.memory[b]
      BY <1>5, <2>3, <2>4
    <2> QED BY <1>1, <1>6, <2>5, <2>6 DEF FreedFrom
  <1> QED BY <1>7, <1>8

\* Replacing the memory keeps the elements.
Reallocated(h, m, a, n, xs) ==
    \E g, k : /\ Vectors!reallocate([h |-> h, m |-> m], a, n) = [h |-> g, m |-> k]
              /\ Moved(h, m, g, k, xs) /\ k.size_ = m.size_ /\ k.capacity_ = n

LEMMA ReallocateMoved ==
  ASSUME NEW h \in Memories, NEW m, NEW xs, Stores(h, m, xs),
         NEW a \in Allocations, h.memory[a] = NULL, NEW n \in Nat, m.size_ <= n
  PROVE  Reallocated(h, m, a, n, xs)
  <1>1. m \in Members /\ xs \in Seq(Elements) /\ Len(xs) = m.size_ /\ m.size_ \in Nat
    BY DEF Stores, Members
  <1>2. PICK k : k = [m EXCEPT !.data_ = a, !.capacity_ = n]
    OBVIOUS
  <1>3. k \in Members /\ k.data_ = a /\ k.capacity_ = n /\ k.size_ = m.size_
    BY <1>1, <1>2 DEF Members
  <1>4. PICK g : g = Vectors!New(h, a, n)
    OBVIOUS
  <1>5. PICK x : x = [data_ |-> a, size_ |-> 0, capacity_ |-> n]
    OBVIOUS
  <1>6. Moved(h, Vectors!Empty, g, x, <<>>)
    BY <1>4, <1>5, NewMoved
  <1>7. x.data_ = a /\ x.size_ = 0 /\ x.capacity_ = n
    BY <1>5
  <1>8. PICK f : f = Vectors!Construct(g, a, 0, xs)
    OBVIOUS
  <1>9. <<>> \o xs = xs
    BY <1>1
  <1>10. PICK none : none = <<>>
    OBVIOUS
  <1>11. Moved(h, Vectors!Empty, f, k, none \o xs)
    <2>1. Moved(h, Vectors!Empty, g, x, none)
      BY <1>6, <1>10
    <2>2. x.size_ + Len(xs) <= x.capacity_ /\ k.data_ = x.data_ /\ k.capacity_ = x.capacity_
          /\ k.size_ = x.size_ + Len(xs)
      BY <1>1, <1>3, <1>7
    <2>3. Moved(h, Vectors!Empty, Vectors!Construct(g, x.data_, x.size_, xs), k, none \o xs)
      BY <1>1, <1>3, <2>1, <2>2, ConstructMoved
    <2> QED BY <1>7, <1>8, <2>3
  <1>12. Moved(h, Vectors!Empty, f, k, xs)
    BY <1>9, <1>10, <1>11
  <1>13. /\ f \in Memories /\ f.trouble = h.trouble /\ Stores(f, k, xs) /\ a # NULL
         /\ \A b \in Allocations : b # a => f.memory[b] = h.memory[b]
    BY <1>3, <1>12, EmptyMember, VectorAssumption DEF Moved
  <1>14. m.data_ # a
    <2>1. CASE m.data_ # NULL
      <3>1. h.memory[m.data_] # NULL
        BY <2>1, InUse DEF Vectors!Live
      <3> QED BY <3>1
    <2> QED BY <1>13, <2>1
  <1>15. Stores(f, m, xs)
    <2>1. m.data_ # NULL => f.memory[m.data_] = h.memory[m.data_]
      BY <1>1, <1>13, <1>14 DEF Members
    <2> QED BY <2>1 DEF Stores
  <1>16. PICK e : e = Vectors!Delete(Vectors!Destroy(f, m.data_, m.size_), m.data_)
    OBVIOUS
  <1>17. FreedFrom(f, m.data_, e)
    BY <1>13, <1>15, <1>16, DeleteFrees
  <1>18. Stores(e, k, xs)
    <2>1. e.memory[a] = f.memory[a]
      BY <1>14, <1>17 DEF FreedFrom
    <2> QED BY <1>3, <1>13, <2>1 DEF Stores
  <1>19. Moved(h, m, e, k, xs)
    <2>1. m.data_ # NULL => e.memory[m.data_] = NULL
      BY <1>1, <1>17 DEF FreedFrom, Members
    <2> QED BY <1>1, <1>3, <1>13, <1>17, <1>18, <2>1 DEF Moved, FreedFrom
  <1>20. Vectors!At([h |-> h, m |-> m]) = xs
    BY AtStored
  <1>21. Vectors!reallocate([h |-> h, m |-> m], a, n) = [h |-> e, m |-> k]
    BY <1>2, <1>4, <1>8, <1>16, <1>20 DEF Vectors!reallocate
  <1> QED BY <1>3, <1>19, <1>21 DEF Reallocated

\* A step after one that kept the memory.
LEMMA ThenMoved ==
  ASSUME NEW h, NEW m, NEW g, NEW n, NEW xs, Moved(h, m, g, n, xs), n.data_ = m.data_,
         NEW f, NEW k, NEW ys, Moved(g, n, f, k, ys)
  PROVE  Moved(h, m, f, k, ys)
  <1>1. /\ h \in Memories /\ f \in Memories /\ f.trouble = h.trouble
        /\ m \in Members /\ Stores(f, k, ys)
    BY DEF Moved
  <1>2. ASSUME NEW b \in Allocations, b # m.data_, b # k.data_ PROVE f.memory[b] = h.memory[b]
    BY <1>2 DEF Moved
  <1>3. ASSUME m.data_ # k.data_, m.data_ # NULL PROVE f.memory[m.data_] = NULL
    BY <1>3 DEF Moved
  <1>4. ASSUME m.data_ # k.data_, k.data_ # NULL PROVE h.memory[k.data_] = NULL
    <2>1. k.data_ \in Allocations
      BY <1>1, <1>4 DEF Stores, Members
    <2> QED BY <1>4, <2>1 DEF Moved
  <1> QED BY <1>1, <1>2, <1>3, <1>4 DEF Moved

\* What is stored fits.
LEMMA Fits ==
  ASSUME NEW h, NEW m, NEW xs, Stores(h, m, xs)
  PROVE  /\ m \in Members /\ xs \in Seq(Elements) /\ Len(xs) = m.size_
         /\ m.size_ \in Nat /\ m.capacity_ \in Nat /\ m.size_ <= m.capacity_
  <1>1. m \in Members /\ xs \in Seq(Elements) /\ Len(xs) = m.size_ /\ m.size_ \in Nat /\ m.capacity_ \in Nat
    BY DEF Stores, Members
  <1>2. m.size_ <= m.capacity_
    BY EmptyMember DEF Stores
  <1> QED BY <1>1, <1>2

\* reserve.
LEMMA ReserveMoved ==
  ASSUME NEW h \in Memories, NEW m, NEW xs, Stores(h, m, xs),
         NEW a \in Allocations, h.memory[a] = NULL, NEW n \in Nat
  PROVE  \E g, k : /\ Vectors!Reserve([h |-> h, m |-> m], a, n) = [h |-> g, m |-> k]
                   /\ Moved(h, m, g, k, xs) /\ k.size_ = m.size_ /\ k.capacity_ >= n
  <1>1. /\ m \in Members /\ m.size_ \in Nat /\ m.capacity_ \in Nat /\ m.size_ <= m.capacity_
    BY Fits
  <1>2. CASE n > m.capacity_
    <2>1. m.size_ <= n
      BY <1>1, <1>2
    <2>2. PICK g, k : /\ Vectors!reallocate([h |-> h, m |-> m], a, n) = [h |-> g, m |-> k]
                      /\ Moved(h, m, g, k, xs) /\ k.size_ = m.size_ /\ k.capacity_ = n
      <3>1. Reallocated(h, m, a, n, xs)
        BY <2>1, ReallocateMoved
      <3> QED BY <3>1 DEF Reallocated
    <2>3. Vectors!Reserve([h |-> h, m |-> m], a, n) = [h |-> g, m |-> k]
      BY <1>2, <2>2 DEF Vectors!Reserve
    <2> QED BY <2>2, <2>3
  <1>3. CASE ~(n > m.capacity_)
    <2>1. Vectors!Reserve([h |-> h, m |-> m], a, n) = [h |-> h, m |-> m]
      BY <1>3 DEF Vectors!Reserve
    <2>2. Moved(h, m, h, m, xs)
      BY StandStill
    <2>3. m.capacity_ >= n
      BY <1>1, <1>3
    <2> QED BY <2>1, <2>2, <2>3
  <1> QED BY <1>2, <1>3

\* emplace_back, where there is room.
LEMMA EmplaceMoved ==
  ASSUME NEW h, NEW m, NEW g, NEW n, NEW xs, Moved(h, m, g, n, xs),
         NEW es \in Seq(Elements), n.size_ + Len(es) <= n.capacity_
  PROVE  \E f, k : /\ Vectors!Emplace([h |-> g, m |-> n], es) = [h |-> f, m |-> k]
                   /\ Moved(h, m, f, k, xs \o es)
  <1>1. n \in Members /\ n.size_ \in Nat /\ Len(es) \in Nat
    BY DEF Moved, Stores, Members
  <1>2. PICK k : k = [n EXCEPT !.size_ = n.size_ + Len(es)]
    OBVIOUS
  <1>3. k \in Members /\ k.data_ = n.data_ /\ k.capacity_ = n.capacity_ /\ k.size_ = n.size_ + Len(es)
    BY <1>1, <1>2 DEF Members
  <1>4. PICK f : f = Vectors!Construct(g, n.data_, n.size_, es)
    OBVIOUS
  <1>5. Moved(h, m, f, k, xs \o es)
    BY <1>3, <1>4, ConstructMoved
  <1>6. Vectors!Emplace([h |-> g, m |-> n], es) = [h |-> f, m |-> k]
    BY <1>2, <1>4 DEF Vectors!Emplace
  <1> QED BY <1>5, <1>6

\* push_back.
LEMMA EmplaceBackMoved ==
  ASSUME NEW h \in Memories, NEW m, NEW xs, Stores(h, m, xs),
         NEW a \in Allocations, h.memory[a] = NULL, NEW e \in Elements
  PROVE  \E f, k : /\ Vectors!EmplaceBack([h |-> h, m |-> m], a, e) = [h |-> f, m |-> k]
                   /\ Moved(h, m, f, k, Append(xs, e))
  <1>1. /\ m \in Members /\ m.size_ \in Nat /\ m.capacity_ \in Nat /\ m.size_ <= m.capacity_
        /\ xs \in Seq(Elements)
    BY Fits
  <1>2. <<e>> \in Seq(Elements) /\ Len(<<e>>) = 1 /\ Append(xs, e) = xs \o <<e>>
    BY <1>1
  <1>3. \E g, n : /\ (IF m.size_ = m.capacity_
                      THEN Vectors!reallocate([h |-> h, m |-> m], a, Vectors!Larger(m.capacity_))
                      ELSE [h |-> h, m |-> m]) = [h |-> g, m |-> n]
                  /\ Moved(h, m, g, n, xs) /\ n.size_ + 1 <= n.capacity_
    <2>1. CASE m.size_ = m.capacity_
      <3>1. PICK l \in Nat : l = Vectors!Larger(m.capacity_) /\ m.capacity_ + 1 <= l
        <4>1. CASE m.capacity_ = 0
          BY <4>1 DEF Vectors!Larger
        <4>2. CASE m.capacity_ # 0
          <5>1. 2 * m.capacity_ \in Nat /\ m.capacity_ + 1 <= 2 * m.capacity_
            BY <1>1, <4>2
          <5> QED BY <4>2, <5>1 DEF Vectors!Larger
        <4> QED BY <4>1, <4>2
      <3>2. m.size_ <= l
        BY <1>1, <3>1
      <3>3. PICK g, k : /\ Vectors!reallocate([h |-> h, m |-> m], a, l) = [h |-> g, m |-> k]
                        /\ Moved(h, m, g, k, xs) /\ k.size_ = m.size_ /\ k.capacity_ = l
        <4>1. Reallocated(h, m, a, l, xs)
          BY <3>2, ReallocateMoved
        <4> QED BY <4>1 DEF Reallocated
      <3>4. k.size_ + 1 <= k.capacity_
        BY <1>1, <2>1, <3>1, <3>3
      <3> QED BY <2>1, <3>1, <3>3, <3>4
    <2>2. CASE m.size_ # m.capacity_
      <3>1. Moved(h, m, h, m, xs)
        BY StandStill
      <3>2. m.size_ + 1 <= m.capacity_
        BY <1>1, <2>2
      <3> QED BY <2>2, <3>1, <3>2
    <2> QED BY <2>1, <2>2
  <1>4. PICK g, n : /\ (IF m.size_ = m.capacity_
                        THEN Vectors!reallocate([h |-> h, m |-> m], a, Vectors!Larger(m.capacity_))
                        ELSE [h |-> h, m |-> m]) = [h |-> g, m |-> n]
                    /\ Moved(h, m, g, n, xs) /\ n.size_ + 1 <= n.capacity_
    BY <1>3
  <1>5. PICK es : es = <<e>>
    OBVIOUS
  <1>6. es \in Seq(Elements) /\ n.size_ + Len(es) <= n.capacity_
    BY <1>2, <1>4, <1>5
  <1>7. PICK f, k : Vectors!Emplace([h |-> g, m |-> n], es) = [h |-> f, m |-> k] /\ Moved(h, m, f, k, xs \o es)
    BY <1>4, <1>6, EmplaceMoved
  <1>8. Vectors!EmplaceBack([h |-> h, m |-> m], a, e) = Vectors!Emplace([h |-> g, m |-> n], es)
    BY <1>4, <1>5 DEF Vectors!EmplaceBack
  <1>9. xs \o es = Append(xs, e)
    BY <1>2, <1>5
  <1> QED BY <1>7, <1>8, <1>9

\* A vector that is not there has no memory, either.
Now(V, v, m) == (V[v] = NONE /\ m = Vectors!Empty) \/ (V[v] # NONE /\ m = V[v])

\* A call on one vector leaves the others their memory and their elements.
LEMMA OthersUntouched ==
  ASSUME NEW V, NEW h, NEW C, Sound(V, h, C), NEW v \in Vecs, NEW m, Now(V, v, m),
         NEW g, NEW n, NEW xs, Moved(h, m, g, n, xs), NEW w \in Vecs, w # v, V[w] # NONE
  PROVE  Keeps(g, V[w], C[w]) /\ (V[w].data_ = n.data_ => n.data_ = NULL)
  <1>1. PICK ys : /\ Stores(h, V[w], ys) /\ Len(ys) = Len(C[w])
                  /\ "dangling" \notin h.trouble => ys = C[w]
    BY DEF Sound, Keeps
  <1>2. h \in Memories /\ g.trouble = h.trouble /\ V[w] \in Members
    BY <1>1 DEF Moved, Stores
  <1>3. CASE V[w].data_ = NULL
    <2>1. Stores(g, V[w], ys)
      BY <1>1, <1>3 DEF Stores
    <2> QED BY <1>1, <1>2, <1>3, <2>1 DEF Keeps
  <1>4. CASE V[w].data_ # NULL
    <2>1. V[w].data_ # m.data_
      BY <1>4, EmptyMember DEF Now, Sound
    <2>2. V[w].data_ \in Allocations /\ h.memory[V[w].data_] # NULL
      BY <1>1, <1>2, <1>4, InUse DEF Vectors!Live
    <2>3. V[w].data_ # n.data_
      BY <1>4, <2>1, <2>2 DEF Moved
    <2>4. g.memory[V[w].data_] = h.memory[V[w].data_]
      BY <2>1, <2>2, <2>3 DEF Moved
    <2>5. Stores(g, V[w], ys)
      BY <1>1, <2>4 DEF Stores
    <2> QED BY <1>1, <1>2, <2>3, <2>5 DEF Keeps
  <1> QED BY <1>3, <1>4

\* A call on one vector.
LEMMA SoundCall ==
  ASSUME NEW V, NEW h, NEW C, Sound(V, h, C), NEW v \in Vecs, NEW m, Now(V, v, m),
         NEW g, NEW n, NEW xs, Moved(h, m, g, n, xs),
         NEW c \in Seq(Elements), Len(xs) = Len(c), "dangling" \notin h.trouble => xs = c
  PROVE  Sound([V EXCEPT ![v] = n], g, [C EXCEPT ![v] = c])
  <1>1. PICK U : U = [V EXCEPT ![v] = n]
    OBVIOUS
  <1>2. PICK D : D = [C EXCEPT ![v] = c]
    OBVIOUS
  <1>3. /\ g \in Memories /\ g.trouble = h.trouble /\ n \in Members /\ Stores(g, n, xs)
        /\ V \in [Vecs -> Members \cup {NONE}] /\ C \in [Vecs -> Seq(Elements)]
        /\ n # NONE
    BY VectorAssumption DEF Sound, Moved, Stores, Members
  <1>4. /\ U \in [Vecs -> Members \cup {NONE}] /\ D \in [Vecs -> Seq(Elements)]
        /\ U[v] = n /\ D[v] = c /\ \A w \in Vecs : w # v => U[w] = V[w] /\ D[w] = C[w]
    BY <1>1, <1>2, <1>3
  <1>5. "misuse" \notin g.trouble /\ ("leak" \in g.trouble => "moved over" \in g.trouble)
    BY <1>3 DEF Sound
  <1>6. ASSUME NEW w \in Vecs, U[w] # NONE PROVE Keeps(g, U[w], D[w])
    <2>1. CASE w = v
      <3>1. Keeps(g, n, c)
        BY <1>3 DEF Keeps
      <3> QED BY <1>4, <2>1, <3>1
    <2>2. CASE w # v
      <3>1. U[w] = V[w] /\ D[w] = C[w]
        BY <1>4, <2>2
      <3>2. Keeps(g, V[w], C[w])
        BY <1>6, <2>2, <3>1, OthersUntouched
      <3> QED BY <3>1, <3>2
    <2> QED BY <2>1, <2>2
  <1>7. ASSUME NEW w \in Vecs, NEW u \in Vecs, w # u, U[w] # NONE, U[u] # NONE, U[w].data_ = U[u].data_
        PROVE  U[w].data_ = NULL
    <2>1. CASE w = v
      <3>1. U[w] = n /\ U[u] = V[u] /\ u # v
        BY <1>4, <1>7, <2>1
      <3>2. V[u].data_ = n.data_ => n.data_ = NULL
        BY <1>7, <3>1, OthersUntouched
      <3> QED BY <1>7, <3>1, <3>2
    <2>2. CASE u = v
      <3>1. U[u] = n /\ U[w] = V[w] /\ w # v
        BY <1>4, <1>7, <2>2
      <3>2. V[w].data_ = n.data_ => n.data_ = NULL
        BY <1>7, <3>1, OthersUntouched
      <3> QED BY <1>7, <3>1, <3>2
    <2>3. CASE w # v /\ u # v
      <3>1. U[u] = V[u] /\ U[w] = V[w]
        BY <1>4, <2>3
      <3> QED BY <1>7, <3>1 DEF Sound
    <2> QED BY <2>1, <2>2, <2>3
  <1>8. ASSUME NEW a \in Allocations, g.memory[a] # NULL PROVE \E w \in Vecs : U[w] # NONE /\ U[w].data_ = a
    <2>1. CASE a = n.data_
      BY <1>3, <1>4, <2>1
    <2>2. CASE a # n.data_
      <3>1. a # m.data_
        BY <1>8, <2>2, VectorAssumption DEF Moved
      <3>2. h.memory[a] # NULL
        BY <1>8, <2>2, <3>1 DEF Moved
      <3>3. PICK w \in Vecs : V[w] # NONE /\ V[w].data_ = a
        BY <3>2 DEF Sound
      <3>4. w # v
        BY <3>1, <3>3 DEF Now
      <3> QED BY <1>4, <3>3, <3>4
    <2> QED BY <2>1, <2>2
  <1>9. Sound(U, g, D)
    BY <1>3, <1>4, <1>5, <1>6, <1>7, <1>8 DEF Sound
  <1> QED BY <1>1, <1>2, <1>9

\* The destruction of a vector without memory.
LEMMA SoundGone ==
  ASSUME NEW V, NEW h, NEW C, Sound(V, h, C), NEW v \in Vecs, V[v] # NONE, V[v].data_ = NULL
  PROVE  Sound([V EXCEPT ![v] = NONE], h, [C EXCEPT ![v] = <<>>])
  <1>1. PICK U : U = [V EXCEPT ![v] = NONE]
    OBVIOUS
  <1>2. PICK D : D = [C EXCEPT ![v] = <<>>]
    OBVIOUS
  <1>3. h \in Memories /\ V \in [Vecs -> Members \cup {NONE}] /\ C \in [Vecs -> Seq(Elements)]
    BY DEF Sound
  <1>4. <<>> \in Seq(Elements)
    BY EmptySeq, Zenon
  <1>5. /\ U \in [Vecs -> Members \cup {NONE}] /\ D \in [Vecs -> Seq(Elements)]
        /\ U[v] = NONE /\ \A w \in Vecs : w # v => U[w] = V[w] /\ D[w] = C[w]
    BY <1>1, <1>2, <1>3, <1>4
  <1>6. ASSUME NEW w \in Vecs, U[w] # NONE PROVE Keeps(h, U[w], D[w])
    <2>1. w # v
      BY <1>5, <1>6
    <2>2. U[w] = V[w] /\ D[w] = C[w]
      BY <1>5, <2>1
    <2>3. Keeps(h, V[w], C[w])
      BY <1>6, <2>2 DEF Sound
    <2> QED BY <2>2, <2>3
  <1>7. ASSUME NEW w \in Vecs, NEW u \in Vecs, w # u, U[w] # NONE, U[u] # NONE, U[w].data_ = U[u].data_
        PROVE  U[w].data_ = NULL
    <2>1. U[w] = V[w] /\ U[u] = V[u]
      BY <1>5, <1>7
    <2> QED BY <1>7, <2>1 DEF Sound
  <1>8. ASSUME NEW a \in Allocations, h.memory[a] # NULL PROVE \E w \in Vecs : U[w] # NONE /\ U[w].data_ = a
    <2>1. PICK w \in Vecs : V[w] # NONE /\ V[w].data_ = a
      BY <1>8 DEF Sound
    <2>2. w # v
      BY <2>1, VectorAssumption
    <2> QED BY <1>5, <2>1, <2>2
  <1>9. Sound(U, h, D)
    BY <1>3, <1>5, <1>6, <1>7, <1>8 DEF Sound
  <1> QED BY <1>1, <1>2, <1>9

\* The memory of one vector becomes another's.
LEMMA SoundTake ==
  ASSUME NEW V, NEW h, NEW C, Sound(V, h, C), NEW v \in Vecs, NEW o \in Vecs, v # o,
         V[v] = NONE \/ V[v].data_ = NULL, V[o] # NONE
  PROVE  Sound([V EXCEPT ![v] = V[o], ![o] = Vectors!Empty], h, [C EXCEPT ![v] = C[o], ![o] = <<>>])
  <1>1. PICK U : U = [V EXCEPT ![v] = V[o], ![o] = Vectors!Empty]
    OBVIOUS
  <1>2. PICK D : D = [C EXCEPT ![v] = C[o], ![o] = <<>>]
    OBVIOUS
  <1>3. h \in Memories /\ V \in [Vecs -> Members \cup {NONE}] /\ C \in [Vecs -> Seq(Elements)]
    BY DEF Sound
  <1>4. <<>> \in Seq(Elements) /\ Len(<<>>) = 0
    BY EmptySeq, Zenon
  <1>5. /\ U \in [Vecs -> Members \cup {NONE}] /\ D \in [Vecs -> Seq(Elements)]
        /\ U[v] = V[o] /\ D[v] = C[o] /\ U[o] = Vectors!Empty /\ D[o] = <<>>
        /\ \A w \in Vecs : w # v /\ w # o => U[w] = V[w] /\ D[w] = C[w]
    BY <1>1, <1>2, <1>3, <1>4, EmptyMember
  <1>6. ASSUME NEW w \in Vecs, U[w] # NONE PROVE Keeps(h, U[w], D[w])
    <2>1. CASE w = o
      <3>1. Keeps(h, Vectors!Empty, <<>>)
        BY EmptyStores DEF Keeps
      <3> QED BY <1>5, <2>1, <3>1
    <2>2. CASE w = v
      <3>1. Keeps(h, V[o], C[o])
        BY DEF Sound
      <3> QED BY <1>5, <2>2, <3>1
    <2>3. CASE w # v /\ w # o
      <3>1. U[w] = V[w] /\ D[w] = C[w]
        BY <1>5, <2>3
      <3>2. Keeps(h, V[w], C[w])
        BY <1>6, <3>1 DEF Sound
      <3> QED BY <3>1, <3>2
    <2> QED BY <2>1, <2>2, <2>3
  <1>7. ASSUME NEW w \in Vecs, NEW u \in Vecs, w # u, U[w] # NONE, U[u] # NONE, U[w].data_ = U[u].data_
        PROVE  U[w].data_ = NULL
    <2>1. CASE w = o \/ u = o
      BY <1>5, <1>7, <2>1, EmptyMember
    <2>2. CASE w # o /\ u # o
      <3>1. CASE w = v
        <4>1. U[w] = V[o] /\ U[u] = V[u]
          BY <1>5, <1>7, <2>2, <3>1
        <4> QED BY <1>7, <2>2, <4>1 DEF Sound
      <3>2. CASE u = v
        <4>1. U[u] = V[o] /\ U[w] = V[w]
          BY <1>5, <1>7, <2>2, <3>2
        <4> QED BY <1>7, <2>2, <4>1 DEF Sound
      <3>3. CASE w # v /\ u # v
        <4>1. U[u] = V[u] /\ U[w] = V[w]
          BY <1>5, <2>2, <3>3
        <4> QED BY <1>7, <4>1 DEF Sound
      <3> QED BY <3>1, <3>2, <3>3
    <2> QED BY <2>1, <2>2
  <1>8. ASSUME NEW a \in Allocations, h.memory[a] # NULL PROVE \E w \in Vecs : U[w] # NONE /\ U[w].data_ = a
    <2>1. PICK w \in Vecs : V[w] # NONE /\ V[w].data_ = a
      BY <1>8 DEF Sound
    <2>2. w # v
      BY <2>1, VectorAssumption
    <2>3. CASE w = o
      BY <1>5, <2>1, <2>3
    <2>4. CASE w # o
      BY <1>5, <2>1, <2>2, <2>4
    <2> QED BY <2>3, <2>4
  <1>9. Sound(U, h, D)
    <2>1. "misuse" \notin h.trouble /\ ("leak" \in h.trouble => "moved over" \in h.trouble)
      BY DEF Sound
    <2> QED BY <1>3, <1>5, <1>6, <1>7, <1>8, <2>1 DEF Sound
  <1> QED BY <1>1, <1>2, <1>9

\* Trouble that is allowed.
LEMMA SoundTrouble ==
  ASSUME NEW V, NEW h, NEW C, Sound(V, h, C), NEW g \in Memories, g.memory = h.memory,
         h.trouble \subseteq g.trouble, "misuse" \notin g.trouble,
         "leak" \in g.trouble => "moved over" \in g.trouble
  PROVE  Sound(V, g, C)
  <1>1. ASSUME NEW w \in Vecs, V[w] # NONE PROVE Keeps(g, V[w], C[w])
    <2>1. PICK xs : /\ Stores(h, V[w], xs) /\ Len(xs) = Len(C[w])
                    /\ "dangling" \notin h.trouble => xs = C[w]
      BY <1>1 DEF Sound, Keeps
    <2>2. Stores(g, V[w], xs)
      BY <2>1 DEF Stores
    <2>3. "dangling" \notin g.trouble => xs = C[w]
      BY <2>1
    <2> QED BY <2>1, <2>2, <2>3 DEF Keeps
  <1> QED BY <1>1 DEF Sound

-----------------------------------------------------------------------------
(* The calls.                                                              *)

Stored(v, xs) ==
    /\ vec[v] # NONE /\ Stores(vecHeap, vec[v], xs) /\ Len(xs) = Len(contents[v])
    /\ "dangling" \notin vecHeap.trouble => xs = contents[v]

LEMMA StoredThere ==
  ASSUME VectorsInv, NEW v \in Vecs, vec[v] # NONE
  PROVE  /\ \E xs : Stored(v, xs)
         /\ vecHeap \in Memories /\ contents[v] \in Seq(Elements) /\ Now(vec, v, vec[v])
  BY DEF VectorsInv, Sound, Keeps, Stored, Now

LEMMA BecomesKeeps ==
  ASSUME VectorsInv, NEW v \in Vecs, NEW m, Now(vec, v, m),
         NEW g, NEW n, NEW xs, Moved(vecHeap, m, g, n, xs),
         NEW c \in Seq(Elements), Len(xs) = Len(c), "dangling" \notin vecHeap.trouble => xs = c,
         Vectors!Becomes(v, [h |-> g, m |-> n], c)
  PROVE  VectorsInv'
  <1>1. Sound([vec EXCEPT ![v] = n], g, [contents EXCEPT ![v] = c])
    BY SoundCall DEF VectorsInv
  <1>2. vec' = [vec EXCEPT ![v] = n] /\ vecHeap' = g /\ contents' = [contents EXCEPT ![v] = c]
    BY DEF Vectors!Becomes
  <1> QED BY <1>1, <1>2 DEF VectorsInv

LEMMA NewVector ==
  ASSUME VectorsInv, NEW v \in Vecs, ~Vectors!There(v)
  PROVE  /\ Now(vec, v, Vectors!Empty) /\ vecHeap \in Memories
         /\ Stores(vecHeap, Vectors!Empty, <<>>)
  BY EmptyStores DEF VectorsInv, Sound, Vectors!There, Now

LEMMA MakeKeeps ==
  ASSUME VectorsInv, NEW v \in Vecs, Vectors!Make(v)
  PROVE  VectorsInv'
  <1>1. ~Vectors!There(v) /\ Vectors!Becomes(v, [h |-> vecHeap, m |-> Vectors!Empty], <<>>)
    BY DEF Vectors!Make
  <1>2. Moved(vecHeap, Vectors!Empty, vecHeap, Vectors!Empty, <<>>)
    BY <1>1, NewVector, StandStill
  <1>3. PICK none : none = <<>>
    OBVIOUS
  <1>4. none \in Seq(Elements)
    BY <1>3, EmptySeq
  <1> QED BY <1>1, <1>2, <1>3, <1>4, NewVector, BecomesKeeps

LEMMA MakeSizedKeeps ==
  ASSUME VectorsInv, NEW v \in Vecs, NEW a \in Vectors!Free, NEW n \in Sizes, Vectors!MakeSized(v, a, n)
  PROVE  VectorsInv'
  <1>1. /\ ~Vectors!There(v) /\ a \in Allocations /\ vecHeap.memory[a] = NULL /\ n \in Nat
    BY VectorAssumption DEF Vectors!MakeSized, Vectors!Free
  <1>2. PICK g : g = Vectors!New(vecHeap, a, n)
    OBVIOUS
  <1>3. PICK k : k = [data_ |-> a, size_ |-> 0, capacity_ |-> n]
    OBVIOUS
  <1>4. PICK none : none = <<>>
    OBVIOUS
  <1>5. none \in Seq(Elements)
    BY <1>4, EmptySeq
  <1>6. Moved(vecHeap, Vectors!Empty, g, k, none)
    BY <1>1, <1>2, <1>3, <1>4, NewVector, NewMoved
  <1>7. Vectors!Becomes(v, [h |-> g, m |-> k], none)
    BY <1>2, <1>3, <1>4 DEF Vectors!MakeSized
  <1> QED BY <1>1, <1>5, <1>6, <1>7, NewVector, BecomesKeeps

\* std::fill has met places that hold no element.
Raw == "raw" \in vecHeap.trouble /\ ~trivial

\* Until then no call has.
LEMMA NotRaw == VectorsInv => "raw" \notin vecHeap.trouble
  BY DEF VectorsInv, Sound, Memories

\* The filling constructor constructs nothing of a type that is not implicit.
LEMMA FillsRaw ==
  ASSUME VectorsInv, NEW v \in Vecs, NEW a \in Vectors!Free, NEW n \in Sizes, NEW e \in Elements,
         Vectors!MakeFilled(v, a, n, e), ~trivial, UNCHANGED trivial, n > 0
  PROVE  Raw'
  <1>1. a \in Allocations /\ n \in Nat /\ vecHeap \in Memories
    BY VectorAssumption DEF Vectors!Free, VectorsInv, Sound
  <1>2. PICK es : es = [i \in 1..n |-> e]
    OBVIOUS
  <1>3. es # <<>>
    BY <1>1, <1>2
  <1>4. PICK g : g = Vectors!New(vecHeap, a, n)
    OBVIOUS
  <1>5. Vectors!Fill(g, a, es) = Vectors!Trouble(g, "raw")
    BY <1>3 DEF Vectors!Fill
  <1>6. g.trouble = vecHeap.trouble /\ g = [memory |-> g.memory, trouble |-> g.trouble]
    BY <1>1, <1>4 DEF Vectors!New, Memories
  <1>7. "raw" \in Vectors!Trouble(g, "raw").trouble
    BY <1>6 DEF Vectors!Trouble
  <1>8. vecHeap' = Vectors!Fill(g, a, es)
    BY <1>2, <1>4 DEF Vectors!MakeFilled, Vectors!Becomes
  <1> QED BY <1>5, <1>7, <1>8 DEF Raw

LEMMA MakeFilledKeeps ==
  ASSUME VectorsInv, NEW v \in Vecs, NEW a \in Vectors!Free, NEW n \in Sizes, NEW e \in Elements,
         Vectors!MakeFilled(v, a, n, e), trivial \/ ~(n > 0)
  PROVE  VectorsInv'
  <1>1. /\ ~Vectors!There(v) /\ a \in Allocations /\ vecHeap.memory[a] = NULL /\ n \in Nat
    BY VectorAssumption DEF Vectors!MakeFilled, Vectors!Free
  <1>2. PICK g : g = Vectors!New(vecHeap, a, n)
    OBVIOUS
  <1>3. PICK x : x = [data_ |-> a, size_ |-> 0, capacity_ |-> n]
    OBVIOUS
  <1>4. PICK k : k = [data_ |-> a, size_ |-> n, capacity_ |-> n]
    OBVIOUS
  <1>5. PICK none : none = <<>>
    OBVIOUS
  <1>6. PICK es : es = [i \in 1..n |-> e]
    OBVIOUS
  <1>7. es \in Seq(Elements) /\ Len(es) = n /\ none \o es = es
    BY <1>1, <1>5, <1>6
  <1>8. Moved(vecHeap, Vectors!Empty, g, x, none)
    BY <1>1, <1>2, <1>3, <1>5, NewVector, NewMoved
  <1>9. /\ k \in Members /\ x.data_ = a /\ x.size_ = 0 /\ x.capacity_ = n
        /\ k.data_ = a /\ k.size_ = n /\ k.capacity_ = n
    BY <1>1, <1>3, <1>4 DEF Members
  <1>10. PICK f : f = Vectors!Construct(g, a, 0, es)
    OBVIOUS
  <1>11. Moved(vecHeap, Vectors!Empty, f, k, none \o es)
    <2>1. /\ x.size_ + Len(es) <= x.capacity_ /\ k.data_ = x.data_ /\ k.capacity_ = x.capacity_
          /\ k.size_ = x.size_ + Len(es)
      BY <1>1, <1>7, <1>9
    <2>2. Moved(vecHeap, Vectors!Empty, Vectors!Construct(g, x.data_, x.size_, es), k, none \o es)
      BY <1>7, <1>8, <1>9, <2>1, ConstructMoved
    <2> QED BY <1>9, <1>10, <2>2
  <1>12. Moved(vecHeap, Vectors!Empty, f, k, es)
    BY <1>7, <1>11
  <1>13. Vectors!Becomes(v, [h |-> f, m |-> k], es)
    <2>1. trivial \/ es = <<>>
      BY <1>1, <1>6
    <2>2. f = Vectors!Fill(g, a, es)
      BY <1>10, <2>1 DEF Vectors!Fill
    <2> QED BY <1>2, <1>4, <1>6, <2>2 DEF Vectors!MakeFilled
  <1> QED BY <1>1, <1>7, <1>12, <1>13, NewVector, BecomesKeeps

\* The elements of another vector are copied into one that has none yet.
CopyInto(h, m, xs, s) ==
    \E f, k : s = [h |-> f, m |-> k] /\ Moved(h, m, f, k, xs)

LEMMA CopyMoved ==
  ASSUME NEW h, NEW m, NEW g, NEW x, Moved(h, m, g, x, <<>>), x.data_ = m.data_,
         NEW a \in Allocations, g.memory[a] = NULL, NEW n \in Nat,
         NEW xs \in Seq(Elements), Len(xs) <= n
  PROVE  CopyInto(h, m, xs, Vectors!Emplace(Vectors!Reserve([h |-> g, m |-> x], a, n), xs))
  <1>1. PICK none : none = <<>>
    OBVIOUS
  <1>2. Moved(h, m, g, x, none) /\ none \o xs = xs /\ Len(none) = 0
    BY <1>1
  <1>3. g \in Memories /\ Stores(g, x, none)
    BY <1>2 DEF Moved
  <1>4. PICK f, k : /\ Vectors!Reserve([h |-> g, m |-> x], a, n) = [h |-> f, m |-> k]
                    /\ Moved(g, x, f, k, none) /\ k.size_ = x.size_ /\ k.capacity_ >= n
    BY <1>3, ReserveMoved
  <1>5. Moved(h, m, f, k, none)
    BY <1>2, <1>4, ThenMoved
  <1>6. k.size_ + Len(xs) <= k.capacity_
    <2>1. k.size_ = 0 /\ k.capacity_ \in Nat /\ Len(xs) \in Nat
      BY <1>2, <1>4 DEF Moved, Stores, Members
    <2> QED BY <1>4, <2>1
  <1>7. PICK e, l : Vectors!Emplace([h |-> f, m |-> k], xs) = [h |-> e, m |-> l] /\ Moved(h, m, e, l, none \o xs)
    BY <1>5, <1>6, EmplaceMoved
  <1>8. Moved(h, m, e, l, xs)
    BY <1>2, <1>7
  <1> QED BY <1>4, <1>7, <1>8 DEF CopyInto

LEMMA MakeCopyKeeps ==
  ASSUME VectorsInv, NEW v \in Vecs, NEW a \in Vectors!Free, NEW o \in Vecs, Vectors!MakeCopy(v, a, o)
  PROVE  VectorsInv'
  <1>1. /\ ~Vectors!There(v) /\ vec[o] # NONE /\ a \in Allocations /\ vecHeap.memory[a] = NULL
    BY DEF Vectors!MakeCopy, Vectors!Free, Vectors!There
  <1>2. PICK xs : Stored(o, xs)
    BY <1>1, StoredThere
  <1>3. /\ xs \in Seq(Elements) /\ vec[o].capacity_ \in Nat /\ Len(xs) <= vec[o].capacity_
        /\ contents[o] \in Seq(Elements) /\ vecHeap \in Memories
    BY <1>1, <1>2, StoredThere, Fits DEF Stored
  <1>4. Vectors!At(Vectors!Now(o)) = xs
    BY <1>2, <1>3, AtStored DEF Stored, Vectors!Now
  <1>5. Moved(vecHeap, Vectors!Empty, vecHeap, Vectors!Empty, <<>>)
    BY <1>1, NewVector, StandStill
  <1>6. PICK s : s = Vectors!Emplace(Vectors!Reserve([h |-> vecHeap, m |-> Vectors!Empty], a, vec[o].capacity_), xs)
    OBVIOUS
  <1>7. CopyInto(vecHeap, Vectors!Empty, xs, s)
    BY <1>1, <1>3, <1>5, <1>6, CopyMoved
  <1>8. PICK f, k : s = [h |-> f, m |-> k] /\ Moved(vecHeap, Vectors!Empty, f, k, xs)
    BY <1>7 DEF CopyInto
  <1>9. Vectors!Becomes(v, [h |-> f, m |-> k], contents[o])
    BY <1>4, <1>6, <1>8 DEF Vectors!MakeCopy
  <1>10. Len(xs) = Len(contents[o]) /\ ("dangling" \notin vecHeap.trouble => xs = contents[o])
    BY <1>2 DEF Stored
  <1> QED BY <1>1, <1>3, <1>8, <1>9, <1>10, NewVector, BecomesKeeps

LEMMA AssignCopyKeeps ==
  ASSUME VectorsInv, NEW v \in Vecs, NEW a \in Vectors!Free, NEW o \in Vecs, Vectors!AssignCopy(v, a, o)
  PROVE  VectorsInv'
  <1>1. /\ vec[v] # NONE /\ vec[o] # NONE /\ a \in Allocations /\ vecHeap.memory[a] = NULL
    BY DEF Vectors!AssignCopy, Vectors!Free, Vectors!There
  <1>2. PICK xs : Stored(o, xs)
    BY <1>1, StoredThere
  <1>3. /\ xs \in Seq(Elements) /\ vec[o].capacity_ \in Nat /\ Len(xs) <= vec[o].capacity_
        /\ contents[o] \in Seq(Elements) /\ vecHeap \in Memories
    BY <1>1, <1>2, StoredThere, Fits DEF Stored
  <1>4. Vectors!At(Vectors!Now(o)) = xs
    BY <1>2, <1>3, AtStored DEF Stored, Vectors!Now
  <1>5. PICK ys : Stored(v, ys)
    BY <1>1, StoredThere
  <1>6. PICK g : g = Vectors!Destroy(vecHeap, vec[v].data_, vec[v].size_)
    OBVIOUS
  <1>7. PICK x : x = [vec[v] EXCEPT !.size_ = 0]
    OBVIOUS
  <1>8. Moved(vecHeap, vec[v], g, x, <<>>)
    BY <1>3, <1>5, <1>6, <1>7, DestroyMoved DEF Stored
  <1>9. x.data_ = vec[v].data_
    BY <1>5, <1>7 DEF Stored, Stores, Members
  <1>10. g.memory[a] = NULL
    <2>1. a # vec[v].data_
      <3>1. CASE vec[v].data_ = NULL
        BY <1>1, <3>1, VectorAssumption
      <3>2. CASE vec[v].data_ # NULL
        <4>1. vecHeap.memory[vec[v].data_] # NULL
          <5>1. Vectors!Live(vecHeap, vec[v].data_)
            BY <1>3, <1>5, <3>2, InUse DEF Stored
          <5> QED BY <3>2, <5>1 DEF Vectors!Live
        <4> QED BY <1>1, <4>1
      <3> QED BY <3>1, <3>2
    <2> QED BY <1>1, <1>8, <1>9, <2>1 DEF Moved
  <1>11. PICK s : s = Vectors!Emplace(Vectors!Reserve([h |-> g, m |-> x], a, vec[o].capacity_), xs)
    OBVIOUS
  <1>12. CopyInto(vecHeap, vec[v], xs, s)
    BY <1>1, <1>3, <1>8, <1>9, <1>10, <1>11, CopyMoved
  <1>13. PICK f, k : s = [h |-> f, m |-> k] /\ Moved(vecHeap, vec[v], f, k, xs)
    BY <1>12 DEF CopyInto
  <1>14. Vectors!Becomes(v, [h |-> f, m |-> k], contents[o])
    BY <1>4, <1>6, <1>7, <1>11, <1>13 DEF Vectors!AssignCopy
  <1>15. Len(xs) = Len(contents[o]) /\ ("dangling" \notin vecHeap.trouble => xs = contents[o])
    BY <1>2 DEF Stored
  <1>16. Now(vec, v, vec[v])
    BY <1>1 DEF Now
  <1> QED BY <1>3, <1>13, <1>14, <1>15, <1>16, BecomesKeeps

LEMMA MakeMovedKeeps ==
  ASSUME VectorsInv, NEW v \in Vecs, NEW o \in Vecs, Vectors!MakeMoved(v, o)
  PROVE  VectorsInv'
  <1>1. vec[v] = NONE /\ vec[o] # NONE /\ v # o
    BY DEF Vectors!MakeMoved, Vectors!There
  <1>2. Sound([vec EXCEPT ![v] = vec[o], ![o] = Vectors!Empty], vecHeap,
              [contents EXCEPT ![v] = contents[o], ![o] = <<>>])
    BY <1>1, SoundTake DEF VectorsInv
  <1> QED BY <1>2 DEF Vectors!MakeMoved, Vectors!Take, VectorsInv

\* The memory of a vector is given back, its elements with it or before.
LEMMA SoundFreed ==
  ASSUME VectorsInv, NEW v \in Vecs, vec[v] # NONE, NEW g, FreedFrom(vecHeap, vec[v].data_, g)
  PROVE  Sound([vec EXCEPT ![v] = Vectors!Empty], g, [contents EXCEPT ![v] = <<>>])
  <1>1. PICK none : none = <<>>
    OBVIOUS
  <1>2. none \in Seq(Elements)
    BY <1>1, EmptySeq
  <1>3. vecHeap \in Memories /\ vec[v] \in Members /\ Now(vec, v, vec[v])
    BY DEF VectorsInv, Sound, Now
  <1>4. Stores(g, Vectors!Empty, none)
    BY <1>1, EmptyStores
  <1>5. Moved(vecHeap, vec[v], g, Vectors!Empty, none)
    <2>1. vec[v].data_ # NULL => g.memory[vec[v].data_] = NULL
      BY <1>3 DEF FreedFrom, Members
    <2>2. \A b \in Allocations : b # vec[v].data_ => g.memory[b] = vecHeap.memory[b]
      BY DEF FreedFrom
    <2> QED BY <1>3, <1>4, <2>1, <2>2, EmptyMember DEF FreedFrom, Moved
  <1>6. Sound([vec EXCEPT ![v] = Vectors!Empty], g, [contents EXCEPT ![v] = none])
    BY <1>2, <1>3, <1>5, SoundCall DEF VectorsInv
  <1> QED BY <1>1, <1>6

LEMMA UnmakeKeeps ==
  ASSUME VectorsInv, NEW v \in Vecs, Vectors!Unmake(v)
  PROVE  VectorsInv'
  <1>1. vec[v] # NONE /\ vecHeap \in Memories
    BY DEF Vectors!Unmake, Vectors!There, VectorsInv, Sound
  <1>2. PICK xs : Stored(v, xs)
    BY <1>1, StoredThere
  <1>3. PICK g : g = Vectors!Delete(Vectors!Destroy(vecHeap, vec[v].data_, vec[v].size_), vec[v].data_)
    OBVIOUS
  <1>4. FreedFrom(vecHeap, vec[v].data_, g)
    BY <1>1, <1>2, <1>3, DeleteFrees DEF Stored
  <1>5. PICK V : V = [vec EXCEPT ![v] = Vectors!Empty]
    OBVIOUS
  <1>6. PICK C : C = [contents EXCEPT ![v] = <<>>]
    OBVIOUS
  <1>7. Sound(V, g, C)
    BY <1>1, <1>4, <1>5, <1>6, SoundFreed
  <1>8. DOMAIN vec = Vecs /\ DOMAIN contents = Vecs
    BY DEF VectorsInv, Sound
  <1>9. V[v] = Vectors!Empty /\ V[v] # NONE
    BY <1>5, <1>8, EmptyMember, VectorAssumption DEF Members
  <1>10. Sound([V EXCEPT ![v] = NONE], g, [C EXCEPT ![v] = <<>>])
    BY <1>7, <1>9, EmptyMember, SoundGone
  <1>11. [V EXCEPT ![v] = NONE] = vec'
    BY <1>5, <1>8 DEF Vectors!Unmake, VectorsInv, Sound
  <1>12. [C EXCEPT ![v] = <<>>] = contents'
    BY <1>6, <1>8 DEF Vectors!Unmake, VectorsInv, Sound
  <1>13. vecHeap' = g
    BY <1>3 DEF Vectors!Unmake
  <1> QED BY <1>10, <1>11, <1>12, <1>13 DEF VectorsInv

LEMMA AssignMovedKeeps ==
  ASSUME VectorsInv, NEW v \in Vecs, NEW o \in Vecs, Vectors!AssignMoved(v, o)
  PROVE  VectorsInv'
  <1>1. v # o /\ vec[v] # NONE /\ vec[o] # NONE /\ vecHeap \in Memories
    BY DEF Vectors!AssignMoved, Vectors!There, VectorsInv, Sound
  <1>2. PICK xs : Stored(v, xs)
    BY <1>1, StoredThere
  <1>3. vec[v] \in Members /\ vec[v].size_ \in Nat /\ xs \in Seq(Elements) /\ Len(xs) = vec[v].size_
    BY <1>2, Fits DEF Stored
  <1>4. PICK mem : mem = IF vec[v].data_ = NULL THEN vecHeap.memory ELSE [vecHeap.memory EXCEPT ![vec[v].data_] = NULL]
    OBVIOUS
  <1>5. /\ vecHeap.memory \in [Allocations -> Blocks \cup {NULL}]
        /\ vecHeap.trouble \in SUBSET {"misuse", "leak", "moved over", "dangling"}
        /\ "misuse" \notin vecHeap.trouble
        /\ "leak" \in vecHeap.trouble => "moved over" \in vecHeap.trouble
    BY DEF VectorsInv, Sound, Memories
  <1>6. /\ mem \in [Allocations -> Blocks \cup {NULL}]
        /\ \A b \in Allocations : mem[b] = IF b = vec[v].data_ THEN NULL ELSE vecHeap.memory[b]
    BY <1>3, <1>4, <1>5, VectorAssumption DEF Members
  <1>7. PICK g : g = [memory |-> mem, trouble |-> vecHeap.trouble]
    OBVIOUS
  <1>8. g \in Memories /\ g.memory = mem /\ g.trouble = vecHeap.trouble
    BY <1>5, <1>6, <1>7 DEF Memories
  <1>9. FreedFrom(vecHeap, vec[v].data_, g)
    BY <1>6, <1>8 DEF FreedFrom
  <1>10. PICK V : V = [vec EXCEPT ![v] = Vectors!Empty]
    OBVIOUS
  <1>11. PICK C : C = [contents EXCEPT ![v] = <<>>]
    OBVIOUS
  <1>12. Sound(V, g, C)
    BY <1>1, <1>9, <1>10, <1>11, SoundFreed
  <1>13. PICK left : left = IF xs = <<>> THEN {} ELSE {"leak"}
    OBVIOUS
  <1>14. PICK over : over = IF vec[v].size_ > 0 THEN {"moved over"} ELSE {}
    OBVIOUS
  <1>15. vecHeap' = [memory |-> mem, trouble |-> (vecHeap.trouble \cup left) \cup over]
    <2>1. Vectors!Delete(vecHeap, vec[v].data_) = [memory |-> mem, trouble |-> vecHeap.trouble \cup left]
      <3>1. CASE vec[v].data_ = NULL
        <4>1. Vectors!Delete(vecHeap, vec[v].data_) = vecHeap /\ mem = vecHeap.memory
          BY <1>4, <3>1 DEF Vectors!Delete
        <4>2. xs = <<>>
          BY <1>2, <1>3, <3>1, EmptyMember, EmptySeq DEF Stored, Stores
        <4>3. vecHeap = [memory |-> vecHeap.memory, trouble |-> vecHeap.trouble]
          BY <1>1 DEF Memories
        <4>4. left = {}
          BY <1>13, <4>2
        <4> QED BY <4>1, <4>3, <4>4
      <3>2. CASE vec[v].data_ # NULL
        <4>1. Vectors!Live(vecHeap, vec[v].data_)
          BY <1>1, <1>2, <3>2, InUse DEF Stored
        <4>2. vecHeap.memory[vec[v].data_].elems = xs
          BY <1>2, <3>2 DEF Stored, Stores
        <4> QED BY <1>4, <1>13, <3>2, <4>1, <4>2 DEF Vectors!Delete
      <3> QED BY <3>1, <3>2
    <2>2. PICK freed : freed = [memory |-> mem, trouble |-> vecHeap.trouble \cup left]
      OBVIOUS
    <2>3. vecHeap' = IF vec[v].size_ > 0 THEN Vectors!Trouble(freed, "moved over") ELSE freed
      BY <2>1, <2>2 DEF Vectors!AssignMoved
    <2>4. CASE vec[v].size_ > 0
      BY <1>14, <2>2, <2>3, <2>4 DEF Vectors!Trouble
    <2>5. CASE ~(vec[v].size_ > 0)
      BY <1>14, <2>2, <2>3, <2>5
    <2> QED BY <2>4, <2>5
  <1>16. /\ vecHeap' \in Memories /\ vecHeap'.memory = g.memory /\ g.trouble \subseteq vecHeap'.trouble
         /\ "misuse" \notin vecHeap'.trouble
         /\ "leak" \in vecHeap'.trouble => "moved over" \in vecHeap'.trouble
    <2>1. left \subseteq {"leak"} /\ over \subseteq {"moved over"} /\ ("leak" \in left => "moved over" \in over)
      <3>1. xs # <<>> => vec[v].size_ > 0
        BY <1>3, EmptySeq
      <3> QED BY <1>13, <1>14, <3>1
    <2>2. vecHeap'.memory = mem /\ vecHeap'.trouble = (vecHeap.trouble \cup left) \cup over
      BY <1>15
    <2>3. vecHeap' \in Memories
      BY <1>5, <1>6, <1>15, <2>1 DEF Memories
    <2> QED BY <1>5, <1>8, <2>1, <2>2, <2>3
  <1>17. Sound(V, vecHeap', C)
    <2>1. PICK f : f = vecHeap'
      OBVIOUS
    <2>2. Sound(V, f, C)
      BY <1>12, <1>16, <2>1, SoundTrouble
    <2> QED BY <2>1, <2>2
  <1>18. DOMAIN vec = Vecs /\ DOMAIN contents = Vecs
    BY DEF VectorsInv, Sound
  <1>19. V[v] = Vectors!Empty /\ V[o] = vec[o] /\ C[o] = contents[o]
    BY <1>1, <1>10, <1>11, <1>18
  <1>20. Sound([V EXCEPT ![v] = V[o], ![o] = Vectors!Empty], vecHeap', [C EXCEPT ![v] = C[o], ![o] = <<>>])
    <2>1. PICK f : f = vecHeap'
      OBVIOUS
    <2>2. Sound([V EXCEPT ![v] = V[o], ![o] = Vectors!Empty], f, [C EXCEPT ![v] = C[o], ![o] = <<>>])
      BY <1>1, <1>17, <1>19, <2>1, EmptyMember, SoundTake
    <2> QED BY <2>1, <2>2
  <1>21. [V EXCEPT ![v] = V[o], ![o] = Vectors!Empty] = vec'
    BY <1>1, <1>10, <1>18, <1>19 DEF Vectors!AssignMoved, Vectors!Take
  <1>22. [C EXCEPT ![v] = C[o], ![o] = <<>>] = contents'
    BY <1>1, <1>11, <1>18, <1>19 DEF Vectors!AssignMoved, Vectors!Take
  <1> QED BY <1>20, <1>21, <1>22 DEF VectorsInv

LEMMA PushBackKeeps ==
  ASSUME VectorsInv, NEW v \in Vecs, NEW a \in Vectors!Free, NEW e \in Elements,
         Vectors!push_back(v, a, e)
  PROVE  VectorsInv'
  <1>1. vec[v] # NONE /\ a \in Allocations /\ vecHeap.memory[a] = NULL
    BY DEF Vectors!push_back, Vectors!There, Vectors!Free
  <1>2. PICK xs : Stored(v, xs)
    BY <1>1, StoredThere
  <1>3. vecHeap \in Memories /\ contents[v] \in Seq(Elements) /\ Now(vec, v, vec[v])
        /\ Stores(vecHeap, vec[v], xs) /\ xs \in Seq(Elements)
    BY <1>1, <1>2, StoredThere, Fits DEF Stored
  <1>4. PICK f, k : /\ Vectors!EmplaceBack([h |-> vecHeap, m |-> vec[v]], a, e) = [h |-> f, m |-> k]
                    /\ Moved(vecHeap, vec[v], f, k, Append(xs, e))
    BY <1>1, <1>3, EmplaceBackMoved
  <1>5. PICK ys : ys = Append(xs, e)
    OBVIOUS
  <1>d. PICK d : d = Append(contents[v], e)
    OBVIOUS
  <1>6. d \in Seq(Elements) /\ Len(ys) = Len(d)
    BY <1>2, <1>3, <1>5, <1>d DEF Stored
  <1>7. "dangling" \notin vecHeap.trouble => ys = d
    BY <1>2, <1>5, <1>d DEF Stored
  <1>8. Vectors!Becomes(v, [h |-> f, m |-> k], d)
    BY <1>4, <1>d DEF Vectors!push_back, Vectors!Now
  <1>9. Moved(vecHeap, vec[v], f, k, ys)
    BY <1>4, <1>5
  <1> QED BY <1>3, <1>6, <1>7, <1>8, <1>9, BecomesKeeps

\* The same with the trouble of another call.
LEMMA TroubleMoved ==
  ASSUME NEW h, NEW m, NEW g, NEW n, NEW xs, Moved(h, m, g, n, xs)
  PROVE  Moved(Vectors!Trouble(h, "dangling"), m, Vectors!Trouble(g, "dangling"), n, xs)
  <1>1. PICK e : e = Vectors!Trouble(h, "dangling")
    OBVIOUS
  <1>2. PICK f : f = Vectors!Trouble(g, "dangling")
    OBVIOUS
  <1>3. h \in Memories /\ g \in Memories /\ g.trouble = h.trouble
    BY DEF Moved
  <1>4. /\ e \in Memories /\ e.memory = h.memory /\ e.trouble = h.trouble \cup {"dangling"}
        /\ f \in Memories /\ f.memory = g.memory /\ f.trouble = g.trouble \cup {"dangling"}
    BY <1>1, <1>2, <1>3 DEF Vectors!Trouble, Memories
  <1>5. Stores(f, n, xs)
    BY <1>4 DEF Moved, Stores
  <1>6. Moved(e, m, f, n, xs)
    BY <1>3, <1>4, <1>5 DEF Moved
  <1> QED BY <1>1, <1>2, <1>6

LEMMA PushBackOwnKeeps ==
  ASSUME VectorsInv, NEW v \in Vecs, NEW a \in Vectors!Free, NEW i, Vectors!PushBackOwn(v, a, i)
  PROVE  VectorsInv'
  <1>1. vec[v] # NONE /\ i \in 1..vec[v].size_ /\ a \in Allocations /\ vecHeap.memory[a] = NULL
    BY DEF Vectors!PushBackOwn, Vectors!There, Vectors!Free
  <1>2. PICK xs : Stored(v, xs)
    BY <1>1, StoredThere
  <1>3. vecHeap \in Memories /\ contents[v] \in Seq(Elements) /\ Now(vec, v, vec[v])
        /\ Stores(vecHeap, vec[v], xs) /\ xs \in Seq(Elements) /\ Len(xs) = vec[v].size_
        /\ Len(contents[v]) = Len(xs)
    BY <1>1, <1>2, StoredThere, Fits DEF Stored
  <1>4. Vectors!At(Vectors!Now(v)) = xs
    BY <1>3, AtStored DEF Vectors!Now
  <1>5. xs[i] \in Elements /\ contents[v][i] \in Elements
    BY <1>1, <1>3
  <1>6. CASE vec[v].size_ < vec[v].capacity_
    <2>1. Vectors!push_back(v, a, xs[i])
      BY <1>4, <1>6 DEF Vectors!PushBackOwn
    <2> QED BY <1>5, <2>1, PushBackKeeps
  <1>7. CASE ~(vec[v].size_ < vec[v].capacity_)
    <2>1. PICK junk \in Elements :
            LET s == Vectors!EmplaceBack(Vectors!Now(v), a, junk)
            IN  Vectors!Becomes(v, [s EXCEPT !.h = Vectors!Trouble(s.h, "dangling")],
                                Append(contents[v], contents[v][i]))
      BY <1>7 DEF Vectors!PushBackOwn
    <2>2. PICK f, k : /\ Vectors!EmplaceBack([h |-> vecHeap, m |-> vec[v]], a, junk) = [h |-> f, m |-> k]
                      /\ Moved(vecHeap, vec[v], f, k, Append(xs, junk))
      BY <1>1, <1>3, EmplaceBackMoved
    <2>3. PICK d : d = Append(contents[v], contents[v][i])
      OBVIOUS
    <2>4. PICK ys : ys = Append(xs, junk)
      OBVIOUS
    <2>5. d \in Seq(Elements) /\ Len(ys) = Len(d)
      BY <1>3, <1>5, <2>3, <2>4
    <2>6. PICK g : g = Vectors!Trouble(f, "dangling")
      OBVIOUS
    <2>7. PICK e : e = Vectors!Trouble(vecHeap, "dangling")
      OBVIOUS
    <2>8. Moved(e, vec[v], g, k, ys)
      BY <2>2, <2>4, <2>6, <2>7, TroubleMoved
    <2>9. Vectors!Becomes(v, [h |-> g, m |-> k], d)
      BY <2>1, <2>2, <2>3, <2>6 DEF Vectors!Now
    <2>10. Sound(vec, e, contents) /\ "dangling" \in e.trouble
      <3>1. /\ vecHeap.trouble \in SUBSET {"misuse", "leak", "moved over", "dangling"}
            /\ "misuse" \notin vecHeap.trouble
            /\ "leak" \in vecHeap.trouble => "moved over" \in vecHeap.trouble
        BY DEF VectorsInv, Sound, Memories
      <3>2. e \in Memories /\ e.memory = vecHeap.memory /\ e.trouble = vecHeap.trouble \cup {"dangling"}
        BY <1>3, <2>7 DEF Vectors!Trouble, Memories
      <3>3. /\ vecHeap.trouble \subseteq e.trouble /\ "misuse" \notin e.trouble
            /\ "leak" \in e.trouble => "moved over" \in e.trouble
        BY <3>1, <3>2
      <3> QED BY <3>2, <3>3, SoundTrouble DEF VectorsInv
    <2>11. Sound([vec EXCEPT ![v] = k], g, [contents EXCEPT ![v] = d])
      BY <1>3, <2>5, <2>8, <2>10, SoundCall
    <2> QED BY <2>9, <2>11 DEF Vectors!Becomes, VectorsInv
  <1> QED BY <1>6, <1>7

LEMMA PopBackKeeps ==
  ASSUME VectorsInv, NEW v \in Vecs, Vectors!pop_back(v)
  PROVE  VectorsInv'
  <1>1. vec[v] # NONE /\ vec[v].size_ > 0
    BY DEF Vectors!pop_back, Vectors!There
  <1>2. PICK xs : Stored(v, xs)
    BY <1>1, StoredThere
  <1>3. vecHeap \in Memories /\ contents[v] \in Seq(Elements) /\ Now(vec, v, vec[v])
        /\ Stores(vecHeap, vec[v], xs) /\ xs \in Seq(Elements) /\ Len(xs) = vec[v].size_
        /\ Len(contents[v]) = Len(xs) /\ vec[v] \in Members /\ vec[v].size_ \in Nat
        /\ vec[v].capacity_ \in Nat /\ vec[v].size_ <= vec[v].capacity_
    BY <1>1, <1>2, StoredThere, Fits DEF Stored
  <1>4. vec[v].data_ # NULL
    BY <1>1, <1>3, EmptyMember DEF Stores
  <1>5. vec[v].data_ \in Allocations /\ Vectors!Live(vecHeap, vec[v].data_)
    BY <1>3, <1>4, InUse
  <1>6. vecHeap.memory[vec[v].data_] = [room |-> vec[v].capacity_, elems |-> xs]
        /\ vecHeap.memory[vec[v].data_].elems = xs
    BY <1>3, <1>4 DEF Stores
  <1>7. PICK ys : ys = SubSeq(xs, 1, vec[v].size_ - 1)
    OBVIOUS
  <1>8. ys \in Seq(Elements) /\ Len(ys) = vec[v].size_ - 1
    BY <1>1, <1>3, <1>7
  <1>9. PICK n : n = [vec[v] EXCEPT !.size_ = vec[v].size_ - 1]
    OBVIOUS
  <1>10. n \in Members /\ n.data_ = vec[v].data_ /\ n.size_ = vec[v].size_ - 1 /\ n.capacity_ = vec[v].capacity_
    BY <1>1, <1>3, <1>9 DEF Members
  <1>11. PICK g : g = [vecHeap EXCEPT !.memory[vec[v].data_].elems = ys]
    OBVIOUS
  <1>12. /\ g \in Memories /\ g.trouble = vecHeap.trouble
         /\ g.memory = [vecHeap.memory EXCEPT ![vec[v].data_] = [room |-> n.capacity_, elems |-> ys]]
    <2>1. [room |-> vec[v].capacity_, elems |-> ys] \in Blocks
      BY <1>3, <1>8 DEF Blocks
    <2>2. [vecHeap EXCEPT !.memory[vec[v].data_].elems = ys] \in Memories
      BY <1>3, <1>5, <1>6, <2>1, ElementsReplaced
    <2>3. [vecHeap EXCEPT !.memory[vec[v].data_].elems = ys].trouble = vecHeap.trouble
      BY <1>3, <1>5, <1>6, <2>1, ElementsReplaced
    <2>4. [vecHeap EXCEPT !.memory[vec[v].data_].elems = ys].memory
             = [vecHeap.memory EXCEPT ![vec[v].data_] = [room |-> vec[v].capacity_, elems |-> ys]]
      BY <1>3, <1>5, <1>6, <2>1, ElementsReplaced
    <2> QED BY <1>10, <1>11, <2>2, <2>3, <2>4
  <1>13. Moved(vecHeap, vec[v], g, n, ys)
    <2>1. n.size_ <= n.capacity_ /\ Len(ys) = n.size_
      BY <1>3, <1>8, <1>10
    <2> QED BY <1>3, <1>5, <1>8, <1>10, <1>12, <2>1, MovedWithin
  <1>14. PICK d : d = Vectors!Front(contents[v])
    OBVIOUS
  <1>15. /\ d \in Seq(Elements) /\ Len(ys) = Len(d)
         /\ "dangling" \notin vecHeap.trouble => ys = d
    <2>1. d = SubSeq(contents[v], 1, Len(contents[v]) - 1)
      BY <1>14 DEF Vectors!Front
    <2>2. d \in Seq(Elements) /\ Len(d) = Len(contents[v]) - 1
      BY <1>1, <1>3, <2>1
    <2>3. "dangling" \notin vecHeap.trouble => ys = d
      BY <1>2, <1>3, <1>7, <2>1 DEF Stored
    <2> QED BY <1>3, <1>8, <2>2, <2>3
  <1>16. Sound([vec EXCEPT ![v] = n], g, [contents EXCEPT ![v] = d])
    BY <1>3, <1>13, <1>15, SoundCall DEF VectorsInv
  <1>17. vec' = [vec EXCEPT ![v] = n]
    BY <1>9 DEF Vectors!pop_back
  <1>18. vecHeap' = g
    BY <1>5, <1>6, <1>7, <1>11 DEF Vectors!pop_back
  <1>19. contents' = [contents EXCEPT ![v] = d]
    BY <1>14 DEF Vectors!pop_back
  <1> QED BY <1>16, <1>17, <1>18, <1>19 DEF VectorsInv

LEMMA ReserveKeeps ==
  ASSUME VectorsInv, NEW v \in Vecs, NEW a \in Vectors!Free, NEW n \in Sizes, Vectors!reserve(v, a, n)
  PROVE  VectorsInv'
  <1>1. vec[v] # NONE /\ a \in Allocations /\ vecHeap.memory[a] = NULL /\ n \in Nat
    BY VectorAssumption DEF Vectors!reserve, Vectors!There, Vectors!Free
  <1>2. PICK xs : Stored(v, xs)
    BY <1>1, StoredThere
  <1>3. vecHeap \in Memories /\ contents[v] \in Seq(Elements) /\ Now(vec, v, vec[v])
        /\ Stores(vecHeap, vec[v], xs)
    BY <1>1, <1>2, StoredThere DEF Stored
  <1>4. PICK g, k : /\ Vectors!Reserve([h |-> vecHeap, m |-> vec[v]], a, n) = [h |-> g, m |-> k]
                    /\ Moved(vecHeap, vec[v], g, k, xs) /\ k.size_ = vec[v].size_ /\ k.capacity_ >= n
    BY <1>1, <1>3, ReserveMoved
  <1>5. Vectors!Becomes(v, [h |-> g, m |-> k], contents[v])
    BY <1>4 DEF Vectors!reserve, Vectors!Now
  <1>6. Len(xs) = Len(contents[v]) /\ ("dangling" \notin vecHeap.trouble => xs = contents[v])
    BY <1>2 DEF Stored
  <1> QED BY <1>3, <1>4, <1>5, <1>6, BecomesKeeps

LEMMA VectorsInit == Vectors!Init => VectorsInv
  <1> SUFFICES ASSUME Vectors!Init PROVE VectorsInv
    OBVIOUS
  <1>1. /\ vec = [v \in Vecs |-> NONE] /\ contents = [v \in Vecs |-> <<>>]
        /\ vecHeap = [memory |-> [a \in Allocations |-> NULL], trouble |-> {}]
    BY DEF Vectors!Init
  <1>2. <<>> \in Seq(Elements)
    BY EmptySeq, Zenon
  <1>3. /\ vec \in [Vecs -> Members \cup {NONE}] /\ contents \in [Vecs -> Seq(Elements)]
        /\ \A v \in Vecs : vec[v] = NONE
    BY <1>1, <1>2
  <1>4. vecHeap \in Memories /\ vecHeap.trouble = {} /\ \A a \in Allocations : vecHeap.memory[a] = NULL
    BY <1>1 DEF Memories
  <1> QED BY <1>3, <1>4 DEF VectorsInv, Sound

LEMMA VectorsStep == VectorsInv /\ (Vectors!Next \/ UNCHANGED vectors) => VectorsInv' \/ Raw'
  <1> SUFFICES ASSUME VectorsInv PROVE Vectors!Next \/ UNCHANGED vectors => VectorsInv' \/ Raw'
    OBVIOUS
  <1>1. ASSUME NEW v \in Vecs, Vectors!Make(v) \/ Vectors!Unmake(v) \/ Vectors!pop_back(v) PROVE VectorsInv'
    BY <1>1, MakeKeeps, UnmakeKeeps, PopBackKeeps
  <1>2. ASSUME NEW v \in Vecs, NEW o \in Vecs, Vectors!MakeMoved(v, o) \/ Vectors!AssignMoved(v, o)
        PROVE  VectorsInv'
    BY <1>2, MakeMovedKeeps, AssignMovedKeeps
  <1>3. ASSUME NEW v \in Vecs, NEW a \in Vectors!Free, NEW n \in Sizes,
               Vectors!MakeSized(v, a, n) \/ Vectors!reserve(v, a, n)
        PROVE  VectorsInv'
    BY <1>3, MakeSizedKeeps, ReserveKeeps
  <1>4. ASSUME NEW v \in Vecs, NEW a \in Vectors!Free, NEW n \in Sizes, NEW e \in Elements,
               Vectors!MakeFilled(v, a, n, e), UNCHANGED trivial
        PROVE  VectorsInv' \/ Raw'
    <2>1. CASE ~trivial /\ n > 0
      BY <1>4, <2>1, FillsRaw
    <2>2. CASE trivial \/ ~(n > 0)
      BY <1>4, <2>2, MakeFilledKeeps
    <2> QED BY <2>1, <2>2
  <1>5. ASSUME NEW v \in Vecs, NEW a \in Vectors!Free, NEW o \in Vecs,
               Vectors!MakeCopy(v, a, o) \/ Vectors!AssignCopy(v, a, o)
        PROVE  VectorsInv'
    BY <1>5, MakeCopyKeeps, AssignCopyKeeps
  <1>6. ASSUME NEW v \in Vecs, NEW a \in Vectors!Free, NEW e \in Elements, Vectors!push_back(v, a, e)
        PROVE  VectorsInv'
    BY <1>6, PushBackKeeps
  <1>7. ASSUME NEW v \in Vecs, NEW a \in Vectors!Free, NEW i, Vectors!PushBackOwn(v, a, i)
        PROVE  VectorsInv'
    BY <1>7, PushBackOwnKeeps
  <1>8. CASE UNCHANGED vectors
    BY <1>8 DEF vectors, VectorsInv
  <1> QED BY <1>1, <1>2, <1>3, <1>4, <1>5, <1>6, <1>7, <1>8 DEF Vectors!Next

LEMMA SoundAccount == VectorsInv => Vectors!Accounted
  <1> SUFFICES ASSUME VectorsInv PROVE Vectors!Accounted
    OBVIOUS
  <1>1. "misuse" \notin vecHeap.trouble /\ ("leak" \in vecHeap.trouble => "moved over" \in vecHeap.trouble)
    BY DEF VectorsInv, Sound
  <1>2. ASSUME NEW v \in Vecs, vec[v] # NONE
        PROVE  /\ vec[v].data_ \in Allocations \cup {NULL}
               /\ vec[v].data_ # NULL => vecHeap.memory[vec[v].data_] # NULL
               /\ vec[v].size_ = Len(contents[v])
               /\ IF vec[v].data_ = NULL THEN vec[v] = Vectors!Empty
                  ELSE /\ vecHeap.memory[vec[v].data_].room = vec[v].capacity_
                       /\ Len(vecHeap.memory[vec[v].data_].elems) = vec[v].size_
               /\ "dangling" \notin vecHeap.trouble => Vectors!At(Vectors!Now(v)) = contents[v]
    <2>1. PICK xs : Stored(v, xs)
      BY <1>2, StoredThere
    <2>2. vecHeap \in Memories /\ Stores(vecHeap, vec[v], xs) /\ vec[v] \in Members /\ Len(xs) = vec[v].size_
      BY <1>2, <2>1, StoredThere, Fits DEF Stored
    <2>3. vec[v].data_ \in Allocations \cup {NULL}
      BY <2>2 DEF Members
    <2>4. ASSUME vec[v].data_ # NULL PROVE vecHeap.memory[vec[v].data_] # NULL
      <3>1. Vectors!Live(vecHeap, vec[v].data_)
        BY <2>2, <2>4, InUse
      <3> QED BY <2>4, <3>1 DEF Vectors!Live
    <2>5. vec[v].size_ = Len(contents[v])
      BY <2>1, <2>2 DEF Stored
    <2>6. IF vec[v].data_ = NULL THEN vec[v] = Vectors!Empty
          ELSE /\ vecHeap.memory[vec[v].data_].room = vec[v].capacity_
               /\ Len(vecHeap.memory[vec[v].data_].elems) = vec[v].size_
      BY <2>2 DEF Stores
    <2>7. "dangling" \notin vecHeap.trouble => Vectors!At(Vectors!Now(v)) = contents[v]
      <3>1. Vectors!At(Vectors!Now(v)) = xs
        BY <2>2, AtStored DEF Vectors!Now
      <3> QED BY <2>1, <3>1 DEF Stored
    <2> QED BY <2>3, <2>4, <2>5, <2>6, <2>7
  <1>3. {a \in Allocations : vecHeap.memory[a] # NULL}
            = {vec[v].data_ : v \in {w \in Vecs : Vectors!There(w)}} \ {NULL}
    <2>1. ASSUME NEW a \in Allocations, vecHeap.memory[a] # NULL
          PROVE  a # NULL /\ \E v \in Vecs : vec[v] # NONE /\ vec[v].data_ = a
      BY <2>1, VectorAssumption DEF VectorsInv, Sound
    <2>2. ASSUME NEW v \in Vecs, vec[v] # NONE, vec[v].data_ # NULL
          PROVE  vec[v].data_ \in Allocations /\ vecHeap.memory[vec[v].data_] # NULL
      BY <1>2, <2>2
    <2> QED BY <2>1, <2>2 DEF Vectors!There
  <1>4. \A v, w \in Vecs :
            v # w /\ Vectors!There(v) /\ Vectors!There(w) /\ vec[v].data_ = vec[w].data_ => vec[v].data_ = NULL
    BY DEF VectorsInv, Sound, Vectors!There
  <1> QED BY <1>1, <1>2, <1>3, <1>4 DEF Vectors!Accounted, Vectors!There

\* However vectors are made, copied, moved, assigned, grown, emptied and
\* destroyed, zam::vector's reallocate, reserve and emplace_back leave every
\* vector the elements the calls gave it, in memory of its own that is freed
\* once: neither used after it was freed nor, unless moved over, freed with
\* elements in it.  Only push_back of an element of the vector itself, when it
\* is full, can store anything else, and only the filling constructor of a type
\* that needs construction, which std::fill does not do, ends this.
THEOREM VectorsKeepElements == MCSpec => []ElementsAccounted
  <1> DEFINE Inv == VectorsInv \/ Raw
  <1>1. Inv => ElementsAccounted
    BY SoundAccount, NotRaw DEF ElementsAccounted, Vectors!ElementsAccounted, Raw
  <1>2. MCInit => Inv
    BY VectorsInit DEF MCInit
  <1>3. Inv /\ [MCNext]_<<part, vars, pointers, vectors, feeds>> => Inv'
    <2> SUFFICES ASSUME Inv, [MCNext]_<<part, vars, pointers, vectors, feeds>> PROVE Inv'
      OBVIOUS
    <2>1. Vectors!Next \/ UNCHANGED vectors
      BY DEF MCNext
    <2>2. CASE VectorsInv
      BY <2>1, <2>2, VectorsStep
    <2>3. CASE Raw
      <3>1. UNCHANGED vectors
        BY <2>1, <2>3 DEF Raw, Vectors!Next
      <3> QED BY <2>3, <3>1 DEF Raw, vectors
    <2> QED BY <2>2, <2>3
  <1> QED BY <1>1, <1>2, <1>3, PTL DEF MCSpec
=============================================================================
