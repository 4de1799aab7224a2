---------------------------- MODULE NumberFacts ----------------------------
(***************************************************************************)
(* Facts about numbers that the proofs of several components rest on.      *)
(* Positions less than a lap apart use different slots of a ring, and a    *)
(* position keeps its slot when it moves by whole laps; a set of numbers   *)
(* has a least element, the form in which proofs by induction are done     *)
(* here; and the sum over a finite set is split, changed and compared term *)
(* by term.                                                                *)
(***************************************************************************)
EXTENDS Integers, FiniteSetsExt, FiniteSetTheorems, WellFoundedInduction, TLAPS

\* The quotient and the remainder of a division determine its operand.
LEMMA DivMod ==
    ASSUME NEW C \in Nat \ {0}, NEW a \in Int
    PROVE  /\ a % C \in 0..(C - 1)
           /\ a \div C \in Int
           /\ a = C * (a \div C) + (a % C)
  OBVIOUS

\* Multiples of C are at least C apart.
LEMMA MultiplesApart ==
    ASSUME NEW C \in Nat \ {0}, NEW p \in Int, NEW q \in Int, p < q
    PROVE  C * p + C <= C * q
<1> DEFINE d == q - p - 1
<1>1. d \in Nat
  OBVIOUS
<1>2. C * d \in Nat
  BY <1>1
<1>3. q = p + 1 + d
  BY <1>1
<1>4. C * q = C * p + C + C * d
  BY <1>1, <1>3
<1> QED
  BY <1>2, <1>4

\* A remainder is unique.
LEMMA RemainderUnique ==
    ASSUME NEW C \in Nat \ {0}, NEW p \in Int, NEW q \in Int,
           NEW r \in 0..(C - 1), NEW s \in 0..(C - 1),
           C * p + r = C * q + s
    PROVE  r = s
<1> C * p \in Int /\ C * q \in Int
  OBVIOUS
<1>1. CASE p < q
  BY <1>1, MultiplesApart
<1>2. CASE q < p
  BY <1>2, MultiplesApart
<1>3. CASE p = q
  BY <1>3
<1> QED
  BY <1>1, <1>2, <1>3

\* Two positions less than a lap apart use different slots of a ring.
LEMMA SlotsDiffer ==
    ASSUME NEW C \in Nat \ {0}, NEW a \in Int, NEW b \in Int, a < b, b < a + C
    PROVE  a % C # b % C
<1> SUFFICES ASSUME a % C = b % C PROVE FALSE
  OBVIOUS
<1> DEFINE p == a \div C
           q == b \div C
           r == a % C
<1>1. p \in Int /\ q \in Int /\ r \in Int /\ a = C * p + r /\ b = C * q + r
  BY DivMod
<1>2. C * p \in Int /\ C * q \in Int
  BY <1>1
<1> HIDE DEF p, q, r
<1>3. C * p < C * q /\ C * q < C * p + C
  BY <1>1, <1>2
<1>4. p < q
  <2>1. CASE q < p
    BY <2>1, <1>1, <1>2, <1>3, MultiplesApart
  <2>2. CASE q = p
    BY <2>2, <1>2, <1>3
  <2> QED
    BY <2>1, <2>2, <1>1
<1> QED
  BY <1>1, <1>2, <1>3, <1>4, MultiplesApart

\* Whole laps do not change the slot.
LEMMA SlotPeriodic ==
    ASSUME NEW C \in Nat \ {0}, NEW k \in Int, NEW a \in Int
    PROVE  (a + k * C) % C = a % C
<1> DEFINE b == a + k * C
           p == a \div C
           q == b \div C
           r == a % C
           s == b % C
<1>1. p \in Int /\ a = C * p + r /\ r \in 0..(C - 1)
  BY DivMod
<1>2. k * C \in Int /\ b \in Int
  OBVIOUS
<1> HIDE DEF b
<1>3. q \in Int /\ b = C * q + s /\ s \in 0..(C - 1)
  BY <1>2, DivMod
<1>4. C * (p + k) = C * p + k * C
  BY <1>1
<1> HIDE DEF p, q, r, s
<1>5. b = C * (p + k) + r
  BY <1>1, <1>2, <1>4 DEF b
<1>6. p + k \in Int
  BY <1>1
<1>7. s = r
  BY <1>1, <1>3, <1>5, <1>6, RemainderUnique
<1> QED
  BY <1>7 DEF b, r, s

\* A remainder may be taken before an addition.
LEMMA RemainderFirst ==
    ASSUME NEW C \in Nat \ {0}, NEW a \in Int, NEW b \in Int
    PROVE  ((a % C) + b) % C = (a + b) % C
<1> DEFINE p == a \div C
           r == a % C
<1>1. p \in Int /\ r \in Int /\ a = C * p + r
  BY DivMod
<1>2. p * C \in Int /\ C * p = p * C
  BY <1>1
<1> HIDE DEF p, r
<1>3. a + b = (r + b) + p * C /\ r + b \in Int
  BY <1>1, <1>2
<1>4. ((r + b) + p * C) % C = (r + b) % C
  BY <1>1, <1>3, SlotPeriodic
<1> QED
  BY <1>3, <1>4 DEF r

\* An index that runs over two laps names the same slot as one that runs on.
LEMMA TwoLaps ==
    ASSUME NEW C \in Nat \ {0}, NEW a \in Int
    PROVE  (a % (2 * C)) % C = a % C
<1>1. PICK D \in Nat \ {0} : D = 2 * C
  OBVIOUS
<1> DEFINE p == a \div D
           r == a % D
<1>2. p \in Int /\ r \in Int /\ a = D * p + r
  BY DivMod
<1> HIDE DEF p, r
<1>3. D * p = (2 * p) * C /\ 2 * p \in Int
  BY <1>1, <1>2
<1>4. (r + (2 * p) * C) % C = r % C
  BY <1>2, <1>3, SlotPeriodic
<1>5. a = r + (2 * p) * C
  <2> (2 * p) * C \in Int
    BY <1>3
  <2> QED BY <1>2, <1>3
<1> QED
  BY <1>1, <1>4, <1>5 DEF r

\* What is smaller than the modulus is its own remainder.
LEMMA SmallRemainder ==
    ASSUME NEW C \in Nat \ {0}, NEW a \in 0..(C - 1)
    PROVE  a % C = a
  OBVIOUS

\* A set of numbers that is not empty has a least one.
LEMMA LeastNumber ==
    ASSUME NEW S, S \subseteq Nat, S # {}
    PROVE  \E n \in S : \A m \in S : n <= m
<1>1. PICK n \in S : \A m \in S : ~(<<m, n>> \in OpToRel(<, Nat))
  BY NatLessThanWellFounded, WFMin, Zenon
<1>2. \A m \in S : ~(m < n)
  BY <1>1 DEF OpToRel
<1> QED
  BY <1>2

-----------------------------------------------------------------------------
(* Sums over finite sets.  SumFunctionOnSet is defined by recursion on a   *)
(* set from which an element is chosen, so its laws are proved with a      *)
(* smallest set that breaks them (MinimalSet).                             *)

\* One fixed element of a set, the one a sum takes first.
First(s) == CHOOSE x \in s : TRUE

\* g is the running total by which SumFunctionOnSet(f, S) is defined.
Totals(f, S, g) ==
    g = [s \in SUBSET S |-> IF s = {} THEN 0 ELSE f[First(s)] + g[s \ {First(s)}]]

\* A set of subsets of a finite set has a member without a smaller one in it.
LEMMA MinimalSet ==
    ASSUME NEW S, IsFiniteSet(S), NEW B, B \subseteq SUBSET S, B # {}
    PROVE  \E T \in B : /\ IsFiniteSet(T)
                        /\ \A s : s \subseteq T /\ s # T => s \notin B
<1> DEFINE N == {Cardinality(s) : s \in B}
<1>1. \A s \in B : IsFiniteSet(s) /\ Cardinality(s) \in Nat
  BY FS_Subset, FS_CardinalityType
<1>2. N \subseteq Nat /\ N # {}
  BY <1>1
<1>3. PICK n \in N : \A m \in N : n <= m
  BY <1>2, LeastNumber, Zenon
<1>4. PICK T \in B : n = Cardinality(T)
  OBVIOUS
<1>5. ASSUME NEW s, s \subseteq T, s # T, s \in B PROVE FALSE
  <2>1. Cardinality(s) < Cardinality(T)
    BY <1>1, <1>5, FS_Subset, FS_CardinalityType
  <2>2. n <= Cardinality(s)
    BY <1>3, <1>5
  <2> QED
    BY <2>1, <2>2, <1>1, <1>4, <1>5
<1> QED
  BY <1>1, <1>4, <1>5

\* The chosen element is one of the set.
LEMMA FirstIn ==
    ASSUME NEW s, s # {}
    PROVE  First(s) \in s
  BY DEF First

\* SumFunctionOnSet is such a total.
LEMMA SumTotals ==
    ASSUME NEW f, NEW S
    PROVE  SumFunctionOnSet(f, S) = (CHOOSE g : Totals(f, S, g))[S]
  BY Zenon DEF SumFunctionOnSet, FoldFunctionOnSet, MapThenFoldSet, Totals, First

\* The totals over a set and over a part of it agree on the part.
LEMMA TotalsAgree ==
    ASSUME NEW f, NEW S, IsFiniteSet(S), NEW T, T \subseteq S, NEW g, NEW h,
           Totals(f, S, g), Totals(f, T, h)
    PROVE  g[T] = h[T]
<1> DEFINE B == {s \in SUBSET T : g[s] # h[s]}
<1> SUFFICES ASSUME B # {} PROVE FALSE
  OBVIOUS
<1>1. IsFiniteSet(T)
  BY FS_Subset
<1>2. PICK s \in B : \A t : t \subseteq s /\ t # s => t \notin B
  <2>1. B \subseteq SUBSET T
    OBVIOUS
  <2> HIDE DEF B
  <2> QED
    BY <1>1, <2>1, MinimalSet, Zenon
<1>3. /\ g[s] = IF s = {} THEN 0 ELSE f[First(s)] + g[s \ {First(s)}]
      /\ h[s] = IF s = {} THEN 0 ELSE f[First(s)] + h[s \ {First(s)}]
  BY DEF Totals
<1>4. s # {}
  BY <1>3
<1>5. g[s \ {First(s)}] = h[s \ {First(s)}]
  BY <1>2, <1>4, FirstIn
<1> QED
  BY <1>3, <1>4, <1>5

\* The total over a set yields the sums of its parts.
LEMMA TotalsOfPart ==
    ASSUME NEW f, NEW S, IsFiniteSet(S), NEW T, T \subseteq S, NEW g, Totals(f, S, g)
    PROVE  g[T] = SumFunctionOnSet(f, T)
<1> DEFINE r == [s \in SUBSET T |-> g[s]]
           h == CHOOSE k : Totals(f, T, k)
<1>1. Totals(f, T, r)
  <2>1. ASSUME NEW s \in SUBSET T
        PROVE  r[s] = IF s = {} THEN 0 ELSE f[First(s)] + r[s \ {First(s)}]
    BY <2>1 DEF Totals
  <2> QED
    BY <2>1, Zenon DEF Totals
<1>2. Totals(f, T, h)
  BY <1>1, Zenon
<1> HIDE DEF h
<1>3. g[T] = h[T]
  BY <1>2, TotalsAgree
<1> QED
  BY <1>3, SumTotals DEF h

\* A finite set has a running total.
LEMMA TotalsExist ==
    ASSUME NEW f, NEW S, IsFiniteSet(S)
    PROVE  \E g : Totals(f, S, g)
<1> DEFINE B == {T \in SUBSET S : ~ \E g : Totals(f, T, g)}
<1> SUFFICES ASSUME B # {} PROVE FALSE
  OBVIOUS
<1>1. PICK T \in B : IsFiniteSet(T) /\ \A s : s \subseteq T /\ s # T => s \notin B
  <2>1. B \subseteq SUBSET S
    OBVIOUS
  <2> HIDE DEF B
  <2> QED
    BY <2>1, MinimalSet, Zenon
<1>2. ASSUME NEW s, s \subseteq T, s # T
      PROVE  IsFiniteSet(s) /\ \E g : Totals(f, s, g)
  BY <1>1, <1>2, FS_Subset
<1> DEFINE Sum(s) == SumFunctionOnSet(f, s)
           Value(s) == IF s = {} THEN 0 ELSE f[First(s)] + Sum(s \ {First(s)})
           g == [s \in SUBSET T |-> Value(s)]
<1>3. ASSUME NEW s, s \subseteq T, s # T
      PROVE  Sum(s) = Value(s)
  <2>1. PICK h : Totals(f, s, h)
    BY <1>2, <1>3
  <2>2. h[s] = IF s = {} THEN 0 ELSE f[First(s)] + h[s \ {First(s)}]
    BY <2>1 DEF Totals
  <2>3. h[s] = Sum(s) /\ h[s \ {First(s)}] = Sum(s \ {First(s)})
    BY <2>1, <1>2, <1>3, TotalsOfPart
  <2> QED
    BY <2>2, <2>3
<1>4. ASSUME NEW s \in SUBSET T
      PROVE  g[s] = IF s = {} THEN 0 ELSE f[First(s)] + g[s \ {First(s)}]
  <2>1. CASE s = {}
    BY <2>1
  <2>2. CASE s # {}
    <3> DEFINE t == s \ {First(s)}
    <3>1. t \subseteq T /\ t # T
      BY <2>2, FirstIn
    <3>2. Sum(t) = Value(t)
      BY <3>1, <1>3
    <3>3. g[t] = Value(t)
      BY <3>1
    <3>4. g[s] = f[First(s)] + Sum(t)
      BY <2>2
    <3> HIDE DEF Sum, Value, g
    <3> QED
      BY <2>2, <3>2, <3>3, <3>4
  <2> QED
    BY <2>1, <2>2
<1>5. Totals(f, T, g)
  <2> HIDE DEF Value
  <2>1. g = [s \in SUBSET T |-> g[s]]
    OBVIOUS
  <2> HIDE DEF g
  <2> QED
    BY <1>4, <2>1 DEF Totals
<1> QED
  BY <1>1, <1>5
\* A sum over a finite set takes its elements one by one.
LEMMA SumFirst ==
    ASSUME NEW f, NEW S, IsFiniteSet(S)
    PROVE  SumFunctionOnSet(f, S) =
               IF S = {} THEN 0 ELSE f[First(S)] + SumFunctionOnSet(f, S \ {First(S)})
<1>1. PICK g : Totals(f, S, g)
  BY TotalsExist
<1>2. g[S] = IF S = {} THEN 0 ELSE f[First(S)] + g[S \ {First(S)}]
  BY <1>1 DEF Totals
<1>3. g[S] = SumFunctionOnSet(f, S)
  BY <1>1, TotalsOfPart, Zenon
<1>4. g[S \ {First(S)}] = SumFunctionOnSet(f, S \ {First(S)})
  <2>1. S \ {First(S)} \subseteq S
    OBVIOUS
  <2> QED
    BY <1>1, <2>1, TotalsOfPart, Zenon
<1> QED
  BY <1>2, <1>3, <1>4

\* A sum of numbers is a number.
LEMMA SumNat ==
    ASSUME NEW f, NEW S, IsFiniteSet(S), \A x \in S : f[x] \in Nat
    PROVE  SumFunctionOnSet(f, S) \in Nat
<1> DEFINE B == {T \in SUBSET S : SumFunctionOnSet(f, T) \notin Nat}
<1> SUFFICES ASSUME B # {} PROVE FALSE
  OBVIOUS
<1>1. PICK T \in B : IsFiniteSet(T) /\ \A s : s \subseteq T /\ s # T => s \notin B
  <2>1. B \subseteq SUBSET S
    OBVIOUS
  <2> HIDE DEF B
  <2> QED
    BY <2>1, MinimalSet, Zenon
<1>2. SumFunctionOnSet(f, T) =
          IF T = {} THEN 0 ELSE f[First(T)] + SumFunctionOnSet(f, T \ {First(T)})
  BY <1>1, SumFirst, Zenon
<1>3. T # {}
  BY <1>2
<1>4. First(T) \in T
  BY <1>3, FirstIn
<1>5. SumFunctionOnSet(f, T \ {First(T)}) \in Nat
  BY <1>1, <1>4
<1> QED
  BY <1>2, <1>3, <1>4, <1>5

\* A sum depends on the values of its elements only.
LEMMA SumSame ==
    ASSUME NEW f, NEW h, NEW S, IsFiniteSet(S), \A x \in S : f[x] = h[x]
    PROVE  SumFunctionOnSet(f, S) = SumFunctionOnSet(h, S)
<1> DEFINE B == {T \in SUBSET S : SumFunctionOnSet(f, T) # SumFunctionOnSet(h, T)}
<1> SUFFICES ASSUME B # {} PROVE FALSE
  OBVIOUS
<1>1. PICK T \in B : IsFiniteSet(T) /\ \A s : s \subseteq T /\ s # T => s \notin B
  <2>1. B \subseteq SUBSET S
    OBVIOUS
  <2> HIDE DEF B
  <2> QED
    BY <2>1, MinimalSet, Zenon
<1>2. /\ SumFunctionOnSet(f, T) =
            IF T = {} THEN 0 ELSE f[First(T)] + SumFunctionOnSet(f, T \ {First(T)})
      /\ SumFunctionOnSet(h, T) =
            IF T = {} THEN 0 ELSE h[First(T)] + SumFunctionOnSet(h, T \ {First(T)})
  BY <1>1, SumFirst, Zenon
<1>3. T # {}
  BY <1>2
<1>4. First(T) \in T
  BY <1>3, FirstIn
<1>5. SumFunctionOnSet(f, T \ {First(T)}) = SumFunctionOnSet(h, T \ {First(T)})
  BY <1>1, <1>4
<1> QED
  BY <1>2, <1>3, <1>4, <1>5

\* A sum of zeros is 0.
LEMMA SumZero ==
    ASSUME NEW f, NEW S, IsFiniteSet(S), \A x \in S : f[x] = 0
    PROVE  SumFunctionOnSet(f, S) = 0
<1> DEFINE B == {T \in SUBSET S : SumFunctionOnSet(f, T) # 0}
<1> SUFFICES ASSUME B # {} PROVE FALSE
  OBVIOUS
<1>1. PICK T \in B : IsFiniteSet(T) /\ \A s : s \subseteq T /\ s # T => s \notin B
  <2>1. B \subseteq SUBSET S
    OBVIOUS
  <2> HIDE DEF B
  <2> QED
    BY <2>1, MinimalSet, Zenon
<1>2. SumFunctionOnSet(f, T) =
          IF T = {} THEN 0 ELSE f[First(T)] + SumFunctionOnSet(f, T \ {First(T)})
  BY <1>1, SumFirst, Zenon
<1>3. T # {}
  BY <1>2
<1>4. First(T) \in T
  BY <1>3, FirstIn
<1>5. SumFunctionOnSet(f, T \ {First(T)}) = 0
  BY <1>1, <1>4
<1> QED
  BY <1>2, <1>3, <1>4, <1>5

\* A sum may take any of its elements first.
LEMMA SumAny ==
    ASSUME NEW f, NEW S, IsFiniteSet(S), \A x \in S : f[x] \in Nat, NEW y \in S
    PROVE  SumFunctionOnSet(f, S) = f[y] + SumFunctionOnSet(f, S \ {y})
<1> DEFINE Sum(T) == SumFunctionOnSet(f, T)
           B == {T \in SUBSET S : \E z \in T : Sum(T) # f[z] + Sum(T \ {z})}
<1> SUFFICES ASSUME B # {} PROVE FALSE
  OBVIOUS
<1>1. PICK T \in B : IsFiniteSet(T) /\ \A s : s \subseteq T /\ s # T => s \notin B
  <2>1. B \subseteq SUBSET S
    OBVIOUS
  <2> HIDE DEF B
  <2> QED
    BY <2>1, MinimalSet, Zenon
<1>2. PICK z \in T : Sum(T) # f[z] + Sum(T \ {z})
  BY <1>1
<1> DEFINE x == First(T)
<1>3. x \in T
  BY <1>2, FirstIn
<1>4. Sum(T) = f[x] + Sum(T \ {x})
  BY <1>1, <1>2, SumFirst
<1>5. x # z
  BY <1>2, <1>4
<1>6. Sum(T \ {x}) = f[z] + Sum((T \ {x}) \ {z})
  <2>1. T \ {x} \notin B /\ z \in T \ {x} /\ T \ {x} \in SUBSET S
    BY <1>1, <1>3, <1>5
  <2> QED
    BY <2>1
<1>7. Sum(T \ {z}) = f[x] + Sum((T \ {z}) \ {x})
  <2>1. T \ {z} \notin B /\ x \in T \ {z} /\ T \ {z} \in SUBSET S
    BY <1>1, <1>3, <1>5
  <2> QED
    BY <2>1
<1>8. Sum((T \ {z}) \ {x}) = Sum((T \ {x}) \ {z})
  <2>1. (T \ {z}) \ {x} = (T \ {x}) \ {z}
    OBVIOUS
  <2> QED
    BY <2>1, Zenon
<1>9. Sum((T \ {x}) \ {z}) \in Nat
  <2>1. IsFiniteSet((T \ {x}) \ {z}) /\ \A w \in (T \ {x}) \ {z} : f[w] \in Nat
    BY <1>1, FS_Subset
  <2> QED
    BY <2>1, SumNat, Zenon
<1>10. f[x] \in Nat /\ f[z] \in Nat
  BY <1>3
<1>11. f[x] + (f[z] + Sum((T \ {x}) \ {z})) = f[z] + (f[x] + Sum((T \ {x}) \ {z}))
  BY <1>9, <1>10
<1> HIDE DEF Sum, x
<1> QED
  BY <1>2, <1>4, <1>6, <1>7, <1>8, <1>11, Zenon

\* What a sum becomes when one of its elements changes.
LEMMA SumChange ==
    ASSUME NEW f, NEW h, NEW S, IsFiniteSet(S), NEW y \in S,
           \A x \in S : f[x] \in Nat /\ h[x] \in Nat,
           \A x \in S \ {y} : f[x] = h[x]
    PROVE  /\ SumFunctionOnSet(f, S) \in Nat
           /\ f[y] <= SumFunctionOnSet(f, S)
           /\ SumFunctionOnSet(h, S) = SumFunctionOnSet(f, S) - f[y] + h[y]
<1> DEFINE R == S \ {y}
<1>1. IsFiniteSet(R) /\ R \subseteq S
  BY FS_Subset
<1>2. /\ SumFunctionOnSet(f, S) = f[y] + SumFunctionOnSet(f, R)
      /\ SumFunctionOnSet(h, S) = h[y] + SumFunctionOnSet(h, R)
  BY SumAny
<1>3. SumFunctionOnSet(f, R) = SumFunctionOnSet(h, R)
  BY <1>1, SumSame, Zenon
<1>4. SumFunctionOnSet(f, R) \in Nat
  BY <1>1, SumNat
<1> HIDE DEF R
<1> QED
  BY <1>2, <1>3, <1>4

\* A sum of larger elements is larger.
LEMMA SumLeq ==
    ASSUME NEW f, NEW h, NEW S, IsFiniteSet(S),
           \A x \in S : f[x] \in Nat /\ h[x] \in Nat /\ f[x] <= h[x]
    PROVE  SumFunctionOnSet(f, S) <= SumFunctionOnSet(h, S)
<1> DEFINE B == {T \in SUBSET S : ~(SumFunctionOnSet(f, T) <= SumFunctionOnSet(h, T))}
<1> SUFFICES ASSUME B # {} PROVE FALSE
  OBVIOUS
<1>1. PICK T \in B : IsFiniteSet(T) /\ \A s : s \subseteq T /\ s # T => s \notin B
  <2>1. B \subseteq SUBSET S
    OBVIOUS
  <2> HIDE DEF B
  <2> QED
    BY <2>1, MinimalSet, Zenon
<1>2. /\ SumFunctionOnSet(f, T) =
            IF T = {} THEN 0 ELSE f[First(T)] + SumFunctionOnSet(f, T \ {First(T)})
      /\ SumFunctionOnSet(h, T) =
            IF T = {} THEN 0 ELSE h[First(T)] + SumFunctionOnSet(h, T \ {First(T)})
  BY <1>1, SumFirst, Zenon
<1>3. T # {}
  BY <1>2
<1>4. First(T) \in T
  BY <1>3, FirstIn
<1>5. SumFunctionOnSet(f, T \ {First(T)}) <= SumFunctionOnSet(h, T \ {First(T)})
  BY <1>1, <1>4
<1>6. /\ SumFunctionOnSet(f, T \ {First(T)}) \in Nat
      /\ SumFunctionOnSet(h, T \ {First(T)}) \in Nat
  <2>1. IsFiniteSet(T \ {First(T)}) /\ T \ {First(T)} \subseteq S
    BY <1>1, FS_Subset
  <2> QED
    BY <2>1, SumNat
<1> QED
  BY <1>2, <1>3, <1>4, <1>5, <1>6

-----------------------------------------------------------------------------
(* Numbers that differ by laps.                                            *)

Cong(a, b, m) == \E q \in Int : a - b = q * m

\* Being laps apart is an equivalence, and depends on the difference only.
LEMMA CongSelf ==
  ASSUME NEW a \in Int, NEW m \in Nat \ {0}
  PROVE  Cong(a, a, m)
  <1>1. a - a = 0 * m
    OBVIOUS
  <1> QED BY <1>1 DEF Cong

LEMMA CongShift ==
  ASSUME NEW a \in Int, NEW b \in Int, NEW c \in Int, NEW d \in Int, NEW m \in Nat \ {0},
         Cong(a, b, m), c - d = a - b
  PROVE  Cong(c, d, m)
  BY DEF Cong

LEMMA CongTurn ==
  ASSUME NEW a \in Int, NEW b \in Int, NEW m \in Nat \ {0}, Cong(a, b, m)
  PROVE  Cong(b, a, m)
  <1>1. PICK q \in Int : a - b = q * m
    BY DEF Cong
  <1>2. (-q) * m = -(q * m)
    OBVIOUS
  <1>3. PICK x \in Int : x = q * m
    OBVIOUS
  <1>4. b - a = (-q) * m
    BY <1>1, <1>2, <1>3
  <1> QED BY <1>4 DEF Cong

LEMMA CongThrough ==
  ASSUME NEW a \in Int, NEW b \in Int, NEW c \in Int, NEW m \in Nat \ {0},
         Cong(a, b, m), Cong(b, c, m)
  PROVE  Cong(a, c, m)
  <1>1. PICK p \in Int : a - b = p * m
    BY DEF Cong
  <1>2. PICK q \in Int : b - c = q * m
    BY DEF Cong
  <1>3. (p + q) * m = p * m + q * m
    OBVIOUS
  <1>4. PICK x \in Int, y \in Int : x = p * m /\ y = q * m
    OBVIOUS
  <1>5. a - c = (p + q) * m /\ p + q \in Int
    BY <1>1, <1>2, <1>3, <1>4
  <1> QED BY <1>5 DEF Cong

\* Laps apart is what positions modulo the lap say.
LEMMA CongMod ==
  ASSUME NEW a \in Int, NEW m \in Nat \ {0}
  PROVE  a % m \in 0..m - 1 /\ Cong(a % m, a, m)
  <1>1. a % m \in 0..(m - 1) /\ a \div m \in Int /\ a = m * (a \div m) + (a % m)
    BY DivMod
  <1>2. PICK q \in Int, r \in 0..m - 1 : q = a \div m /\ r = a % m /\ a = m * q + r
    BY <1>1
  <1>3. (-q) * m = -(m * q)
    OBVIOUS
  <1>4. PICK x \in Int : x = m * q
    OBVIOUS
  <1>5. r - a = (-q) * m
    BY <1>2, <1>3, <1>4
  <1>6. Cong(r, a, m)
    BY <1>5 DEF Cong
  <1>7. r = a % m /\ r \in 0..m - 1
    BY <1>2
  <1> QED BY <1>6, <1>7, Zenon

LEMMA CongSlot ==
  ASSUME NEW a \in Int, NEW b \in Int, NEW m \in Nat \ {0}, Cong(a, b, m)
  PROVE  a % m = b % m
  <1>1. PICK q \in Int : a - b = q * m
    BY DEF Cong
  <1>2. PICK x \in Int : x = q * m
    OBVIOUS
  <1>3. a = b + q * m
    BY <1>1, <1>2
  <1> QED BY <1>3, SlotPeriodic

LEMMA CongFromSlot ==
  ASSUME NEW a \in Int, NEW b \in Int, NEW m \in Nat \ {0}, a % m = b % m
  PROVE  Cong(a, b, m)
  <1>1. Cong(a % m, a, m) /\ Cong(b % m, b, m) /\ a % m \in Int
    <2>1. a % m \in 0..m - 1 /\ Cong(a % m, a, m)
      BY CongMod
    <2>2. Cong(b % m, b, m)
      BY CongMod
    <2> QED BY <2>1, <2>2
  <1>2. Cong(a, a % m, m)
    BY <1>1, CongTurn
  <1> QED BY <1>1, <1>2, CongThrough

\* Numbers less than a lap apart are not a lap apart.
LEMMA CongNear ==
  ASSUME NEW a \in Int, NEW b \in Int, NEW m \in Nat \ {0}, Cong(a, b, m), a <= b, b < a + m
  PROVE  a = b
  <1>1. a % m = b % m
    BY CongSlot
  <1> QED BY <1>1, SlotsDiffer

\* Laps of a multiple are laps.
LEMMA CongDivides ==
  ASSUME NEW a \in Int, NEW b \in Int, NEW m \in Nat \ {0}, NEW k \in Int, NEW n \in Nat \ {0},
         n = k * m, Cong(a, b, n)
  PROVE  Cong(a, b, m)
  <1>1. PICK q \in Int : a - b = q * n
    BY DEF Cong
  <1>2. q * n = (q * k) * m
    OBVIOUS
  <1> QED BY <1>1, <1>2 DEF Cong

\* A position that none of the blocks lo, lo + 1, ... of one lap misses.
LEMMA LapCovers ==
  ASSUME NEW lo \in Nat, NEW n \in Int, NEW s \in Nat \ {0}
  PROVE  \E m \in lo..lo + s - 1 : Cong(m, n, s)
  <1>1. PICK d \in Int : d = n - lo
    OBVIOUS
  <1>2. d % s \in 0..s - 1 /\ Cong(d % s, d, s)
    BY CongMod
  <1>3. PICK r \in 0..s - 1 : r = d % s
    BY <1>2
  <1>4. PICK m \in Int : m = lo + r
    BY <1>3
  <1>5. m - n = r - d
    <2>1. r \in Int
      BY <1>3
    <2> QED BY <1>1, <1>4, <2>1
  <1>6. Cong(m, n, s)
    BY <1>2, <1>3, <1>5, CongShift
  <1> QED BY <1>3, <1>4, <1>6

\* Blocks of one lap are not laps apart.
LEMMA LapNear ==
  ASSUME NEW lo \in Nat, NEW s \in Nat \ {0}, NEW r \in 0..s - 1, NEW x \in 0..s - 1,
         Cong(lo + r, lo + x, s)
  PROVE  r = x
  <1>1. r \in Int /\ x \in Int
    OBVIOUS
  <1>2. PICK a \in Int : a = lo + r
    BY <1>1
  <1>3. PICK b \in Int : b = lo + x
    BY <1>1
  <1>4. Cong(a, b, s)
    BY <1>2, <1>3
  <1>5. r - x = a - b
    BY <1>1, <1>2, <1>3
  <1>6. Cong(r, x, s)
    BY <1>1, <1>4, <1>5, CongShift
  <1>7. Cong(x, r, s)
    BY <1>1, <1>6, CongTurn
  <1>8. r < x + s /\ x < r + s
    OBVIOUS
  <1>9. CASE r <= x
    BY <1>1, <1>6, <1>8, <1>9, CongNear
  <1>10. CASE x <= r
    BY <1>1, <1>7, <1>8, <1>10, CongNear
  <1> QED BY <1>1, <1>9, <1>10

\* How far an entry of the next lap is ahead.
LEMMA LapAhead ==
  ASSUME NEW m \in Int, NEW k \in Int, NEW M \in Int, NEW r \in Int, NEW s \in Int, NEW y \in Int,
         m - (k + M) = y
  PROVE  m + (r + 1) - (k + ((M + 1 - s) + r)) = y + s
  OBVIOUS
=============================================================================
