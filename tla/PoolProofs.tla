----------------------------- MODULE PoolProofs ----------------------------
(***************************************************************************)
(* Proofs about the pools.                                                 *)
(*                                                                         *)
(* TaggedPool, for any number of threads, slots and tags: the free list    *)
(* stays intact through every race of compare-exchanges, and the pool      *)
(* implements MessagePool, as long as its users stay within it.  Follow is *)
(* a recursive function of head_ and nextFree_.  What it is after a step   *)
(* is shown by exhibiting a function that solves its equation there;       *)
(* FollowIs, an induction, says that there is no other solution.           *)
(*                                                                         *)
(* The simple pools, for any number of messages: with one thread on each   *)
(* side they hand out every message to one holder at a time and lose none. *)
(***************************************************************************)
EXTENDS MCTaggedPool, NumberFacts, FiniteSetTheorems

\* The equation of Follow.
Solves(f) ==
    f = [k \in 0..N |-> IF k = 0 THEN head.index
                        ELSE IF f[k - 1] \in Slots THEN nextFree[f[k - 1]] % HalfMod
                        ELSE f[k - 1]]

OneSolution == \A f : Solves(f) => Follow = f /\ Solves(Follow)

\* Follow is the only solution of its equation.
LEMMA FollowIs == OneSolution
  <1> SUFFICES ASSUME NEW f, Solves(f) PROVE Follow = f /\ Solves(Follow)
    BY DEF OneSolution
  <1> USE PoolAssumption
  <1>1. Follow = CHOOSE g : Solves(g)
    BY DEF Follow, Solves
  <1>2. Solves(Follow)
    BY <1>1, Zenon
  <1> DEFINE Differ == {k \in 0..N : Follow[k] # f[k]}
  <1>3. Differ = {}
    <2> SUFFICES ASSUME Differ # {} PROVE FALSE
      OBVIOUS
    <2>1. Differ \subseteq Nat
      OBVIOUS
    <2>2. PICK k \in Differ : \A j \in Differ : k <= j
      BY <2>1, LeastNumber
    <2>3. k \in 0..N /\ Follow[k] # f[k]
      BY <2>2
    <2>4. k # 0
      BY <1>2, <2>3 DEF Solves
    <2>5. k - 1 \in 0..N /\ k - 1 \notin Differ
      BY <2>2, <2>3, <2>4
    <2>6. Follow[k - 1] = f[k - 1]
      BY <2>5
    <2>7. Follow[k] = f[k]
      BY <1>2, <2>3, <2>4, <2>6 DEF Solves
    <2> QED BY <2>3, <2>7
  <1>4. DOMAIN Follow = 0..N /\ DOMAIN f = 0..N
    BY <1>2 DEF Solves
  <1>5. \A k \in 0..N : Follow[k] = f[k]
    BY <1>3
  <1>6. Follow = [k \in 0..N |-> Follow[k]] /\ f = [k \in 0..N |-> f[k]]
    BY <1>2, <1>4 DEF Solves
  <1> QED BY <1>2, <1>5, <1>6

-----------------------------------------------------------------------------
(* The inductive invariant.                                                *)

\* The list from head_ has L slots, no slot twice, and ends.
Listed(L) ==
    /\ Solves(Follow)
    /\ \A k \in 0..N : IF k < L THEN Follow[k] \in Slots ELSE Follow[k] = Nil
    /\ \A j, k \in 0..N : j < L /\ k < L /\ Follow[j] = Follow[k] => j = k

ListOK == \E L \in 0..N : Listed(L)

\* A slot is in the list, with a user, or in the hands of one deallocate.
Apart ==
    /\ FreeList = Slots \ (held \cup InTransit)
    /\ held \cap InTransit = {}
    /\ \A t, u \in Freeing : item[t] = item[u] => t = u

\* What a thread has read is still so when its compare-exchange succeeds.
Fresh ==
    /\ \A t \in Allocating : old[t].index \in Slots
    /\ \A t \in Threads : pc[t] = "allocCas" /\ old[t] = head => next[t] = nextFree[head.index]
    /\ \A t \in Threads : pc[t] = "freeCas" => nextFree[item[t]] = old[t].index

\* The calls of allocate under way will find a slot.
Room == Cardinality(held \cup InTransit) + Cardinality(Allocating) <= MaxInUse

PoolInv == TypeOK /\ ~fault /\ ListOK /\ Apart /\ Fresh /\ Room

-----------------------------------------------------------------------------
(* Lemmas.                                                                 *)

\* The end of the list is not a slot, and is what size_t(-1) reads once it is
\* packed.
LEMMA Numbers ==
  /\ HalfMod \in Nat \ {0} /\ FullMod \in Nat /\ Nil \in 0..(HalfMod - 1) /\ Nil \notin Slots
  /\ Slots \subseteq 0..(HalfMod - 1)
  /\ 0..(HalfMod - 1) \subseteq 0..(FullMod - 1)
  /\ Minus1 \in 0..(FullMod - 1) /\ Minus1 \notin 0..(HalfMod - 1)
  /\ Minus1 % HalfMod = Nil
  <1> USE PoolAssumption
  <1>1. HalfMod \in Nat \ {0, 1}
    OBVIOUS
  <1> DEFINE H == HalfMod - 1
  <1>2. H \in Nat \ {0} /\ H * HalfMod \in Nat
    BY <1>1
  <1>3. FullMod = H * HalfMod + HalfMod
    BY <1>1 DEF FullMod
  <1>4. H * HalfMod >= HalfMod
    <2> DEFINE J == H - 1
    <2>1. J \in Nat /\ J * HalfMod \in Nat /\ H * HalfMod = J * HalfMod + HalfMod
      BY <1>1, <1>2
    <2> QED BY <1>1, <2>1
  <1>5. Minus1 = H + H * HalfMod
    BY <1>1, <1>2, <1>3 DEF Minus1
  <1>6. (H + H * HalfMod) % HalfMod = H % HalfMod
    <2>1. HalfMod \in Nat \ {0} /\ H \in Int
      BY <1>1, <1>2
    <2> HIDE DEF H
    <2> QED BY <2>1, SlotPeriodic, Zenon
  <1>7. H % HalfMod = H
    BY <1>1, SmallRemainder
  <1>8. Minus1 % HalfMod = Nil
    BY <1>5, <1>6, <1>7 DEF Nil
  <1>9. HalfMod \in Nat \ {0} /\ Nil \in 0..(HalfMod - 1) /\ Nil \notin Slots /\ Slots \subseteq 0..(HalfMod - 1)
    BY <1>1 DEF Nil, Slots
  <1> HIDE DEF H
  <1>10. FullMod \in Nat /\ FullMod >= HalfMod + HalfMod
    BY <1>1, <1>2, <1>3, <1>4
  <1>11. Minus1 \in 0..(FullMod - 1) /\ Minus1 \notin 0..(HalfMod - 1) /\ 0..(HalfMod - 1) \subseteq 0..(FullMod - 1)
    BY <1>1, <1>10 DEF Minus1
  <1> QED BY <1>8, <1>9, <1>10, <1>11

\* The slots in the list are as many as its length.
LEMMA FreeCount ==
  ASSUME NEW L \in 0..N, Listed(L)
  PROVE  /\ FreeList = {Follow[k] : k \in 0..(L - 1)}
         /\ IsFiniteSet(FreeList) /\ Cardinality(FreeList) = L
  <1> USE PoolAssumption
  <1>1. FreeList = {Follow[k] : k \in 0..(L - 1)}
    <2>1. ASSUME NEW s \in FreeList PROVE \E k \in 0..(L - 1) : s = Follow[k]
      <3>1. PICK k \in 0..N : s = Follow[k] /\ Follow[k] \in Slots
        BY <2>1 DEF FreeList
      <3>2. k < L
        BY <3>1, Numbers DEF Listed
      <3> QED BY <3>1, <3>2
    <2>2. ASSUME NEW k \in 0..(L - 1) PROVE Follow[k] \in FreeList
      <3>1. k \in 0..N /\ k < L
        OBVIOUS
      <3> QED BY <3>1 DEF FreeList, Listed
    <2> QED BY <2>1, <2>2
  <1>2. IsFiniteSet(0..(L - 1)) /\ Cardinality(0..(L - 1)) = L
    BY FS_Interval
  <1> DEFINE f == [k \in 0..(L - 1) |-> Follow[k]]
  <1>3. f \in Bijection(0..(L - 1), FreeList)
    <2>1. f \in [0..(L - 1) -> FreeList]
      BY <1>1
    <2>2. \A j, k \in 0..(L - 1) : f[j] = f[k] => j = k
      BY DEF Listed
    <2>3. \A s \in FreeList : \E k \in 0..(L - 1) : f[k] = s
      BY <1>1
    <2> QED BY <2>1, <2>2, <2>3 DEF Bijection, Injection, Surjection, IsInjective
  <1>4. ExistsBijection(0..(L - 1), FreeList)
    BY <1>3 DEF ExistsBijection
  <1> QED BY <1>1, <1>2, <1>4, FS_Bijection

\* The slots, the threads and their subsets are finite.
LEMMA Finite ==
  /\ IsFiniteSet(Slots) /\ Cardinality(Slots) = N
  /\ \A S \in SUBSET Slots : IsFiniteSet(S) /\ Cardinality(S) \in Nat
  /\ \A S \in SUBSET Threads : IsFiniteSet(S) /\ Cardinality(S) \in Nat
  <1> USE PoolAssumption
  <1>1. IsFiniteSet(Slots) /\ Cardinality(Slots) = N
    BY FS_Interval DEF Slots
  <1> QED BY <1>1, FS_Subset, FS_CardinalityType

\* While the users do not have all slots, the list has one.
LEMMA NotEmpty ==
  ASSUME PoolInv, Cardinality(held \cup InTransit) < N
  PROVE  head.index \in Slots
  <1> USE PoolAssumption
  <1> DEFINE U == held \cup InTransit
  <1>1. U \subseteq Slots
    BY DEF PoolInv, TypeOK, InTransit, Freeing
  <1>2. IsFiniteSet(U) /\ Cardinality(U) \in Nat
    BY <1>1, Finite
  <1>3. U # Slots
    BY <1>2, Finite
  <1>4. FreeList # {}
    BY <1>1, <1>3 DEF PoolInv, Apart
  <1>5. PICK L \in 0..N : Listed(L)
    BY DEF PoolInv, ListOK
  <1>6. L # 0
    BY <1>4, <1>5, FreeCount
  <1>7. Follow[0] \in Slots
    BY <1>5, <1>6 DEF Listed
  <1>8. Follow[0] = head.index
    BY <1>5 DEF Listed, Solves
  <1> QED BY <1>7, <1>8

\* The pool starts with all slots in the list.
LEMMA InitPool == Init => PoolInv
  <1> SUFFICES ASSUME Init PROVE PoolInv
    OBVIOUS
  <1> USE PoolAssumption, Numbers
  <1>1. head.index = N - 1 /\ head.tag = 0 /\ head \in Heads
    <2>1. (N - 1) % HalfMod = N - 1 /\ 0 % TagMod = 0
      BY SmallRemainder
    <2> QED BY <2>1 DEF Init, pack, Heads
  <1>2. \A i \in Slots : nextFree[i] = IF i = 0 THEN Minus1 ELSE i - 1
    <2>1. (0 - 1) % FullMod = Minus1
      <3>0. FullMod \in Nat \ {0} /\ Minus1 \in Int /\ -1 \in Int
        BY DEF Minus1
      <3>1. (Minus1 + (-1) * FullMod) % FullMod = Minus1 % FullMod
        BY <3>0, SlotPeriodic, Zenon
      <3>2. Minus1 % FullMod = Minus1 /\ Minus1 + (-1) * FullMod = 0 - 1
        BY <3>0, SmallRemainder DEF Minus1
      <3> QED BY <3>1, <3>2
    <2>2. ASSUME NEW i \in Slots, i # 0 PROVE (i - 1) % FullMod = i - 1
      <3>1. i - 1 \in 0..(FullMod - 1) /\ FullMod \in Nat \ {0}
        BY <2>2 DEF Slots
      <3> QED BY <3>1, SmallRemainder
    <2> QED BY <2>1, <2>2 DEF Init, Slots
  <1>3. TypeOK
    <2>1. nextFree \in [Slots -> 0..(FullMod - 1)]
      BY <1>2 DEF Init, Slots
    <2>2. next \in [Threads -> 0..(FullMod - 1)]
      BY DEF Init
    <2>3. item \in [Threads -> Slots]
      BY DEF Init, Slots
    <2>4. old \in [Threads -> Heads]
      BY <1>1 DEF Init
    <2> QED BY <1>1, <2>1, <2>2, <2>3, <2>4 DEF Init, TypeOK
  <1> DEFINE f == [k \in 0..N |-> IF k < N THEN N - 1 - k ELSE Nil]
  <1>4. Listed(N)
    <2>1. Solves(f)
      <3>1. ASSUME NEW k \in 0..N, k # 0
            PROVE  f[k] = IF f[k - 1] \in Slots THEN nextFree[f[k - 1]] % HalfMod ELSE f[k - 1]
        <4>1. f[k - 1] = N - k /\ N - k \in Slots
          BY <3>1 DEF Slots
        <4>2. CASE k = N
          BY <1>2, <4>1, <4>2
        <4>3. CASE k < N
          <5>1. nextFree[N - k] = N - k - 1
            BY <1>2, <4>1, <4>3
          <5>2. (N - k - 1) % HalfMod = N - k - 1
            BY <3>1, <4>3, SmallRemainder DEF Slots
          <5>3. f[k] = N - k - 1
            BY <4>3
          <5> QED BY <4>1, <5>1, <5>2, <5>3
        <4> QED BY <4>2, <4>3
      <3>2. f[0] = head.index
        BY <1>1
      <3> QED BY <3>1, <3>2 DEF Solves
    <2>2. Follow = f /\ Solves(Follow)
      BY <2>1, FollowIs DEF OneSolution
    <2>3. \A k \in 0..N : IF k < N THEN Follow[k] \in Slots ELSE Follow[k] = Nil
      BY <2>2 DEF Slots
    <2>4. \A j, k \in 0..N : j < N /\ k < N /\ Follow[j] = Follow[k] => j = k
      BY <2>2
    <2> QED BY <2>2, <2>3, <2>4 DEF Listed
  <1>5. ListOK
    BY <1>4 DEF ListOK
  <1>6. Allocating = {} /\ Freeing = {} /\ InTransit = {} /\ held = {} /\ ~fault
    BY DEF Init, Allocating, Freeing, InTransit
  <1>7. FreeList = Slots
    <2>1. FreeList \subseteq Slots
      BY DEF FreeList
    <2>2. Cardinality(FreeList) = N
      BY <1>4, FreeCount
    <2> QED BY <2>1, <2>2, Finite, FS_Subset
  <1>8. Apart /\ Fresh
    BY <1>6, <1>7 DEF Apart, Fresh, Init
  <1>9. Room
    BY <1>6, FS_EmptySet DEF Room
  <1> QED BY <1>3, <1>5, <1>6, <1>8, <1>9 DEF PoolInv

\* A step that leaves head_ and the links of the listed slots alone leaves the
\* list alone.
LEMMA SameList ==
  ASSUME ListOK, head' = head, \A s \in FreeList : nextFree'[s] = nextFree[s]
  PROVE  Follow' = Follow /\ FreeList' = FreeList /\ ListOK'
  <1> USE PoolAssumption
  <1>1. PICK L \in 0..N : Listed(L)
    BY DEF ListOK
  <1>2. \A k \in 0..N : Follow[k] \in Slots => Follow[k] \in FreeList
    BY DEF FreeList
  <1>3. Solves(Follow)
    BY <1>1 DEF Listed
  <1> DEFINE g == [k \in 0..N |-> IF k = 0 THEN head'.index
                                  ELSE IF Follow[k - 1] \in Slots THEN nextFree'[Follow[k - 1]] % HalfMod
                                  ELSE Follow[k - 1]]
  <1>4. Follow = g
    <2>1. \A k \in 0..N : k # 0 => k - 1 \in 0..N
      OBVIOUS
    <2>2. \A k \in 0..N : k # 0 /\ Follow[k - 1] \in Slots => nextFree'[Follow[k - 1]] = nextFree[Follow[k - 1]]
      BY <1>2, <2>1
    <2>3. g = [k \in 0..N |-> IF k = 0 THEN head.index
                              ELSE IF Follow[k - 1] \in Slots THEN nextFree[Follow[k - 1]] % HalfMod
                              ELSE Follow[k - 1]]
      BY <2>2
    <2> QED BY <1>3, <2>3, Zenon DEF Solves
  <1>5. \A f : f = Follow => Solves(f)'
    BY <1>4 DEF Solves
  <1>6. OneSolution'
    BY FollowIs, PTL
  <1>7. Follow' = Follow /\ Solves(Follow)'
    BY <1>5, <1>6 DEF OneSolution
  <1>8. Listed(L)'
    BY <1>1, <1>7 DEF Listed
  <1> QED BY <1>7, <1>8 DEF ListOK, FreeList

\* A successful compare-exchange of allocate takes the first slot off the list.
LEMMA PopsFirst ==
  ASSUME ListOK, head.index \in Slots, nextFree' = nextFree,
         head'.index = nextFree[head.index] % HalfMod
  PROVE  ListOK' /\ head.index \in FreeList /\ FreeList' = FreeList \ {head.index}
  <1> USE PoolAssumption, Numbers
  <1>1. PICK L \in 0..N : Listed(L)
    BY DEF ListOK
  <1>2. Solves(Follow)
    BY <1>1 DEF Listed
  <1>3. Follow[0] = head.index
    BY <1>2 DEF Solves
  <1>4. L > 0
    BY <1>1, <1>3 DEF Listed
  <1>5. \A k \in 0..N : k < N => Follow[k + 1] =
            IF Follow[k] \in Slots THEN nextFree[Follow[k]] % HalfMod ELSE Follow[k]
    <2> SUFFICES ASSUME NEW k \in 0..N, k < N
                 PROVE  Follow[k + 1] = IF Follow[k] \in Slots THEN nextFree[Follow[k]] % HalfMod ELSE Follow[k]
      OBVIOUS
    <2>1. k + 1 \in 0..N /\ k + 1 # 0 /\ (k + 1) - 1 = k
      OBVIOUS
    <2> QED BY <1>2, <2>1 DEF Solves
  <1> DEFINE f == [k \in 0..N |-> IF k < N THEN Follow[k + 1] ELSE Nil]
  <1>6. \A g : g = f => Solves(g)'
    <2>1. f[0] = head'.index
      BY <1>3, <1>5
    <2>2. ASSUME NEW k \in 0..N, k # 0
          PROVE  f[k] = IF f[k - 1] \in Slots THEN nextFree[f[k - 1]] % HalfMod ELSE f[k - 1]
      <3>1. k - 1 \in 0..N /\ k - 1 < N /\ (k - 1) + 1 = k
        BY <2>2
      <3>2. f[k - 1] = Follow[k]
        BY <3>1
      <3>3. CASE k < N
        BY <1>5, <3>2, <3>3
      <3>4. CASE k = N
        <4>1. Follow[N] = Nil
          BY <1>1 DEF Listed
        <4> QED BY <3>2, <3>4, <4>1
      <3> QED BY <3>3, <3>4
    <2>3. f = [k \in 0..N |-> IF k = 0 THEN head'.index
                              ELSE IF f[k - 1] \in Slots THEN nextFree[f[k - 1]] % HalfMod
                              ELSE f[k - 1]]
      BY <2>1, <2>2
    <2> HIDE DEF f
    <2> QED BY <2>3 DEF Solves
  <1>7. OneSolution'
    BY FollowIs, PTL
  <1>8. Follow' = f /\ Solves(Follow)'
    BY <1>6, <1>7 DEF OneSolution
  <1>9. \A k \in 0..N : IF k < L - 1 THEN f[k] \in Slots ELSE f[k] = Nil
    <2> SUFFICES ASSUME NEW k \in 0..N
                 PROVE  IF k < L - 1 THEN f[k] \in Slots ELSE f[k] = Nil
      OBVIOUS
    <2>1. CASE k < N
      <3>1. k + 1 \in 0..N /\ f[k] = Follow[k + 1]
        BY <2>1
      <3> QED BY <1>1, <3>1 DEF Listed
    <2>2. CASE k = N
      BY <2>2
    <2> QED BY <2>1, <2>2
  <1>10. \A j, k \in 0..N : j < L - 1 /\ k < L - 1 /\ f[j] = f[k] => j = k
    <2> SUFFICES ASSUME NEW j \in 0..N, NEW k \in 0..N, j < L - 1, k < L - 1, f[j] = f[k]
                 PROVE  j = k
      OBVIOUS
    <2>1. /\ j + 1 \in 0..N /\ j + 1 < L /\ k + 1 \in 0..N /\ k + 1 < L
          /\ Follow[j + 1] = Follow[k + 1]
      OBVIOUS
    <2>2. j + 1 = k + 1
      BY <1>1, <2>1 DEF Listed
    <2> QED BY <2>2
  <1>11. L - 1 \in 0..N /\ Listed(L - 1)'
    BY <1>4, <1>8, <1>9, <1>10 DEF Listed
  <1>12. head.index \in FreeList
    BY <1>3 DEF FreeList
  <1>13. FreeList' = FreeList \ {head.index}
    <2>1. ASSUME NEW s \in FreeList' PROVE s \in FreeList /\ s # head.index
      <3>1. PICK k \in 0..N : s = f[k] /\ s \in Slots
        BY <1>8 DEF FreeList
      <3>2. k < N /\ k + 1 \in 0..N /\ s = Follow[k + 1]
        BY <3>1
      <3>3. s \in FreeList
        BY <3>1, <3>2 DEF FreeList
      <3>4. k + 1 < L
        BY <1>1, <3>1, <3>2 DEF Listed
      <3>5. s # Follow[0]
        BY <1>1, <1>4, <3>2, <3>4 DEF Listed
      <3> QED BY <1>3, <3>3, <3>5
    <2>2. ASSUME NEW s \in FreeList, s # head.index PROVE s \in FreeList'
      <3>1. PICK k \in 0..N : s = Follow[k] /\ s \in Slots
        BY DEF FreeList
      <3>2. k # 0
        BY <1>3, <2>2, <3>1
      <3>3. k - 1 \in 0..N /\ f[k - 1] = s
        BY <3>1, <3>2
      <3> QED BY <1>8, <3>1, <3>3 DEF FreeList
    <2> QED BY <2>1, <2>2
  <1> QED BY <1>11, <1>12, <1>13 DEF ListOK

\* A successful compare-exchange of deallocate puts its slot first in the list.
LEMMA PushesFirst ==
  ASSUME ListOK, NEW s \in Slots, s \notin FreeList, nextFree' = nextFree,
         head'.index = s, nextFree[s] = head.index, head.index \in 0..(HalfMod - 1)
  PROVE  ListOK' /\ FreeList' = FreeList \cup {s}
  <1> USE PoolAssumption, Numbers
  <1>1. PICK L \in 0..N : Listed(L)
    BY DEF ListOK
  <1>2. Solves(Follow)
    BY <1>1 DEF Listed
  <1>3. Follow[0] = head.index
    BY <1>2 DEF Solves
  <1>4. L < N
    <2>1. FreeList \subseteq Slots /\ FreeList # Slots
      BY DEF FreeList
    <2>2. Cardinality(FreeList) <= N /\ Cardinality(FreeList) # N
      BY <2>1, Finite, FS_Subset
    <2> QED BY <1>1, <2>2, FreeCount
  <1> DEFINE f == [k \in 0..N |-> IF k = 0 THEN s ELSE Follow[k - 1]]
  <1>5. \A g : g = f => Solves(g)'
    <2>1. ASSUME NEW k \in 0..N, k # 0
          PROVE  f[k] = IF f[k - 1] \in Slots THEN nextFree[f[k - 1]] % HalfMod ELSE f[k - 1]
      <3>1. k - 1 \in 0..N /\ f[k] = Follow[k - 1]
        BY <2>1
      <3>2. CASE k = 1
        <4>1. head.index % HalfMod = head.index
          BY SmallRemainder
        <4> QED BY <1>3, <3>1, <3>2, <4>1
      <3>3. CASE k # 1
        <4>1. k - 1 # 0 /\ (k - 1) - 1 \in 0..N /\ f[k - 1] = Follow[(k - 1) - 1]
          BY <2>1, <3>3
        <4> QED BY <1>2, <3>1, <4>1 DEF Solves
      <3> QED BY <3>2, <3>3
    <2>2. f = [k \in 0..N |-> IF k = 0 THEN head'.index
                              ELSE IF f[k - 1] \in Slots THEN nextFree[f[k - 1]] % HalfMod
                              ELSE f[k - 1]]
      BY <2>1
    <2> HIDE DEF f
    <2> QED BY <2>2 DEF Solves
  <1>6. OneSolution'
    BY FollowIs, PTL
  <1>7. Follow' = f /\ Solves(Follow)'
    BY <1>5, <1>6 DEF OneSolution
  <1>8. \A k \in 0..N : IF k < L + 1 THEN f[k] \in Slots ELSE f[k] = Nil
    <2> SUFFICES ASSUME NEW k \in 0..N PROVE IF k < L + 1 THEN f[k] \in Slots ELSE f[k] = Nil
      OBVIOUS
    <2>1. CASE k = 0
      BY <2>1
    <2>2. CASE k # 0
      <3>1. k - 1 \in 0..N /\ f[k] = Follow[k - 1] /\ (k - 1 < L <=> k < L + 1)
        BY <2>2
      <3> QED BY <1>1, <3>1 DEF Listed
    <2> QED BY <2>1, <2>2
  <1>9. \A j, k \in 0..N : j < L + 1 /\ k < L + 1 /\ f[j] = f[k] => j = k
    <2>1. \A k \in 0..N : k < L => Follow[k] # s
      BY <1>1 DEF FreeList, Listed
    <2> SUFFICES ASSUME NEW j \in 0..N, NEW k \in 0..N, j < L + 1, k < L + 1, f[j] = f[k]
                 PROVE  j = k
      OBVIOUS
    <2>2. \A i \in 0..N : i # 0 /\ i < L + 1 => i - 1 \in 0..N /\ i - 1 < L /\ f[i] = Follow[i - 1]
      OBVIOUS
    <2>3. CASE j = 0 \/ k = 0
      BY <2>1, <2>2, <2>3
    <2>4. CASE j # 0 /\ k # 0
      <3>1. j - 1 = k - 1
        BY <1>1, <2>2, <2>4 DEF Listed
      <3> QED BY <3>1
    <2> QED BY <2>3, <2>4
  <1>10. L + 1 \in 0..N /\ Listed(L + 1)'
    BY <1>4, <1>7, <1>8, <1>9 DEF Listed
  <1>11. FreeList' = FreeList \cup {s}
    <2>1. ASSUME NEW r \in FreeList' PROVE r \in FreeList \cup {s}
      <3>1. PICK k \in 0..N : r = f[k] /\ r \in Slots
        BY <1>7 DEF FreeList
      <3>2. k # 0 => k - 1 \in 0..N
        OBVIOUS
      <3> QED BY <3>1, <3>2 DEF FreeList
    <2>2. s \in FreeList'
      <3>1. 0 \in 0..N /\ f[0] = s
        OBVIOUS
      <3> QED BY <1>7, <3>1 DEF FreeList
    <2>3. ASSUME NEW r \in FreeList PROVE r \in FreeList'
      <3>1. PICK k \in 0..(L - 1) : r = Follow[k]
        BY <1>1, FreeCount
      <3>2. k + 1 \in 0..N /\ r \in Slots
        BY <1>4 DEF FreeList
      <3>3. f[k + 1] = r
        <4>1. k + 1 # 0 /\ (k + 1) - 1 = k
          OBVIOUS
        <4> QED BY <3>1, <3>2, <4>1
      <3> QED BY <1>7, <3>2, <3>3 DEF FreeList
    <2> QED BY <2>1, <2>2, <2>3
  <1> QED BY <1>10, <1>11 DEF ListOK

\* Every step that keeps within the pool keeps the invariant.
LEMMA StepPool == MaxInUse <= N /\ PoolInv /\ [Next]_vars => PoolInv'
  <1> SUFFICES ASSUME MaxInUse <= N, PoolInv, [Next]_vars PROVE PoolInv'
    OBVIOUS
  <1> USE PoolAssumption, Numbers
  <1> DEFINE U == held \cup InTransit
  <1>a. TypeOK /\ ~fault /\ ListOK /\ Apart /\ Fresh /\ Room
    BY DEF PoolInv
  <1>b. /\ U \in SUBSET Slots /\ IsFiniteSet(U) /\ Cardinality(U) \in Nat
        /\ Allocating \in SUBSET Threads /\ IsFiniteSet(Allocating) /\ Cardinality(Allocating) \in Nat
    <2>1. U \in SUBSET Slots /\ Allocating \in SUBSET Threads
      BY <1>a DEF TypeOK, InTransit, Freeing, Allocating
    <2> HIDE DEF U
    <2> QED BY <2>1, Finite
  <1>d. Cardinality(U) + Cardinality(Allocating) <= MaxInUse
    BY <1>a DEF Room
  <1>c. Allocating # {} => head.index \in Slots
    <2> SUFFICES ASSUME Allocating # {} PROVE head.index \in Slots
      OBVIOUS
    <2>1. Cardinality(Allocating) # 0
      BY <1>b, FS_EmptySet
    <2>2. Cardinality(U) < N
      BY <1>a, <1>b, <2>1 DEF Room
    <2> QED BY <2>2, NotEmpty
  <1>1. ASSUME NEW t \in Threads, CallAllocate(t) PROVE PoolInv'
    <2>1. /\ pc[t] = "idle" /\ pc' = [pc EXCEPT ![t] = "allocNext"] /\ old' = [old EXCEPT ![t] = head]
          /\ UNCHANGED <<nextFree, head, next, item, held, fault>>
          /\ Cardinality(U) + Cardinality(Allocating) < MaxInUse
      BY <1>1 DEF CallAllocate, At, Goto
    <2>2. TypeOK'
      BY <1>a, <2>1 DEF TypeOK
    <2>3. Allocating' = Allocating \cup {t} /\ t \notin Allocating /\ Freeing' = Freeing
      BY <1>a, <2>1 DEF TypeOK, Allocating, Freeing
    <2>4. InTransit' = InTransit
      BY <2>1, <2>3 DEF InTransit
    <2>5. ListOK' /\ FreeList' = FreeList
      BY <1>a, <2>1, SameList
    <2>6. Apart'
      BY <1>a, <2>1, <2>3, <2>4, <2>5 DEF Apart
    <2>7. head.index \in Slots
      <3>1. Cardinality(U) < N
        BY <1>b, <2>1
      <3> QED BY <3>1, NotEmpty
    <2>8. Fresh'
      <3>1. (\A u \in Allocating : old[u].index \in Slots)'
        BY <1>a, <2>1, <2>3, <2>7 DEF Fresh, TypeOK, Allocating
      <3>2. \A u \in Threads : u # t => pc'[u] = pc[u] /\ old'[u] = old[u]
        BY <1>a, <2>1 DEF TypeOK
      <3>3. pc'[t] = "allocNext"
        BY <1>a, <2>1 DEF TypeOK
      <3> QED BY <1>a, <2>1, <3>1, <3>2, <3>3 DEF Fresh
    <2>9. Room'
      <3>1. Cardinality(Allocating \cup {t}) = Cardinality(Allocating) + 1
        BY <1>b, <2>3, FS_AddElement
      <3> QED BY <1>b, <2>1, <2>3, <2>4, <3>1 DEF Room
    <2> QED BY <1>a, <2>1, <2>2, <2>5, <2>6, <2>8, <2>9 DEF PoolInv
  <1>2. ASSUME NEW t \in Threads, AllocateNext(t) PROVE PoolInv'
    <2>0. t \in Allocating /\ old[t].index \in Slots
      BY <1>2, <1>a DEF AllocateNext, At, Allocating, Fresh
    <2>1. /\ pc[t] = "allocNext" /\ pc' = [pc EXCEPT ![t] = "allocCas"]
          /\ next' = [next EXCEPT ![t] = nextFree[old[t].index]]
          /\ UNCHANGED <<nextFree, head, old, item, held, fault>>
      <3>1. old[t].index # Minus1
        BY <2>0
      <3> QED BY <1>2, <2>0, <3>1 DEF AllocateNext, At, Goto
    <2>2. TypeOK'
      BY <1>a, <2>0, <2>1 DEF TypeOK
    <2>3. Allocating' = Allocating /\ Freeing' = Freeing
      BY <1>a, <2>1 DEF TypeOK, Allocating, Freeing
    <2>4. InTransit' = InTransit
      BY <2>1, <2>3 DEF InTransit
    <2>5. ListOK' /\ FreeList' = FreeList
      BY <1>a, <2>1, SameList
    <2>6. Apart'
      BY <1>a, <2>1, <2>3, <2>4, <2>5 DEF Apart
    <2>7. Fresh'
      <3>1. \A u \in Threads : u # t => pc'[u] = pc[u] /\ next'[u] = next[u]
        BY <1>a, <2>1 DEF TypeOK
      <3>2. pc'[t] = "allocCas" /\ next'[t] = nextFree[old[t].index]
        BY <1>a, <2>1 DEF TypeOK
      <3> QED BY <1>a, <2>1, <2>3, <3>1, <3>2 DEF Fresh
    <2>8. Room'
      BY <1>a, <2>1, <2>3, <2>4 DEF Room
    <2> QED BY <1>a, <2>1, <2>2, <2>5, <2>6, <2>7, <2>8 DEF PoolInv
  <1>3. ASSUME NEW t \in Threads, PopHead(t) PROVE PoolInv'
    <2>1. /\ pc[t] = "allocCas" /\ head = old[t] /\ NoFullTagCycle /\ t \in Allocating
          /\ pc' = [pc EXCEPT ![t] = "idle"]
          /\ head' = pack(next[t], head.tag + 1) /\ held' = held \cup {head.index}
          /\ UNCHANGED <<nextFree, old, next, item, fault>>
      BY <1>3, <1>a DEF PopHead, At, Goto, Allocating
    <2>2. head.index \in Slots /\ next[t] = nextFree[head.index]
      BY <1>a, <2>1 DEF Fresh
    <2>3. head'.index = nextFree[head.index] % HalfMod /\ head'.tag = (head.tag + 1) % TagMod
      BY <2>1, <2>2 DEF pack
    <2>4. head' \in Heads
      <3>1. next[t] \in Int /\ head.tag + 1 \in Int /\ TagMod \in Nat \ {0}
        BY <1>a DEF TypeOK, Heads
      <3>2. next[t] % HalfMod \in 0..(HalfMod - 1)
        BY <3>1, DivMod, Zenon
      <3>3. (head.tag + 1) % TagMod \in 0..(TagMod - 1)
        BY <3>1, DivMod, Zenon
      <3> QED BY <2>1, <3>2, <3>3 DEF pack, Heads
    <2>5. TypeOK'
      BY <1>a, <2>1, <2>2, <2>4 DEF TypeOK
    <2>6. Allocating' = Allocating \ {t} /\ Freeing' = Freeing
      BY <1>a, <2>1 DEF TypeOK, Allocating, Freeing
    <2>7. InTransit' = InTransit
      BY <2>1, <2>6 DEF InTransit
    <2>8. ListOK' /\ head.index \in FreeList /\ FreeList' = FreeList \ {head.index}
      BY <1>a, <2>1, <2>2, <2>3, PopsFirst
    <2>9. head.index \notin U
      BY <1>a, <2>8 DEF Apart
    <2>10. Apart'
      BY <1>a, <2>1, <2>6, <2>7, <2>8, <2>9 DEF Apart
    <2>11. Fresh'
      <3>1. \A u \in Threads : u # t => pc'[u] = pc[u]
        BY <1>a, <2>1 DEF TypeOK
      <3>2. pc'[t] = "idle"
        BY <1>a, <2>1 DEF TypeOK
      <3>3. \A u \in Threads : pc[u] = "allocCas" => old[u] # head'
        BY <2>1, <2>3 DEF NoFullTagCycle, Allocating
      <3> QED BY <1>a, <2>1, <2>6, <3>1, <3>2, <3>3 DEF Fresh
    <2>12. Room'
      <3>1. Cardinality(Allocating \ {t}) = Cardinality(Allocating) - 1
        BY <1>b, <2>1, FS_RemoveElement
      <3>2. Cardinality(U \cup {head.index}) = Cardinality(U) + 1
        BY <1>b, <2>9, FS_AddElement
      <3>3. held' \cup InTransit' = U \cup {head.index}
        BY <2>1, <2>7
      <3>4. (Cardinality(U) + 1) + (Cardinality(Allocating) - 1) <= MaxInUse
        BY <1>b, <1>d
      <3> QED BY <2>6, <3>1, <3>2, <3>3, <3>4, Zenon DEF Room
    <2> QED BY <1>a, <2>1, <2>5, <2>8, <2>10, <2>11, <2>12 DEF PoolInv
  <1>4. ASSUME NEW t \in Threads, MissPop(t) PROVE PoolInv'
    <2>1. /\ pc[t] = "allocCas" /\ pc' = [pc EXCEPT ![t] = "allocNext"] /\ old' = [old EXCEPT ![t] = head]
          /\ UNCHANGED <<nextFree, head, next, item, held, fault>>
      BY <1>4 DEF MissPop, At, Goto
    <2>2. TypeOK'
      BY <1>a, <2>1 DEF TypeOK
    <2>3. Allocating' = Allocating /\ t \in Allocating /\ Freeing' = Freeing
      BY <1>a, <2>1 DEF TypeOK, Allocating, Freeing
    <2>4. InTransit' = InTransit
      BY <2>1, <2>3 DEF InTransit
    <2>5. ListOK' /\ FreeList' = FreeList
      BY <1>a, <2>1, SameList
    <2>6. Apart'
      BY <1>a, <2>1, <2>3, <2>4, <2>5 DEF Apart
    <2>7. Fresh'
      <3>1. \A u \in Threads : u # t => pc'[u] = pc[u] /\ old'[u] = old[u]
        BY <1>a, <2>1 DEF TypeOK
      <3>2. pc'[t] = "allocNext" /\ old'[t].index \in Slots
        BY <1>a, <1>c, <2>1, <2>3 DEF TypeOK
      <3>3. (\A u \in Allocating : old[u].index \in Slots)'
        BY <1>a, <2>3, <3>1, <3>2 DEF Fresh, Allocating
      <3> QED BY <1>a, <2>1, <3>1, <3>2, <3>3 DEF Fresh
    <2>8. Room'
      BY <1>a, <2>1, <2>3, <2>4 DEF Room
    <2> QED BY <1>a, <2>1, <2>2, <2>5, <2>6, <2>7, <2>8 DEF PoolInv
  <1>5. ASSUME NEW t \in Threads, NEW i \in Slots, CallDeallocate(t, i) PROVE PoolInv'
    <2>1. /\ pc[t] = "idle" /\ pc' = [pc EXCEPT ![t] = "freeLink"] /\ old' = [old EXCEPT ![t] = head]
          /\ i \in held /\ held' = held \ {i} /\ item' = [item EXCEPT ![t] = i]
          /\ UNCHANGED <<nextFree, head, next, fault>>
      BY <1>5 DEF CallDeallocate, At, Goto
    <2>2. TypeOK'
      BY <1>a, <2>1 DEF TypeOK
    <2>3. Allocating' = Allocating /\ Freeing' = Freeing \cup {t} /\ t \notin Freeing /\ t \notin Allocating
      BY <1>a, <2>1 DEF TypeOK, Allocating, Freeing
    <2>4. item'[t] = i /\ \A u \in Freeing : item'[u] = item[u]
      BY <1>a, <2>1, <2>3 DEF TypeOK, Freeing
    <2>5. InTransit' = InTransit \cup {i}
      BY <2>3, <2>4 DEF InTransit
    <2>6. ListOK' /\ FreeList' = FreeList
      BY <1>a, <2>1, SameList
    <2>7. Apart'
      <3>1. i \notin InTransit /\ \A u \in Freeing : item[u] # i
        BY <1>a, <2>1 DEF Apart, InTransit
      <3>2. (\A u, v \in Freeing : item[u] = item[v] => u = v)'
        BY <1>a, <2>3, <2>4, <3>1 DEF Apart
      <3> QED BY <1>a, <2>1, <2>5, <2>6, <3>1, <3>2 DEF Apart
    <2>8. Fresh'
      <3>1. \A u \in Threads : u # t => pc'[u] = pc[u] /\ old'[u] = old[u] /\ item'[u] = item[u]
        BY <1>a, <2>1 DEF TypeOK
      <3>2. pc'[t] = "freeLink"
        BY <1>a, <2>1 DEF TypeOK
      <3>3. (\A u \in Allocating : old[u].index \in Slots)'
        BY <1>a, <2>3, <3>1 DEF Fresh, Allocating
      <3> QED BY <1>a, <2>1, <3>1, <3>2, <3>3 DEF Fresh
    <2>9. Room'
      <3>1. held' \cup InTransit' = U
        BY <2>1, <2>5
      <3> QED BY <1>a, <2>3, <3>1 DEF Room
    <2> QED BY <1>a, <2>1, <2>2, <2>6, <2>7, <2>8, <2>9 DEF PoolInv
  <1>6. ASSUME NEW t \in Threads, LinkNext(t) PROVE PoolInv'
    <2>1. /\ pc[t] = "freeLink" /\ pc' = [pc EXCEPT ![t] = "freeCas"]
          /\ nextFree' = [nextFree EXCEPT ![item[t]] = old[t].index]
          /\ UNCHANGED <<head, old, next, item, held, fault>>
      BY <1>6 DEF LinkNext, At, Goto
    <2>2. TypeOK'
      <3>1. old[t].index \in 0..(FullMod - 1) /\ item[t] \in Slots
        BY <1>a DEF TypeOK, Heads
      <3> QED BY <1>a, <2>1, <3>1 DEF TypeOK
    <2>3. Allocating' = Allocating /\ Freeing' = Freeing /\ t \in Freeing
      BY <1>a, <2>1 DEF TypeOK, Allocating, Freeing
    <2>4. InTransit' = InTransit /\ item[t] \in InTransit
      BY <2>1, <2>3 DEF InTransit
    <2>5. \A s \in Slots : s # item[t] => nextFree'[s] = nextFree[s]
      BY <1>a, <2>1 DEF TypeOK
    <2>6. item[t] \notin FreeList /\ FreeList \subseteq Slots
      BY <1>a, <2>4 DEF Apart
    <2>7. ListOK' /\ FreeList' = FreeList
      BY <1>a, <2>1, <2>5, <2>6, SameList
    <2>8. Apart'
      BY <1>a, <2>1, <2>3, <2>4, <2>7 DEF Apart
    <2>9. Fresh'
      <3>1. \A u \in Threads : u # t => pc'[u] = pc[u]
        BY <1>a, <2>1 DEF TypeOK
      <3>2. pc'[t] = "freeCas" /\ nextFree'[item[t]] = old[t].index
        BY <1>a, <2>1 DEF TypeOK
      <3>3. (\A u \in Allocating : old[u].index \in Slots)'
        BY <1>a, <2>1, <2>3 DEF Fresh
      <3>4. ASSUME NEW u \in Threads, pc'[u] = "allocCas", old[u] = head
            PROVE  next[u] = nextFree'[head.index]
        <4>1. pc[u] = "allocCas" /\ u \in Allocating
          BY <3>1, <3>2, <3>4 DEF Allocating
        <4>2. head.index \in FreeList
          <5>1. PICK L \in 0..N : Listed(L)
            BY <1>a DEF ListOK
          <5>2. Follow[0] = head.index
            BY <5>1 DEF Listed, Solves
          <5> QED BY <1>c, <4>1, <5>2 DEF FreeList
        <4> QED BY <1>a, <2>5, <2>6, <3>4, <4>1, <4>2 DEF Fresh
      <3>5. ASSUME NEW u \in Threads, u # t, pc[u] = "freeCas"
            PROVE  nextFree'[item[u]] = old[u].index
        <4>1. u \in Freeing /\ item[u] # item[t] /\ item[u] \in Slots
          BY <1>a, <2>3, <3>5 DEF Apart, Freeing, TypeOK
        <4> QED BY <1>a, <2>5, <3>5, <4>1 DEF Fresh
      <3> QED BY <2>1, <3>1, <3>2, <3>3, <3>4, <3>5 DEF Fresh
    <2>10. Room'
      BY <1>a, <2>1, <2>3, <2>4 DEF Room
    <2> QED BY <1>a, <2>1, <2>2, <2>7, <2>8, <2>9, <2>10 DEF PoolInv
  <1>7. ASSUME NEW t \in Threads, PushHead(t) PROVE PoolInv'
    <2>1. /\ pc[t] = "freeCas" /\ head = old[t] /\ NoFullTagCycle /\ t \in Freeing
          /\ pc' = [pc EXCEPT ![t] = "idle"]
          /\ head' = pack(item[t], head.tag + 1)
          /\ UNCHANGED <<nextFree, old, next, item, held, fault>>
      BY <1>7, <1>a DEF PushHead, At, Goto, Freeing
    <2>2. item[t] \in Slots /\ nextFree[item[t]] = head.index /\ head.index \in 0..(HalfMod - 1)
      BY <1>a, <2>1 DEF Fresh, TypeOK, Heads
    <2>3. head'.index = item[t] /\ head'.tag = (head.tag + 1) % TagMod /\ head' \in Heads
      <3>1. item[t] % HalfMod = item[t]
        BY <2>2, SmallRemainder
      <3>2. head.tag + 1 \in Nat
        BY <1>a DEF TypeOK, Heads
      <3>3. (head.tag + 1) % TagMod \in 0..(TagMod - 1)
        BY <3>2, DivMod
      <3> QED BY <2>1, <2>2, <3>1, <3>3 DEF pack, Heads
    <2>4. TypeOK'
      BY <1>a, <2>1, <2>3 DEF TypeOK
    <2>5. Allocating' = Allocating /\ Freeing' = Freeing \ {t}
      BY <1>a, <2>1 DEF TypeOK, Allocating, Freeing
    <2>6. InTransit' = InTransit \ {item[t]} /\ item[t] \in InTransit
      BY <1>a, <2>1, <2>5 DEF InTransit, Apart
    <2>7. item[t] \notin FreeList /\ item[t] \notin held
      BY <1>a, <2>6 DEF Apart
    <2>8. ListOK' /\ FreeList' = FreeList \cup {item[t]}
      BY <1>a, <2>1, <2>2, <2>3, <2>7, PushesFirst
    <2>9. Apart'
      BY <1>a, <2>1, <2>2, <2>5, <2>6, <2>7, <2>8 DEF Apart
    <2>10. Fresh'
      <3>1. \A u \in Threads : u # t => pc'[u] = pc[u]
        BY <1>a, <2>1 DEF TypeOK
      <3>2. pc'[t] = "idle"
        BY <1>a, <2>1 DEF TypeOK
      <3>3. \A u \in Threads : pc[u] = "allocCas" => old[u] # head'
        BY <2>1, <2>3 DEF NoFullTagCycle, Allocating
      <3> QED BY <1>a, <2>1, <2>5, <3>1, <3>2, <3>3 DEF Fresh
    <2>11. Room'
      <3>1. held' \cup InTransit' = U \ {item[t]}
        BY <2>1, <2>6, <2>7
      <3>2. Cardinality(U \ {item[t]}) = Cardinality(U) - 1
        BY <1>b, <2>6, FS_RemoveElement
      <3>3. (Cardinality(U) - 1) + Cardinality(Allocating) <= MaxInUse
        BY <1>b, <1>d
      <3> QED BY <2>5, <3>1, <3>2, <3>3, Zenon DEF Room
    <2> QED BY <1>a, <2>1, <2>4, <2>8, <2>9, <2>10, <2>11 DEF PoolInv
  <1>8. ASSUME NEW t \in Threads, MissPush(t) PROVE PoolInv'
    <2>1. /\ pc[t] = "freeCas" /\ pc' = [pc EXCEPT ![t] = "freeLink"] /\ old' = [old EXCEPT ![t] = head]
          /\ UNCHANGED <<nextFree, head, next, item, held, fault>>
      BY <1>8 DEF MissPush, At, Goto
    <2>2. TypeOK'
      BY <1>a, <2>1 DEF TypeOK
    <2>3. Allocating' = Allocating /\ Freeing' = Freeing /\ t \notin Allocating
      BY <1>a, <2>1 DEF TypeOK, Allocating, Freeing
    <2>4. InTransit' = InTransit
      BY <2>1, <2>3 DEF InTransit
    <2>5. ListOK' /\ FreeList' = FreeList
      BY <1>a, <2>1, SameList
    <2>6. Apart'
      BY <1>a, <2>1, <2>3, <2>4, <2>5 DEF Apart
    <2>7. Fresh'
      <3>1. \A u \in Threads : u # t => pc'[u] = pc[u] /\ old'[u] = old[u]
        BY <1>a, <2>1 DEF TypeOK
      <3>2. pc'[t] = "freeLink"
        BY <1>a, <2>1 DEF TypeOK
      <3>3. (\A u \in Allocating : old[u].index \in Slots)'
        BY <1>a, <2>3, <3>1 DEF Fresh, Allocating
      <3> QED BY <1>a, <2>1, <3>1, <3>2, <3>3 DEF Fresh
    <2>8. Room'
      BY <1>a, <2>1, <2>3, <2>4 DEF Room
    <2> QED BY <1>a, <2>1, <2>2, <2>5, <2>6, <2>7, <2>8 DEF PoolInv
  <1>9. ASSUME UNCHANGED vars PROVE PoolInv'
    <2>1. UNCHANGED <<nextFree, head, pc, old, next, item, held, fault>>
      BY <1>9 DEF vars
    <2>2. ListOK' /\ FreeList' = FreeList
      BY <1>a, <2>1, SameList
    <2>3. Allocating' = Allocating /\ Freeing' = Freeing /\ InTransit' = InTransit
      BY <2>1 DEF Allocating, Freeing, InTransit
    <2> QED BY <1>a, <2>1, <2>2, <2>3 DEF PoolInv, TypeOK, Apart, Fresh, Room
  <1> QED BY <1>1, <1>2, <1>3, <1>4, <1>5, <1>6, <1>7, <1>8, <1>9 DEF Next, Step

LEMMA PoolInvariance == MaxInUse <= N => (Spec => []PoolInv)
  <1> SUFFICES ASSUME MaxInUse <= N PROVE Spec => []PoolInv
    OBVIOUS
  <1>1. PoolInv /\ [Next]_vars => PoolInv'
    BY StepPool
  <1> QED BY InitPool, <1>1, PTL DEF Spec

\* What the invariant says of the list.
LEMMA InvIntact == PoolInv => FreeListIntact
  <1> SUFFICES ASSUME PoolInv PROVE FreeListIntact
    OBVIOUS
  <1> USE PoolAssumption
  <1>1. PICK L \in 0..N : Listed(L)
    BY DEF PoolInv, ListOK
  <1>2. Follow[N] = Nil
    BY <1>1 DEF Listed
  <1>3. Cardinality(InTransit) = Cardinality(Freeing)
    <2> DEFINE f == [t \in Freeing |-> item[t]]
    <2>1. f \in Bijection(Freeing, InTransit)
      <3>1. f \in [Freeing -> InTransit]
        BY DEF InTransit
      <3>2. \A t, u \in Freeing : f[t] = f[u] => t = u
        BY DEF PoolInv, Apart
      <3>3. \A i \in InTransit : \E t \in Freeing : f[t] = i
        BY DEF InTransit
      <3> QED BY <3>1, <3>2, <3>3 DEF Bijection, Injection, Surjection, IsInjective
    <2>2. ExistsBijection(Freeing, InTransit)
      BY <2>1 DEF ExistsBijection
    <2>3. IsFiniteSet(Freeing)
      BY Finite DEF Freeing
    <2> QED BY <2>2, <2>3, FS_Bijection
  <1> QED BY <1>2, <1>3 DEF FreeListIntact, PoolInv, Apart

\* Whatever the threads do between the loads and the compare-exchanges of
\* allocate and deallocate, as long as they hold or ask for no more messages
\* than the pool has and none sleeps through a full cycle of the tag, the free
\* list ends and holds exactly the slots nobody has.
THEOREM ListStaysIntact == MaxInUse <= N => (Spec => []FreeListIntact)
  BY PoolInvariance, InvIntact, PTL

\* Within the pool, no call of allocate reads beyond nextFree_.
THEOREM NeverFaults == MaxInUse <= N => (Spec => []NoFault)
  BY PoolInvariance, PTL DEF PoolInv, NoFault
-----------------------------------------------------------------------------
(* The refinement.                                                         *)

\* The slots that MessagePool calls used.
Used == held \cup InTransit

\* A step moves at most one slot into or out of the users' hands.
LEMMA StepUse ==
  ASSUME PoolInv, Next
  PROVE  \/ Used' = Used
         \/ \E i \in Slots \ Used : Used' = Used \cup {i}
         \/ \E i \in Used : Used' = Used \ {i}
  <1>a. TypeOK /\ ~fault /\ ListOK /\ Apart /\ Fresh
    BY DEF PoolInv
  <1>1. ASSUME NEW t \in Threads, PopHead(t)
        PROVE  \E i \in Slots \ Used : Used' = Used \cup {i}
    <2>1. /\ pc[t] = "allocCas" /\ head = old[t] /\ t \in Allocating /\ t \notin Freeing
          /\ pc' = [pc EXCEPT ![t] = "idle"] /\ held' = held \cup {head.index} /\ item' = item
      BY <1>1 DEF PopHead, At, Goto, Allocating, Freeing
    <2>2. head.index \in Slots
      BY <1>a, <2>1 DEF Fresh
    <2>3. Freeing' = Freeing
      BY <1>a, <2>1 DEF TypeOK, Freeing
    <2>4. InTransit' = InTransit
      BY <2>1, <2>3 DEF InTransit
    <2>5. head.index \in FreeList
      <3>1. PICK L \in 0..N : Listed(L)
        BY <1>a DEF ListOK
      <3>2. Follow[0] = head.index /\ 0 \in 0..N
        BY <3>1, PoolAssumption DEF Listed, Solves
      <3> QED BY <2>2, <3>2 DEF FreeList
    <2>6. head.index \in Slots \ Used /\ Used' = Used \cup {head.index}
      BY <1>a, <2>1, <2>4, <2>5 DEF Apart, Used
    <2> QED BY <2>6
  <1>2. ASSUME NEW t \in Threads, PushHead(t)
        PROVE  \E i \in Used : Used' = Used \ {i}
    <2>1. /\ pc[t] = "freeCas" /\ t \in Freeing /\ pc' = [pc EXCEPT ![t] = "idle"]
          /\ UNCHANGED <<item, held>>
      BY <1>2 DEF PushHead, At, Goto, Freeing
    <2>2. Freeing' = Freeing \ {t}
      BY <1>a, <2>1 DEF TypeOK, Freeing
    <2>3. InTransit' = InTransit \ {item[t]} /\ item[t] \in InTransit
      BY <1>a, <2>1, <2>2 DEF InTransit, Apart
    <2>4. item[t] \in Used /\ Used' = Used \ {item[t]}
      BY <1>a, <2>1, <2>3 DEF Apart, Used
    <2> QED BY <2>4
  <1>3. ASSUME NEW t \in Threads, NEW i \in Slots, CallDeallocate(t, i)
        PROVE  Used' = Used
    <2>1. /\ pc[t] = "idle" /\ pc' = [pc EXCEPT ![t] = "freeLink"]
          /\ i \in held /\ held' = held \ {i} /\ item' = [item EXCEPT ![t] = i]
      BY <1>3 DEF CallDeallocate, At, Goto
    <2>2. Freeing' = Freeing \cup {t} /\ t \notin Freeing
      BY <1>a, <2>1 DEF TypeOK, Freeing
    <2>3. item'[t] = i /\ \A u \in Freeing : item'[u] = item[u]
      BY <1>a, <2>1, <2>2 DEF TypeOK, Freeing
    <2>4. InTransit' = InTransit \cup {i}
      BY <2>2, <2>3 DEF InTransit
    <2> QED BY <2>1, <2>4 DEF Used
  <1>4. ASSUME NEW t \in Threads,
               CallAllocate(t) \/ AllocateNext(t) \/ MissPop(t) \/ LinkNext(t) \/ MissPush(t)
        PROVE  Used' = Used
    <2>1. /\ UNCHANGED <<item, held>>
          /\ \/ pc' = pc
             \/ pc[t] \in {"idle", "allocNext", "allocCas"} /\ \E l \in {"idle", "allocNext", "allocCas"} :
                   pc' = [pc EXCEPT ![t] = l]
             \/ pc[t] \in {"freeLink", "freeCas"} /\ \E l \in {"freeLink", "freeCas"} :
                   pc' = [pc EXCEPT ![t] = l]
      BY <1>4 DEF CallAllocate, AllocateNext, MissPop, LinkNext, MissPush, At, Goto
    <2>2. Freeing' = Freeing
      BY <1>a, <2>1 DEF TypeOK, Freeing
    <2> QED BY <2>1, <2>2 DEF Used, InTransit
  <1> QED BY <1>1, <1>2, <1>3, <1>4 DEF Next, Step

\* Within the pool, the compare-exchanges of LockFreeThreadSafePool are
\* exactly the allocations and deallocations of MessagePool: the pool hands
\* every message to one user at a time.
THEOREM RefinesMessagePool == MaxInUse <= N => (Spec => ImplementsMessagePool)
  <1> SUFFICES ASSUME MaxInUse <= N PROVE Spec => ImplementsMessagePool
    OBVIOUS
  <1>1. Init => Pool!Init
    <2> SUFFICES ASSUME Init PROVE Pool!Init
      OBVIOUS
    <2>1. Apart
      BY InitPool DEF PoolInv
    <2>2. InTransit = {} /\ held = {}
      BY DEF Init, InTransit, Freeing
    <2> QED BY <2>1, <2>2 DEF Apart, Pool!Init
  <1>2. PoolInv /\ PoolInv' /\ [Next]_vars => [Pool!Next]_Pool!pvars
    <2> SUFFICES ASSUME PoolInv, PoolInv', [Next]_vars PROVE [Pool!Next]_Pool!pvars
      OBVIOUS
    <2>1. FreeList = Slots \ Used /\ FreeList' = Slots \ Used'
      BY DEF PoolInv, Apart, Used
    <2>2. Used \subseteq Slots
      BY DEF PoolInv, TypeOK, Used, InTransit, Freeing
    <2>3. ASSUME Used' = Used PROVE [Pool!Next]_Pool!pvars
      BY <2>1, <2>3 DEF Pool!pvars, Used
    <2>4. ASSUME NEW i \in Slots \ Used, Used' = Used \cup {i} PROVE Pool!Next
      <3>1. FreeList' = FreeList \ {i} /\ i \in FreeList
        BY <2>1, <2>2, <2>4
      <3>2. Pool!Allocate(i)
        BY <2>4, <3>1 DEF Pool!Allocate, Used
      <3> QED BY <3>2 DEF Pool!Next
    <2>5. ASSUME NEW i \in Used, Used' = Used \ {i} PROVE Pool!Next
      <3>1. FreeList' = FreeList \cup {i} /\ i \in Slots
        BY <2>1, <2>2, <2>5
      <3>2. Pool!Deallocate(i)
        BY <2>5, <3>1 DEF Pool!Deallocate, Used
      <3> QED BY <3>1, <3>2 DEF Pool!Next
    <2>6. CASE UNCHANGED vars
      <3>1. Used' = Used
        BY <2>6 DEF vars, Used, InTransit, Freeing
      <3> QED BY <2>3, <3>1
    <2>7. CASE Next
      BY <2>3, <2>4, <2>5, <2>7, StepUse
    <2> QED BY <2>6, <2>7
  <1>3. Spec => []PoolInv
    BY PoolInvariance
  <1> QED BY <1>1, <1>2, <1>3, PTL DEF Spec, ImplementsMessagePool, Pool!Spec

-----------------------------------------------------------------------------
(* The simple pools: what is free, and where.                              *)

\* The one use that the lock-free ones of them allow.
Sides(a, d) == a # d /\ Allocators = {a} /\ Deallocators = {d}

OneOnEachSide == \E a, d : Sides(a, d)

C == Cardinality(Messages)

AllocatorAt ==
    {Simple!Idle}
    \cup [pc : {"read"}, head : Nat] \cup [pc : {"pop"}, head : Nat, msg : Messages]
    \cup [pc : {"head"}, tail : Nat] \cup [pc : {"take"}, tail : Nat, msg : Messages]

DeallocatorAt ==
    {Simple!Idle}
    \cup [pc : {"write", "push", "check"}, head : Int, msg : Messages]
    \cup [pc : {"give"}, head : Int]

\* The message the deallocator's caller has given up and the pool has not yet.
Limbo(r, sl) == IF r.pc = "idle" THEN {}
                ELSE IF r.pc = "give" THEN {sl[r.head % C]} ELSE {r.msg}

Free == {m \in Messages : lent[m] = 0}

\* c lists the n elements of S.
Lists(c, n, S) ==
    /\ n \in Nat /\ c \in [0..(n - 1) -> S]
    /\ \A i, j \in 0..(n - 1) : c[i] = c[j] => i = j
    /\ \A m \in S : \E i \in 0..(n - 1) : c[i] = m

\* Where the pool keeps the j-th of them, the oldest first.
Place(j) == IF kind = "ring" THEN (tail + j) % C ELSE j

Counted(n) ==
    IF kind = "ring" THEN tail \in 0..(2 * C - 1) /\ top = (tail + n) % (2 * C)
                     ELSE top = n - 1

Kept(d, c, n) ==
    /\ Lists(c, n, Free \ Limbo(thread[d], slots))
    /\ Counted(n)
    /\ \A j \in 0..(n - 1) : slots[Place(j)] = c[j]

SimpleTypes(a, d) ==
    /\ kind \in {"locked", "stack", "ring"}
    /\ slots \in [0..(C - 1) -> Messages]
    /\ lent \in [Messages -> {0, 1}]
    /\ thread \in [{a, d} -> AllocatorAt \cup DeallocatorAt]

StackTaker(r) ==
    /\ r.pc \in {"idle", "read", "pop"}
    /\ r.pc # "idle" => r.head \in 0..top
    /\ r.pc = "pop" => r.msg = slots[r.head]

StackGiver(r) ==
    /\ r.pc \in {"idle", "write", "push"}
    /\ r.pc # "idle" => r.head >= top /\ r.head + 1 < C
    /\ r.pc = "push" => slots[r.head + 1] = r.msg

RingTaker(r) ==
    /\ r.pc \in {"idle", "head", "take"}
    /\ r.pc # "idle" => r.tail = tail
    /\ r.pc = "take" => top # tail /\ r.msg = slots[tail % C]

RingGiver(r) ==
    /\ r.pc \in {"idle", "check", "give"}
    /\ r.pc # "idle" => r.head = top

\* What a thread has read holds for as long as it relies on it.
Taker(r) ==
    /\ r \in AllocatorAt
    /\ kind = "locked" => r = Simple!Idle
    /\ kind = "stack" => StackTaker(r)
    /\ kind = "ring" => RingTaker(r)

Giver(r) ==
    /\ r \in DeallocatorAt
    /\ kind = "locked" => r = Simple!Idle
    /\ kind = "stack" => StackGiver(r)
    /\ kind = "ring" => RingGiver(r)
    /\ Limbo(r, slots) \subseteq Free

SimpleInv(a, d) ==
    /\ SimpleTypes(a, d)
    /\ Taker(thread[a]) /\ Giver(thread[d])
    /\ \E c, n : Kept(d, c, n)

LEMMA SimpleFacts ==
    /\ C \in Nat \ {0} /\ Messages = 0..(C - 1) /\ IsFiniteSet(Messages)
    /\ Simple!capacity_ = C
  <1>1. C \in Nat \ {0} /\ Messages = 0..(C - 1)
    BY SimpleAssumption DEF C
  <1>2. IsFiniteSet(Messages)
    BY <1>1, FS_Interval
  <1>3. Simple!capacity_ = C
    BY DEF Simple!capacity_, Simple!Cardinality, Cardinality, C
  <1> QED BY <1>1, <1>2, <1>3

-----------------------------------------------------------------------------
(* Lists that hold every element of a set once.                            *)

LEMMA ListSize ==
    ASSUME NEW c, NEW n, NEW S, IsFiniteSet(S), Lists(c, n, S)
    PROVE  n = Cardinality(S)
  <1>1. n \in Nat /\ c \in [0..(n - 1) -> S]
    BY DEF Lists
  <1>2. c \in Bijection(0..(n - 1), S)
    <2>1. c \in Injection(0..(n - 1), S)
      BY <1>1 DEF Lists, Injection, IsInjective
    <2>2. c \in Surjection(0..(n - 1), S)
      BY <1>1 DEF Lists, Surjection
    <2> QED BY <2>1, <2>2 DEF Bijection
  <1>3. Cardinality(0..(n - 1)) = n /\ IsFiniteSet(0..(n - 1))
    BY <1>1, FS_Interval
  <1>4. \E f : f \in Bijection(0..(n - 1), S)
    BY <1>2
  <1> QED BY <1>3, <1>4, FS_Bijection, Zenon DEF ExistsBijection

\* A list of some of the messages, not of all, is shorter than the capacity.
LEMMA ListRoom ==
    ASSUME NEW c, NEW n, NEW S \in SUBSET Messages, NEW m \in Messages \ S, Lists(c, n, S)
    PROVE  n \in Nat /\ n < C
  <1>1. IsFiniteSet(Messages) /\ IsFiniteSet(S)
    BY SimpleFacts, FS_Subset
  <1>2. Cardinality(S) < Cardinality(Messages)
    <2>1. S \subseteq Messages \ {m} /\ IsFiniteSet(Messages \ {m})
      BY <1>1, FS_RemoveElement
    <2>2. Cardinality(S) <= Cardinality(Messages \ {m})
      BY <2>1, FS_Subset
    <2>3. Cardinality(Messages \ {m}) = Cardinality(Messages) - 1
      BY <1>1, FS_RemoveElement
    <2> QED BY <1>1, <2>1, <2>2, <2>3, FS_CardinalityType
  <1>3. n = Cardinality(S)
    BY <1>1, ListSize
  <1>4. n \in Nat
    BY DEF Lists
  <1> QED BY <1>2, <1>3, <1>4 DEF C

LEMMA ListBound ==
    ASSUME NEW c, NEW n, NEW S \in SUBSET Messages, Lists(c, n, S)
    PROVE  n \in Nat /\ n <= C
  <1>1. IsFiniteSet(Messages) /\ IsFiniteSet(S) /\ Cardinality(S) <= Cardinality(Messages)
    BY SimpleFacts, FS_Subset
  <1>3. n = Cardinality(S)
    BY <1>1, ListSize
  <1>4. n \in Nat
    BY DEF Lists
  <1> QED BY <1>1, <1>3, <1>4 DEF C

LEMMA ListWithoutLast ==
    ASSUME NEW c, NEW n, NEW S, Lists(c, n, S), n > 0
    PROVE  Lists([i \in 0..((n - 1) - 1) |-> c[i]], n - 1, S \ {c[n - 1]})
  <1> DEFINE b == [i \in 0..((n - 1) - 1) |-> c[i]]
  <1>1. n \in Nat /\ c \in [0..(n - 1) -> S] /\ n - 1 \in Nat /\ n - 1 \in 0..(n - 1)
    BY DEF Lists
  <1>2. \A i \in 0..((n - 1) - 1) : i \in 0..(n - 1) /\ i # n - 1 /\ b[i] = c[i]
    BY <1>1
  <1>3. b \in [0..((n - 1) - 1) -> S \ {c[n - 1]}]
    BY <1>1, <1>2 DEF Lists
  <1> HIDE DEF b
  <1>4. \A i, j \in 0..((n - 1) - 1) : b[i] = b[j] => i = j
    BY <1>2 DEF Lists
  <1>5. \A m \in S \ {c[n - 1]} : \E i \in 0..((n - 1) - 1) : b[i] = m
    <2> SUFFICES ASSUME NEW m \in S \ {c[n - 1]} PROVE \E i \in 0..((n - 1) - 1) : b[i] = m
      OBVIOUS
    <2>1. PICK i \in 0..(n - 1) : c[i] = m
      BY DEF Lists
    <2>2. i \in 0..((n - 1) - 1)
      BY <1>1, <2>1
    <2> QED BY <1>2, <2>1, <2>2
  <1>6. Lists(b, n - 1, S \ {c[n - 1]})
    BY <1>1, <1>3, <1>4, <1>5 DEF Lists
  <1> QED BY <1>6 DEF b

LEMMA ListWithoutFirst ==
    ASSUME NEW c, NEW n, NEW S, Lists(c, n, S), n > 0
    PROVE  Lists([i \in 0..((n - 1) - 1) |-> c[i + 1]], n - 1, S \ {c[0]})
  <1> DEFINE b == [i \in 0..((n - 1) - 1) |-> c[i + 1]]
  <1>1. n \in Nat /\ c \in [0..(n - 1) -> S] /\ n - 1 \in Nat /\ 0 \in 0..(n - 1)
    BY DEF Lists
  <1>2. \A i \in 0..((n - 1) - 1) : i + 1 \in 0..(n - 1) /\ i + 1 # 0 /\ b[i] = c[i + 1]
    BY <1>1
  <1>3. b \in [0..((n - 1) - 1) -> S \ {c[0]}]
    BY <1>1, <1>2 DEF Lists
  <1> HIDE DEF b
  <1>4. \A i, j \in 0..((n - 1) - 1) : b[i] = b[j] => i = j
    <2> SUFFICES ASSUME NEW i \in 0..((n - 1) - 1), NEW j \in 0..((n - 1) - 1), b[i] = b[j]
                 PROVE  i = j
      OBVIOUS
    <2>1. i + 1 = j + 1
      BY <1>2 DEF Lists
    <2> QED BY <1>1, <2>1
  <1>5. \A m \in S \ {c[0]} : \E i \in 0..((n - 1) - 1) : b[i] = m
    <2> SUFFICES ASSUME NEW m \in S \ {c[0]} PROVE \E i \in 0..((n - 1) - 1) : b[i] = m
      OBVIOUS
    <2>1. PICK i \in 0..(n - 1) : c[i] = m
      BY DEF Lists
    <2>2. i - 1 \in 0..((n - 1) - 1) /\ (i - 1) + 1 = i
      BY <1>1, <2>1
    <2> QED BY <1>2, <2>1, <2>2
  <1>6. Lists(b, n - 1, S \ {c[0]})
    BY <1>1, <1>3, <1>4, <1>5 DEF Lists
  <1> QED BY <1>6 DEF b

LEMMA ListWithOneMore ==
    ASSUME NEW c, NEW n, NEW S, Lists(c, n, S), NEW m, m \notin S
    PROVE  Lists([i \in 0..((n + 1) - 1) |-> IF i = n THEN m ELSE c[i]], n + 1, S \cup {m})
  <1> DEFINE b == [i \in 0..((n + 1) - 1) |-> IF i = n THEN m ELSE c[i]]
  <1>1. n \in Nat /\ c \in [0..(n - 1) -> S] /\ n + 1 \in Nat /\ n \in 0..((n + 1) - 1)
    BY DEF Lists
  <1>2. b[n] = m /\ \A i \in 0..((n + 1) - 1) : i # n => i \in 0..(n - 1) /\ b[i] = c[i]
    BY <1>1
  <1>3. b \in [0..((n + 1) - 1) -> S \cup {m}]
    BY <1>1, <1>2
  <1> HIDE DEF b
  <1>4. \A i, j \in 0..((n + 1) - 1) : b[i] = b[j] => i = j
    BY <1>1, <1>2 DEF Lists
  <1>5. \A x \in S \cup {m} : \E i \in 0..((n + 1) - 1) : b[i] = x
    <2> SUFFICES ASSUME NEW x \in S, x # m PROVE \E i \in 0..((n + 1) - 1) : b[i] = x
      BY <1>1, <1>2
    <2>1. PICK i \in 0..(n - 1) : c[i] = x
      BY DEF Lists
    <2>2. i \in 0..((n + 1) - 1) /\ i # n
      BY <1>1, <2>1
    <2> QED BY <1>2, <2>1, <2>2
  <1>6. Lists(b, n + 1, S \cup {m})
    BY <1>1, <1>3, <1>4, <1>5 DEF Lists
  <1> QED BY <1>6 DEF b

-----------------------------------------------------------------------------
(* The steps.                                                              *)

\* One of the two threads moves.
LEMMA OneMoves ==
    ASSUME NEW a, NEW d, SimpleTypes(a, d), NEW t \in {a, d}, NEW r,
           thread' = [thread EXCEPT ![t] = r]
    PROVE  /\ thread'[t] = r
           /\ \A u \in {a, d} : u # t => thread'[u] = thread[u]
           /\ r \in AllocatorAt \cup DeallocatorAt =>
                thread' \in [{a, d} -> AllocatorAt \cup DeallocatorAt]
  BY DEF SimpleTypes

LEMMA HandedOut ==
    ASSUME NEW a, NEW d, SimpleTypes(a, d), NEW m \in Free, lent' = [lent EXCEPT ![m] = @ + 1]
    PROVE  lent' \in [Messages -> {0, 1}] /\ Free' = Free \ {m}
  BY DEF SimpleTypes, Free

LEMMA GivenUp ==
    ASSUME NEW a, NEW d, SimpleTypes(a, d), NEW m \in Messages, Simple!GiveBack(m)
    PROVE  lent' \in [Messages -> {0, 1}] /\ m \notin Free /\ Free' = Free \cup {m}
  BY DEF SimpleTypes, Free, Simple!GiveBack

\* A step of the allocator that changes nothing the pool is made of.
LEMMA TakerLooks ==
    ASSUME NEW a, NEW d, Sides(a, d), SimpleInv(a, d), NEW r, Taker(r),
           thread' = [thread EXCEPT ![a] = r], UNCHANGED <<kind, slots, top, tail, lent>>
    PROVE  SimpleInv(a, d)'
  <1>1. thread'[a] = r /\ thread'[d] = thread[d] /\ SimpleTypes(a, d)'
    <2>1. SimpleTypes(a, d) /\ a # d /\ r \in AllocatorAt
      BY DEF SimpleInv, Sides, Taker
    <2>2. thread'[a] = r /\ thread'[d] = thread[d] /\ thread' \in [{a, d} -> AllocatorAt \cup DeallocatorAt]
      BY <2>1, OneMoves
    <2> QED BY <2>1, <2>2 DEF SimpleTypes
  <1>2. Taker(thread[a])'
    <2>1. Taker(r)'
      BY DEF Taker, StackTaker, RingTaker
    <2> QED BY <1>1, <2>1 DEF Taker, StackTaker, RingTaker
  <1>3. Giver(thread[d])'
    BY <1>1 DEF SimpleInv, Giver, StackGiver, RingGiver, Limbo, Free
  <1>4. \E c, n : Kept(d, c, n)'
    <2>1. PICK c, n : Kept(d, c, n)
      BY DEF SimpleInv
    <2>2. Limbo(thread[d], slots)' = Limbo(thread[d], slots) /\ Free' = Free
      BY <1>1 DEF Limbo, Free
    <2>3. Kept(d, c, n)'
      BY <2>1, <2>2 DEF Kept, Counted, Place
    <2> QED BY <2>3
  <1> QED BY <1>1, <1>2, <1>3, <1>4 DEF SimpleInv

LEMMA StackLoadStep ==
    ASSUME NEW a, NEW d, Sides(a, d), SimpleInv(a, d), Simple!StackLoad(a)
    PROVE  SimpleInv(a, d)'
  <1> DEFINE r == [pc |-> "read", head |-> top]
  <1>1. PICK c, n : Kept(d, c, n)
    BY DEF SimpleInv
  <1>2. kind = "stack" /\ top >= 0 /\ top = n - 1 /\ n \in Nat
    BY <1>1 DEF Simple!StackLoad, Kept, Counted, Lists
  <1>3. Taker(r)
    BY <1>2 DEF Taker, StackTaker, AllocatorAt
  <1> QED BY <1>3, TakerLooks DEF Simple!StackLoad, Simple!Go

LEMMA StackReadStep ==
    ASSUME NEW a, NEW d, Sides(a, d), SimpleInv(a, d), Simple!StackRead(a)
    PROVE  SimpleInv(a, d)'
  <1> DEFINE r == [pc |-> "pop", head |-> thread[a].head, msg |-> slots[thread[a].head]]
  <1>1. PICK c, n : Kept(d, c, n)
    BY DEF SimpleInv
  <1>2. n <= C /\ C \in Nat /\ n \in Nat
    <2>1. Lists(c, n, Free \ Limbo(thread[d], slots)) /\ Free \ Limbo(thread[d], slots) \subseteq Messages
      BY <1>1 DEF Kept, Free
    <2> QED BY <2>1, ListBound, SimpleFacts
  <1>3. kind = "stack" /\ top = n - 1 /\ thread[a].head \in 0..top
    BY <1>1 DEF Simple!StackRead, Kept, Counted, SimpleInv, Taker, StackTaker
  <1>4. slots[thread[a].head] \in Messages /\ thread[a].head \in Nat
    BY <1>2, <1>3 DEF SimpleInv, SimpleTypes
  <1>5. Taker(r)
    BY <1>3, <1>4 DEF Taker, StackTaker, AllocatorAt
  <1> QED BY <1>5, TakerLooks DEF Simple!StackRead, Simple!Go

LEMMA RingTailStep ==
    ASSUME NEW a, NEW d, Sides(a, d), SimpleInv(a, d), Simple!RingTail(a)
    PROVE  SimpleInv(a, d)'
  <1> DEFINE r == [pc |-> "head", tail |-> tail]
  <1>1. PICK c, n : Kept(d, c, n)
    BY DEF SimpleInv
  <1>2. kind = "ring" /\ tail \in Nat
    BY <1>1, SimpleFacts DEF Simple!RingTail, Kept, Counted
  <1>3. Taker(r)
    BY <1>2 DEF Taker, RingTaker, AllocatorAt
  <1> QED BY <1>3, TakerLooks DEF Simple!RingTail, Simple!Go

LEMMA RingHeadStep ==
    ASSUME NEW a, NEW d, Sides(a, d), SimpleInv(a, d), Simple!RingHead(a)
    PROVE  SimpleInv(a, d)'
  <1>1. PICK c, n : Kept(d, c, n)
    BY DEF SimpleInv
  <1>2. kind = "ring" /\ tail \in Nat /\ C \in Nat \ {0}
    BY <1>1, SimpleFacts DEF Simple!RingHead, Kept, Counted
  <1>3. thread[a].tail = tail /\ tail % C \in 0..(C - 1)
    <2>1. thread[a].tail = tail
      BY <1>2 DEF SimpleInv, Taker, RingTaker, Simple!RingHead
    <2>2. tail % C \in 0..(C - 1)
      BY <1>2, DivMod
    <2> QED BY <2>1, <2>2
  <1>4. slots[tail % C] \in Messages
    BY <1>3 DEF SimpleInv, SimpleTypes
  <1>5. CASE tail = top
    <2>1. Taker(Simple!Idle)
      BY <1>2 DEF Taker, RingTaker, AllocatorAt, Simple!Idle
    <2> QED BY <1>3, <1>5, <2>1, TakerLooks DEF Simple!RingHead, Simple!Go
  <1>6. CASE tail # top
    <2> DEFINE r == [pc |-> "take", tail |-> tail, msg |-> slots[tail % C]]
    <2>1. Taker(r)
      BY <1>2, <1>4, <1>6 DEF Taker, RingTaker, AllocatorAt
    <2>2. thread' = [thread EXCEPT ![a] = r] /\ UNCHANGED <<kind, slots, top, tail, lent>>
      BY <1>3, <1>6, SimpleFacts DEF Simple!RingHead, Simple!Go
    <2> QED BY <2>1, <2>2, TakerLooks
  <1> QED BY <1>5, <1>6

\* A message leaves the top of a stack, whether behind the mutex or not.
LEMMA TopTaken ==
    ASSUME NEW a, NEW d, Sides(a, d), SimpleInv(a, d), kind # "ring", top >= 0,
           thread' = [thread EXCEPT ![a] = Simple!Idle],
           lent' = [lent EXCEPT ![slots[top]] = @ + 1],
           top' = top - 1, UNCHANGED <<kind, slots, tail>>
    PROVE  SimpleInv(a, d)'
  <1> DEFINE r == Simple!Idle
  <1>1. PICK c, n : Kept(d, c, n)
    BY DEF SimpleInv
  <1>2. n \in Nat /\ n > 0 /\ top = n - 1 /\ n - 1 \in 0..(n - 1)
    BY <1>1 DEF Kept, Counted, Lists
  <1>3. slots[top] = c[n - 1] /\ c[n - 1] \in Free \ Limbo(thread[d], slots)
    BY <1>1, <1>2 DEF Kept, Place, Lists
  <1>4. thread'[a] = r /\ thread'[d] = thread[d] /\ SimpleTypes(a, d)' /\ Free' = Free \ {c[n - 1]}
    <2>1. SimpleTypes(a, d) /\ a # d /\ r \in AllocatorAt
      BY DEF SimpleInv, Sides, AllocatorAt
    <2>2. thread'[a] = r /\ thread'[d] = thread[d] /\ thread' \in [{a, d} -> AllocatorAt \cup DeallocatorAt]
      BY <2>1, OneMoves
    <2>3. lent' \in [Messages -> {0, 1}] /\ Free' = Free \ {c[n - 1]}
      BY <2>1, <1>3, HandedOut
    <2> QED BY <2>1, <2>2, <2>3 DEF SimpleTypes
  <1>5. Taker(thread[a])'
    BY <1>4 DEF SimpleInv, SimpleTypes, Taker, StackTaker, AllocatorAt, Simple!Idle
  <1>6. Giver(thread[d])'
    <2>1. Limbo(thread[d], slots)' = Limbo(thread[d], slots)
      BY <1>4 DEF Limbo
    <2>2. Limbo(thread[d], slots)' \subseteq Free'
      BY <1>3, <1>4, <2>1 DEF SimpleInv, Giver
    <2>3. kind = "stack" => StackGiver(thread[d])'
      <3>1. \A h \in Int : h >= top => h >= top - 1
        BY <1>2
      <3>2. (StackGiver(thread[d]) /\ thread[d] \in DeallocatorAt) \/ kind # "stack"
        BY DEF SimpleInv, Giver
      <3>3. thread[d].pc \in {"write", "push"} => thread[d].head \in Int
        BY DEF SimpleInv, Giver, DeallocatorAt, Simple!Idle
      <3> QED BY <1>4, <3>1, <3>2, <3>3 DEF StackGiver
    <2>4. Giver(thread[d])
      BY DEF SimpleInv
    <2> QED BY <1>4, <2>2, <2>3, <2>4 DEF Giver
  <1>7. \E b, k : Kept(d, b, k)'
    <2> DEFINE b == [i \in 0..((n - 1) - 1) |-> c[i]]
    <2>1. Lists(b, n - 1, (Free \ Limbo(thread[d], slots)) \ {c[n - 1]})
      BY <1>1, <1>2, ListWithoutLast DEF Kept
    <2>2. (Free \ Limbo(thread[d], slots))' = (Free \ Limbo(thread[d], slots)) \ {c[n - 1]}
      BY <1>4 DEF Limbo
    <2>3. \A j \in 0..((n - 1) - 1) : slots'[Place(j)'] = b[j]
      <3>1. \A j \in 0..((n - 1) - 1) : j \in 0..(n - 1) /\ b[j] = c[j]
        BY <1>2
      <3> QED BY <1>1, <3>1 DEF Kept, Place
    <2>4. Counted(n - 1)'
      BY <1>2 DEF Counted
    <2> HIDE DEF b
    <2>5. Kept(d, b, n - 1)'
      BY <2>1, <2>2, <2>3, <2>4 DEF Kept
    <2> QED BY <2>5
  <1> QED BY <1>4, <1>5, <1>6, <1>7 DEF SimpleInv

LEMMA StackPopStep ==
    ASSUME NEW a, NEW d, Sides(a, d), SimpleInv(a, d), Simple!StackPop(a)
    PROVE  SimpleInv(a, d)'
  <1>1. kind = "stack" /\ thread[a].pc = "pop" /\ thread[a].head \in 0..top
        /\ thread[a].msg = slots[thread[a].head]
    BY DEF Simple!StackPop, SimpleInv, Taker, StackTaker
  <1>2. top \in Int
    <2>1. PICK c, n : Kept(d, c, n)
      BY DEF SimpleInv
    <2> QED BY <1>1, <2>1 DEF Kept, Counted, Lists
  <1>3. CASE top = thread[a].head /\ top' = top - 1 /\ Simple!HandOut(a, thread[a].msg)
    <2>1. top >= 0 /\ slots[top] = thread[a].msg
      BY <1>1, <1>2, <1>3
    <2>2. /\ thread' = [thread EXCEPT ![a] = Simple!Idle]
          /\ lent' = [lent EXCEPT ![slots[top]] = @ + 1]
          /\ top' = top - 1 /\ UNCHANGED <<kind, slots, tail>>
      BY <1>3, <2>1 DEF Simple!StackPop, Simple!HandOut, Simple!Go
    <2> QED BY <1>1, <2>1, <2>2, TopTaken
  <1>4. CASE /\ Simple!Go(a, IF top < 0 THEN Simple!Idle ELSE [pc |-> "read", head |-> top])
             /\ UNCHANGED <<top, lent>>
    <2> DEFINE r == IF top < 0 THEN Simple!Idle ELSE [pc |-> "read", head |-> top]
    <2>1. Taker(Simple!Idle) /\ (top >= 0 => Taker([pc |-> "read", head |-> top]))
      BY <1>1, <1>2 DEF Taker, StackTaker, AllocatorAt, Simple!Idle
    <2>2. Taker(r)
      BY <1>2, <2>1
    <2>3. thread' = [thread EXCEPT ![a] = r] /\ UNCHANGED <<kind, slots, top, tail, lent>>
      BY <1>4 DEF Simple!StackPop, Simple!Go
    <2> QED BY <2>2, <2>3, TakerLooks
  <1> QED BY <1>3, <1>4 DEF Simple!StackPop

LEMMA LockedAllocateStep ==
    ASSUME NEW a, NEW d, Sides(a, d), SimpleInv(a, d), Simple!LockedAllocate(a)
    PROVE  SimpleInv(a, d)'
  <1>1. /\ kind # "ring" /\ top >= 0
        /\ thread' = [thread EXCEPT ![a] = Simple!Idle]
        /\ lent' = [lent EXCEPT ![slots[top]] = @ + 1]
        /\ top' = top - 1 /\ UNCHANGED <<kind, slots, tail>>
    BY DEF Simple!LockedAllocate, Simple!HandOut, Simple!Go
  <1> QED BY <1>1, TopTaken

\* A position of the ring, with the index before it reduced to two laps.
LEMMA LapSum ==
    ASSUME NEW b \in Int, NEW j \in Int
    PROVE  ((b % (2 * C)) + j) % C = (b + j) % C
  <1>1. PICK K \in Nat \ {0} : K = C
    BY SimpleFacts
  <1>2. 2 * K \in Nat \ {0} /\ b % (2 * K) \in Int /\ b % K \in Int
    BY DivMod
  <1>3. ((b % (2 * K)) + j) % K = (((b % (2 * K)) % K) + j) % K
    BY <1>2, RemainderFirst
  <1>4. (b % (2 * K)) % K = b % K
    BY TwoLaps
  <1>5. ((b % K) + j) % K = (b + j) % K
    BY RemainderFirst
  <1> QED BY <1>1, <1>3, <1>4, <1>5

\* The messages of a ring: where they are, and that another one has room.
LEMMA RingPlaces ==
    ASSUME NEW d, NEW c, NEW n, Kept(d, c, n), kind = "ring",
           slots \in [0..(C - 1) -> Messages]
    PROVE  /\ n \in 0..C /\ tail \in 0..(2 * C - 1) /\ top = (tail + n) % (2 * C)
           /\ top \in 0..(2 * C - 1)
           /\ top % C = (tail + n) % C
           /\ tail % C = (tail + 0) % C
           /\ top # tail <=> n > 0
           /\ \A j \in 0..(n - 1) : slots[(tail + j) % C] = c[j]
           /\ \A j \in Int : (tail + j) % C \in 0..(C - 1)
  <1>1. Lists(c, n, Free \ Limbo(thread[d], slots)) /\ Free \ Limbo(thread[d], slots) \subseteq Messages
    BY DEF Kept, Free
  <1>2. n \in Nat /\ n <= C
    BY <1>1, ListBound
  <1>3. PICK K \in Nat \ {0} : K = C
    BY SimpleFacts
  <1>4. tail \in 0..(2 * K - 1) /\ top = (tail + n) % (2 * K) /\ n \in 0..K
    BY <1>2, <1>3 DEF Kept, Counted
  <1>5. 2 * K \in Nat \ {0} /\ tail + n \in Int /\ tail \in Int /\ tail + 0 = tail
    BY <1>4
  <1>6. top \in 0..(2 * K - 1)
    BY <1>4, <1>5, DivMod
  <1>7. top % K = (tail + n) % K
    BY <1>4, <1>5, TwoLaps
  <1>8. tail % (2 * K) = tail
    BY <1>4, <1>5, SmallRemainder
  <1>9. top # tail <=> n > 0
    <2>1. n = 0 => top = tail
      BY <1>4, <1>5, <1>8
    <2>2. n > 0 => top # tail
      <3>1. SUFFICES ASSUME n > 0 PROVE top # tail
        OBVIOUS
      <3>2. tail < tail + n /\ tail + n < tail + 2 * K
        BY <1>4, <3>1
      <3>3. tail % (2 * K) # (tail + n) % (2 * K)
        BY <1>5, <3>2, SlotsDiffer
      <3> QED BY <1>4, <1>8, <3>3
    <2> QED BY <1>2, <2>1, <2>2
  <1>10. \A j \in Int : (tail + j) % K \in 0..(K - 1)
    <2> SUFFICES ASSUME NEW j \in Int PROVE (tail + j) % K \in 0..(K - 1)
      OBVIOUS
    <2>1. tail + j \in Int
      BY <1>5
    <2> QED BY <2>1, DivMod
  <1>11. \A j \in 0..(n - 1) : slots[(tail + j) % C] = c[j]
    BY DEF Kept, Place
  <1> QED BY <1>3, <1>4, <1>5, <1>6, <1>7, <1>9, <1>10, <1>11

LEMMA RingTakeStep ==
    ASSUME NEW a, NEW d, Sides(a, d), SimpleInv(a, d), Simple!RingTake(a)
    PROVE  SimpleInv(a, d)'
  <1> DEFINE r == Simple!Idle
  <1>1. PICK c, n : Kept(d, c, n)
    BY DEF SimpleInv
  <1>2. kind = "ring" /\ slots \in [0..(C - 1) -> Messages] /\ C \in Nat \ {0}
    BY SimpleFacts DEF Simple!RingTake, SimpleInv, SimpleTypes
  <1>3. thread[a].tail = tail /\ top # tail /\ thread[a].msg = slots[tail % C]
    BY <1>2 DEF Simple!RingTake, SimpleInv, Taker, RingTaker
  <1>4. n \in 0..C /\ n > 0 /\ tail \in 0..(2 * C - 1) /\ top = (tail + n) % (2 * C)
        /\ tail % C = (tail + 0) % C
        /\ \A j \in 0..(n - 1) : slots[(tail + j) % C] = c[j]
    BY <1>1, <1>2, <1>3, RingPlaces
  <1>5. 0 \in 0..(n - 1) /\ n - 1 \in Nat
    BY <1>2, <1>4
  <1>6. thread[a].msg = c[0] /\ c[0] \in Free \ Limbo(thread[d], slots)
    <2>1. thread[a].msg = c[0]
      BY <1>3, <1>4, <1>5
    <2> QED BY <1>1, <1>5, <2>1 DEF Kept, Lists
  <1>7. /\ thread' = [thread EXCEPT ![a] = r]
        /\ lent' = [lent EXCEPT ![c[0]] = @ + 1]
        /\ tail' = (tail + 1) % (2 * C)
        /\ UNCHANGED <<kind, slots, top>>
    BY <1>3, <1>6, SimpleFacts DEF Simple!RingTake, Simple!HandOut, Simple!Go
  <1>8. thread'[a] = r /\ thread'[d] = thread[d] /\ SimpleTypes(a, d)' /\ Free' = Free \ {c[0]}
    <2>1. SimpleTypes(a, d) /\ a # d /\ r \in AllocatorAt
      BY DEF SimpleInv, Sides, AllocatorAt
    <2>2. thread'[a] = r /\ thread'[d] = thread[d] /\ thread' \in [{a, d} -> AllocatorAt \cup DeallocatorAt]
      BY <1>7, <2>1, OneMoves
    <2>3. lent' \in [Messages -> {0, 1}] /\ Free' = Free \ {c[0]}
      BY <2>1, <1>6, <1>7, HandedOut
    <2> QED BY <1>7, <2>1, <2>2, <2>3 DEF SimpleTypes
  <1>9. Taker(thread[a])'
    BY <1>2, <1>7, <1>8 DEF Taker, RingTaker, AllocatorAt, Simple!Idle
  <1>10. Limbo(thread[d], slots)' = Limbo(thread[d], slots)
    BY <1>7, <1>8 DEF Limbo
  <1>11. Giver(thread[d])'
    <2>1. Limbo(thread[d], slots)' \subseteq Free'
      BY <1>6, <1>8, <1>10 DEF SimpleInv, Giver
    <2> QED BY <1>2, <1>7, <1>8, <2>1 DEF SimpleInv, Giver, RingGiver
  <1>12. \E b, k : Kept(d, b, k)'
    <2> DEFINE b == [i \in 0..((n - 1) - 1) |-> c[i + 1]]
    <2>1. Lists(b, n - 1, (Free \ Limbo(thread[d], slots)) \ {c[0]})
      BY <1>1, <1>4, ListWithoutFirst DEF Kept
    <2>2. (Free \ Limbo(thread[d], slots))' = (Free \ Limbo(thread[d], slots)) \ {c[0]}
      BY <1>8, <1>10
    <2>3. \A j \in 0..((n - 1) - 1) : slots'[Place(j)'] = b[j]
      <3> SUFFICES ASSUME NEW j \in 0..((n - 1) - 1) PROVE slots'[Place(j)'] = b[j]
        OBVIOUS
      <3>1. j + 1 \in 0..(n - 1) /\ b[j] = c[j + 1] /\ j \in Int /\ tail + 1 \in Int
            /\ (tail + 1) + j = tail + (j + 1)
        BY <1>2, <1>4
      <3>2. (((tail + 1) % (2 * C)) + j) % C = ((tail + 1) + j) % C
        BY <3>1, LapSum
      <3>3. slots[(tail + (j + 1)) % C] = c[j + 1]
        BY <1>4, <3>1
      <3>4. Place(j)' = (tail' + j) % C
        BY <1>2, <1>7 DEF Place
      <3> HIDE DEF b
      <3> QED BY <1>7, <3>1, <3>2, <3>3, <3>4
    <2>4. Counted(n - 1)'
      <3>1. PICK K \in Nat \ {0} : K = 2 * C
        BY <1>2
      <3>2. tail + 1 \in Int /\ n - 1 \in Int /\ (tail + 1) + (n - 1) = tail + n
        BY <1>2, <1>4
      <3>3. (((tail + 1) % K) + (n - 1)) % K = ((tail + 1) + (n - 1)) % K
        BY <3>2, RemainderFirst
      <3>4. (tail + 1) % K \in 0..(K - 1)
        BY <3>2, DivMod
      <3> QED BY <1>2, <1>4, <1>7, <3>1, <3>2, <3>3, <3>4 DEF Counted
    <2> HIDE DEF b
    <2>5. Kept(d, b, n - 1)'
      BY <2>1, <2>2, <2>3, <2>4 DEF Kept
    <2> QED BY <2>5
  <1> QED BY <1>8, <1>9, <1>11, <1>12 DEF SimpleInv

\* A message that the caller of the giver, or the giver, holds leaves room.
LEMMA RoomFor ==
    ASSUME NEW d, NEW c, NEW n, NEW m \in Messages, Kept(d, c, n),
           m \notin Free \ Limbo(thread[d], slots)
    PROVE  n \in Nat /\ n < C
  <1>1. Lists(c, n, Free \ Limbo(thread[d], slots)) /\ Free \ Limbo(thread[d], slots) \subseteq Messages
    BY DEF Kept, Free
  <1> QED BY <1>1, ListRoom

\* A step of the deallocator that does not add to the list.
LEMMA GiverMoves ==
    ASSUME NEW a, NEW d, Sides(a, d), SimpleInv(a, d), NEW r, NEW c, NEW n,
           thread' = [thread EXCEPT ![d] = r], UNCHANGED <<kind, top, tail>>,
           slots' \in [0..(C - 1) -> Messages], lent' \in [Messages -> {0, 1}],
           Giver(r)', Kept(d, c, n),
           Free' \ Limbo(r, slots)' = Free \ Limbo(thread[d], slots),
           \A j \in 0..(n - 1) : slots'[Place(j)] = slots[Place(j)],
           Taker(thread[a]) => /\ thread[a].pc = "pop" => slots'[thread[a].head] = slots[thread[a].head]
                               /\ thread[a].pc = "take" => slots'[tail % C] = slots[tail % C]
    PROVE  SimpleInv(a, d)'
  <1>1. thread'[d] = r /\ thread'[a] = thread[a] /\ SimpleTypes(a, d)'
    <2>1. SimpleTypes(a, d) /\ a # d /\ r \in DeallocatorAt
      BY DEF SimpleInv, Sides, Giver
    <2>2. thread'[d] = r /\ thread'[a] = thread[a] /\ thread' \in [{a, d} -> AllocatorAt \cup DeallocatorAt]
      BY <2>1, OneMoves
    <2> QED BY <2>1, <2>2 DEF SimpleTypes
  <1>2. Taker(thread[a])'
    <2>1. Taker(thread[a])
      BY DEF SimpleInv
    <2>2. kind = "stack" => StackTaker(thread[a])'
      BY <1>1, <2>1 DEF Taker, StackTaker
    <2>3. kind = "ring" => RingTaker(thread[a])'
      BY <1>1, <2>1 DEF Taker, RingTaker
    <2> QED BY <1>1, <2>1, <2>2, <2>3 DEF Taker
  <1>3. Giver(thread[d])'
    <2>1. Giver(r)' <=> Giver(thread[d])'
      BY <1>1 DEF Giver, StackGiver, RingGiver, Limbo
    <2> QED BY <2>1
  <1>4. Kept(d, c, n)'
    <2>1. (Free \ Limbo(thread[d], slots))' = Free \ Limbo(thread[d], slots)
      BY <1>1 DEF Limbo
    <2>2. \A j \in 0..(n - 1) : Place(j)' = Place(j)
      BY DEF Place
    <2> QED BY <2>1, <2>2 DEF Kept, Counted
  <1> QED BY <1>1, <1>2, <1>3, <1>4 DEF SimpleInv

LEMMA StackCallStep ==
    ASSUME NEW a, NEW d, Sides(a, d), SimpleInv(a, d), NEW m \in Messages, Simple!StackCall(d, m)
    PROVE  SimpleInv(a, d)'
  <1>0. PICK h : h = top
    OBVIOUS
  <1> DEFINE r == [pc |-> "write", head |-> h, msg |-> m]
  <1>1. PICK c, n : Kept(d, c, n)
    BY DEF SimpleInv
  <1>2. lent' \in [Messages -> {0, 1}] /\ m \notin Free /\ Free' = Free \cup {m}
    BY GivenUp DEF Simple!StackCall, SimpleInv
  <1>3. Limbo(thread[d], slots) = {} /\ Limbo(r, slots)' = {m}
    BY DEF Limbo, Simple!StackCall, Simple!Idle
  <1>4. n \in Nat /\ n < C /\ C \in Nat
    BY <1>1, <1>2, RoomFor, SimpleFacts
  <1>5. top = n - 1 /\ kind = "stack"
    BY <1>1 DEF Simple!StackCall, Kept, Counted
  <1>6. Giver(r)'
    <2>1. r \in DeallocatorAt
      BY <1>0, <1>4, <1>5 DEF DeallocatorAt
    <2>2. StackGiver(r)'
      BY <1>0, <1>4, <1>5 DEF StackGiver, Simple!StackCall
    <2> QED BY <1>2, <1>3, <1>5, <2>1, <2>2 DEF Giver, Simple!StackCall
  <1>7. slots' = slots /\ thread' = [thread EXCEPT ![d] = r] /\ UNCHANGED <<kind, top, tail>>
    BY <1>0 DEF Simple!StackCall, Simple!Go
  <1>8. slots' \in [0..(C - 1) -> Messages]
    BY <1>7 DEF SimpleInv, SimpleTypes
  <1>9. Free' \ Limbo(r, slots)' = Free \ Limbo(thread[d], slots)
    BY <1>2, <1>3
  <1>10. /\ \A j \in 0..(n - 1) : slots'[Place(j)] = slots[Place(j)]
        /\ Taker(thread[a]) =>
             /\ thread[a].pc = "pop" => slots'[thread[a].head] = slots[thread[a].head]
             /\ thread[a].pc = "take" => slots'[tail % C] = slots[tail % C]
    BY <1>7
  <1> HIDE DEF r
  <1> QED BY <1>1, <1>2, <1>6, <1>7, <1>8, <1>9, <1>10, GiverMoves

LEMMA StackWriteStep ==
    ASSUME NEW a, NEW d, Sides(a, d), SimpleInv(a, d), Simple!StackWrite(d)
    PROVE  SimpleInv(a, d)'
  <1>1. PICK c, n : Kept(d, c, n)
    BY DEF SimpleInv
  <1>2. PICK q : q = thread[d] /\ q \in [pc : {"write"}, head : Int, msg : Messages]
    BY DEF SimpleInv, Giver, DeallocatorAt, Simple!StackWrite, Simple!Idle
  <1>3. kind = "stack" /\ StackGiver(q) /\ Limbo(q, slots) = {q.msg} /\ Limbo(q, slots) \subseteq Free
    BY <1>2 DEF SimpleInv, Giver, Simple!StackWrite, Limbo
  <1>4. q.head >= top /\ q.head + 1 < C /\ q.head \in Int /\ C \in Nat \ {0}
    BY <1>2, <1>3, SimpleFacts DEF StackGiver
  <1>5. top = n - 1 /\ n \in Nat
    BY <1>1, <1>3 DEF Kept, Counted, Lists
  <1> DEFINE h == q.head + 1
             r == [q EXCEPT !.pc = "push"]
  <1>6. h \in 0..(C - 1) /\ h > top
    BY <1>4, <1>5
  <1>7. /\ slots' = [slots EXCEPT ![h] = q.msg]
        /\ thread' = [thread EXCEPT ![d] = r]
        /\ UNCHANGED <<kind, top, tail, lent>>
    <2>1. ~(q.head + 1 >= C)
      BY <1>4
    <2> QED BY <1>2, <2>1, SimpleFacts DEF Simple!StackWrite, Simple!Go
  <1>8. r \in [pc : {"push"}, head : Int, msg : Messages] /\ r.head = q.head /\ r.msg = q.msg
    BY <1>2
  <1> HIDE DEF r
  <1>9. slots' \in [0..(C - 1) -> Messages] /\ slots'[h] = q.msg
        /\ \A i : i # h => slots'[i] = slots[i]
    BY <1>2, <1>6, <1>7 DEF SimpleInv, SimpleTypes
  <1>10. Free' = Free /\ Limbo(r, slots)' = {q.msg}
    BY <1>7, <1>8 DEF Free, Limbo
  <1>11. Giver(r)'
    <2>1. r \in DeallocatorAt
      BY <1>8 DEF DeallocatorAt
    <2>2. StackGiver(r)'
      BY <1>4, <1>7, <1>8, <1>9 DEF StackGiver
    <2> QED BY <1>3, <1>7, <1>10, <2>1, <2>2 DEF Giver
  <1>12. \A j \in 0..(n - 1) : slots'[Place(j)] = slots[Place(j)]
    <2>1. \A j \in 0..(n - 1) : j # h
      BY <1>5, <1>6
    <2> QED BY <1>3, <1>9, <2>1 DEF Place
  <1>13. Taker(thread[a]) => /\ thread[a].pc = "pop" => slots'[thread[a].head] = slots[thread[a].head]
                             /\ thread[a].pc = "take" => slots'[tail % C] = slots[tail % C]
    <2> SUFFICES ASSUME Taker(thread[a])
                 PROVE  /\ thread[a].pc = "pop" => slots'[thread[a].head] = slots[thread[a].head]
                        /\ thread[a].pc = "take" => slots'[tail % C] = slots[tail % C]
      OBVIOUS
    <2>1. thread[a].pc # "take" /\ (thread[a].pc = "pop" => thread[a].head \in 0..top)
      BY <1>3 DEF Taker, StackTaker
    <2>2. \A i \in 0..top : i # h
      BY <1>5, <1>6
    <2> QED BY <1>9, <2>1, <2>2
  <1>14. Free' \ Limbo(r, slots)' = Free \ Limbo(thread[d], slots)
    BY <1>2, <1>3, <1>10
  <1>15. lent' \in [Messages -> {0, 1}]
    BY <1>7 DEF SimpleInv, SimpleTypes
  <1> QED BY <1>1, <1>7, <1>9, <1>11, <1>12, <1>13, <1>14, <1>15, GiverMoves

LEMMA RingCallStep ==
    ASSUME NEW a, NEW d, Sides(a, d), SimpleInv(a, d), NEW m \in Messages, Simple!RingCall(d, m)
    PROVE  SimpleInv(a, d)'
  <1>0. PICK h : h = top
    OBVIOUS
  <1> DEFINE r == [pc |-> "check", head |-> h, msg |-> m]
  <1>1. PICK c, n : Kept(d, c, n)
    BY DEF SimpleInv
  <1>2. lent' \in [Messages -> {0, 1}] /\ m \notin Free /\ Free' = Free \cup {m}
    BY GivenUp DEF Simple!RingCall, SimpleInv
  <1>3. Limbo(thread[d], slots) = {} /\ Limbo(r, slots)' = {m}
    BY DEF Limbo, Simple!RingCall, Simple!Idle
  <1>4. slots' = slots /\ thread' = [thread EXCEPT ![d] = r] /\ UNCHANGED <<kind, top, tail>>
    BY <1>0 DEF Simple!RingCall, Simple!Go
  <1>5. slots' \in [0..(C - 1) -> Messages] /\ slots \in [0..(C - 1) -> Messages] /\ kind = "ring"
    BY <1>4 DEF SimpleInv, SimpleTypes, Simple!RingCall
  <1>6. top \in Int
    <2>1. top \in 0..(2 * C - 1)
      BY <1>1, <1>5, RingPlaces
    <2> QED BY <2>1
  <1>7. Giver(r)'
    <2>1. r \in DeallocatorAt
      BY <1>0, <1>6 DEF DeallocatorAt
    <2>2. RingGiver(r)'
      BY <1>0, <1>4 DEF RingGiver
    <2> QED BY <1>2, <1>3, <1>4, <1>5, <2>1, <2>2 DEF Giver
  <1>8. Free' \ Limbo(r, slots)' = Free \ Limbo(thread[d], slots)
    BY <1>2, <1>3
  <1>9. /\ \A j \in 0..(n - 1) : slots'[Place(j)] = slots[Place(j)]
        /\ Taker(thread[a]) =>
             /\ thread[a].pc = "pop" => slots'[thread[a].head] = slots[thread[a].head]
             /\ thread[a].pc = "take" => slots'[tail % C] = slots[tail % C]
    BY <1>4
  <1> HIDE DEF r
  <1> QED BY <1>1, <1>2, <1>4, <1>5, <1>7, <1>8, <1>9, GiverMoves

LEMMA RingWriteStep ==
    ASSUME NEW a, NEW d, Sides(a, d), SimpleInv(a, d), Simple!RingWrite(d)
    PROVE  SimpleInv(a, d)'
  <1>1. PICK c, n : Kept(d, c, n)
    BY DEF SimpleInv
  <1>2. PICK q : q = thread[d] /\ q \in [pc : {"check"}, head : Int, msg : Messages]
    BY DEF SimpleInv, Giver, DeallocatorAt, Simple!RingWrite, Simple!Idle
  <1>3. kind = "ring" /\ q.head = top /\ Limbo(q, slots) = {q.msg} /\ Limbo(q, slots) \subseteq Free
    BY <1>2 DEF SimpleInv, Giver, RingGiver, Simple!RingWrite, Limbo
  <1>4. slots \in [0..(C - 1) -> Messages] /\ C \in Nat \ {0} /\ q.msg \in Messages
    BY <1>2, SimpleFacts DEF SimpleInv, SimpleTypes
  <1>5. /\ n \in 0..C /\ tail \in 0..(2 * C - 1) /\ top = (tail + n) % (2 * C)
        /\ top \in 0..(2 * C - 1)
        /\ top % C = (tail + n) % C
        /\ tail % C = (tail + 0) % C
        /\ top # tail <=> n > 0
        /\ \A j \in Int : (tail + j) % C \in 0..(C - 1)
    BY <1>1, <1>3, <1>4, RingPlaces
  <1>6. n \in Nat /\ n < C
    BY <1>1, <1>2, <1>3, <1>4, RoomFor
  <1> DEFINE h == top % C
             r == [pc |-> "give", head |-> q.head]
  <1>7. top - tail # C
    <2>1. PICK K \in Nat \ {0} : K = C
      BY <1>4
    <2>2. 2 * K \in Nat \ {0} /\ tail + n \in Int /\ tail \in 0..(2 * K - 1) /\ n \in 0..(K - 1)
      BY <1>5, <1>6, <2>1
    <2>3. CASE tail + n < 2 * K
      <3>1. tail + n \in 0..(2 * K - 1)
        BY <2>2, <2>3
      <3>2. top = tail + n
        BY <1>5, <2>1, <2>2, <3>1, SmallRemainder
      <3> QED BY <2>1, <2>2, <3>2
    <2>4. CASE tail + n >= 2 * K
      <3>1. tail + n - 2 * K \in 0..(2 * K - 1)
        BY <2>2, <2>4
      <3>2. (tail + n - 2 * K) % (2 * K) = tail + n - 2 * K
        BY <2>2, <3>1, SmallRemainder
      <3>3. PICK L \in Nat \ {0}, b \in Int, k \in Int : L = 2 * K /\ b = tail + n - L /\ k = 1
        BY <2>2, <3>1
      <3>4. (b + k * L) % L = b % L
        BY SlotPeriodic
      <3>5. b + k * L = tail + n
        BY <2>2, <3>3
      <3>6. top = tail + n - 2 * K
        BY <1>5, <2>1, <3>2, <3>3, <3>4, <3>5
      <3> QED BY <2>1, <2>2, <3>6
    <2> QED BY <2>2, <2>3, <2>4
  <1>8. /\ slots' = [slots EXCEPT ![h] = q.msg]
        /\ thread' = [thread EXCEPT ![d] = r]
        /\ UNCHANGED <<kind, top, tail, lent>>
    BY <1>2, <1>3, <1>7, SimpleFacts DEF Simple!RingWrite, Simple!Go
  <1>9. h \in 0..(C - 1) /\ h = (tail + n) % C
    <2>1. n \in Int /\ h = (tail + n) % C
      BY <1>5, <1>6
    <2> QED BY <1>5, <2>1
  <1> HIDE DEF h
  <1>10. slots' \in [0..(C - 1) -> Messages] /\ slots'[h] = q.msg
         /\ \A i : i # h => slots'[i] = slots[i]
    BY <1>4, <1>8, <1>9
  <1>11. Free' = Free /\ Limbo(r, slots)' = {q.msg}
    BY <1>3, <1>8, <1>10 DEF Free, Limbo, h
  <1>12. Giver(r)'
    <2>1. r \in DeallocatorAt
      BY <1>3, <1>5 DEF DeallocatorAt
    <2> QED BY <1>3, <1>8, <1>11, <2>1 DEF Giver, RingGiver
  <1>13. \A j \in 0..(n - 1) : (tail + j) % C # h
    <2> SUFFICES ASSUME NEW j \in 0..(n - 1) PROVE (tail + j) % C # h
      OBVIOUS
    <2>1. PICK K \in Nat \ {0} : K = C
      BY <1>4
    <2>2. tail + j \in Int /\ tail + n \in Int /\ tail + j < tail + n /\ tail + n < tail + j + K
      BY <1>4, <1>5, <1>6, <2>1
    <2>3. (tail + j) % K # (tail + n) % K
      BY <2>2, SlotsDiffer
    <2> QED BY <1>9, <2>1, <2>3
  <1>14. \A j \in 0..(n - 1) : slots'[Place(j)] = slots[Place(j)]
    BY <1>3, <1>10, <1>13 DEF Place
  <1>15. Taker(thread[a]) => /\ thread[a].pc = "pop" => slots'[thread[a].head] = slots[thread[a].head]
                             /\ thread[a].pc = "take" => slots'[tail % C] = slots[tail % C]
    <2> SUFFICES ASSUME Taker(thread[a])
                 PROVE  /\ thread[a].pc = "pop" => slots'[thread[a].head] = slots[thread[a].head]
                        /\ thread[a].pc = "take" => slots'[tail % C] = slots[tail % C]
      OBVIOUS
    <2>1. thread[a].pc # "pop" /\ (thread[a].pc = "take" => n > 0)
      BY <1>3, <1>5 DEF Taker, RingTaker
    <2>2. n > 0 => tail % C # h
      <3>1. n > 0 => 0 \in 0..(n - 1)
        BY <1>6
      <3> QED BY <1>5, <1>13, <3>1
    <2> QED BY <1>10, <2>1, <2>2
  <1>16. Free' \ Limbo(r, slots)' = Free \ Limbo(thread[d], slots)
    BY <1>2, <1>3, <1>11
  <1>17. lent' \in [Messages -> {0, 1}]
    BY <1>8 DEF SimpleInv, SimpleTypes
  <1> HIDE DEF r
  <1> QED BY <1>1, <1>8, <1>10, <1>12, <1>14, <1>15, <1>16, <1>17, GiverMoves

\* A step of the deallocator that adds a message to the list.
LEMMA GiverAdds ==
    ASSUME NEW a, NEW d, Sides(a, d), SimpleInv(a, d), NEW m \in Messages, NEW c, NEW n,
           Kept(d, c, n), m \notin Free \ Limbo(thread[d], slots),
           thread' = [thread EXCEPT ![d] = Simple!Idle], UNCHANGED <<kind, tail>>,
           slots' \in [0..(C - 1) -> Messages], lent' \in [Messages -> {0, 1}],
           Free' = (Free \ Limbo(thread[d], slots)) \cup {m},
           Counted(n + 1)', slots'[Place(n)] = m,
           \A j \in 0..(n - 1) : slots'[Place(j)] = slots[Place(j)],
           Taker(thread[a])'
    PROVE  SimpleInv(a, d)'
  <1> DEFINE b == [i \in 0..((n + 1) - 1) |-> IF i = n THEN m ELSE c[i]]
             S == Free \ Limbo(thread[d], slots)
  <1>1. thread'[d] = Simple!Idle /\ thread'[a] = thread[a] /\ SimpleTypes(a, d)'
    <2>1. SimpleTypes(a, d) /\ a # d /\ Simple!Idle \in DeallocatorAt
      BY DEF SimpleInv, Sides, DeallocatorAt
    <2>2. thread'[d] = Simple!Idle /\ thread'[a] = thread[a] /\ thread' \in [{a, d} -> AllocatorAt \cup DeallocatorAt]
      BY <2>1 DEF SimpleTypes, DeallocatorAt
    <2> QED BY <2>1, <2>2 DEF SimpleTypes
  <1>2. Giver(thread[d])'
    BY <1>1 DEF Giver, StackGiver, RingGiver, Limbo, DeallocatorAt, Simple!Idle
  <1>3. Lists(c, n, S) /\ n \in Nat
    BY DEF Kept, Lists
  <1>4. Lists(b, n + 1, S \cup {m})
    BY <1>3, ListWithOneMore
  <1>5. (Free \ Limbo(thread[d], slots))' = S \cup {m}
    BY <1>1 DEF Limbo, Simple!Idle
  <1>6. \A j \in 0..((n + 1) - 1) : slots'[Place(j)'] = b[j]
    <2>1. \A j : Place(j)' = Place(j)
      BY DEF Place
    <2>2. \A j \in 0..(n - 1) : slots[Place(j)] = c[j]
      BY DEF Kept
    <2>3. \A j \in 0..((n + 1) - 1) : j = n \/ (j \in 0..(n - 1) /\ j # n)
      BY <1>3
    <2> QED BY <2>1, <2>2, <2>3
  <1> HIDE DEF b, S
  <1>7. Kept(d, b, n + 1)'
    BY <1>4, <1>5, <1>6 DEF Kept
  <1>8. Taker(thread[a])'
    OBVIOUS
  <1> QED BY <1>1, <1>2, <1>7, <1>8 DEF SimpleInv

LEMMA LockedDeallocateStep ==
    ASSUME NEW a, NEW d, Sides(a, d), SimpleInv(a, d), NEW m \in Messages, Simple!LockedDeallocate(m)
    PROVE  SimpleInv(a, d)'
  <1>1. PICK c, n : Kept(d, c, n)
    BY DEF SimpleInv
  <1>2. lent' \in [Messages -> {0, 1}] /\ m \notin Free /\ Free' = Free \cup {m}
    BY GivenUp DEF Simple!LockedDeallocate, SimpleInv
  <1>3. kind = "locked" /\ thread[d] = Simple!Idle /\ thread[a] = Simple!Idle
    BY DEF Simple!LockedDeallocate, SimpleInv, Giver, Taker
  <1>4. n \in Nat /\ n < C /\ C \in Nat /\ top = n - 1
    BY <1>1, <1>2, <1>3, RoomFor, SimpleFacts DEF Kept, Counted
  <1>5. top + 1 = n /\ n \in 0..(C - 1)
    BY <1>4
  <1>6. slots' = [slots EXCEPT ![n] = m] /\ top' = n /\ UNCHANGED <<kind, tail, thread>>
    BY <1>5 DEF Simple!LockedDeallocate
  <1>7. slots' \in [0..(C - 1) -> Messages] /\ slots'[n] = m /\ \A i : i # n => slots'[i] = slots[i]
    BY <1>5, <1>6 DEF SimpleInv, SimpleTypes
  <1>8. thread' = [thread EXCEPT ![d] = Simple!Idle]
    BY <1>3, <1>6 DEF SimpleInv, SimpleTypes
  <1>9. Counted(n + 1)'
    BY <1>3, <1>4, <1>6 DEF Counted
  <1>10. Limbo(thread[d], slots) = {}
    BY <1>3 DEF Limbo, Simple!Idle
  <1>11. slots'[Place(n)] = m /\ \A j \in 0..(n - 1) : slots'[Place(j)] = slots[Place(j)]
    <2>1. \A j \in 0..(n - 1) : j # n
      BY <1>4
    <2> QED BY <1>3, <1>7, <2>1 DEF Place
  <1>12. Taker(thread[a])'
    BY <1>3, <1>6 DEF Taker, AllocatorAt
  <1>13. Free' = (Free \ Limbo(thread[d], slots)) \cup {m} /\ m \notin Free \ Limbo(thread[d], slots)
    BY <1>2, <1>10
  <1>14. UNCHANGED <<kind, tail>>
    BY <1>6
  <1> QED BY <1>1, <1>2, <1>7, <1>8, <1>9, <1>11, <1>12, <1>13, <1>14, GiverAdds

LEMMA StackPushStep ==
    ASSUME NEW a, NEW d, Sides(a, d), SimpleInv(a, d), Simple!StackPush(d)
    PROVE  SimpleInv(a, d)'
  <1>1. PICK c, n : Kept(d, c, n)
    BY DEF SimpleInv
  <1>2. PICK q : q = thread[d] /\ q \in [pc : {"push"}, head : Int, msg : Messages]
    BY DEF SimpleInv, Giver, DeallocatorAt, Simple!StackPush, Simple!Idle
  <1>3. kind = "stack" /\ StackGiver(q) /\ Limbo(q, slots) = {q.msg} /\ Limbo(q, slots) \subseteq Free
    BY <1>2 DEF SimpleInv, Giver, Simple!StackPush, Limbo
  <1>4. q.head >= top /\ q.head + 1 < C /\ slots[q.head + 1] = q.msg
    BY <1>2, <1>3 DEF StackGiver
  <1>5. top = n - 1 /\ n \in Nat /\ n < C /\ C \in Nat
    BY <1>1, <1>2, <1>3, RoomFor, SimpleFacts DEF Kept, Counted
  <1>6. /\ UNCHANGED <<kind, slots, tail, lent>> /\ Free' = Free
        /\ slots' \in [0..(C - 1) -> Messages] /\ lent' \in [Messages -> {0, 1}]
    BY DEF Simple!StackPush, Free, SimpleInv, SimpleTypes
  <1>7. \A j \in 0..(n - 1) : slots'[Place(j)] = slots[Place(j)]
    BY <1>6
  <1>8. CASE top = q.head /\ top' = top + 1 /\ Simple!Go(d, Simple!Idle)
    <2>1. thread' = [thread EXCEPT ![d] = Simple!Idle] /\ top' = n
      BY <1>5, <1>8 DEF Simple!Go
    <2>2. Counted(n + 1)'
      BY <1>3, <1>5, <1>6, <2>1 DEF Counted
    <2>3. slots'[Place(n)] = q.msg
      BY <1>3, <1>4, <1>5, <1>6, <1>8 DEF Place
    <2>4. Free' = (Free \ Limbo(thread[d], slots)) \cup {q.msg}
          /\ q.msg \notin Free \ Limbo(thread[d], slots) /\ q.msg \in Messages
      BY <1>2, <1>3, <1>6
    <2>5. Taker(thread[a])'
      <3>1. Taker(thread[a]) /\ thread'[a] = thread[a]
        BY <2>1 DEF SimpleInv, SimpleTypes, Sides
      <3>2. \A i \in 0..top : i \in 0..top'
        BY <1>5, <2>1
      <3> QED BY <1>3, <1>6, <3>1, <3>2 DEF Taker, StackTaker
    <2> QED BY <1>1, <1>6, <1>7, <2>1, <2>2, <2>3, <2>4, <2>5, GiverAdds
  <1>9. CASE Simple!Go(d, [q EXCEPT !.pc = "write", !.head = top]) /\ UNCHANGED top
    <2>1. PICK h : h = top
      OBVIOUS
    <2> DEFINE r == [q EXCEPT !.pc = "write", !.head = h]
    <2>2. h \in Int /\ h + 1 < C
      BY <1>5, <2>1
    <2>3. r \in [pc : {"write"}, head : Int, msg : Messages] /\ r.head = h /\ r.msg = q.msg
      BY <1>2, <2>2
    <2>4. thread' = [thread EXCEPT ![d] = r] /\ top' = h
      BY <1>9, <2>1 DEF Simple!Go
    <2> HIDE DEF r
    <2>5. Limbo(r, slots)' = {q.msg}
      BY <2>3 DEF Limbo
    <2>6. Giver(r)'
      <3>1. r \in DeallocatorAt
        BY <2>3 DEF DeallocatorAt
      <3>2. StackGiver(r)'
        BY <2>2, <2>3, <2>4 DEF StackGiver
      <3> QED BY <1>3, <1>6, <2>5, <3>1, <3>2 DEF Giver
    <2>7. Free' \ Limbo(r, slots)' = Free \ Limbo(thread[d], slots)
      BY <1>2, <1>3, <1>6, <2>5
    <2>8. Taker(thread[a]) =>
             /\ thread[a].pc = "pop" => slots'[thread[a].head] = slots[thread[a].head]
             /\ thread[a].pc = "take" => slots'[tail % C] = slots[tail % C]
      BY <1>6
    <2>9. UNCHANGED <<kind, top, tail>>
      BY <1>6, <1>9
    <2> QED BY <1>1, <1>6, <1>7, <2>4, <2>6, <2>7, <2>8, <2>9, GiverMoves
  <1> QED BY <1>2, <1>8, <1>9 DEF Simple!StackPush

LEMMA RingGiveStep ==
    ASSUME NEW a, NEW d, Sides(a, d), SimpleInv(a, d), Simple!RingGive(d)
    PROVE  SimpleInv(a, d)'
  <1>1. PICK c, n : Kept(d, c, n)
    BY DEF SimpleInv
  <1>2. PICK q : q = thread[d] /\ q \in [pc : {"give"}, head : Int]
    BY DEF SimpleInv, Giver, DeallocatorAt, Simple!RingGive, Simple!Idle
  <1>3. kind = "ring" /\ q.head = top /\ Limbo(q, slots) = {slots[top % C]} /\ Limbo(q, slots) \subseteq Free
    BY <1>2 DEF SimpleInv, Giver, RingGiver, Simple!RingGive, Limbo
  <1>4. slots \in [0..(C - 1) -> Messages] /\ C \in Nat \ {0}
    BY SimpleFacts DEF SimpleInv, SimpleTypes
  <1>5. /\ n \in 0..C /\ tail \in 0..(2 * C - 1) /\ top = (tail + n) % (2 * C)
        /\ top \in 0..(2 * C - 1)
        /\ top % C = (tail + n) % C
        /\ \A j \in Int : (tail + j) % C \in 0..(C - 1)
    BY <1>1, <1>3, <1>4, RingPlaces
  <1>6. PICK m : m = slots[top % C]
    OBVIOUS
  <1>7. m \in Messages /\ m \in Free /\ Limbo(thread[d], slots) = {m}
    <2>1. n \in Int
      BY <1>5
    <2>2. top % C \in 0..(C - 1)
      BY <1>5, <2>1
    <2> QED BY <1>2, <1>3, <1>4, <1>6, <2>2
  <1>8. n \in Nat /\ n < C
    BY <1>1, <1>7, RoomFor
  <1>9. /\ UNCHANGED <<kind, slots, tail, lent>> /\ Free' = Free
        /\ slots' \in [0..(C - 1) -> Messages] /\ lent' \in [Messages -> {0, 1}]
    BY DEF Simple!RingGive, Free, SimpleInv, SimpleTypes
  <1>10. thread' = [thread EXCEPT ![d] = Simple!Idle] /\ top' = (top + 1) % (2 * C)
    BY <1>2, <1>3, SimpleFacts DEF Simple!RingGive, Simple!Go
  <1>11. PICK L \in Nat \ {0} : L = 2 * C
    BY <1>4
  <1>12. top' = (tail + (n + 1)) % L
    <2>1. (((tail + n) % L) + 1) % L = ((tail + n) + 1) % L
      <3>1. PICK one \in Int, b \in Int : one = 1 /\ b = tail + n
        BY <1>5, <1>8
      <3>2. ((b % L) + one) % L = (b + one) % L
        BY RemainderFirst
      <3> QED BY <3>1, <3>2
    <2>2. (tail + n) + 1 = tail + (n + 1)
      BY <1>5, <1>8
    <2> QED BY <1>5, <1>10, <1>11, <2>1, <2>2
  <1>13. Counted(n + 1)'
    BY <1>3, <1>5, <1>9, <1>11, <1>12 DEF Counted
  <1>14. slots'[Place(n)] = m
    BY <1>3, <1>5, <1>6, <1>9 DEF Place
  <1>15. Free' = (Free \ Limbo(thread[d], slots)) \cup {m} /\ m \notin Free \ Limbo(thread[d], slots)
    BY <1>7, <1>9
  <1>16. Taker(thread[a])'
    <2>1. Taker(thread[a]) /\ thread'[a] = thread[a]
      BY <1>10 DEF SimpleInv, SimpleTypes, Sides
    <2>2. top' # tail'
      <3>1. PICK b \in Int : b = tail + (n + 1)
        BY <1>5, <1>8
      <3>2. tail \in 0..(L - 1) /\ tail \in Int /\ tail < b /\ b < tail + L
        BY <1>4, <1>5, <1>8, <1>11, <3>1
      <3>3. tail % L # b % L
        BY <3>2, SlotsDiffer
      <3> QED BY <1>9, <1>12, <3>1, <3>2, <3>3, SmallRemainder
    <2> QED BY <1>3, <1>9, <2>1, <2>2 DEF Taker, RingTaker
  <1>17. \A j \in 0..(n - 1) : slots'[Place(j)] = slots[Place(j)]
    BY <1>9
  <1> QED BY <1>1, <1>7, <1>9, <1>10, <1>13, <1>14, <1>15, <1>16, <1>17, GiverAdds

-----------------------------------------------------------------------------
(* The start, the steps, and what the invariant says of the messages.      *)

LEMMA SimpleStart ==
    ASSUME NEW a, NEW d, Sides(a, d), Simple!Init
    PROVE  SimpleInv(a, d)
  <1> DEFINE c == [i \in 0..(C - 1) |-> i]
  <1>1. C \in Nat \ {0} /\ Messages = 0..(C - 1)
    BY SimpleFacts
  <1>2. /\ kind \in {"locked", "stack", "ring"} /\ slots = c
        /\ top = (IF kind = "ring" THEN C ELSE C - 1) /\ tail = 0
        /\ thread = [t \in {a, d} |-> Simple!Idle]
        /\ lent = [m \in Messages |-> 0]
    BY SimpleFacts, SimpleAssumption DEF Simple!Init, Sides
  <1>3. SimpleTypes(a, d)
    BY <1>1, <1>2 DEF SimpleTypes, AllocatorAt
  <1>4. Taker(thread[a]) /\ Giver(thread[d])
    BY <1>2 DEF Taker, Giver, StackTaker, StackGiver, RingTaker, RingGiver, Limbo,
                AllocatorAt, DeallocatorAt, Simple!Idle
  <1>5. Free \ Limbo(thread[d], slots) = Messages
    BY <1>2 DEF Free, Limbo, Simple!Idle
  <1>6. Lists(c, C, Messages)
    BY <1>1 DEF Lists
  <1>7. Counted(C)
    BY <1>1, <1>2 DEF Counted
  <1>8. \A j \in 0..(C - 1) : slots[Place(j)] = c[j]
    <2> SUFFICES ASSUME NEW j \in 0..(C - 1) PROVE slots[Place(j)] = c[j]
      OBVIOUS
    <2>1. j % C = j
      BY <1>1, SmallRemainder
    <2>2. tail + j = j
      BY <1>2
    <2> QED BY <1>2, <2>1, <2>2 DEF Place
  <1>9. Kept(d, c, C)
    BY <1>5, <1>6, <1>7, <1>8 DEF Kept
  <1> QED BY <1>3, <1>4, <1>9 DEF SimpleInv

LEMMA SimpleStep ==
    ASSUME NEW a, NEW d, Sides(a, d), SimpleInv(a, d), Simple!Next
    PROVE  SimpleInv(a, d)'
  <1>1. CASE \E m \in Messages : Simple!LockedDeallocate(m)
    BY <1>1, LockedDeallocateStep
  <1>2. CASE \E t \in Allocators : Simple!LockedAllocate(t)
    BY <1>2, LockedAllocateStep DEF Sides
  <1>3. CASE \E t \in Allocators : Simple!StackLoad(t)
    BY <1>3, StackLoadStep DEF Sides
  <1>4. CASE \E t \in Allocators : Simple!StackRead(t)
    BY <1>4, StackReadStep DEF Sides
  <1>5. CASE \E t \in Allocators : Simple!StackPop(t)
    BY <1>5, StackPopStep DEF Sides
  <1>6. CASE \E t \in Allocators : Simple!RingTail(t)
    BY <1>6, RingTailStep DEF Sides
  <1>7. CASE \E t \in Allocators : Simple!RingHead(t)
    BY <1>7, RingHeadStep DEF Sides
  <1>8. CASE \E t \in Allocators : Simple!RingTake(t)
    BY <1>8, RingTakeStep DEF Sides
  <1>9. CASE \E t \in Deallocators, m \in Messages : Simple!StackCall(t, m)
    BY <1>9, StackCallStep DEF Sides
  <1>10. CASE \E t \in Deallocators, m \in Messages : Simple!RingCall(t, m)
    BY <1>10, RingCallStep DEF Sides
  <1>11. CASE \E t \in Deallocators : Simple!StackWrite(t)
    BY <1>11, StackWriteStep DEF Sides
  <1>12. CASE \E t \in Deallocators : Simple!StackPush(t)
    BY <1>12, StackPushStep DEF Sides
  <1>13. CASE \E t \in Deallocators : Simple!RingWrite(t)
    BY <1>13, RingWriteStep DEF Sides
  <1>14. CASE \E t \in Deallocators : Simple!RingGive(t)
    BY <1>14, RingGiveStep DEF Sides
  <1> QED BY <1>1, <1>2, <1>3, <1>4, <1>5, <1>6, <1>7, <1>8, <1>9, <1>10, <1>11, <1>12,
             <1>13, <1>14 DEF Simple!Next

\* The free slots are the places of the list, each once.
LEMMA FreePlaces ==
    ASSUME NEW d, NEW c, NEW n, Kept(d, c, n), slots \in [0..(C - 1) -> Messages]
    PROVE  /\ Simple!FreeSlots = {Place(j) : j \in 0..(n - 1)}
           /\ \A i, j \in 0..(n - 1) : Place(i) = Place(j) => i = j
  <1>1. n \in Nat /\ C \in Nat \ {0}
    BY SimpleFacts DEF Kept, Lists
  <1>2. CASE kind # "ring"
    <2>1. Simple!FreeSlots = 0..(n - 1)
      BY <1>2 DEF Simple!FreeSlots, Kept, Counted
    <2>2. \A j : Place(j) = j
      BY <1>2 DEF Place
    <2>3. {Place(j) : j \in 0..(n - 1)} = 0..(n - 1)
      BY <2>2
    <2> QED BY <2>1, <2>2, <2>3
  <1>3. CASE kind = "ring"
    <2>1. n \in 0..C /\ tail \in 0..(2 * C - 1) /\ top = (tail + n) % (2 * C)
          /\ top \in 0..(2 * C - 1)
          /\ \A j \in 0..(n - 1) : slots[(tail + j) % C] = c[j]
      BY <1>3, RingPlaces
    <2>2. PICK L \in Nat \ {0} : L = 2 * C
      BY <1>1
    <2>3. (top - tail) % L = n
      <3>1. PICK u \in Int, w \in Int : u = tail + n /\ w = 0 - tail
        BY <1>1, <2>1
      <3>2. ((u % L) + w) % L = (u + w) % L
        BY RemainderFirst
      <3>3. u + w = n /\ (u % L) + w = top - tail
        BY <1>1, <2>1, <2>2, <3>1
      <3>4. n \in 0..(L - 1)
        BY <1>1, <2>1, <2>2
      <3>5. n % L = n
        BY <3>4, SmallRemainder
      <3> QED BY <3>2, <3>3, <3>5
    <2>4. Simple!FreeSlots = {i % C : i \in tail..(tail + n - 1)}
      BY <1>3, <2>2, <2>3, SimpleFacts DEF Simple!FreeSlots
    <2>5. {i % C : i \in tail..(tail + n - 1)} = {(tail + j) % C : j \in 0..(n - 1)}
      <3>1. \A j \in 0..(n - 1) : tail + j \in tail..(tail + n - 1)
        BY <1>1, <2>1
      <3>2. \A i \in tail..(tail + n - 1) : \E j \in 0..(n - 1) : i = tail + j
        <4> SUFFICES ASSUME NEW i \in tail..(tail + n - 1)
                     PROVE  \E j \in 0..(n - 1) : i = tail + j
          OBVIOUS
        <4>1. i - tail \in 0..(n - 1) /\ i = tail + (i - tail)
          BY <1>1, <2>1
        <4> QED BY <4>1
      <3> QED BY <3>1, <3>2
    <2>6. \A i, j \in 0..(n - 1) : (tail + i) % C = (tail + j) % C => i = j
      <3>1. \A i, j \in 0..(n - 1) : i < j => (tail + i) % C # (tail + j) % C
        <4> SUFFICES ASSUME NEW i \in 0..(n - 1), NEW j \in 0..(n - 1), i < j
                     PROVE  (tail + i) % C # (tail + j) % C
          OBVIOUS
        <4>1. PICK K \in Nat \ {0}, u \in Int, w \in Int : K = C /\ u = tail + i /\ w = tail + j
          BY <1>1, <2>1
        <4>2. u < w /\ w < u + K
          BY <1>1, <2>1, <4>1
        <4> QED BY <4>1, <4>2, SlotsDiffer
      <3>2. \A i, j \in 0..(n - 1) : i < j \/ j < i \/ i = j
        BY <1>1
      <3> QED BY <3>1, <3>2
    <2> QED BY <1>3, <2>4, <2>5, <2>6 DEF Place
  <1> QED BY <1>2, <1>3

LEMMA SimpleEachOnce ==
    ASSUME NEW a, NEW d, Sides(a, d), SimpleInv(a, d)
    PROVE  Simple!EachMessageOnce
  <1>1. \A m \in Messages : lent[m] <= 1
    BY DEF SimpleInv, SimpleTypes
  <1>2. ASSUME \A t \in DOMAIN thread : thread[t] = Simple!Idle
        PROVE  /\ {slots[i] : i \in Simple!FreeSlots} = Free
               /\ Cardinality(Simple!FreeSlots) = Cardinality(Free)
    <2>1. PICK c, n : Kept(d, c, n)
      BY DEF SimpleInv
    <2>2. Lists(c, n, Free)
      <3>1. thread[d] = Simple!Idle
        BY <1>2 DEF SimpleInv, SimpleTypes
      <3>2. Limbo(thread[d], slots) = {}
        BY <3>1 DEF Limbo, Simple!Idle
      <3>3. Free \ {} = Free
        OBVIOUS
      <3> QED BY <2>1, <3>2, <3>3 DEF Kept
    <2>3. Simple!FreeSlots = {Place(j) : j \in 0..(n - 1)}
          /\ \A i, j \in 0..(n - 1) : Place(i) = Place(j) => i = j
      BY <2>1, FreePlaces DEF SimpleInv, SimpleTypes
    <2>4. \A j \in 0..(n - 1) : slots[Place(j)] = c[j] /\ c[j] \in Free
      BY <2>1, <2>2 DEF Kept, Lists
    <2>5. {slots[i] : i \in Simple!FreeSlots} = Free
      <3>1. \A m \in Free : \E j \in 0..(n - 1) : slots[Place(j)] = m
        BY <2>2, <2>4 DEF Lists
      <3> QED BY <2>3, <2>4, <3>1
    <2>6. IsFiniteSet(Free) /\ n = Cardinality(Free)
      <3>1. IsFiniteSet(Free)
        BY SimpleFacts, FS_Subset DEF Free
      <3> QED BY <2>2, <3>1, ListSize
    <2>7. n = Cardinality(Simple!FreeSlots)
      <3> DEFINE f == [j \in 0..(n - 1) |-> Place(j)]
                 S == {Place(j) : j \in 0..(n - 1)}
      <3>1. n \in Nat
        BY <2>2 DEF Lists
      <3>2. Lists(f, n, S)
        BY <2>3, <3>1 DEF Lists
      <3>3. IsFiniteSet(S)
        <4>1. S \subseteq 0..(C - 1) \/ S \subseteq 0..(n - 1)
          <5>1. kind # "ring" => \A j \in 0..(n - 1) : Place(j) \in 0..(n - 1)
            BY DEF Place
          <5>2. kind = "ring" => \A j \in 0..(n - 1) : Place(j) \in 0..(C - 1)
            BY <2>1, RingPlaces DEF Place, SimpleInv, SimpleTypes
          <5> QED BY <5>1, <5>2
        <4>2. IsFiniteSet(Messages) /\ Messages = 0..(C - 1)
          BY SimpleFacts
        <4>3. 0 \in Int /\ n - 1 \in Int
          BY <3>1
        <4>4. IsFiniteSet(0..(n - 1))
          BY <4>3, FS_Interval
        <4> HIDE DEF S
        <4> QED BY <4>1, <4>2, <4>4, FS_Subset
      <3> HIDE DEF f, S
      <3>4. n = Cardinality(S)
        BY <3>2, <3>3, ListSize
      <3> QED BY <2>3, <3>4 DEF S
    <2> QED BY <2>5, <2>6, <2>7
  <1>3. \A S : Simple!Cardinality(S) = Cardinality(S)
    BY DEF Simple!Cardinality, Cardinality
  <1> QED BY <1>1, <1>2, <1>3 DEF Simple!EachMessageOnce, Free

\* With one thread that allocates and one that gives back, a message of
\* CustomLockedPool, of CustomLockFreePool and of LockFreePool has one holder,
\* and between the calls the pool holds the messages nobody does, each once.
THEOREM EachMessageHasOneHolder == OneOnEachSide => (MCSpec => []EachMessageOnce)
  <1> SUFFICES ASSUME NEW a, NEW d, Sides(a, d) PROVE MCSpec => []EachMessageOnce
    BY DEF OneOnEachSide
  <1>1. MCInit => SimpleInv(a, d)
    BY SimpleStart DEF MCInit
  <1>2. SimpleInv(a, d) /\ [MCNext]_<<part, vars, simple>> => SimpleInv(a, d)'
    <2> SUFFICES ASSUME SimpleInv(a, d), [MCNext]_<<part, vars, simple>> PROVE SimpleInv(a, d)'
      OBVIOUS
    <2>1. CASE Simple!Next
      BY <2>1, SimpleStep
    <2>2. CASE UNCHANGED simple
      <3>1. UNCHANGED <<kind, slots, top, tail, thread, lent>>
        BY <2>2 DEF simple
      <3>2. SimpleTypes(a, d)' /\ Taker(thread[a])'
        BY <3>1 DEF SimpleInv, SimpleTypes, Taker, StackTaker, RingTaker
      <3>3. Giver(thread[d])'
        BY <3>1 DEF SimpleInv, Giver, StackGiver, RingGiver, Limbo, Free
      <3>4. PICK c, n : Kept(d, c, n)
        BY DEF SimpleInv
      <3>5. Kept(d, c, n)'
        BY <3>1, <3>4 DEF Kept, Counted, Place, Limbo, Free
      <3> QED BY <3>2, <3>3, <3>5 DEF SimpleInv
    <2> QED BY <2>1, <2>2 DEF MCNext
  <1>3. SimpleInv(a, d) => EachMessageOnce
    BY SimpleEachOnce DEF EachMessageOnce
  <1> QED BY <1>1, <1>2, <1>3, PTL DEF MCSpec
=============================================================================
