---------------------------- MODULE HashMapProofs ----------------------------
(***************************************************************************)
(* Proofs about what MCHashMap explores, for every value of the constants. *)
(* Moodycamel's table of thread ids (MoodyHash): however many threads      *)
(* there are and whatever their ids, however often the table is replaced   *)
(* while others search it, and whoever exits, no two threads are given the *)
(* same producer.  The hash maps (HashMap) never lose a node, find every   *)
(* live key, and are an exact map as long as no key is put in while it is  *)
(* there.  The hash table of fixed size (HashTables) is a map of queues.   *)
(***************************************************************************)
EXTENDS MCHashMap, NumberFacts, FiniteSetTheorems, SequenceTheorems

-----------------------------------------------------------------------------
(* The size of a new table.                                                *)

\* g[k] is slots doubled k times, for k up to m.
Doubles(slots, m, g) == g = [k \in 0..m |-> IF k = 0 THEN slots ELSE 2 * g[k - 1]]

\* Doubling can be continued.
LEMMA DoublesExist ==
    ASSUME NEW slots, NEW count \in Nat
    PROVE  \E g : Doubles(slots, count, g)
<1> DEFINE B == {m \in Nat : ~\E g : Doubles(slots, m, g)}
<1> SUFFICES ASSUME B # {} PROVE FALSE
  OBVIOUS
<1>1. PICK m \in B : \A b \in B : m <= b
  <2>1. B \subseteq Nat
    OBVIOUS
  <2> HIDE DEF B
  <2> QED
    BY <2>1, LeastNumber, Zenon
<1>2. m \in Nat /\ ~\E g : Doubles(slots, m, g)
  OBVIOUS
<1>3. CASE m = 0
  <2> DEFINE g == [k \in 0..0 |-> slots]
  <2>1. Doubles(slots, 0, g)
    BY DEF Doubles
  <2> QED
    BY <1>2, <1>3, <2>1
<1>4. CASE m # 0
  <2>1. m - 1 \in Nat /\ m - 1 \notin B
    BY <1>1, <1>2, <1>4
  <2>2. PICK g : Doubles(slots, m - 1, g)
    BY <2>1
  <2> DEFINE h == [k \in 0..m |-> IF k < m THEN g[k] ELSE 2 * g[m - 1]]
  <2>3. \A k \in 0..m : h[k] = IF k = 0 THEN slots ELSE 2 * h[k - 1]
    <3> SUFFICES ASSUME NEW k \in 0..m PROVE h[k] = IF k = 0 THEN slots ELSE 2 * h[k - 1]
      OBVIOUS
    <3>1. \A j \in 0..m - 1 : g[j] = IF j = 0 THEN slots ELSE 2 * g[j - 1]
      BY <2>2 DEF Doubles
    <3>2. k # 0 => k - 1 \in 0..m /\ k - 1 < m
      BY <1>2
    <3>3. k < m => k \in 0..m - 1
      BY <1>2
    <3> QED
      BY <1>2, <1>4, <3>1, <3>2, <3>3
  <2>4. h = [k \in 0..m |-> IF k = 0 THEN slots ELSE 2 * h[k - 1]]
    <3>1. h = [k \in 0..m |-> h[k]]
      OBVIOUS
    <3> HIDE DEF h
    <3> QED
      BY <2>3, <3>1
  <2> QED
    BY <1>2, <2>4 DEF Doubles
<1> QED
  BY <1>3, <1>4

\* Doubled k times, a size is more than k.
LEMMA DoublesGrow ==
    ASSUME NEW slots \in Nat \ {0}, NEW count \in Nat, NEW g, Doubles(slots, count, g),
           NEW n \in 0..count
    PROVE  g[n] \in Nat /\ n < g[n]
<1> DEFINE B == {m \in 0..count : ~(g[m] \in Nat /\ m < g[m])}
<1> SUFFICES ASSUME B # {} PROVE FALSE
  OBVIOUS
<1>1. PICK m \in B : \A b \in B : m <= b
  <2>1. B \subseteq Nat
    OBVIOUS
  <2> HIDE DEF B
  <2> QED
    BY <2>1, LeastNumber, Zenon
<1>2. m \in 0..count /\ ~(g[m] \in Nat /\ m < g[m])
  OBVIOUS
<1>3. g[m] = IF m = 0 THEN slots ELSE 2 * g[m - 1]
  BY <1>2 DEF Doubles
<1>4. m # 0
  BY <1>2, <1>3
<1>5. g[m - 1] \in Nat /\ m - 1 < g[m - 1]
  BY <1>1, <1>2, <1>4
<1> QED
  BY <1>2, <1>3, <1>4, <1>5

\* The new table has a slot.
LEMMA NewSizeFits ==
    ASSUME NEW slots \in Nat \ {0}, NEW count \in Nat
    PROVE  Ids!NewSize(slots, count) \in Nat \ {0}
<1> DEFINE F == CHOOSE g : Doubles(slots, count + 1, g)
           K == {k \in 1..count + 1 : count < F[k] \div 2}
<1>1. Ids!NewSize(slots, count) = F[Ids!Min(K)]
  BY Zenon DEF Ids!NewSize, Doubles
<1>2. Doubles(slots, count + 1, F)
  BY DoublesExist
<1> HIDE DEF F
<1>3. \A k \in 0..count + 1 : F[k] \in Nat /\ k < F[k]
  BY <1>2, DoublesGrow
<1>4. count + 1 \in K
  <2>1. F[count + 1] = 2 * F[count]
    BY <1>2 DEF Doubles
  <2>2. F[count] \in Nat /\ count < F[count]
    BY <1>3
  <2> QED
    BY <2>1, <2>2
<1>5. \E k \in K : \A j \in K : k <= j
  <2>1. K \subseteq Nat
    OBVIOUS
  <2> HIDE DEF K
  <2> QED
    BY <1>4, <2>1, LeastNumber, Zenon
<1>6. Ids!Min(K) \in K
  BY <1>5 DEF Ids!Min
<1> QED
  BY <1>1, <1>3, <1>6

-----------------------------------------------------------------------------
(* What a table holds, and what a search of it finds.                      *)

IdSlots == [key : HashThreads \cup {EMPTY, REUSABLE}, value : Nat \cup {NULL}]
IdTables == UNION {[0..n - 1 -> IdSlots] : n \in Nat \ {0}}

Cap(tb) == Cardinality(DOMAIN tb)
Way(tb, t, n) == tb[(t + n) % Cap(tb)].key
ClearTo(tb, t, n) == \A m \in 0..n - 1 : Way(tb, t, m) # EMPTY

\* A search for t reaches slot i.
Reaches(tb, t, i) ==
    \E n \in 0..Cap(tb) - 1 : i = (t + n) % Cap(tb) /\ ClearTo(tb, t, n)

\* The slots of t in a table, if any, are reached and hold p.
TableAt(tb, t, p) ==
    \A i \in DOMAIN tb : tb[i].key = t => tb[i].value = p /\ Reaches(tb, t, i)

Has(tb, t) == \E i \in DOMAIN tb : tb[i].key = t

LEMMA TableCap ==
    ASSUME NEW tb \in IdTables
    PROVE  /\ Cap(tb) \in Nat \ {0}
           /\ DOMAIN tb = 0..Cap(tb) - 1
           /\ \A i \in DOMAIN tb : tb[i] \in IdSlots
<1>1. PICK n \in Nat \ {0} : tb \in [0..n - 1 -> IdSlots]
  BY DEF IdTables
<1>2. Cardinality(0..n - 1) = n
  BY FS_Interval
<1> QED
  BY <1>1, <1>2 DEF Cap

\* A slot of the probe is a slot of the table.
LEMMA ProbeIn ==
    ASSUME NEW tb \in IdTables, NEW t \in Nat, NEW n \in Nat
    PROVE  (t + n) % Cap(tb) \in DOMAIN tb
<1>1. t + n \in Int /\ Cap(tb) \in Nat \ {0}
  BY TableCap
<1>2. (t + n) % Cap(tb) \in 0..Cap(tb) - 1
  BY <1>1, DivMod
<1> QED
  BY <1>2, TableCap

\* The model's tables and probes are these.
LEMMA TheirCap ==
    ASSUME NEW h
    PROVE  Ids!Capacity(h) = Cap(tables[h])
BY DEF Ids!Capacity, Ids!Cardinality, Cap, Cardinality

LEMMA TheirFound ==
    ASSUME NEW h, NEW t
    PROVE  /\ \A n : Ids!Probe(h, t, n) = (t + n) % Cap(tables[h])
           /\ Ids!FoundAt(h, t) = {n \in 0..Cap(tables[h]) - 1 :
                                     Way(tables[h], t, n) = t /\ ClearTo(tables[h], t, n)}
BY TheirCap DEF Ids!FoundAt, Ids!Probe, Way, ClearTo

\* A search finds t in the tables that have it, with its producer.
LEMMA SearchFinds ==
    ASSUME IdAssumption, NEW h, NEW t \in HashThreads, NEW p,
           tables[h] \in IdTables, TableAt(tables[h], t, p)
    PROVE  /\ Ids!FoundAt(h, t) # {} <=> Has(tables[h], t)
           /\ Has(tables[h], t) => Ids!ValueIn(h, t) = p
<1> PICK tb : tb = tables[h]
  OBVIOUS
<1>1. t \in Nat /\ tb \in IdTables /\ TableAt(tb, t, p)
  BY DEF IdAssumption
<1> DEFINE F == {n \in 0..Cap(tb) - 1 : Way(tb, t, n) = t /\ ClearTo(tb, t, n)}
<1>2. Ids!FoundAt(h, t) = F /\ \A n : Ids!Probe(h, t, n) = (t + n) % Cap(tb)
  <2>1. Ids!FoundAt(h, t) = F
    BY TheirFound
  <2>2. \A n : Ids!Probe(h, t, n) = (t + n) % Cap(tb)
    BY TheirFound
  <2> QED
    BY <2>1, <2>2
<1>3. Cap(tb) \in Nat \ {0}
  BY <1>1, TableCap
<1>4. \A n \in F : (t + n) % Cap(tb) \in DOMAIN tb /\ tb[(t + n) % Cap(tb)].key = t
  BY <1>1, <1>3, ProbeIn DEF Way
<1>5. Has(tb, t) => F # {}
  BY <1>1 DEF Has, TableAt, Reaches, Way
<1>6. F # {} => Ids!Min(F) \in F
  <2>1. F \subseteq Nat
    BY <1>3
  <2>2. F # {} => \E k \in F : \A j \in F : k <= j
    <3> HIDE DEF F
    <3> QED
      BY <2>1, LeastNumber, Zenon
  <2> QED
    BY <2>2 DEF Ids!Min
<1>7. F # {} => Ids!ValueIn(h, t) = p
  <2>1. Ids!ValueIn(h, t) = tb[(t + Ids!Min(F)) % Cap(tb)].value
    BY <1>2 DEF Ids!ValueIn
  <2> HIDE DEF F
  <2> QED
    BY <1>1, <1>4, <1>6, <2>1 DEF TableAt
<1>8. F # {} => Has(tb, t)
  <2> HIDE DEF F
  <2> QED
    BY <1>4 DEF Has
<1> HIDE DEF F
<1> QED
  BY <1>2, <1>5, <1>7, <1>8

\* The slots a thread frees as it exits are those that name it.
LEMMA FreedAreNamed ==
    ASSUME IdAssumption, NEW h, NEW t \in HashThreads, NEW p,
           tables[h] \in IdTables, TableAt(tables[h], t, p), NEW i \in DOMAIN tables[h]
    PROVE  i \in {Ids!Probe(h, t, n) : n \in Ids!FoundAt(h, t)} <=> tables[h][i].key = t
<1> PICK tb : tb = tables[h]
  OBVIOUS
<1>1. t \in Nat /\ tb \in IdTables /\ TableAt(tb, t, p) /\ i \in DOMAIN tb
  BY DEF IdAssumption
<1> DEFINE F == {n \in 0..Cap(tb) - 1 : Way(tb, t, n) = t /\ ClearTo(tb, t, n)}
<1>2. Ids!FoundAt(h, t) = F /\ \A n : Ids!Probe(h, t, n) = (t + n) % Cap(tb)
  <2>1. Ids!FoundAt(h, t) = F
    BY TheirFound
  <2>2. \A n : Ids!Probe(h, t, n) = (t + n) % Cap(tb)
    BY TheirFound
  <2> QED
    BY <2>1, <2>2
<1>3. i \in {Ids!Probe(h, t, n) : n \in Ids!FoundAt(h, t)} <=> \E n \in F : i = (t + n) % Cap(tb)
  <2> HIDE DEF F
  <2> QED
    BY <1>2
<1>4. tb[i].key = t => \E n \in F : i = (t + n) % Cap(tb)
  BY <1>1 DEF TableAt, Reaches, Way
<1>5. \A n \in F : tb[(t + n) % Cap(tb)].key = t
  BY DEF Way
<1> QED
  BY <1>3, <1>4, <1>5

-----------------------------------------------------------------------------
(* The invariant.                                                          *)

\* Where a thread can be, with L tables and k producers.
IdStates(L, k) ==
    [pc : {"idle"}]
    \cup [pc : {"count"}, main : 1..L]
    \cup [pc : {"room", "resize", "clear", "fit"}, main : 1..L, count : Int]
    \cup [pc : {"scan"}, main : 1..L, at : 0..k]
    \cup [pc : {"copy", "put"}, main : 1..L, n : Nat, producer : 1..k]
    \cup [pc : {"exit"}, main : 0..L, producer : 1..k]

\* The producer a thread has: its own, one it is about to enter in the table,
\* or one it is giving back.
Given(s, own) ==
    IF own # NULL THEN own
    ELSE IF s.pc \in {"put", "exit"} THEN s.producer ELSE NULL

\* A thread t in state s: its producer is active; the tables, which name it
\* only as long as it has a producer or is still removing its name, agree on
\* that one; and the slots it has tried were used before.
ThreadOK(tbs, ina, t, s, own) ==
    /\ s \in IdStates(Len(tbs), Len(ina))
    /\ own # NULL => /\ s.pc \in {"idle", "copy"}
                     /\ \E h \in 1..Len(tbs) : Has(tbs[h], t)
    /\ s.pc = "copy" => own = s.producer
    /\ s.pc \in {"copy", "put"} => ClearTo(tbs[s.main], t, s.n)
    /\ Given(s, own) # NULL => Given(s, own) \in 1..Len(ina) /\ ~ina[Given(s, own)]
    /\ \A h \in 1..Len(tbs) :
          /\ TableAt(tbs[h], t, Given(s, own))
          /\ Has(tbs[h], t) => own # NULL \/ (s.pc = "exit" /\ h <= s.main)

IdsInv ==
    /\ tables \in Seq(IdTables) /\ Len(tables) >= 1
    /\ inactive \in Seq(BOOLEAN)
    /\ hashCount \in Int
    /\ thread = [t \in HashThreads |-> thread[t]]
    /\ mine = [t \in HashThreads |-> mine[t]]
    /\ \A t \in HashThreads : ThreadOK(tables, inactive, t, thread[t], mine[t])
    /\ \A t, u \in HashThreads :
          t # u => \/ Given(thread[t], mine[t]) = NULL
                   \/ Given(thread[t], mine[t]) # Given(thread[u], mine[u])

-----------------------------------------------------------------------------
(* What a step of t does to the tables, and what the others rely on.       *)

\* A slot stays used, and only slots without a thread, or of t, change.
Grows(tb, tb2, t) ==
    /\ DOMAIN tb2 = DOMAIN tb
    /\ \A i \in DOMAIN tb :
          /\ tb[i].key # EMPTY => tb2[i].key # EMPTY
          /\ \/ tb2[i] = tb[i]
             \/ {tb[i].key, tb2[i].key} \subseteq {t, EMPTY, REUSABLE}

\* The tables grow, new ones are empty, and there may be more producers.
Extends(t, tbs, ina, tbs2, ina2) ==
    /\ tbs2 \in Seq(IdTables) /\ Len(tbs2) >= Len(tbs)
    /\ \A h \in 1..Len(tbs) : Grows(tbs[h], tbs2[h], t)
    /\ \A h \in Len(tbs) + 1..Len(tbs2) : \A i \in DOMAIN tbs2[h] : tbs2[h][i].key = EMPTY
    /\ ina2 \in Seq(BOOLEAN) /\ Len(ina2) >= Len(ina)

\* Slots tried stay used.
LEMMA ClearStays ==
    ASSUME NEW tb \in IdTables, NEW tb2 \in IdTables, NEW t, NEW u \in Nat, NEW n \in Nat,
           Grows(tb, tb2, t), ClearTo(tb, u, n)
    PROVE  ClearTo(tb2, u, n)
<1>1. Cap(tb2) = Cap(tb)
  BY DEF Grows, Cap
<1> SUFFICES ASSUME NEW m \in 0..n - 1 PROVE Way(tb2, u, m) # EMPTY
  BY DEF ClearTo
<1>2. (u + m) % Cap(tb) \in DOMAIN tb
  BY ProbeIn
<1>3. Way(tb, u, m) # EMPTY
  BY DEF ClearTo
<1> QED
  BY <1>1, <1>2, <1>3 DEF Way, Grows

\* What a search reached, it reaches still.
LEMMA ReachStays ==
    ASSUME NEW tb \in IdTables, NEW tb2 \in IdTables, NEW t, NEW u \in Nat, NEW i,
           Grows(tb, tb2, t), Reaches(tb, u, i)
    PROVE  Reaches(tb2, u, i)
<1>1. PICK n \in 0..Cap(tb) - 1 : i = (u + n) % Cap(tb) /\ ClearTo(tb, u, n)
  BY DEF Reaches
<1>2. n \in Nat
  BY TableCap
<1>3. ClearTo(tb2, u, n)
  BY <1>1, <1>2, ClearStays
<1>4. Cap(tb2) = Cap(tb)
  BY DEF Grows, Cap
<1> QED
  BY <1>1, <1>3, <1>4 DEF Reaches

\* A step of t moves no other thread in the tables.
LEMMA OthersStay ==
    ASSUME IdAssumption, NEW tb \in IdTables, NEW tb2 \in IdTables, NEW t, NEW p,
           NEW u \in HashThreads, u # t, Grows(tb, tb2, t), TableAt(tb, u, p)
    PROVE  TableAt(tb2, u, p) /\ (Has(tb2, u) <=> Has(tb, u))
<1>1. u \in Nat /\ u # EMPTY /\ u # REUSABLE
  BY DEF IdAssumption
<1>2. DOMAIN tb2 = DOMAIN tb /\ Cap(tb2) = Cap(tb)
  BY DEF Grows, Cap
<1>3. \A i \in DOMAIN tb : tb2[i].key = u \/ tb[i].key = u => tb2[i] = tb[i]
  BY <1>1 DEF Grows
<1>4. Has(tb2, u) <=> Has(tb, u)
  BY <1>2, <1>3 DEF Has
<1>5. \A i \in DOMAIN tb : Reaches(tb, u, i) => Reaches(tb2, u, i)
  BY <1>1, ReachStays
<1>6. \A i \in DOMAIN tb2 : tb2[i].key = u => tb2[i].value = p /\ Reaches(tb2, u, i)
  BY <1>2, <1>3, <1>5 DEF TableAt
<1> QED
  BY <1>4, <1>6 DEF TableAt

\* A table without threads.
LEMMA EmptyTable ==
    ASSUME IdAssumption, NEW tb, \A i \in DOMAIN tb : tb[i].key = EMPTY,
           NEW t \in HashThreads, NEW p
    PROVE  TableAt(tb, t, p) /\ ~Has(tb, t)
BY DEF IdAssumption, TableAt, Has

\* As the tables and the producers become more, a thread can be where it was.
LEMMA MoreStates ==
    ASSUME NEW L \in Nat, NEW L2 \in Nat, NEW k \in Nat, NEW k2 \in Nat, L <= L2, k <= k2,
           NEW s \in IdStates(L, k)
    PROVE  s \in IdStates(L2, k2)
<1>1. 0..L \subseteq 0..L2 /\ 1..L \subseteq 1..L2 /\ 0..k \subseteq 0..k2 /\ 1..k \subseteq 1..k2
  OBVIOUS
<1> QED
  BY <1>1, Zenon DEF IdStates

\* A step of t leaves another thread as it should be.
LEMMA OthersOK ==
    ASSUME IdAssumption, NEW tbs \in Seq(IdTables), NEW ina \in Seq(BOOLEAN), NEW t,
           NEW tbs2, NEW ina2, Extends(t, tbs, ina, tbs2, ina2),
           NEW u \in HashThreads, u # t, NEW s, NEW own, ThreadOK(tbs, ina, u, s, own),
           Given(s, own) # NULL => ~ina2[Given(s, own)]
    PROVE  ThreadOK(tbs2, ina2, u, s, own)
<1> PICK p : p = Given(s, own)
  OBVIOUS
<1>1. /\ Len(tbs) \in Nat /\ Len(tbs2) \in Nat /\ Len(ina) \in Nat /\ Len(ina2) \in Nat
      /\ Len(tbs) <= Len(tbs2) /\ Len(ina) <= Len(ina2)
  BY DEF Extends
<1>2. /\ \A h \in 1..Len(tbs) : tbs[h] \in IdTables /\ tbs2[h] \in IdTables
      /\ \A h \in 1..Len(tbs2) : tbs2[h] \in IdTables
  BY <1>1 DEF Extends
<1>3. s \in IdStates(Len(tbs2), Len(ina2))
  BY <1>1, MoreStates DEF ThreadOK
<1>4. \A h \in 1..Len(tbs) :
         TableAt(tbs2[h], u, p) /\ (Has(tbs2[h], u) <=> Has(tbs[h], u))
  BY <1>2, OthersStay DEF Extends, ThreadOK
<1>5. \A h \in Len(tbs) + 1..Len(tbs2) : TableAt(tbs2[h], u, p) /\ ~Has(tbs2[h], u)
  BY EmptyTable DEF Extends
<1>6. s.pc \in {"copy", "put"} => ClearTo(tbs2[s.main], u, s.n)
  <2> SUFFICES ASSUME s.pc \in {"copy", "put"} PROVE ClearTo(tbs2[s.main], u, s.n)
    OBVIOUS
  <2>1. s.main \in 1..Len(tbs) /\ s.n \in Nat
    BY DEF ThreadOK, IdStates
  <2>2. u \in Nat
    BY DEF IdAssumption
  <2> QED
    BY <1>2, <2>1, <2>2, ClearStays DEF Extends, ThreadOK
<1>7. \A h \in 1..Len(tbs2) :
         /\ TableAt(tbs2[h], u, p)
         /\ Has(tbs2[h], u) => own # NULL \/ (s.pc = "exit" /\ h <= s.main)
  BY <1>1, <1>4, <1>5 DEF ThreadOK
<1>8. own # NULL => s.pc \in {"idle", "copy"} /\ \E h \in 1..Len(tbs2) : Has(tbs2[h], u)
  BY <1>1, <1>4 DEF ThreadOK
<1>9. p # NULL => p \in 1..Len(ina2) /\ ~ina2[p]
  BY <1>1 DEF ThreadOK
<1> QED
  BY <1>3, <1>6, <1>7, <1>8, <1>9 DEF ThreadOK

\* p is no other thread's producer, and theirs are active.
Apart(t, ina, p) ==
    \A u \in HashThreads \ {t} :
        Given(thread[u], mine[u]) # NULL =>
            ~ina[Given(thread[u], mine[u])] /\ Given(thread[u], mine[u]) # p

\* A step that takes t to where it should be, and gives it no producer of
\* another, preserves the invariant.
LEMMA IdsStep ==
    ASSUME IdAssumption, IdsInv, NEW t \in HashThreads, NEW s, NEW own, NEW tbs, NEW ina,
           thread' = [thread EXCEPT ![t] = s], mine' = [mine EXCEPT ![t] = own],
           tables' = tbs, inactive' = ina, hashCount' \in Int,
           Extends(t, tables, inactive, tbs, ina), ThreadOK(tbs, ina, t, s, own),
           Apart(t, ina, Given(s, own))
    PROVE  IdsInv'
<1>1. /\ tables' \in Seq(IdTables) /\ Len(tables') >= 1
      /\ inactive' \in Seq(BOOLEAN)
  BY DEF IdsInv, Extends
<1>2. /\ thread' = [u \in HashThreads |-> thread'[u]]
      /\ mine' = [u \in HashThreads |-> mine'[u]]
      /\ thread'[t] = s /\ mine'[t] = own
      /\ \A u \in HashThreads \ {t} : thread'[u] = thread[u] /\ mine'[u] = mine[u]
  BY DEF IdsInv
<1>3. \A u \in HashThreads \ {t} : ThreadOK(tables', inactive', u, thread[u], mine[u])
  BY OthersOK DEF IdsInv, Apart
<1>4. \A u \in HashThreads : ThreadOK(tables', inactive', u, thread'[u], mine'[u])
  BY <1>2, <1>3
<1>5. ASSUME NEW u \in HashThreads, NEW v \in HashThreads, u # v
      PROVE  \/ Given(thread'[u], mine'[u]) = NULL
             \/ Given(thread'[u], mine'[u]) # Given(thread'[v], mine'[v])
  <2>1. CASE u = t
    BY <1>2, <1>5, <2>1 DEF Apart
  <2>2. CASE v = t
    BY <1>2, <1>5, <2>2 DEF Apart
  <2>3. CASE u # t /\ v # t
    BY <1>2, <1>5, <2>3 DEF IdsInv
  <2> QED
    BY <2>1, <2>2, <2>3
<1> QED
  BY <1>1, <1>2, <1>4, <1>5 DEF IdsInv

-----------------------------------------------------------------------------
(* The steps that leave the tables and the producers alone.                *)

LEMMA NothingGrows ==
    ASSUME IdsInv, NEW t
    PROVE  Extends(t, tables, inactive, tables, inactive)
<1>1. tables \in Seq(IdTables) /\ inactive \in Seq(BOOLEAN)
  BY DEF IdsInv
<1>2. \A h \in 1..Len(tables) : Grows(tables[h], tables[h], t)
  BY DEF Grows
<1> QED
  BY <1>1, <1>2 DEF Extends

LEMMA QuietStep ==
    ASSUME IdAssumption, IdsInv, NEW t \in HashThreads, NEW s, NEW own,
           thread' = [thread EXCEPT ![t] = s], mine' = [mine EXCEPT ![t] = own],
           hashCount' \in Int, tables' = tables, inactive' = inactive,
           ThreadOK(tables, inactive, t, s, own),
           Given(s, own) \in {NULL, Given(thread[t], mine[t])}
    PROVE  IdsInv'
<1>1. Extends(t, tables, inactive, tables, inactive)
  BY NothingGrows
<1>2. Apart(t, inactive, Given(s, own))
  BY DEF IdsInv, ThreadOK, Apart
<1> QED
  BY <1>1, <1>2, IdsStep

Waiting == {"idle", "count", "room", "resize", "clear", "fit", "scan"}

\* A thread without a producer is in no table, unless it is exiting.
LEMMA NotNamed ==
    ASSUME NEW tbs, NEW ina, NEW t, NEW s, NEW own, ThreadOK(tbs, ina, t, s, own),
           own = NULL, s.pc # "exit"
    PROVE  \A h \in 1..Len(tbs) : ~Has(tbs[h], t)
BY DEF ThreadOK

LEMMA AtNothing ==
    ASSUME NEW tb, NEW t, ~Has(tb, t), NEW p
    PROVE  TableAt(tb, t, p)
BY DEF TableAt, Has

\* While it waits for a producer, a thread has none.
LEMMA HasNone ==
    ASSUME NEW tbs, NEW ina, NEW t, NEW s, NEW own, ThreadOK(tbs, ina, t, s, own),
           s.pc \notin {"idle", "copy"}
    PROVE  own = NULL
BY DEF ThreadOK

LEMMA WaitingOK ==
    ASSUME NEW tbs, NEW ina, NEW t, \A h \in 1..Len(tbs) : ~Has(tbs[h], t),
           NEW s, s.pc \in Waiting, s \in IdStates(Len(tbs), Len(ina))
    PROVE  ThreadOK(tbs, ina, t, s, NULL) /\ Given(s, NULL) = NULL
<1>1. Given(s, NULL) = NULL
  BY DEF Given, Waiting
<1>2. \A h \in 1..Len(tbs) : TableAt(tbs[h], t, NULL)
  BY AtNothing
<1> QED
  BY <1>1, <1>2 DEF ThreadOK, Waiting

\* A thread that waits for a producer waits on.
LEMMA WaitStep ==
    ASSUME IdAssumption, IdsInv, NEW t \in HashThreads, NEW s,
           thread[t].pc \in Waiting, thread[t].pc # "idle" \/ mine[t] = NULL,
           thread' = [thread EXCEPT ![t] = s], mine' = mine,
           hashCount' \in Int, tables' = tables, inactive' = inactive,
           s.pc \in Waiting, s \in IdStates(Len(tables), Len(inactive))
    PROVE  IdsInv'
<1>1. ThreadOK(tables, inactive, t, thread[t], mine[t])
  BY DEF IdsInv
<1>2. mine[t] = NULL
  BY <1>1, HasNone DEF Waiting
<1>3. mine' = [mine EXCEPT ![t] = NULL]
  BY <1>2 DEF IdsInv
<1>4. thread[t].pc # "exit"
  BY DEF Waiting
<1>5. ThreadOK(tables, inactive, t, s, NULL) /\ Given(s, NULL) = NULL
  BY <1>1, <1>2, <1>4, NotNamed, WaitingOK
<1> QED
  BY <1>3, <1>5, QuietStep

\* The lengths, and where a thread is.
LEMMA StateTypes ==
    ASSUME IdsInv, NEW t \in HashThreads
    PROVE  /\ Len(tables) \in Nat \ {0} /\ Len(inactive) \in Nat
           /\ thread[t] \in IdStates(Len(tables), Len(inactive))
           /\ \A h \in 1..Len(tables) : tables[h] \in IdTables
BY DEF IdsInv, ThreadOK

LEMMA CountStep ==
    ASSUME IdAssumption, IdsInv, NEW t \in HashThreads, Ids!CountSlot(t)
    PROVE  IdsInv'
<1> PICK s : s = thread[t]
  OBVIOUS
<1> PICK L \in Nat, k \in Nat : L = Len(tables) /\ k = Len(inactive)
  BY StateTypes
<1> PICK c \in Int : c = hashCount
  BY DEF IdsInv
<1>1. s \in IdStates(L, k) /\ s.pc = "count"
  BY StateTypes DEF Ids!CountSlot
<1>2. s.main \in 1..L
  BY <1>1 DEF IdStates
<1> PICK r : r = [pc |-> "room", main |-> s.main, count |-> c + 1]
  OBVIOUS
<1>3. r \in IdStates(L, k) /\ r.pc \in Waiting
  BY <1>2 DEF IdStates, Waiting
<1>4. thread' = [thread EXCEPT ![t] = r] /\ mine' = mine /\ hashCount' = c + 1
      /\ tables' = tables /\ inactive' = inactive
  BY DEF Ids!CountSlot, Ids!Go
<1>5. thread[t].pc \in Waiting /\ thread[t].pc # "idle"
  BY <1>1 DEF Waiting
<1>6. hashCount' \in Int
  BY <1>4
<1> QED
  BY <1>3, <1>4, <1>5, <1>6, WaitStep

LEMMA StartResizeStep ==
    ASSUME IdAssumption, IdsInv, NEW t \in HashThreads, Ids!StartResize(t)
    PROVE  IdsInv'
<1> PICK s : s = thread[t]
  OBVIOUS
<1> PICK L \in Nat, k \in Nat : L = Len(tables) /\ k = Len(inactive)
  BY StateTypes
<1>1. s \in IdStates(L, k) /\ s.pc = "room"
  BY StateTypes DEF Ids!StartResize
<1> PICK r : r = [s EXCEPT !.pc = "resize"]
  OBVIOUS
<1>3. r \in IdStates(L, k) /\ r.pc \in Waiting
  BY <1>1 DEF IdStates, Waiting
<1>4. thread' = [thread EXCEPT ![t] = r] /\ mine' = mine /\ hashCount' = hashCount
      /\ tables' = tables /\ inactive' = inactive
  BY DEF Ids!StartResize, Ids!Go
<1>5. thread[t].pc \in Waiting /\ thread[t].pc # "idle" /\ hashCount \in Int
  BY <1>1 DEF Waiting, IdsInv
<1> QED
  BY <1>3, <1>4, <1>5, WaitStep

LEMMA ClearStep ==
    ASSUME IdAssumption, IdsInv, NEW t \in HashThreads, Ids!ClearFlag(t)
    PROVE  IdsInv'
<1> PICK s : s = thread[t]
  OBVIOUS
<1> PICK L \in Nat, k \in Nat : L = Len(tables) /\ k = Len(inactive)
  BY StateTypes
<1>1. s \in IdStates(L, k) /\ s.pc = "clear"
  BY StateTypes DEF Ids!ClearFlag
<1> PICK r : r = [s EXCEPT !.pc = "fit"]
  OBVIOUS
<1>3. r \in IdStates(L, k) /\ r.pc \in Waiting
  BY <1>1 DEF IdStates, Waiting
<1>4. thread' = [thread EXCEPT ![t] = r] /\ mine' = mine /\ hashCount' = hashCount
      /\ tables' = tables /\ inactive' = inactive
  BY DEF Ids!ClearFlag, Ids!Go
<1>5. thread[t].pc \in Waiting /\ thread[t].pc # "idle" /\ hashCount \in Int
  BY <1>1 DEF Waiting, IdsInv
<1> QED
  BY <1>3, <1>4, <1>5, WaitStep

LEMMA OutOfMemoryStep ==
    ASSUME IdAssumption, IdsInv, NEW t \in HashThreads, Ids!OutOfMemory(t)
    PROVE  IdsInv'
<1> PICK r : r = [pc |-> "idle"]
  OBVIOUS
<1>1. thread' = [thread EXCEPT ![t] = r] /\ mine' = mine
      /\ tables' = tables /\ inactive' = inactive /\ hashCount' = hashCount - 1
  BY DEF Ids!OutOfMemory, Ids!Go, Ids!Idle
<1>2. r \in IdStates(Len(tables), Len(inactive)) /\ r.pc \in Waiting
  BY DEF IdStates, Waiting
<1>3. thread[t].pc \in Waiting /\ thread[t].pc # "idle"
  BY DEF Ids!OutOfMemory, Waiting
<1>4. hashCount' \in Int
  BY <1>1 DEF IdsInv
<1> QED
  BY <1>1, <1>2, <1>3, <1>4, WaitStep

LEMMA FitStep ==
    ASSUME IdAssumption, IdsInv, NEW t \in HashThreads, Ids!Fit(t)
    PROVE  IdsInv'
<1> PICK s : s = thread[t]
  OBVIOUS
<1> PICK L \in Nat \ {0}, k \in Nat : L = Len(tables) /\ k = Len(inactive)
  BY StateTypes
<1>1. s \in IdStates(L, k) /\ s.pc \in {"fit", "room"}
  BY StateTypes DEF Ids!Fit
<1>2. s.main \in 1..L /\ s.count \in Int
  BY <1>1 DEF IdStates
<1> DEFINE a == [pc |-> "scan", main |-> s.main, at |-> k]
           b == [pc |-> "room", main |-> L, count |-> s.count]
<1>3. /\ a \in IdStates(L, k) /\ a.pc \in Waiting
      /\ b \in IdStates(L, k) /\ b.pc \in Waiting
  BY <1>2 DEF IdStates, Waiting
<1>4. \E r \in {a, b} : thread' = [thread EXCEPT ![t] = r]
  BY DEF Ids!Fit, Ids!Go
<1> HIDE DEF a, b
<1>5. PICK r \in IdStates(L, k) : thread' = [thread EXCEPT ![t] = r] /\ r.pc \in Waiting
  BY <1>3, <1>4
<1>6. mine' = mine /\ tables' = tables /\ inactive' = inactive /\ hashCount' = hashCount
  BY DEF Ids!Fit
<1>7. thread[t].pc \in Waiting /\ thread[t].pc # "idle" /\ hashCount \in Int
  BY <1>1 DEF Waiting, IdsInv
<1> QED
  BY <1>5, <1>6, <1>7, WaitStep

-----------------------------------------------------------------------------
(* The search of the tables.                                               *)

\* A search finds the tables that name t, and its producer in them.
LEMMA SearchMeaning ==
    ASSUME IdAssumption, IdsInv, NEW t \in HashThreads
    PROVE  /\ Ids!Holding(t) = {h \in 1..Len(tables) : Has(tables[h], t)}
           /\ \A h \in Ids!Holding(t) : Ids!ValueIn(h, t) = Given(thread[t], mine[t])
<1>1. DOMAIN tables = 1..Len(tables)
  BY DEF IdsInv
<1>2. \A h \in 1..Len(tables) :
         tables[h] \in IdTables /\ TableAt(tables[h], t, Given(thread[t], mine[t]))
  BY StateTypes DEF IdsInv, ThreadOK
<1>3. \A h \in 1..Len(tables) :
         /\ Ids!FoundAt(h, t) # {} <=> Has(tables[h], t)
         /\ Has(tables[h], t) => Ids!ValueIn(h, t) = Given(thread[t], mine[t])
  BY <1>2, SearchFinds
<1> QED
  BY <1>1, <1>3 DEF Ids!Holding

\* The newest of some tables is one of them.
LEMMA NewestIn ==
    ASSUME NEW L \in Nat, NEW S, S \subseteq 1..L, S # {}
    PROVE  Ids!Max(S) \in S
<1> DEFINE R == {L - h : h \in S}
<1>1. R \subseteq Nat /\ R # {}
  <2>1. \A h \in S : L - h \in Nat
    OBVIOUS
  <2> QED
    BY <2>1
<1>2. \E n \in R : \A m \in R : n <= m
  <2> HIDE DEF R
  <2> QED
    BY <1>1, LeastNumber, Zenon
<1>3. PICK h \in S : \A m \in R : L - h <= m
  BY <1>2
<1>4. \A g \in S : h >= g
  <2> SUFFICES ASSUME NEW g \in S PROVE h >= g
    OBVIOUS
  <2>1. L - h <= L - g
    BY <1>3
  <2> QED
    BY <2>1
<1> QED
  BY <1>4 DEF Ids!Max

\* A thread that has come back finds its producer.
LEMMA ComesBack ==
    ASSUME IdAssumption, IdsInv, NEW t \in HashThreads, thread[t].pc = "idle"
    PROVE  /\ Ids!Holding(t) = {} => mine[t] = NULL
           /\ Ids!Holding(t) # {} =>
                 /\ mine[t] # NULL
                 /\ Ids!Max(Ids!Holding(t)) \in 1..Len(tables)
                 /\ Ids!ValueIn(Ids!Max(Ids!Holding(t)), t) = mine[t]
<1> PICK H : H = Ids!Holding(t)
  OBVIOUS
<1>1. /\ H = {h \in 1..Len(tables) : Has(tables[h], t)}
      /\ \A h \in H : Ids!ValueIn(h, t) = Given(thread[t], mine[t])
  BY SearchMeaning
<1>2. /\ mine[t] # NULL => \E h \in 1..Len(tables) : Has(tables[h], t)
      /\ \A h \in 1..Len(tables) : Has(tables[h], t) => mine[t] # NULL
  BY DEF IdsInv, ThreadOK
<1>3. H # {} => Ids!Max(H) \in H
  <2>1. Len(tables) \in Nat /\ H \subseteq 1..Len(tables)
    BY <1>1, StateTypes
  <2> QED
    BY <2>1, NewestIn
<1>4. mine[t] # NULL => Given(thread[t], mine[t]) = mine[t]
  BY DEF Given
<1> QED
  BY <1>1, <1>2, <1>3, <1>4

LEMMA SearchStep ==
    ASSUME IdAssumption, IdsInv, NEW t \in HashThreads, Ids!Search(t)
    PROVE  IdsInv'
<1> PICK L \in Nat \ {0}, k \in Nat : L = Len(tables) /\ k = Len(inactive)
  BY StateTypes
<1> PICK own : own = mine[t]
  OBVIOUS
<1>1. thread[t] = [pc |-> "idle"] /\ thread[t].pc = "idle"
  BY DEF Ids!Search, Ids!Idle
<1>2. ThreadOK(tables, inactive, t, thread[t], own) /\ hashCount \in Int
  BY DEF IdsInv
<1>3. tables' = tables /\ inactive' = inactive /\ hashCount' = hashCount
  BY DEF Ids!Search
<1>4. CASE Ids!Holding(t) = {}
  <2> PICK r : r = [pc |-> "count", main |-> L]
    OBVIOUS
  <2>1. r \in IdStates(L, k) /\ r.pc \in Waiting
    BY DEF IdStates, Waiting
  <2>2. thread' = [thread EXCEPT ![t] = r] /\ mine' = mine
    BY <1>4 DEF Ids!Search, Ids!Go
  <2>3. thread[t].pc \in Waiting /\ mine[t] = NULL
    BY <1>1, <1>4, ComesBack DEF Waiting
  <2> QED
    BY <1>2, <1>3, <2>1, <2>2, <2>3, WaitStep
<1>5. CASE Ids!Holding(t) # {}
  <2> PICK h : h = Ids!Max(Ids!Holding(t))
    OBVIOUS
  <2>1. own # NULL /\ Ids!ValueIn(h, t) = own
    BY <1>1, <1>5, ComesBack
  <2>2. mine = [mine EXCEPT ![t] = own]
    BY DEF IdsInv
  <2>3. CASE h = L
    <3> PICK r : r = [pc |-> "idle"]
      OBVIOUS
    <3>1. thread' = [thread EXCEPT ![t] = r] /\ mine' = [mine EXCEPT ![t] = own]
      BY <1>5, <2>1, <2>3 DEF Ids!Search, Ids!Return, Ids!Go, Ids!Idle
    <3>2. r = thread[t]
      BY <1>1
    <3>3. ThreadOK(tables, inactive, t, r, own) /\ Given(r, own) = Given(thread[t], mine[t])
      BY <1>2, <3>2
    <3> QED
      BY <1>2, <1>3, <3>1, <3>3, QuietStep
  <2>4. CASE h # L
    <3> PICK r : r = [pc |-> "copy", main |-> L, n |-> 0, producer |-> own]
      OBVIOUS
    <3>1. thread' = [thread EXCEPT ![t] = r] /\ mine' = mine
      BY <1>5, <2>1, <2>4 DEF Ids!Search, Ids!Go
    <3>2. Given(r, own) = own /\ Given(thread[t], mine[t]) = own
      BY <2>1 DEF Given
    <3>3. own \in 1..k
      BY <1>2, <2>1, <3>2 DEF ThreadOK
    <3>4. r \in IdStates(L, k)
      BY <3>3 DEF IdStates
    <3>5. ClearTo(tables[r.main], t, r.n)
      BY DEF ClearTo
    <3>6. ThreadOK(tables, inactive, t, r, own)
      BY <1>2, <2>1, <3>2, <3>4, <3>5 DEF ThreadOK
    <3> QED
      BY <1>2, <1>3, <2>2, <3>1, <3>2, <3>6, QuietStep
  <2> QED
    BY <2>3, <2>4
<1> QED
  BY <1>4, <1>5

-----------------------------------------------------------------------------
(* The steps that give a thread a producer.                                *)

\* Nobody else's producer changes hands as long as the flags stay.
LEMMA ApartStays ==
    ASSUME IdsInv, NEW t \in HashThreads, NEW p \in {NULL, Given(thread[t], mine[t])}
    PROVE  Apart(t, inactive, p)
BY DEF IdsInv, ThreadOK, Apart

LEMMA RecycleStep ==
    ASSUME IdAssumption, IdsInv, NEW t \in HashThreads, Ids!Recycle(t)
    PROVE  IdsInv'
<1> PICK s : s = thread[t]
  OBVIOUS
<1> PICK L \in Nat \ {0}, k \in Nat : L = Len(tables) /\ k = Len(inactive)
  BY StateTypes
<1> PICK p : p = s.at
  OBVIOUS
<1>1. s \in IdStates(L, k) /\ s.pc = "scan" /\ p > 0
  BY StateTypes DEF Ids!Recycle
<1>2. s.main \in 1..L /\ p \in 1..k
  BY <1>1 DEF IdStates
<1>3. tables' = tables /\ mine' = mine /\ hashCount' = hashCount /\ hashCount \in Int
  BY DEF Ids!Recycle, IdsInv
<1>4. thread[t].pc \in Waiting /\ thread[t].pc # "idle"
  BY <1>1 DEF Waiting
<1>5. CASE inactive[p]
  <2> PICK r : r = [pc |-> "put", main |-> s.main, n |-> 0, producer |-> p]
    OBVIOUS
  <2> PICK ina2 : ina2 = [inactive EXCEPT ![p] = FALSE]
    OBVIOUS
  <2>1. thread' = [thread EXCEPT ![t] = r] /\ inactive' = ina2
    BY <1>5 DEF Ids!Recycle, Ids!Put, Ids!Go
  <2>2. ThreadOK(tables, inactive, t, s, mine[t]) /\ mine[t] = NULL
    BY <1>1, HasNone DEF IdsInv
  <2>3. \A h \in 1..L : ~Has(tables[h], t) /\ TableAt(tables[h], t, p)
    BY <1>1, <2>2, NotNamed, AtNothing
  <2>4. /\ ina2 \in Seq(BOOLEAN) /\ Len(ina2) = k /\ ~ina2[p]
        /\ \A q \in 1..k : q # p => ina2[q] = inactive[q]
    BY <1>2 DEF IdsInv
  <2>5. Given(r, NULL) = p
    BY DEF Given
  <2>6. r \in IdStates(L, k)
    BY <1>2 DEF IdStates
  <2>7. ClearTo(tables[r.main], t, r.n)
    BY DEF ClearTo
  <2>8. ThreadOK(tables, ina2, t, r, NULL)
    BY <1>2, <2>3, <2>4, <2>5, <2>6, <2>7 DEF ThreadOK
  <2>9. Apart(t, ina2, p)
    BY <1>5, <2>4 DEF IdsInv, ThreadOK, Apart
  <2>10. Extends(t, tables, inactive, tables, ina2)
    BY <2>4, NothingGrows DEF Extends
  <2> PICK own : own = NULL
    OBVIOUS
  <2>11. mine' = [mine EXCEPT ![t] = own]
    BY <1>3, <2>2 DEF IdsInv
  <2>12. ThreadOK(tables, ina2, t, r, own) /\ Apart(t, ina2, Given(r, own))
    BY <2>5, <2>8, <2>9
  <2> QED
    BY <1>3, <2>1, <2>10, <2>11, <2>12, IdsStep
<1>6. CASE ~inactive[p]
  <2> PICK r : r = [s EXCEPT !.at = p - 1]
    OBVIOUS
  <2>1. thread' = [thread EXCEPT ![t] = r] /\ inactive' = inactive
    BY <1>6 DEF Ids!Recycle, Ids!Go
  <2>2. p - 1 \in 0..k
    BY <1>2
  <2>3. r \in IdStates(L, k) /\ r.pc \in Waiting
    BY <1>1, <2>2 DEF IdStates, Waiting
  <2> QED
    BY <1>3, <1>4, <2>1, <2>3, WaitStep
<1> QED
  BY <1>5, <1>6

LEMMA CreateStep ==
    ASSUME IdAssumption, IdsInv, NEW t \in HashThreads, Ids!Create(t)
    PROVE  IdsInv'
<1> PICK s : s = thread[t]
  OBVIOUS
<1> PICK L \in Nat \ {0}, k \in Nat : L = Len(tables) /\ k = Len(inactive)
  BY StateTypes
<1> PICK p \in Nat : p = k + 1
  OBVIOUS
<1>1. s \in IdStates(L, k) /\ s.pc = "scan"
  BY StateTypes DEF Ids!Create
<1>2. s.main \in 1..L /\ p # NULL
  BY <1>1 DEF IdStates, IdAssumption
<1>3. tables' = tables /\ mine' = mine /\ hashCount' = hashCount /\ hashCount \in Int
  BY DEF Ids!Create, IdsInv
<1> PICK r : r = [pc |-> "put", main |-> s.main, n |-> 0, producer |-> p]
  OBVIOUS
<1> PICK ina2 : ina2 = Append(inactive, FALSE)
  OBVIOUS
<1>4. /\ ina2 \in Seq(BOOLEAN) /\ Len(ina2) = p /\ ~ina2[p]
      /\ \A q \in 1..k : ina2[q] = inactive[q]
  BY DEF IdsInv
<1>5. thread' = [thread EXCEPT ![t] = r] /\ inactive' = ina2
  BY <1>4 DEF Ids!Create, Ids!Put, Ids!Go
<1>6. ThreadOK(tables, inactive, t, s, mine[t]) /\ mine[t] = NULL
  BY <1>1, HasNone DEF IdsInv
<1>7. \A h \in 1..L : ~Has(tables[h], t) /\ TableAt(tables[h], t, p)
  BY <1>1, <1>6, NotNamed, AtNothing
<1>8. Given(r, NULL) = p
  BY DEF Given
<1>9. r \in IdStates(L, p)
  BY <1>2 DEF IdStates
<1>10. ClearTo(tables[r.main], t, r.n)
  BY DEF ClearTo
<1>11. ThreadOK(tables, ina2, t, r, NULL)
  BY <1>2, <1>4, <1>7, <1>8, <1>9, <1>10 DEF ThreadOK
<1>12. Apart(t, ina2, p)
  BY <1>4 DEF IdsInv, ThreadOK, Apart
<1>13. Extends(t, tables, inactive, tables, ina2)
  <2>1. Len(ina2) >= Len(inactive)
    BY <1>4
  <2> QED
    BY <1>4, <2>1, NothingGrows DEF Extends
<1> PICK own : own = NULL
  OBVIOUS
<1>14. mine' = [mine EXCEPT ![t] = own]
  BY <1>3, <1>6 DEF IdsInv
<1>15. ThreadOK(tables, ina2, t, r, own) /\ Apart(t, ina2, Given(r, own))
  BY <1>8, <1>11, <1>12
<1> QED
  BY <1>3, <1>5, <1>13, <1>14, <1>15, IdsStep

-----------------------------------------------------------------------------
(* The steps that write the tables.                                        *)

\* A table with slot i written.
Written(tb, i, slot) == [tb EXCEPT ![i] = slot]

\* A slot without a thread may be written.
LEMMA WrittenGrows ==
    ASSUME IdAssumption, NEW tb \in IdTables, NEW t \in HashThreads, NEW i \in DOMAIN tb,
           tb[i].key \in {EMPTY, REUSABLE}, NEW p \in Nat
    PROVE  /\ Written(tb, i, [key |-> t, value |-> p]) \in IdTables
           /\ Grows(tb, Written(tb, i, [key |-> t, value |-> p]), t)
<1> PICK slot : slot = [key |-> t, value |-> p]
  OBVIOUS
<1>1. slot \in IdSlots /\ slot.key = t /\ t # EMPTY
  BY DEF IdSlots, IdAssumption
<1>2. PICK n \in Nat \ {0} : tb \in [0..n - 1 -> IdSlots]
  BY DEF IdTables
<1> PICK tb2 : tb2 = Written(tb, i, slot)
  OBVIOUS
<1>3. tb2 \in [0..n - 1 -> IdSlots]
  BY <1>1, <1>2 DEF Written
<1>4. tb2 \in IdTables
  BY <1>3 DEF IdTables
<1>5. /\ DOMAIN tb2 = DOMAIN tb /\ tb2[i] = slot
      /\ \A j \in DOMAIN tb : j # i => tb2[j] = tb[j]
  BY <1>2 DEF Written
<1>6. Grows(tb, tb2, t)
  BY <1>1, <1>5 DEF Grows
<1> QED
  BY <1>4, <1>6

\* A slot that t writes after a probe for t is found by a search.
LEMMA WrittenFound ==
    ASSUME IdAssumption, NEW tb \in IdTables, NEW t \in HashThreads, NEW n \in Nat, NEW p \in Nat,
           NEW i, i = (t + n) % Cap(tb), tb[i].key \in {EMPTY, REUSABLE},
           ClearTo(tb, t, n), TableAt(tb, t, p), NEW tb2,
           tb2 = Written(tb, i, [key |-> t, value |-> p])
    PROVE  TableAt(tb2, t, p) /\ Has(tb2, t)
<1>1. t \in Nat /\ t # EMPTY
  BY DEF IdAssumption
<1>2. i \in DOMAIN tb
  BY <1>1, ProbeIn
<1>3. tb2 \in IdTables /\ Grows(tb, tb2, t)
  BY <1>2, WrittenGrows
<1>4. /\ DOMAIN tb2 = DOMAIN tb /\ tb2[i].key = t /\ tb2[i].value = p
      /\ \A j \in DOMAIN tb : j # i => tb2[j] = tb[j]
  BY <1>2, TableCap DEF Written
<1> PICK C \in Nat \ {0} : C = Cap(tb)
  BY TableCap
<1>5. Cap(tb2) = C
  BY <1>4 DEF Cap
<1>6. Reaches(tb2, t, i)
  <2> PICK m : m = n % C
    OBVIOUS
  <2>1. m \in 0..C - 1 /\ m <= n
    <3>1. m \in 0..C - 1
      BY DivMod
    <3>2. n \in 0..C - 1 => m = n
      BY SmallRemainder
    <3> QED
      BY <3>1, <3>2
  <2>2. (t + m) % C = (t + n) % C
    <3>1. (m + t) % C = (n + t) % C
      BY <1>1, RemainderFirst
    <3>2. m + t = t + m /\ n + t = t + n
      BY <1>1, <2>1
    <3> QED
      BY <3>1, <3>2
  <2>3. ClearTo(tb2, t, n)
    BY <1>1, <1>3, ClearStays
  <2>4. 0..m - 1 \subseteq 0..n - 1
    BY <2>1
  <2>5. ClearTo(tb2, t, m)
    BY <2>3, <2>4 DEF ClearTo
  <2> QED
    BY <1>5, <2>1, <2>2, <2>5 DEF Reaches
<1>7. ASSUME NEW j \in DOMAIN tb2, tb2[j].key = t
      PROVE  tb2[j].value = p /\ Reaches(tb2, t, j)
  <2>1. CASE j = i
    BY <1>4, <1>6, <2>1
  <2>2. CASE j # i
    <3>1. j \in DOMAIN tb /\ tb2[j] = tb[j]
      BY <1>4, <2>2
    <3>2. tb[j].value = p /\ Reaches(tb, t, j)
      BY <1>7, <3>1 DEF TableAt
    <3> QED
      BY <1>1, <1>3, <3>1, <3>2, ReachStays
  <2> QED
    BY <2>1, <2>2
<1> QED
  BY <1>2, <1>4, <1>7 DEF TableAt, Has

\* One table of several changes.
Replaced(tbs, h, tb) == tbs = [tables EXCEPT ![h] = tb]

LEMMA OneReplaced ==
    ASSUME IdsInv, NEW h \in 1..Len(tables), NEW tb, NEW tbs, Replaced(tbs, h, tb)
    PROVE  /\ Len(tbs) = Len(tables) /\ tbs[h] = tb
           /\ \A g \in 1..Len(tables) : g # h => tbs[g] = tables[g]
BY DEF IdsInv, Replaced

LEMMA OneGrows ==
    ASSUME IdsInv, NEW t, NEW h \in 1..Len(tables), NEW tb \in IdTables,
           Grows(tables[h], tb, t), NEW tbs, Replaced(tbs, h, tb)
    PROVE  Extends(t, tables, inactive, tbs, inactive)
<1>1. /\ Len(tbs) = Len(tables) /\ tbs[h] = tb
      /\ \A g \in 1..Len(tables) : g # h => tbs[g] = tables[g]
  BY OneReplaced
<1>2. tbs \in Seq(IdTables)
  BY DEF IdsInv, Replaced
<1>3. \A g \in 1..Len(tables) : Grows(tables[g], tbs[g], t)
  BY <1>1 DEF Grows
<1> QED
  BY <1>1, <1>2, <1>3 DEF Extends, IdsInv

\* A thread enters its producer in a table, or tries the next slot.
LEMMA TryStep ==
    ASSUME IdAssumption, IdsInv, NEW t \in HashThreads, thread[t].pc \in {"copy", "put"},
           Ids!TrySlot(t), hashCount' \in Int, inactive' = inactive
    PROVE  IdsInv'
<1> PICK s : s = thread[t]
  OBVIOUS
<1> PICK h : h = s.main
  OBVIOUS
<1> PICK n : n = s.n
  OBVIOUS
<1> PICK p : p = s.producer
  OBVIOUS
<1> PICK L \in Nat \ {0}, k \in Nat : L = Len(tables) /\ k = Len(inactive)
  BY StateTypes
<1>1. s \in IdStates(L, k) /\ s.pc \in {"copy", "put"} /\ ThreadOK(tables, inactive, t, s, mine[t])
  BY StateTypes DEF IdsInv
<1>2. h \in 1..L /\ n \in Nat /\ p \in 1..k
  BY <1>1 DEF IdStates
<1> PICK tb : tb = tables[h]
  OBVIOUS
<1>3. tb \in IdTables /\ ClearTo(tb, t, n) /\ t \in Nat /\ p # NULL
  BY <1>1, <1>2, StateTypes DEF ThreadOK, IdAssumption
<1>4. Given(s, mine[t]) = p
  BY <1>1, <1>3, HasNone DEF Given, ThreadOK
<1> PICK i : i = (t + n) % Cap(tb)
  OBVIOUS
<1>5. Ids!Probe(h, t, n) = i
  BY TheirCap DEF Ids!Probe
<1>6. i \in DOMAIN tb
  BY <1>2, <1>3, ProbeIn
<1>7. CASE tb[i].key \in {EMPTY, REUSABLE}
  <2>w. PICK tb2 : tb2 = Written(tb, i, [key |-> t, value |-> p])
    OBVIOUS
  <2>r. PICK tbs : Replaced(tbs, h, tb2)
    BY DEF Replaced
  <2> PICK r : r = [pc |-> "idle"]
    OBVIOUS
  <2>1. tables' = tbs /\ thread' = [thread EXCEPT ![t] = r] /\ mine' = [mine EXCEPT ![t] = p]
    BY <1>5, <1>7, <2>w, <2>r DEF Ids!TrySlot, Ids!Return, Ids!Go, Ids!Idle, Written, Replaced
  <2>2. tb2 \in IdTables /\ Grows(tb, tb2, t)
    BY <1>2, <1>3, <1>6, <1>7, <2>w, WrittenGrows
  <2>3. TableAt(tb, t, p)
    BY <1>1, <1>2, <1>4 DEF ThreadOK
  <2>4. TableAt(tb2, t, p) /\ Has(tb2, t)
    BY <1>2, <1>3, <1>7, <2>3, <2>w, WrittenFound
  <2>5. /\ Extends(t, tables, inactive, tbs, inactive)
        /\ Len(tbs) = L /\ tbs[h] = tb2
        /\ \A g \in 1..L : g # h => tbs[g] = tables[g]
    <3>1. h \in 1..Len(tables) /\ Grows(tables[h], tb2, t)
      BY <1>2, <2>2
    <3>2. Extends(t, tables, inactive, tbs, inactive)
      BY <2>2, <2>r, <3>1, OneGrows
    <3>3. /\ Len(tbs) = Len(tables) /\ tbs[h] = tb2
          /\ \A g \in 1..Len(tables) : g # h => tbs[g] = tables[g]
      BY <2>r, <3>1, OneReplaced
    <3> QED
      BY <3>2, <3>3
  <2>6. Given(r, p) = p
    BY <1>3 DEF Given
  <2>7. r \in IdStates(L, k) /\ r.pc = "idle"
    BY DEF IdStates
  <2>8. \A g \in 1..L : TableAt(tbs[g], t, p)
    BY <1>1, <1>4, <2>4, <2>5 DEF ThreadOK
  <2>9. p \in 1..k /\ ~inactive[p]
    BY <1>1, <1>2, <1>3, <1>4 DEF ThreadOK
  <2>10. ThreadOK(tbs, inactive, t, r, p)
    <3>1. h \in 1..Len(tbs) /\ Has(tbs[h], t)
      BY <1>2, <2>4, <2>5
    <3>2. r \in IdStates(Len(tbs), Len(inactive))
      BY <2>5, <2>7
    <3>3. Given(r, p) # NULL => Given(r, p) \in 1..Len(inactive) /\ ~inactive[Given(r, p)]
      BY <2>6, <2>9
    <3>4. \A g \in 1..Len(tbs) : TableAt(tbs[g], t, Given(r, p))
      BY <2>5, <2>6, <2>8
    <3> QED
      BY <1>3, <2>7, <3>1, <3>2, <3>3, <3>4 DEF ThreadOK
  <2>11. Apart(t, inactive, Given(r, p))
    BY <1>4, <2>6, ApartStays
  <2> QED
    BY <2>1, <2>5, <2>10, <2>11, IdsStep
<1>8. CASE tb[i].key \notin {EMPTY, REUSABLE}
  <2> PICK r : r = [s EXCEPT !.n = n + 1]
    OBVIOUS
  <2> PICK own : own = mine[t]
    OBVIOUS
  <2>1. thread' = [thread EXCEPT ![t] = r] /\ tables' = tables /\ mine' = mine
    BY <1>5, <1>8 DEF Ids!TrySlot, Ids!Go
  <2>2. r \in IdStates(L, k) /\ r.pc = s.pc /\ r.main = h /\ r.n = n + 1 /\ r.producer = p
    <3>1. s \in [pc : {"copy", "put"}, main : 1..L, n : Nat, producer : 1..k]
      BY <1>1 DEF IdStates
    <3>2. n + 1 \in Nat
      BY <1>2
    <3>3. /\ r \in [pc : {"copy", "put"}, main : 1..L, n : Nat, producer : 1..k]
          /\ r.pc = s.pc /\ r.main = h /\ r.n = n + 1 /\ r.producer = p
      BY <3>1, <3>2
    <3> QED
      BY <3>3 DEF IdStates
  <2>3. ClearTo(tb, t, n + 1)
    <3>1. Way(tb, t, n) # EMPTY
      BY <1>8 DEF Way
    <3>2. \A m \in 0..(n + 1) - 1 : m \in 0..n - 1 \/ m = n
      BY <1>2
    <3> QED
      BY <1>3, <3>1, <3>2 DEF ClearTo
  <2>4. Given(r, own) = Given(s, own)
    BY <2>2 DEF Given
  <2>5. ThreadOK(tables, inactive, t, r, own)
    BY <1>1, <2>2, <2>3, <2>4 DEF ThreadOK
  <2>6. mine' = [mine EXCEPT ![t] = own]
    BY <2>1 DEF IdsInv
  <2> QED
    BY <2>1, <2>4, <2>5, <2>6, QuietStep
<1> QED
  BY <1>7, <1>8

LEMMA CopyStep ==
    ASSUME IdAssumption, IdsInv, NEW t \in HashThreads, Ids!Copy(t)
    PROVE  IdsInv'
<1>1. thread[t].pc \in {"copy", "put"} /\ Ids!TrySlot(t) /\ hashCount' \in Int /\ inactive' = inactive
  BY DEF Ids!Copy, IdsInv
<1> QED
  BY <1>1, TryStep

LEMMA PutStep ==
    ASSUME IdAssumption, IdsInv, NEW t \in HashThreads, Ids!PutSlot(t)
    PROVE  IdsInv'
<1>1. thread[t].pc \in {"copy", "put"} /\ Ids!TrySlot(t) /\ inactive' = inactive
  BY DEF Ids!PutSlot
<1>2. hashCount' \in {hashCount, hashCount - 1} /\ hashCount \in Int
  BY DEF Ids!PutSlot, IdsInv
<1>3. hashCount' \in Int
  BY <1>2
<1> QED
  BY <1>1, <1>3, TryStep

\* Where a thread is after it made, or did not make, a table.
AtClear(s, h) == [s EXCEPT !.pc = "clear", !.main = h]

LEMMA ClearState ==
    ASSUME NEW L, NEW k, NEW s, s \in IdStates(L, k), s.pc = "resize", NEW h \in 1..L
    PROVE  AtClear(s, h) \in IdStates(L, k) /\ AtClear(s, h).pc \in Waiting
<1>1. s \in [pc : {"room", "resize", "clear", "fit"}, main : 1..L, count : Int]
  BY DEF IdStates
<1>2. PICK q : q = [s EXCEPT !.pc = "clear"]
  OBVIOUS
<1>3. AtClear(s, h) = [q EXCEPT !.main = h]
  BY <1>1, <1>2 DEF AtClear
<1>4. q \in [pc : {"clear"}, main : 1..L, count : Int]
  BY <1>1, <1>2
<1>5. AtClear(s, h) \in [pc : {"clear"}, main : 1..L, count : Int] /\ AtClear(s, h).pc = "clear"
  BY <1>3, <1>4
<1> QED
  BY <1>5 DEF IdStates, Waiting

\* A new table, without threads, is put in front of the others.
LEMMA ResizeStep ==
    ASSUME IdAssumption, IdsInv, NEW t \in HashThreads, Ids!Resize(t)
    PROVE  IdsInv'
<1>1. thread[t].pc = "resize" /\ ThreadOK(tables, inactive, t, thread[t], mine[t])
  BY DEF Ids!Resize, IdsInv
<1>2. mine[t] = NULL
  BY <1>1, HasNone
<1> PICK L \in Nat \ {0}, k \in Nat : L = Len(tables) /\ k = Len(inactive)
  BY StateTypes
<1>3. /\ inactive' = inactive /\ mine' = mine /\ hashCount' = hashCount /\ hashCount \in Int
      /\ thread[t] \in IdStates(L, k) /\ tables \in Seq(IdTables)
  BY StateTypes DEF Ids!Resize, IdsInv
<1>4. \A h \in 1..L : ~Has(tables[h], t)
  BY <1>1, <1>2, NotNamed
<1>5. CASE tables' = tables
  <2>4. PICK r : r = AtClear(thread[t], L)
    OBVIOUS
  <2>1. thread' = [thread EXCEPT ![t] = r]
    BY <1>5, <2>4 DEF Ids!Resize, Ids!Go, AtClear
  <2>2. r \in IdStates(L, k) /\ r.pc \in Waiting
    <3>1. L \in 1..L
      OBVIOUS
    <3> QED
      BY <1>1, <1>3, <2>4, <3>1, ClearState
  <2>3. thread[t].pc \in Waiting /\ thread[t].pc # "idle"
    BY <1>1 DEF Waiting
  <2> QED
    BY <1>3, <1>5, <2>1, <2>2, <2>3, WaitStep
<1>6. CASE tables' # tables
  <2>1. Ids!HalfFull(L, thread[t].count)
    BY <1>6 DEF Ids!Resize
  <2>2. PICK C \in Nat \ {0} : C = Cap(tables[L]) /\ C = Ids!Capacity(L)
    <3>1. tables[L] \in IdTables
      BY StateTypes
    <3>2. Cap(tables[L]) \in Nat \ {0} /\ Ids!Capacity(L) = Cap(tables[L])
      BY <3>1, TableCap, TheirCap
    <3> QED
      BY <3>2
  <2>3. PICK c \in Int : c = thread[t].count
    BY <1>1, <1>3 DEF IdStates
  <2>4. c \in Nat
    <3>1. PICK q \in Int : q = C \div 2
      BY DivMod
    <3>2. q >= 0
      BY <3>1
    <3>3. c >= q
      BY <2>1, <2>2, <2>3, <3>1 DEF Ids!HalfFull
    <3> QED
      BY <3>2, <3>3
  <2>5. PICK n \in Nat \ {0} : n = Ids!NewSize(C, c)
    BY <2>4, NewSizeFits
  <2>6. PICK tb : tb = Ids!Table(n)
    OBVIOUS
  <2>7. tb \in IdTables /\ \A i \in DOMAIN tb : tb[i].key = EMPTY
    BY <2>6 DEF Ids!Table, Ids!Free, IdTables, IdSlots
  <2>8. PICK tbs : tbs = Append(tables, tb)
    OBVIOUS
  <2>9. tables' = tbs
    BY <1>6, <2>1, <2>2, <2>3, <2>5, <2>6, <2>8 DEF Ids!Resize
  <2>10. /\ tbs \in Seq(IdTables) /\ Len(tbs) = L + 1 /\ tbs[L + 1] = tb
         /\ \A h \in 1..L : tbs[h] = tables[h]
    BY <1>3, <2>7, <2>8
  <2>11. PICK r : r = AtClear(thread[t], L + 1)
    OBVIOUS
  <2>12. thread' = [thread EXCEPT ![t] = r]
    BY <2>9, <2>10, <2>11 DEF Ids!Resize, Ids!Go, AtClear
  <2>13. r \in IdStates(L + 1, k) /\ r.pc \in Waiting
    <3>1. PICK M \in Nat : M = L + 1
      OBVIOUS
    <3>2. M \in 1..M /\ L <= M /\ k <= k
      BY <3>1
    <3>3. thread[t] \in IdStates(M, k)
      BY <1>3, <3>2, MoreStates
    <3>4. AtClear(thread[t], M) \in IdStates(M, k) /\ AtClear(thread[t], M).pc \in Waiting
      BY <1>1, <3>2, <3>3, ClearState
    <3> QED
      BY <2>11, <3>1, <3>4
  <2>14. \A h \in 1..Len(tbs) : ~Has(tbs[h], t)
    <3>1. ~Has(tb, t)
      BY <2>7, EmptyTable
    <3>2. \A h \in 1..L + 1 : h \in 1..L \/ h = L + 1
      OBVIOUS
    <3> QED
      BY <1>4, <2>10, <3>1, <3>2
  <2>15. PICK own : own = NULL
    OBVIOUS
  <2>16. ThreadOK(tbs, inactive, t, r, own) /\ Given(r, own) = NULL
    <3>1. r \in IdStates(Len(tbs), Len(inactive))
      BY <2>10, <2>13
    <3> QED
      BY <2>13, <2>14, <2>15, <3>1, WaitingOK
  <2>17. Extends(t, tables, inactive, tbs, inactive)
    <3>1. \A h \in 1..Len(tables) : Grows(tables[h], tbs[h], t)
      BY <2>10 DEF Grows
    <3>2. \A h \in Len(tables) + 1..Len(tbs) : h = L + 1
      BY <2>10
    <3>3. Len(tbs) >= Len(tables)
      BY <2>10
    <3> QED
      BY <2>7, <2>10, <3>1, <3>2, <3>3 DEF Extends, IdsInv
  <2>18. Apart(t, inactive, Given(r, own))
    BY <2>16, ApartStays
  <2>19. mine' = [mine EXCEPT ![t] = own]
    BY <1>2, <1>3, <2>15 DEF IdsInv
  <2> QED
    BY <1>3, <2>9, <2>12, <2>16, <2>17, <2>18, <2>19, IdsStep
<1> QED
  BY <1>5, <1>6

-----------------------------------------------------------------------------
(* A thread exits.                                                         *)

LEMMA ExitStep ==
    ASSUME IdAssumption, IdsInv, NEW t \in HashThreads, Ids!Exit(t)
    PROVE  IdsInv'
<1> PICK L \in Nat \ {0}, k \in Nat : L = Len(tables) /\ k = Len(inactive)
  BY StateTypes
<1>1. PICK p : p = mine[t]
  OBVIOUS
<1>2. /\ p # NULL /\ thread[t].pc = "idle" /\ ThreadOK(tables, inactive, t, thread[t], p)
      /\ Given(thread[t], mine[t]) = p
  BY <1>1 DEF Ids!Exit, Ids!Idle, IdsInv, Given
<1>3. p \in 1..k /\ ~inactive[p]
  BY <1>1, <1>2 DEF ThreadOK
<1>4. PICK r : r = [pc |-> "exit", main |-> L, producer |-> p]
  OBVIOUS
<1>5. PICK own : own = NULL
  OBVIOUS
<1>6. /\ thread' = [thread EXCEPT ![t] = r] /\ mine' = [mine EXCEPT ![t] = own]
      /\ tables' = tables /\ inactive' = inactive /\ hashCount' = hashCount /\ hashCount \in Int
  BY <1>1, <1>4, <1>5 DEF Ids!Exit, Ids!Go, IdsInv
<1>7. r \in IdStates(L, k)
  BY <1>3, <1>4 DEF IdStates
<1>8. Given(r, own) = p
  BY <1>4, <1>5 DEF Given
<1>9. \A h \in 1..L : TableAt(tables[h], t, p)
  BY <1>1, <1>2 DEF ThreadOK
<1>10. ThreadOK(tables, inactive, t, r, own)
  BY <1>3, <1>4, <1>5, <1>7, <1>8, <1>9 DEF ThreadOK
<1> QED
  BY <1>2, <1>6, <1>8, <1>10, QuietStep

\* The slots that name t are reusable.
Cleared(tb, t) ==
    [i \in DOMAIN tb |-> IF tb[i].key = t THEN [tb[i] EXCEPT !.key = REUSABLE] ELSE tb[i]]

LEMMA ClearedTable ==
    ASSUME IdAssumption, NEW tb \in IdTables, NEW t \in HashThreads
    PROVE  Cleared(tb, t) \in IdTables /\ Grows(tb, Cleared(tb, t), t) /\ ~Has(Cleared(tb, t), t)
<1>1. PICK n \in Nat \ {0} : tb \in [0..n - 1 -> IdSlots]
  BY DEF IdTables
<1>2. t # EMPTY /\ t # REUSABLE /\ EMPTY # REUSABLE
  BY DEF IdAssumption
<1>3. \A i \in 0..n - 1 : [tb[i] EXCEPT !.key = REUSABLE] \in IdSlots
                         /\ [tb[i] EXCEPT !.key = REUSABLE].key = REUSABLE
  BY <1>1 DEF IdSlots
<1> PICK tb2 : tb2 = Cleared(tb, t)
  OBVIOUS
<1>4. /\ tb2 \in [0..n - 1 -> IdSlots] /\ DOMAIN tb2 = DOMAIN tb
      /\ \A i \in DOMAIN tb : IF tb[i].key = t THEN tb2[i].key = REUSABLE ELSE tb2[i] = tb[i]
  BY <1>1, <1>3 DEF Cleared
<1>5. tb2 \in IdTables
  BY <1>4 DEF IdTables
<1>6. Grows(tb, tb2, t) /\ ~Has(tb2, t)
  BY <1>2, <1>4 DEF Grows, Has
<1> QED
  BY <1>5, <1>6

LEMMA ExitTableStep ==
    ASSUME IdAssumption, IdsInv, NEW t \in HashThreads, Ids!ExitTable(t)
    PROVE  IdsInv'
<1> PICK L \in Nat \ {0}, k \in Nat : L = Len(tables) /\ k = Len(inactive)
  BY StateTypes
<1>1. PICK s : s = thread[t]
  OBVIOUS
<1>2. PICK h : h = s.main
  OBVIOUS
<1>3. s \in IdStates(L, k) /\ s.pc = "exit" /\ ThreadOK(tables, inactive, t, s, mine[t])
  BY <1>1, StateTypes DEF IdsInv, Ids!ExitTable
<1>4. s \in [pc : {"exit"}, main : 0..L, producer : 1..k]
  BY <1>3 DEF IdStates
<1>5. PICK p : p = s.producer
  OBVIOUS
<1>6. h \in 1..L /\ p \in 1..k /\ p # NULL
  BY <1>1, <1>2, <1>4, <1>5 DEF Ids!ExitTable, IdAssumption
<1>7. PICK own : own = NULL
  OBVIOUS
<1>8. mine[t] = own /\ Given(s, own) = p
  BY <1>3, <1>5, <1>7, HasNone DEF Given
<1>9. PICK tb \in IdTables : tb = tables[h]
  BY <1>6, StateTypes
<1>10. TableAt(tables[h], t, p) /\ tables[h] \in IdTables
  BY <1>3, <1>6, <1>8, <1>9 DEF ThreadOK
<1>11. PICK tb2 : tb2 = Cleared(tables[h], t)
  OBVIOUS
<1>12. PICK tbs : Replaced(tbs, h, tb2)
  BY DEF Replaced
<1>13. tables' = tbs
  <2>1. \A i \in DOMAIN tables[h] :
           i \in {Ids!Probe(h, t, n) : n \in Ids!FoundAt(h, t)} <=> tables[h][i].key = t
    BY <1>10, FreedAreNamed
  <2>2. [i \in DOMAIN tables[h] |->
            IF i \in {Ids!Probe(h, t, n) : n \in Ids!FoundAt(h, t)}
            THEN [tables[h][i] EXCEPT !.key = REUSABLE] ELSE tables[h][i]] = tb2
    BY <1>11, <2>1 DEF Cleared
  <2>3. tables' = [tables EXCEPT ![h] =
            [i \in DOMAIN tables[h] |->
               IF i \in {Ids!Probe(h, t, n) : n \in Ids!FoundAt(h, t)}
               THEN [tables[h][i] EXCEPT !.key = REUSABLE] ELSE tables[h][i]]]
    BY <1>1, <1>2, <1>6 DEF Ids!ExitTable, IdsInv
  <2> QED
    BY <1>12, <2>2, <2>3 DEF Replaced
<1>14. tb2 \in IdTables /\ Grows(tables[h], tb2, t) /\ ~Has(tb2, t)
  BY <1>10, <1>11, ClearedTable
<1>15. PICK r : r = [s EXCEPT !.main = h - 1]
  OBVIOUS
<1>16. /\ thread' = [thread EXCEPT ![t] = r]
       /\ inactive' = inactive /\ hashCount' = hashCount /\ hashCount \in Int /\ mine' = mine
  BY <1>1, <1>2, <1>15 DEF Ids!ExitTable, Ids!Go, IdsInv
<1>17. /\ Len(tbs) = L /\ tbs[h] = tb2
       /\ \A g \in 1..L : g # h => tbs[g] = tables[g]
  <2>1. h \in 1..Len(tables)
    BY <1>6
  <2>2. /\ Len(tbs) = Len(tables) /\ tbs[h] = tb2
        /\ \A g \in 1..Len(tables) : g # h => tbs[g] = tables[g]
    BY <1>12, <2>1, OneReplaced
  <2> QED
    BY <2>2
<1>18. Extends(t, tables, inactive, tbs, inactive)
  <2>1. h \in 1..Len(tables)
    BY <1>6
  <2> QED
    BY <1>12, <1>14, <2>1, OneGrows
<1>19. /\ r \in IdStates(L, k) /\ r.pc = "exit" /\ r.main = h - 1 /\ r.producer = p
  BY <1>4, <1>5, <1>6, <1>15 DEF IdStates
<1>20. Given(r, own) = p
  BY <1>7, <1>19 DEF Given
<1>21. \A g \in 1..L : TableAt(tbs[g], t, p) /\ (Has(tbs[g], t) => g <= h - 1)
  <2>1. TableAt(tb2, t, p)
    BY <1>14, AtNothing
  <2>2. \A g \in 1..L : TableAt(tables[g], t, p) /\ (Has(tables[g], t) => g <= h)
    BY <1>2, <1>3, <1>7, <1>8 DEF ThreadOK
  <2>3. \A g \in 1..L : g # h /\ g <= h => g <= h - 1
    BY <1>6
  <2> QED
    BY <1>14, <1>17, <2>1, <2>2, <2>3
<1>22. ~inactive[p]
  BY <1>3, <1>6, <1>8 DEF ThreadOK
<1>23. ThreadOK(tbs, inactive, t, r, own)
  BY <1>6, <1>7, <1>17, <1>19, <1>20, <1>21, <1>22 DEF ThreadOK
<1>24. Apart(t, inactive, Given(r, own))
  BY <1>1, <1>8, <1>20, ApartStays
<1>25. mine' = [mine EXCEPT ![t] = own]
  BY <1>8, <1>16 DEF IdsInv
<1> QED
  BY <1>13, <1>16, <1>18, <1>23, <1>24, <1>25, IdsStep

LEMMA ExitDoneStep ==
    ASSUME IdAssumption, IdsInv, NEW t \in HashThreads, Ids!ExitDone(t)
    PROVE  IdsInv'
<1> PICK L \in Nat \ {0}, k \in Nat : L = Len(tables) /\ k = Len(inactive)
  BY StateTypes
<1>1. PICK s : s = thread[t]
  OBVIOUS
<1>2. s \in IdStates(L, k) /\ s.pc = "exit" /\ s.main = 0 /\ ThreadOK(tables, inactive, t, s, mine[t])
  BY <1>1, StateTypes DEF IdsInv, Ids!ExitDone
<1>3. PICK p : p = s.producer
  OBVIOUS
<1>4. p \in 1..k /\ p # NULL
  BY <1>2, <1>3 DEF IdStates, IdAssumption
<1>5. PICK own : own = NULL
  OBVIOUS
<1>6. mine[t] = own /\ Given(thread[t], mine[t]) = p
  BY <1>1, <1>2, <1>3, <1>5, HasNone DEF Given
<1>7. \A h \in 1..L : ~Has(tables[h], t)
  BY <1>2, <1>5, <1>6 DEF ThreadOK
<1>8. PICK ina : ina = [inactive EXCEPT ![p] = TRUE]
  OBVIOUS
<1>9. PICK r : r = [pc |-> "idle"]
  OBVIOUS
<1>10. /\ thread' = [thread EXCEPT ![t] = r] /\ inactive' = ina
       /\ tables' = tables /\ hashCount' = hashCount /\ hashCount \in Int /\ mine' = mine
  BY <1>1, <1>3, <1>8, <1>9 DEF Ids!ExitDone, Ids!Go, Ids!Idle, IdsInv
<1>11. /\ ina \in Seq(BOOLEAN) /\ Len(ina) = k
       /\ \A q \in 1..k : q # p => ina[q] = inactive[q]
  BY <1>4, <1>8 DEF IdsInv
<1>12. Extends(t, tables, inactive, tables, ina)
  <2>1. Len(ina) >= Len(inactive)
    BY <1>11
  <2> QED
    BY <1>11, <2>1, NothingGrows DEF Extends
<1>13. ThreadOK(tables, ina, t, r, own) /\ Given(r, own) = NULL
  <2>1. r \in IdStates(Len(tables), Len(ina)) /\ r.pc \in Waiting
    BY <1>9 DEF IdStates, Waiting
  <2>2. \A h \in 1..Len(tables) : ~Has(tables[h], t)
    BY <1>7
  <2> QED
    BY <1>5, <2>1, <2>2, WaitingOK
<1>14. Apart(t, ina, Given(r, own))
  <2>1. \A u \in HashThreads \ {t} :
           Given(thread[u], mine[u]) # NULL =>
              /\ Given(thread[u], mine[u]) # p
              /\ Given(thread[u], mine[u]) \in 1..k /\ ~inactive[Given(thread[u], mine[u])]
    BY <1>4, <1>6 DEF IdsInv, ThreadOK
  <2> QED
    BY <1>11, <1>13, <2>1 DEF Apart
<1>15. mine' = [mine EXCEPT ![t] = own]
  BY <1>6, <1>10 DEF IdsInv
<1> QED
  BY <1>10, <1>12, <1>13, <1>14, <1>15, IdsStep

-----------------------------------------------------------------------------
(* The theorem.                                                            *)

\* No thread has a producer, and the only table is empty.
LEMMA IdsStart ==
    ASSUME IdAssumption, Ids!Init
    PROVE  IdsInv
<1>1. PICK tb : tb = Ids!Table(InitialSize)
  OBVIOUS
<1>2. tb \in IdTables /\ \A i \in DOMAIN tb : tb[i].key = EMPTY
  <2>1. InitialSize \in Nat \ {0}
    BY DEF IdAssumption
  <2> QED
    BY <1>1, <2>1 DEF Ids!Table, Ids!Free, IdTables, IdSlots
<1>3. tables = <<tb>> /\ inactive = <<>> /\ hashCount = 0
  BY <1>1 DEF Ids!Init
<1>4. /\ thread = [t \in HashThreads |-> [pc |-> "idle"]]
      /\ mine = [t \in HashThreads |-> NULL]
  BY DEF Ids!Init, Ids!Idle
<1>5. /\ tables \in Seq(IdTables) /\ Len(tables) = 1 /\ tables[1] = tb
      /\ inactive \in Seq(BOOLEAN) /\ hashCount \in Int
  BY <1>2, <1>3
<1>6. ASSUME NEW t \in HashThreads
      PROVE  ThreadOK(tables, inactive, t, thread[t], mine[t]) /\ Given(thread[t], mine[t]) = NULL
  <2>1. PICK r : r = [pc |-> "idle"]
    OBVIOUS
  <2>2. r \in IdStates(Len(tables), Len(inactive)) /\ r.pc \in Waiting
    BY <2>1 DEF IdStates, Waiting
  <2>3. \A h \in 1..Len(tables) : ~Has(tables[h], t)
    <3>1. ~Has(tb, t)
      BY <1>2, EmptyTable
    <3> QED
      BY <1>5, <3>1
  <2>4. ThreadOK(tables, inactive, t, r, NULL) /\ Given(r, NULL) = NULL
    BY <2>2, <2>3, WaitingOK
  <2> QED
    BY <1>4, <2>1, <2>4
<1> QED
  BY <1>4, <1>5, <1>6 DEF IdsInv

LEMMA IdsNext ==
    ASSUME IdAssumption, IdsInv, Ids!Next
    PROVE  IdsInv'
<1> PICK t \in HashThreads :
        \/ Ids!Search(t) \/ Ids!Copy(t) \/ Ids!CountSlot(t) \/ Ids!StartResize(t)
        \/ Ids!Resize(t) \/ Ids!ClearFlag(t) \/ Ids!OutOfMemory(t) \/ Ids!Fit(t)
        \/ Ids!Recycle(t) \/ Ids!Create(t) \/ Ids!PutSlot(t) \/ Ids!Exit(t)
        \/ Ids!ExitTable(t) \/ Ids!ExitDone(t)
  BY DEF Ids!Next
<1>1. CASE Ids!Search(t)
  BY <1>1, SearchStep
<1>2. CASE Ids!Copy(t)
  BY <1>2, CopyStep
<1>3. CASE Ids!CountSlot(t)
  BY <1>3, CountStep
<1>4. CASE Ids!StartResize(t)
  BY <1>4, StartResizeStep
<1>5. CASE Ids!Resize(t)
  BY <1>5, ResizeStep
<1>6. CASE Ids!ClearFlag(t)
  BY <1>6, ClearStep
<1>7. CASE Ids!OutOfMemory(t)
  BY <1>7, OutOfMemoryStep
<1>8. CASE Ids!Fit(t)
  BY <1>8, FitStep
<1>9. CASE Ids!Recycle(t)
  BY <1>9, RecycleStep
<1>10. CASE Ids!Create(t)
  BY <1>10, CreateStep
<1>11. CASE Ids!PutSlot(t)
  BY <1>11, PutStep
<1>12. CASE Ids!Exit(t)
  BY <1>12, ExitStep
<1>13. CASE Ids!ExitTable(t)
  BY <1>13, ExitTableStep
<1>14. CASE Ids!ExitDone(t)
  BY <1>14, ExitDoneStep
<1> QED
  BY <1>1, <1>2, <1>3, <1>4, <1>5, <1>6, <1>7, <1>8, <1>9, <1>10, <1>11, <1>12, <1>13, <1>14

\* What the invariant says of threads that do not search.
LEMMA IdsMeaning ==
    ASSUME IdAssumption, IdsInv
    PROVE  Ids!OneThreadPerProducer
<1> SUFFICES ASSUME NEW t \in HashThreads, mine[t] # NULL
             PROVE  /\ ~inactive[mine[t]]
                    /\ \A u \in HashThreads \ {t} : mine[u] # mine[t]
                    /\ thread[t] = Ids!Idle =>
                         /\ Ids!Holding(t) # {}
                         /\ Ids!ValueIn(Ids!Max(Ids!Holding(t)), t) = mine[t]
  BY Zenon DEF Ids!OneThreadPerProducer
<1>1. ~inactive[mine[t]]
  BY DEF IdsInv, ThreadOK, Given
<1>2. \A u \in HashThreads \ {t} : mine[u] # mine[t]
  BY DEF IdsInv, Given
<1>3. ASSUME thread[t] = Ids!Idle
      PROVE  /\ Ids!Holding(t) # {}
             /\ Ids!ValueIn(Ids!Max(Ids!Holding(t)), t) = mine[t]
  <2>1. thread[t].pc = "idle"
    BY <1>3 DEF Ids!Idle
  <2> QED
    BY <2>1, ComesBack
<1> QED
  BY <1>1, <1>2, <1>3

\* However many threads call enqueue at once for the first time, find their
\* producer in a table that is being replaced, or exit and leave it to
\* another, no two of them share a sub-queue, none of theirs is up for
\* recycling, and each finds again the one it was given
\* (ConcurrentQueue::get_or_add_implicit_producer, recycle_or_create_producer,
\* implicit_producer_thread_exited).
THEOREM ThreadIdsApart == MCSpec => []OneThreadPerProducer
<1> USE IdAssumption
<1>1. MCInit => (part = "ids" => IdsInv)
  BY IdsStart DEF MCInit
<1>2. (part = "ids" => IdsInv) /\ [MCNext]_<<part, maps, ids>> => (part = "ids" => IdsInv)'
  <2> SUFFICES ASSUME part = "ids" => IdsInv, [MCNext]_<<part, maps, ids>>, part' = "ids"
               PROVE  IdsInv'
    OBVIOUS
  <2>1. CASE Ids!Next /\ part' = part
    BY <2>1, IdsNext
  <2>2. CASE UNCHANGED <<part, ids>>
    BY <2>2 DEF ids, IdsInv
  <2> QED
    BY <2>1, <2>2 DEF MCNext
<1>3. (part = "ids" => IdsInv) => OneThreadPerProducer
  BY IdsMeaning DEF OneThreadPerProducer
<1> QED
  BY <1>1, <1>2, <1>3, PTL DEF MCSpec

-----------------------------------------------------------------------------
(* Folds over a sequence.  FoldLeft is defined by recursion on the set of  *)
(* indices, the largest of which is folded last.                           *)

Folded(n, base, step, g) ==
    g = [x \in SUBSET (1..n) |-> IF x = {} THEN base ELSE step[Max(x)][g[x \ {Max(x)}]]]

LEMMA MaxIn ==
    ASSUME NEW n \in Nat, NEW x, x \subseteq 1..n, x # {}
    PROVE  Max(x) \in x /\ \A y \in x : y <= Max(x)
<1> DEFINE R == {n - y : y \in x}
<1>1. R \subseteq Nat /\ R # {}
  <2>1. \A y \in x : n - y \in Nat
    OBVIOUS
  <2> QED
    BY <2>1
<1>2. \E r \in R : \A m \in R : r <= m
  <2> HIDE DEF R
  <2> QED
    BY <1>1, LeastNumber, Zenon
<1>3. PICK z \in x : \A m \in R : n - z <= m
  BY <1>2
<1>4. \A y \in x : z >= y
  <2> SUFFICES ASSUME NEW y \in x PROVE z >= y
    OBVIOUS
  <2>1. n - z <= n - y
    BY <1>3
  <2> QED
    BY <2>1
<1>5. Max(x) \in x /\ \A y \in x : Max(x) >= y
  BY <1>4 DEF Max
<1> QED
  BY <1>5

LEMMA MaxTop ==
    ASSUME NEW n \in Nat, NEW x, x \subseteq 1..n, n \in x
    PROVE  Max(x) = n
<1>1. PICK z : z = Max(x)
  OBVIOUS
<1>2. z \in 1..n /\ n <= z
  BY <1>1, MaxIn
<1> QED
  BY <1>1, <1>2

\* A fold exists whatever the step is, as long as it yields what it can go on
\* with.
LEMMA FoldExists ==
    ASSUME NEW n \in Nat, NEW Acc, NEW base \in Acc, NEW step \in [1..n -> [Acc -> Acc]]
    PROVE  \E g : Folded(n, base, step, g) /\ \A x \in SUBSET (1..n) : g[x] \in Acc
<1> DEFINE Good(m) == \E g : Folded(m, base, step, g) /\ \A x \in SUBSET (1..m) : g[x] \in Acc
           B == {m \in 0..n : ~Good(m)}
<1> SUFFICES Good(n)
  OBVIOUS
<1> HIDE DEF Good
<1> SUFFICES ASSUME B # {} PROVE FALSE
  OBVIOUS
<1>1. PICK m \in B : \A b \in B : m <= b
  <2>1. B \subseteq Nat
    OBVIOUS
  <2> HIDE DEF B
  <2> QED
    BY <2>1, LeastNumber, Zenon
<1>2. m \in 0..n /\ ~Good(m)
  OBVIOUS
<1>3. CASE m = 0
  <2> DEFINE g == [x \in SUBSET (1..0) |-> base]
  <2>1. \A x \in SUBSET (1..0) : x = {}
    OBVIOUS
  <2>2. Folded(0, base, step, g)
    BY <2>1 DEF Folded
  <2>3. \A x \in SUBSET (1..0) : g[x] \in Acc
    OBVIOUS
  <2> HIDE DEF g
  <2> QED
    BY <1>2, <1>3, <2>2, <2>3 DEF Good
<1>4. CASE m # 0
  <2>1. m - 1 \in 0..n /\ Good(m - 1)
    <3>1. m - 1 \in 0..n /\ ~(m <= m - 1)
      BY <1>2, <1>4
    <3> QED
      BY <1>1, <3>1
  <2>2. PICK g : Folded(m - 1, base, step, g) /\ \A x \in SUBSET (1..m - 1) : g[x] \in Acc
    BY <2>1 DEF Good
  <2> DEFINE h == [x \in SUBSET (1..m) |-> IF m \in x THEN step[m][g[x \ {m}]] ELSE g[x]]
  <2>3. \A x \in SUBSET (1..m) : m \notin x => x \in SUBSET (1..m - 1)
    BY <1>2
  <2>4. \A x \in SUBSET (1..m) : h[x] \in Acc
    <3> SUFFICES ASSUME NEW x \in SUBSET (1..m) PROVE h[x] \in Acc
      OBVIOUS
    <3>1. CASE m \in x
      <4>1. x \ {m} \in SUBSET (1..m - 1)
        BY <2>3
      <4>2. g[x \ {m}] \in Acc /\ step[m] \in [Acc -> Acc]
        BY <1>2, <1>4, <2>2, <4>1
      <4> QED
        BY <3>1, <4>2
    <3>2. CASE m \notin x
      BY <2>2, <2>3, <3>2
    <3> QED
      BY <3>1, <3>2
  <2>5. ASSUME NEW x \in SUBSET (1..m)
        PROVE  h[x] = IF x = {} THEN base ELSE step[Max(x)][h[x \ {Max(x)}]]
    <3>1. CASE m \in x
      <4>1. m \in Nat /\ x \subseteq 1..m /\ x # {}
        BY <1>2, <3>1
      <4>4. Max(x) = m
        BY <3>1, <4>1, MaxTop
      <4>2. h[x \ {m}] = g[x \ {m}]
        OBVIOUS
      <4>3. h[x] = step[m][g[x \ {m}]]
        BY <3>1
      <4> HIDE DEF h
      <4> QED
        BY <4>1, <4>2, <4>3, <4>4
    <3>2. CASE m \notin x
      <4>1. x \in SUBSET (1..m - 1) /\ m - 1 \in Nat
        BY <1>2, <1>4, <2>3, <3>2
      <4>2. h[x] = g[x]
        BY <3>2
      <4>3. g[x] = IF x = {} THEN base ELSE step[Max(x)][g[x \ {Max(x)}]]
        BY <2>2, <4>1 DEF Folded
      <4>4. h[x \ {Max(x)}] = g[x \ {Max(x)}]
        BY <3>2
      <4> HIDE DEF h
      <4> QED
        BY <4>2, <4>3, <4>4
    <3> QED
      BY <3>1, <3>2
  <2>6. Folded(m, base, step, h)
    <3>1. h = [x \in SUBSET (1..m) |-> h[x]]
      OBVIOUS
    <3> HIDE DEF h
    <3> QED
      BY <2>5, <3>1 DEF Folded
  <2> HIDE DEF h
  <2> QED
    BY <1>2, <2>4, <2>6 DEF Good
<1> QED
  BY <1>3, <1>4

\* The numbers up to m, but for the last.
LEMMA LastFolded ==
    ASSUME NEW m \in Nat \ {0}
    PROVE  Max(1..m) = m /\ (1..m) \ {m} = 1..m - 1 /\ 1..m # {}
<1>1. m \in 1..m
  OBVIOUS
<1>2. Max(1..m) = m
  BY <1>1, MaxTop
<1>3. \A j : j \in (1..m) \ {m} <=> j \in 1..m - 1
  OBVIOUS
<1> QED
  BY <1>1, <1>2, <1>3

\* The lengths of some sequences are added up one by one.
Sized(s, g) ==
    g = [x \in SUBSET DOMAIN s |-> IF x = {} THEN 0 ELSE g[x \ {Max(x)}] + Len(s[Max(x)])]

LEMMA LengthsFold ==
    ASSUME NEW X, NEW s \in Seq(Seq(X))
    PROVE  \E F : /\ FoldLeft(LAMBDA a, b : a + Len(b), 0, s) = F[Len(s)]
                  /\ F[0] = 0 /\ \A m \in 1..Len(s) : F[m] = F[m - 1] + Len(s[m])
<1> DEFINE H == CHOOSE g : Sized(s, g)
<1>1. FoldLeft(LAMBDA a, b : a + Len(b), 0, s) = H[DOMAIN s]
  BY Zenon DEF FoldLeft, MapThenFoldSet, Sized
<1>2. PICK n \in Nat : n = Len(s) /\ DOMAIN s = 1..n
  OBVIOUS
<1>3. \E g : Sized(s, g)
  <2> DEFINE step == [i \in 1..n |-> [a \in Nat |-> a + Len(s[i])]]
  <2>1. step \in [1..n -> [Nat -> Nat]]
    BY <1>2
  <2>2. PICK g : Folded(n, 0, step, g) /\ \A x \in SUBSET (1..n) : g[x] \in Nat
    <3> HIDE DEF step
    <3> QED
      BY <2>1, FoldExists
  <2>3. ASSUME NEW x \in SUBSET (1..n)
        PROVE  g[x] = IF x = {} THEN 0 ELSE g[x \ {Max(x)}] + Len(s[Max(x)])
    <3>1. g[x] = IF x = {} THEN 0 ELSE step[Max(x)][g[x \ {Max(x)}]]
      <4> HIDE DEF step
      <4> QED
        BY <2>2 DEF Folded
    <3>2. x # {} => Max(x) \in 1..n
      BY MaxIn
    <3>3. g[x \ {Max(x)}] \in Nat
      BY <2>2
    <3> QED
      BY <3>1, <3>2, <3>3
  <2>4. g = [x \in SUBSET (1..n) |-> g[x]]
    <3> HIDE DEF step
    <3> QED
      BY <2>2 DEF Folded
  <2> QED
    BY <1>2, <2>3, <2>4 DEF Sized
<1>4. Sized(s, H)
  BY <1>3
<1> HIDE DEF H
<1> DEFINE F == [m \in 0..n |-> H[1..m]]
<1>5. F[0] = 0
  BY <1>2, <1>4 DEF Sized
<1>6. ASSUME NEW m \in 1..n
      PROVE  F[m] = F[m - 1] + Len(s[m])
  <2>1. 1..m \in SUBSET (1..n) /\ 1..m # {}
    OBVIOUS
  <2>2. H[1..m] = H[(1..m) \ {Max(1..m)}] + Len(s[Max(1..m)])
    BY <1>2, <1>4, <2>1 DEF Sized
  <2>3. H[1..m] = H[1..m - 1] + Len(s[m])
    <3>1. m \in Nat \ {0}
      OBVIOUS
    <3>2. Max(1..m) = m /\ (1..m) \ {m} = 1..m - 1
      BY <3>1, LastFolded
    <3> QED
      BY <2>2, <3>2
  <2> QED
    BY <1>2, <2>3
<1>7. F[n] = H[DOMAIN s]
  BY <1>2
<1> HIDE DEF F
<1> QED
  BY <1>1, <1>2, <1>5, <1>6, <1>7

\* The nodes that list::remove keeps are appended one by one.
Kept(list, k, g) ==
    g = [x \in SUBSET DOMAIN list |->
            IF x = {} THEN <<>>
            ELSE IF list[Max(x)].key = k THEN g[x \ {Max(x)}]
                 ELSE Append(g[x \ {Max(x)}], list[Max(x)])]

LEMMA KeptFold ==
    ASSUME NEW X, NEW list \in Seq(X), NEW k
    PROVE  \E F : /\ Without(list, k) = F[Len(list)]
                  /\ F[0] = <<>>
                  /\ \A m \in 1..Len(list) :
                        F[m] = IF list[m].key = k THEN F[m - 1] ELSE Append(F[m - 1], list[m])
<1> DEFINE H == CHOOSE g : Kept(list, k, g)
<1>1. Without(list, k) = H[DOMAIN list]
  BY Zenon DEF Without, FoldLeft, MapThenFoldSet, Kept
<1>2. PICK n \in Nat : n = Len(list) /\ DOMAIN list = 1..n
  OBVIOUS
<1>3. \E g : Kept(list, k, g)
  <2> DEFINE step == [i \in 1..n |-> [a \in Seq(X) |-> IF list[i].key = k THEN a ELSE Append(a, list[i])]]
  <2>1. step \in [1..n -> [Seq(X) -> Seq(X)]]
    BY <1>2
  <2>2. PICK g : /\ Folded(n, <<>>, step, g)
                 /\ \A x \in SUBSET (1..n) : g[x] \in Seq(X)
    <3>1. PICK base \in Seq(X) : base = <<>>
      BY EmptySeq, Zenon
    <3> HIDE DEF step
    <3>2. \E g : /\ Folded(n, base, step, g)
                /\ \A x \in SUBSET (1..n) : g[x] \in Seq(X)
      BY <2>1, FoldExists
    <3> QED
      BY <3>1, <3>2
  <2>3. ASSUME NEW x \in SUBSET (1..n)
        PROVE  g[x] = IF x = {} THEN <<>>
                      ELSE IF list[Max(x)].key = k THEN g[x \ {Max(x)}] ELSE Append(g[x \ {Max(x)}], list[Max(x)])
    <3>1. g[x] = IF x = {} THEN <<>> ELSE step[Max(x)][g[x \ {Max(x)}]]
      <4> HIDE DEF step
      <4> QED
        BY <2>2 DEF Folded
    <3>2. x # {} => Max(x) \in 1..n
      BY MaxIn
    <3>3. g[x \ {Max(x)}] \in Seq(X)
      BY <2>2
    <3> QED
      BY <3>1, <3>2, <3>3
  <2>4. g = [x \in SUBSET (1..n) |-> g[x]]
    <3> HIDE DEF step
    <3> QED
      BY <2>2 DEF Folded
  <2>5. [x \in SUBSET (1..n) |-> g[x]]
        = [x \in SUBSET (1..n) |-> IF x = {} THEN <<>>
                      ELSE IF list[Max(x)].key = k THEN g[x \ {Max(x)}] ELSE Append(g[x \ {Max(x)}], list[Max(x)])]
    BY <2>3, Zenon
  <2> QED
    BY <1>2, <2>4, <2>5, Zenon DEF Kept
<1>4. Kept(list, k, H)
  BY <1>3
<1> HIDE DEF H
<1> DEFINE F == [m \in 0..n |-> H[1..m]]
<1>5. F[0] = <<>>
  BY <1>2, <1>4 DEF Kept
<1>6. ASSUME NEW m \in 1..n
      PROVE  F[m] = IF list[m].key = k THEN F[m - 1] ELSE Append(F[m - 1], list[m])
  <2>1. 1..m \in SUBSET (1..n) /\ 1..m # {}
    OBVIOUS
  <2>2. Max(1..m) = m /\ (1..m) \ {m} = 1..m - 1
    <3>1. m \in Nat \ {0}
      OBVIOUS
    <3> QED
      BY <3>1, LastFolded
  <2>3. H[1..m] = IF list[Max(1..m)].key = k THEN H[(1..m) \ {Max(1..m)}] ELSE Append(H[(1..m) \ {Max(1..m)}], list[Max(1..m)])
    BY <1>2, <1>4, <2>1 DEF Kept
  <2>4. H[1..m] = IF list[m].key = k THEN H[1..m - 1] ELSE Append(H[1..m - 1], list[m])
    BY <2>2, <2>3
  <2> QED
    BY <1>2, <2>4
<1>7. F[n] = H[DOMAIN list]
  BY <1>2
<1> HIDE DEF F
<1> QED
  BY <1>1, <1>2, <1>5, <1>6, <1>7

\* A table of the open map with n slots, and one that is new.
MapSlots == [status : {"EMPTY", "OCCUPIED", "DELETED"},
             key : Keys \cup {NULL}, value : Values \cup {NULL}]
Tables(n) == [1..n -> MapSlots]
Fresh(n) == [i \in 1..n |-> EmptySlot]

LEMMA FreshType ==
    ASSUME NEW n
    PROVE  Fresh(n) \in Tables(n)
BY DEF Fresh, Tables, MapSlots, EmptySlot, Slot

LEMMA StoreType ==
    ASSUME NEW n, NEW tab \in Tables(n), NEW k \in Keys \cup {NULL}, NEW v \in Values \cup {NULL}
    PROVE  Store(tab, k, v) \in Tables(n)
<1>1. PICK i : i = PutSlot(tab, k)
  OBVIOUS
<1>2. PICK r : r = Slot("OCCUPIED", k, v)
  OBVIOUS
<1>3. r \in MapSlots
  BY <1>2 DEF Slot, MapSlots
<1>4. Store(tab, k, v) = [tab EXCEPT ![i] = r]
  BY <1>1, <1>2 DEF Store
<1> QED
  BY <1>3, <1>4 DEF Tables

\* reHash inserts the nodes one by one.
Moved(tab, g) ==
    g = [x \in SUBSET DOMAIN tab |->
            IF x = {} THEN Fresh(2 * Len(tab))
            ELSE IF tab[Max(x)].status = "OCCUPIED"
                 THEN Store(g[x \ {Max(x)}], tab[Max(x)].key, tab[Max(x)].value)
                 ELSE g[x \ {Max(x)}]]

LEMMA MovedFold ==
    ASSUME NEW tab \in Seq(MapSlots)
    PROVE  \E F : /\ Rehashed(tab) = F[Len(tab)]
                  /\ F[0] = Fresh(2 * Len(tab))
                  /\ \A m \in 1..Len(tab) :
                        F[m] = IF tab[m].status = "OCCUPIED"
                               THEN Store(F[m - 1], tab[m].key, tab[m].value) ELSE F[m - 1]
<1> DEFINE H == CHOOSE g : Moved(tab, g)
<1>1. Rehashed(tab) = H[DOMAIN tab]
  BY Zenon DEF Rehashed, Fresh, FoldLeft, MapThenFoldSet, Moved
<1>2. PICK n \in Nat : n = Len(tab) /\ DOMAIN tab = 1..n
  OBVIOUS
<1>3. \E g : Moved(tab, g)
  <2> DEFINE step == [i \in 1..n |-> [a \in Tables(2 * Len(tab)) |-> IF tab[i].status = "OCCUPIED"
       THEN Store(a, tab[i].key, tab[i].value) ELSE a]]
  <2>1. step \in [1..n -> [Tables(2 * Len(tab)) -> Tables(2 * Len(tab))]]
    <3>1. \A i \in 1..n : /\ tab[i].key \in Keys \cup {NULL}
                         /\ tab[i].value \in Values \cup {NULL}
      <4>1. \A i \in 1..n : tab[i] \in MapSlots
        BY <1>2
      <4> QED
        BY <4>1 DEF MapSlots
    <3>2. \A i \in 1..n, a \in Tables(2 * Len(tab)) :
             Store(a, tab[i].key, tab[i].value) \in Tables(2 * Len(tab))
      BY <3>1, StoreType
    <3> QED
      BY <3>2
  <2>2. PICK g : /\ Folded(n, Fresh(2 * Len(tab)), step, g)
                 /\ \A x \in SUBSET (1..n) : g[x] \in Tables(2 * Len(tab))
    <3>1. PICK base \in Tables(2 * Len(tab)) : base = Fresh(2 * Len(tab))
      BY FreshType
    <3> HIDE DEF step
    <3>2. \E g : /\ Folded(n, base, step, g)
                /\ \A x \in SUBSET (1..n) : g[x] \in Tables(2 * Len(tab))
      BY <2>1, FoldExists
    <3> QED
      BY <3>1, <3>2
  <2>3. ASSUME NEW x \in SUBSET (1..n)
        PROVE  g[x] = IF x = {} THEN Fresh(2 * Len(tab))
                      ELSE IF tab[Max(x)].status = "OCCUPIED"
       THEN Store(g[x \ {Max(x)}], tab[Max(x)].key, tab[Max(x)].value) ELSE g[x \ {Max(x)}]
    <3>1. g[x] = IF x = {} THEN Fresh(2 * Len(tab)) ELSE step[Max(x)][g[x \ {Max(x)}]]
      <4> HIDE DEF step
      <4> QED
        BY <2>2 DEF Folded
    <3>2. x # {} => Max(x) \in 1..n
      BY MaxIn
    <3>3. g[x \ {Max(x)}] \in Tables(2 * Len(tab))
      BY <2>2
    <3> QED
      BY <3>1, <3>2, <3>3
  <2>4. g = [x \in SUBSET (1..n) |-> g[x]]
    <3> HIDE DEF step
    <3> QED
      BY <2>2 DEF Folded
  <2>5. [x \in SUBSET (1..n) |-> g[x]]
        = [x \in SUBSET (1..n) |-> IF x = {} THEN Fresh(2 * Len(tab))
                      ELSE IF tab[Max(x)].status = "OCCUPIED"
       THEN Store(g[x \ {Max(x)}], tab[Max(x)].key, tab[Max(x)].value) ELSE g[x \ {Max(x)}]]
    BY <2>3, Zenon
  <2> QED
    BY <1>2, <2>4, <2>5, Zenon DEF Moved
<1>4. Moved(tab, H)
  BY <1>3
<1> HIDE DEF H
<1> DEFINE F == [m \in 0..n |-> H[1..m]]
<1>5. F[0] = Fresh(2 * Len(tab))
  BY <1>2, <1>4 DEF Moved
<1>6. ASSUME NEW m \in 1..n
      PROVE  F[m] = IF tab[m].status = "OCCUPIED"
       THEN Store(F[m - 1], tab[m].key, tab[m].value) ELSE F[m - 1]
  <2>1. 1..m \in SUBSET (1..n) /\ 1..m # {}
    OBVIOUS
  <2>2. Max(1..m) = m /\ (1..m) \ {m} = 1..m - 1
    <3>1. m \in Nat \ {0}
      OBVIOUS
    <3> QED
      BY <3>1, LastFolded
  <2>3. H[1..m] = IF tab[Max(1..m)].status = "OCCUPIED"
       THEN Store(H[(1..m) \ {Max(1..m)}], tab[Max(1..m)].key, tab[Max(1..m)].value) ELSE H[(1..m) \ {Max(1..m)}]
    BY <1>2, <1>4, <2>1 DEF Moved
  <2>4. H[1..m] = IF tab[m].status = "OCCUPIED"
       THEN Store(H[1..m - 1], tab[m].key, tab[m].value) ELSE H[1..m - 1]
    BY <2>2, <2>3
  <2> QED
    BY <1>2, <2>4
<1>7. F[n] = H[DOMAIN tab]
  BY <1>2
<1> HIDE DEF F
<1> QED
  BY <1>1, <1>2, <1>5, <1>6, <1>7

-----------------------------------------------------------------------------
(* The chains of the two maps that chain.                                  *)

Nodes == [key : Keys, value : Values]

\* Every node is in the chain of its key.
ChainsOK(bs) ==
    /\ bs \in [1..InitBuckets -> Seq(Nodes)]
    /\ \A i \in 1..InitBuckets : \A j \in 1..Len(bs[i]) : Bucket(bs[i][j].key) = i

InChain(b, k) == \E j \in 1..Len(b) : b[j].key = k

\* A key that is stored has a node, and a node holds what is stored.
ChainsHold(bs, md) == \A k \in Keys : md[k] # NULL => InChain(bs[Bucket(k)], k)

ChainExact(b, md) ==
    \A j \in 1..Len(b) :
        /\ md[b[j].key] = b[j].value
        /\ \A l \in 1..Len(b) : b[l].key = b[j].key => l = j

ChainsExact(bs, md) == \A i \in 1..InitBuckets : ChainExact(bs[i], md)

LEMMA BucketIn ==
    ASSUME MapAssumption, NEW k \in Keys
    PROVE  Bucket(k) \in 1..InitBuckets
<1>1. k \in Int /\ InitBuckets \in Nat \ {0}
  BY DEF MapAssumption
<1>2. PICK r \in 0..InitBuckets - 1 : r = k % InitBuckets
  BY <1>1, DivMod
<1> QED
  BY <1>1, <1>2 DEF Bucket

\* The walk along a chain stops at the first node with the key.
LEMMA PositionFirst ==
    ASSUME MapAssumption, NEW k, NEW b, b = buckets[Bucket(k)], b \in Seq(Nodes), NEW p, p = Position(k)
    PROVE  /\ p = 0 <=> ~InChain(b, k)
           /\ p # 0 => /\ p \in 1..Len(b) /\ b[p].key = k
                       /\ \A j \in 1..Len(b) : b[j].key = k => p <= j
<1> DEFINE I == {i \in 1..Len(b) : b[i].key = k}
<1>1. p = IF I # {} THEN Min(I) ELSE 0
  BY Zenon DEF Position, SelectInSeq
<1>2. I \subseteq Nat /\ (I # {} <=> InChain(b, k)) /\ 0 \notin I
  BY DEF InChain
<1>3. I # {} => \E n \in I : \A m \in I : n <= m
  <2> HIDE DEF I
  <2> QED
    BY <1>2, LeastNumber, Zenon
<1>4. I # {} => Min(I) \in I /\ \A m \in I : Min(I) <= m
  BY <1>3 DEF Min
<1> QED
  BY <1>1, <1>2, <1>4

\* What a call changes is one chain.
OneChain(bs, bs2, i, b) == bs2 = [bs EXCEPT ![i] = b]

LEMMA OneChainIs ==
    ASSUME NEW bs, ChainsOK(bs), NEW i \in 1..InitBuckets, NEW b, NEW bs2, OneChain(bs, bs2, i, b)
    PROVE  /\ bs2[i] = b /\ \A l \in 1..InitBuckets : l # i => bs2[l] = bs[l]
           /\ DOMAIN bs2 = 1..InitBuckets
BY DEF ChainsOK, OneChain

LEMMA OneChainOK ==
    ASSUME NEW bs, ChainsOK(bs), NEW i \in 1..InitBuckets, NEW b \in Seq(Nodes),
           \A j \in 1..Len(b) : Bucket(b[j].key) = i, NEW bs2, OneChain(bs, bs2, i, b)
    PROVE  ChainsOK(bs2)
<1>1. bs2 \in [1..InitBuckets -> Seq(Nodes)]
  BY DEF ChainsOK, OneChain
<1>2. bs2[i] = b /\ \A l \in 1..InitBuckets : l # i => bs2[l] = bs[l]
  BY OneChainIs
<1> QED
  BY <1>1, <1>2 DEF ChainsOK

\* What the calls have stored for k becomes v.
Recorded(md, md2, k, v) == md2 = [md EXCEPT ![k] = v]

\* The other chains hold what they held, when another key changes.
LEMMA OneChainHolds ==
    ASSUME MapAssumption, NEW bs, ChainsOK(bs), NEW k \in Keys, NEW b, NEW bs2,
           OneChain(bs, bs2, Bucket(k), b), NEW md \in [Keys -> Values \cup {NULL}],
           NEW v, NEW md2, Recorded(md, md2, k, v), ChainsHold(bs, md),
           v # NULL => InChain(b, k),
           \A j \in Keys : j # k /\ InChain(bs[Bucket(k)], j) => InChain(b, j)
    PROVE  ChainsHold(bs2, md2)
<1>1. PICK i \in 1..InitBuckets : i = Bucket(k)
  BY BucketIn
<1>2. bs2[i] = b /\ \A l \in 1..InitBuckets : l # i => bs2[l] = bs[l]
  BY <1>1, OneChainIs
<1>5. md2[k] = v /\ \A j \in Keys : j # k => md2[j] = md[j]
  BY DEF Recorded
<1> SUFFICES ASSUME NEW j \in Keys, md2[j] # NULL PROVE InChain(bs2[Bucket(j)], j)
  BY DEF ChainsHold
<1>3. CASE j = k
  BY <1>1, <1>2, <1>3, <1>5
<1>4. CASE j # k
  <2>1. InChain(bs[Bucket(j)], j)
    BY <1>4, <1>5 DEF ChainsHold
  <2>2. Bucket(j) \in 1..InitBuckets
    BY BucketIn
  <2> QED
    BY <1>1, <1>2, <1>4, <2>1, <2>2
<1> QED
  BY <1>3, <1>4

LEMMA OneChainExact ==
    ASSUME MapAssumption, NEW bs, ChainsOK(bs), NEW k \in Keys, NEW b, NEW bs2,
           OneChain(bs, bs2, Bucket(k), b), NEW md \in [Keys -> Values \cup {NULL}],
           NEW v, NEW md2, Recorded(md, md2, k, v), ChainsExact(bs, md), ChainExact(b, md2)
    PROVE  ChainsExact(bs2, md2)
<1>1. PICK i \in 1..InitBuckets : i = Bucket(k)
  BY BucketIn
<1>2. bs2[i] = b /\ \A l \in 1..InitBuckets : l # i => bs2[l] = bs[l]
  BY <1>1, OneChainIs
<1> SUFFICES ASSUME NEW l \in 1..InitBuckets PROVE ChainExact(bs2[l], md2)
  BY DEF ChainsExact
<1>3. CASE l = i
  BY <1>2, <1>3
<1>4. CASE l # i
  <2>1. \A j \in 1..Len(bs[l]) : bs[l][j].key \in Keys /\ bs[l][j].key # k
    <3> SUFFICES ASSUME NEW j \in 1..Len(bs[l]) PROVE bs[l][j].key \in Keys /\ bs[l][j].key # k
      OBVIOUS
    <3>1. bs[l][j] \in Nodes /\ Bucket(bs[l][j].key) = l
      BY DEF ChainsOK
    <3> QED
      BY <1>1, <1>4, <3>1 DEF Nodes
  <2>2. \A j \in 1..Len(bs[l]) : md2[bs[l][j].key] = md[bs[l][j].key]
    BY <2>1 DEF Recorded
  <2> QED
    BY <1>2, <1>4, <2>2 DEF ChainsExact, ChainExact
<1> QED
  BY <1>3, <1>4

\* b2 is b without the nodes at D.
Thinned(b, b2, D) ==
    \E f \in [1..Len(b2) -> 1..Len(b)] :
        /\ \A j, l \in 1..Len(b2) : j < l => f[j] < f[l]
        /\ \A j \in 1..Len(b2) : b2[j] = b[f[j]]
        /\ \A l \in 1..Len(b) : l \notin D <=> \E j \in 1..Len(b2) : f[j] = l

\* A sequence without one of its elements.
LEMMA ShorterByOne ==
    ASSUME NEW X, NEW b \in Seq(X), NEW p \in 1..Len(b)
    PROVE  \E b2 : /\ b2 = RemoveAt(b, p) /\ b2 \in Seq(X) /\ Len(b2) = Len(b) - 1
                   /\ \A j \in 1..Len(b) - 1 : b2[j] = IF j < p THEN b[j] ELSE b[j + 1]
<1>1. PICK n \in Nat : n = Len(b)
  OBVIOUS
<1>2. PICK l : l = SubSeq(b, 1, p - 1)
  OBVIOUS
<1>3. l \in Seq(X) /\ Len(l) = p - 1 /\ \A j \in 1..p - 1 : l[j] = b[j]
  BY <1>1, <1>2
<1>4. PICK r : r = SubSeq(b, p + 1, n)
  OBVIOUS
<1>5. r \in Seq(X) /\ Len(r) = n - p /\ \A j \in 1..n - p : r[j] = b[p + j]
  BY <1>1, <1>4
<1>6. PICK b2 : b2 = l \o r
  OBVIOUS
<1>7. b2 = RemoveAt(b, p)
  BY <1>1, <1>2, <1>4, <1>6 DEF RemoveAt
<1>8. b2 \in Seq(X) /\ Len(b2) = n - 1
  <2>1. b2 \in Seq(X) /\ Len(b2) = Len(l) + Len(r)
    BY <1>3, <1>5, <1>6, ConcatProperties, Zenon
  <2>2. (p - 1) + (n - p) = n - 1
    BY <1>1
  <2> QED
    BY <1>3, <1>5, <2>1, <2>2
<1>9. ASSUME NEW j \in 1..n - 1 PROVE b2[j] = IF j < p THEN b[j] ELSE b[j + 1]
  <2>1. CASE j < p
    BY <1>1, <1>3, <1>5, <1>6, <2>1
  <2>2. CASE ~(j < p)
    <3>1. PICK i \in 1..n - p : j = (p - 1) + i
      <4>1. j - (p - 1) \in 1..n - p /\ j = (p - 1) + (j - (p - 1))
        BY <1>1, <2>2
      <4> QED
        BY <4>1
    <3>2. b2[j] = r[i]
      BY <1>1, <1>3, <1>5, <1>6, <3>1
    <3>3. r[i] = b[p + i] /\ p + i = j + 1
      BY <1>1, <1>5, <3>1
    <3> QED
      BY <2>2, <3>2, <3>3
  <2> QED
    BY <2>1, <2>2
<1> QED
  BY <1>1, <1>7, <1>8, <1>9

LEMMA RemovedOne ==
    ASSUME NEW X, NEW b \in Seq(X), NEW p \in 1..Len(b)
    PROVE  \E b2 : /\ b2 = RemoveAt(b, p) /\ b2 \in Seq(X) /\ Len(b2) = Len(b) - 1
                   /\ Thinned(b, b2, {p})
<1>1. PICK n \in Nat : n = Len(b)
  OBVIOUS
<1>2. PICK b2 : /\ b2 = RemoveAt(b, p) /\ b2 \in Seq(X) /\ Len(b2) = n - 1
                /\ \A j \in 1..n - 1 : b2[j] = IF j < p THEN b[j] ELSE b[j + 1]
  BY <1>1, ShorterByOne
<1> DEFINE f == [j \in 1..n - 1 |-> IF j < p THEN j ELSE j + 1]
<1>4. f \in [1..n - 1 -> 1..n]
  BY <1>1
<1>5. \A j, l \in 1..n - 1 : j < l => f[j] < f[l]
  BY <1>1
<1>6. \A j \in 1..n - 1 : b2[j] = b[f[j]]
  BY <1>2
<1>7. \A l \in 1..n : l \notin {p} <=> \E j \in 1..n - 1 : f[j] = l
  <2> SUFFICES ASSUME NEW l \in 1..n PROVE l # p <=> \E j \in 1..n - 1 : f[j] = l
    OBVIOUS
  <2>1. l < p => l \in 1..n - 1 /\ f[l] = l
    BY <1>1
  <2>2. l > p => l - 1 \in 1..n - 1 /\ f[l - 1] = l
    BY <1>1
  <2>3. \A j \in 1..n - 1 : f[j] # p
    BY <1>1
  <2>4. l < p \/ l = p \/ l > p
    BY <1>1
  <2> HIDE DEF f
  <2> QED
    BY <2>1, <2>2, <2>3, <2>4
<1> HIDE DEF f
<1>8. PICK g : g = f
  OBVIOUS
<1>9. /\ g \in [1..Len(b2) -> 1..Len(b)]
      /\ \A j, l \in 1..Len(b2) : j < l => g[j] < g[l]
      /\ \A j \in 1..Len(b2) : b2[j] = b[g[j]]
      /\ \A l \in 1..Len(b) : l \notin {p} <=> \E j \in 1..Len(b2) : g[j] = l
  <2>1. Len(b2) = n - 1 /\ Len(b) = n
    BY <1>1, <1>2
  <2> QED
    BY <2>1, <1>4, <1>5, <1>6, <1>7, <1>8, Zenon
<1>10. Thinned(b, b2, {p})
  BY <1>9, Zenon DEF Thinned
<1> QED
  BY <1>1, <1>2, <1>10

\* A sequence without the nodes of a key.
LEMMA WithoutIs ==
    ASSUME NEW b \in Seq(Nodes), NEW k \in Keys
    PROVE  \E b2, D : /\ b2 = Without(b, k) /\ b2 \in Seq(Nodes) /\ Thinned(b, b2, D)
                      /\ \A l \in 1..Len(b) : b[l].key = k <=> l \in D
<1>1. PICK n \in Nat : n = Len(b)
  OBVIOUS
<1>2. PICK F : /\ Without(b, k) = F[n] /\ F[0] = <<>>
               /\ \A m \in 1..n : F[m] = IF b[m].key = k THEN F[m - 1] ELSE Append(F[m - 1], b[m])
  <2>1. \E F : /\ Without(b, k) = F[Len(b)] /\ F[0] = <<>>
               /\ \A m \in 1..Len(b) : F[m] = IF b[m].key = k THEN F[m - 1] ELSE Append(F[m - 1], b[m])
    <3>1. PICK X : X = Nodes
      OBVIOUS
    <3>2. b \in Seq(X)
      BY <3>1
    <3> QED
      BY <3>2, KeptFold
  <2> QED
    BY <1>1, <2>1, Zenon
<1> DEFINE Good(m, c) ==
      /\ c \in Seq(Nodes)
      /\ \E f \in [1..Len(c) -> 1..m] :
           /\ \A j, l \in 1..Len(c) : j < l => f[j] < f[l]
           /\ \A j \in 1..Len(c) : c[j] = b[f[j]]
           /\ \A l \in 1..m : b[l].key # k <=> \E j \in 1..Len(c) : f[j] = l
    B == {m \in 0..n : ~Good(m, F[m])}
<1>3. Good(0, <<>>)
  <2>1. <<>> \in Seq(Nodes)
    BY EmptySeq, Zenon
  <2>2. PICK c : c = <<>> /\ c \in Seq(Nodes) /\ Len(c) = 0
    BY <2>1, EmptySeq, Zenon
  <2>3. PICK f : f = [j \in 1..0 |-> 0]
    OBVIOUS
  <2>4. f \in [1..Len(c) -> 1..0]
    BY <2>2, <2>3
  <2>6. \A j \in 1..Len(c) : FALSE
    BY <2>2
  <2>7. \A l \in 1..0 : FALSE
    OBVIOUS
  <2>5. Good(0, c)
    BY <2>2, <2>4, <2>6, <2>7, Zenon
  <2> HIDE DEF Good
  <2> QED
    BY <2>2, <2>5
<1>4. ASSUME NEW m \in 1..n, NEW c, Good(m - 1, c), b[m].key = k PROVE Good(m, c)
  <2>1. PICK f \in [1..Len(c) -> 1..m - 1] :
           /\ \A j, l \in 1..Len(c) : j < l => f[j] < f[l]
           /\ \A j \in 1..Len(c) : c[j] = b[f[j]]
           /\ \A l \in 1..m - 1 : b[l].key # k <=> \E j \in 1..Len(c) : f[j] = l
    BY <1>4
  <2>2. c \in Seq(Nodes) /\ Len(c) \in Nat
    BY <1>4
  <2>3. f \in [1..Len(c) -> 1..m]
    BY <2>1
  <2>4. \A l \in 1..m : b[l].key # k <=> \E j \in 1..Len(c) : f[j] = l
    <3> SUFFICES ASSUME NEW l \in 1..m
                 PROVE  b[l].key # k <=> \E j \in 1..Len(c) : f[j] = l
      OBVIOUS
    <3>1. CASE l = m
      <4>1. \A j \in 1..Len(c) : f[j] # l
        BY <2>1, <3>1
      <4> QED
        BY <1>4, <3>1, <4>1
    <3>2. CASE l # m
      <4>1. l \in 1..m - 1
        BY <3>2
      <4> QED
        BY <2>1, <4>1
    <3> QED
      BY <3>1, <3>2
  <2> QED
    BY <2>1, <2>2, <2>3, <2>4
<1>5. ASSUME NEW m \in 1..n, NEW c, Good(m - 1, c), b[m].key # k PROVE Good(m, Append(c, b[m]))
  <2>1. PICK f \in [1..Len(c) -> 1..m - 1] :
           /\ \A j, l \in 1..Len(c) : j < l => f[j] < f[l]
           /\ \A j \in 1..Len(c) : c[j] = b[f[j]]
           /\ \A l \in 1..m - 1 : b[l].key # k <=> \E j \in 1..Len(c) : f[j] = l
    BY <1>5
  <2>2. b[m] \in Nodes
    BY <1>1
  <2>3. PICK q \in Nat : q = Len(c)
    BY <1>5
  <2>4. PICK d : d = Append(c, b[m])
    OBVIOUS
  <2>5. /\ d \in Seq(Nodes) /\ Len(d) = q + 1 /\ d[q + 1] = b[m]
        /\ \A j \in 1..q : d[j] = c[j]
    BY <1>5, <2>2, <2>3, <2>4
  <2>6. PICK g : g = [j \in 1..q + 1 |-> IF j = q + 1 THEN m ELSE f[j]]
    OBVIOUS
  <2>7. g[q + 1] = m /\ \A j \in 1..q : g[j] = f[j] /\ g[j] \in 1..m - 1
    BY <2>1, <2>3, <2>6
  <2>8. g \in [1..q + 1 -> 1..m]
    BY <2>3, <2>6, <2>7
  <2>9. \A j, l \in 1..q + 1 : j < l => g[j] < g[l]
    <3> SUFFICES ASSUME NEW j \in 1..q + 1, NEW l \in 1..q + 1, j < l PROVE g[j] < g[l]
      OBVIOUS
    <3>0. j < l
      OBVIOUS
    <3>1. j \in 1..q
      BY <2>3
    <3>2. CASE l = q + 1
      BY <2>7, <3>1, <3>2
    <3>3. CASE l # q + 1
      <4>1. l \in 1..q /\ l \in 1..Len(c) /\ j \in 1..Len(c)
        BY <2>3, <3>1, <3>3
      <4>2. f[j] < f[l]
        BY <2>1, <3>0, <4>1
      <4> QED
        BY <2>7, <3>1, <4>1, <4>2
    <3> QED
      BY <3>2, <3>3
  <2>10. \A j \in 1..q + 1 : d[j] = b[g[j]]
    <3> SUFFICES ASSUME NEW j \in 1..q + 1 PROVE d[j] = b[g[j]]
      OBVIOUS
    <3>1. CASE j = q + 1
      BY <2>5, <2>7, <3>1
    <3>2. CASE j # q + 1
      BY <2>1, <2>3, <2>5, <2>7, <3>2
    <3> QED
      BY <3>1, <3>2
  <2>11. \A l \in 1..m : b[l].key # k <=> \E j \in 1..q + 1 : g[j] = l
    <3> SUFFICES ASSUME NEW l \in 1..m PROVE b[l].key # k <=> \E j \in 1..q + 1 : g[j] = l
      OBVIOUS
    <3>1. CASE l = m
      BY <1>5, <2>7, <3>1, <2>3
    <3>2. CASE l # m
      <4>1. l \in 1..m - 1
        BY <3>2
      <4>2. b[l].key # k <=> \E j \in 1..q : f[j] = l
        BY <2>1, <2>3, <4>1
      <4>3. ASSUME NEW j \in 1..q + 1, g[j] = l PROVE \E i \in 1..q : f[i] = l
        <5>1. j \in 1..q
          BY <2>3, <2>7, <3>2, <4>3
        <5> QED
          BY <2>7, <4>3, <5>1
      <4>4. ASSUME NEW j \in 1..q, f[j] = l PROVE \E i \in 1..q + 1 : g[i] = l
        <5>1. j \in 1..q + 1 /\ g[j] = l
          BY <2>3, <2>7, <4>4
        <5> QED
          BY <5>1
      <4> QED
        BY <4>2, <4>3, <4>4
    <3> QED
      BY <3>1, <3>2
  <2>12. Good(m, d)
    <3>2. Len(d) = q + 1
      BY <2>5
    <3>3. /\ g \in [1..Len(d) -> 1..m]
          /\ \A j, l \in 1..Len(d) : j < l => g[j] < g[l]
          /\ \A j \in 1..Len(d) : d[j] = b[g[j]]
          /\ \A l \in 1..m : b[l].key # k <=> \E j \in 1..Len(d) : g[j] = l
      BY <2>8, <2>9, <2>10, <2>11, <3>2, Zenon
    <3> QED
      BY <2>5, <3>3, Zenon
  <2> HIDE DEF Good
  <2> QED
    BY <2>4, <2>12
<1> HIDE DEF Good
<1>6. Good(n, F[n])
  <2> SUFFICES ASSUME B # {} PROVE FALSE
    BY <1>1
  <2>1. PICK m \in B : \A a \in B : m <= a
    <3>1. B \subseteq Nat
      BY <1>1
    <3> HIDE DEF B
    <3> QED
      BY <3>1, LeastNumber, Zenon
  <2>2. m \in 0..n /\ ~Good(m, F[m])
    OBVIOUS
  <2>3. m # 0
    BY <1>2, <1>3, <2>2
  <2>4. m - 1 \in 0..n /\ Good(m - 1, F[m - 1])
    <3>1. m - 1 \in 0..n /\ ~(m <= m - 1)
      BY <1>1, <2>2, <2>3
    <3> QED
      BY <2>1, <3>1
  <2>5. m \in 1..n
    BY <2>2, <2>3
  <2> QED
    BY <1>2, <1>4, <1>5, <2>2, <2>4, <2>5
<1>7. PICK b2 : b2 = F[n]
  OBVIOUS
<1>8. PICK f \in [1..Len(b2) -> 1..n] :
           /\ \A j, l \in 1..Len(b2) : j < l => f[j] < f[l]
           /\ \A j \in 1..Len(b2) : b2[j] = b[f[j]]
           /\ \A l \in 1..n : b[l].key # k <=> \E j \in 1..Len(b2) : f[j] = l
  BY <1>6, <1>7 DEF Good
<1>9. b2 \in Seq(Nodes) /\ Len(b2) \in Nat
  BY <1>6, <1>7 DEF Good
<1>10. PICK D : D = {i \in 1..n : b[i].key = k}
  OBVIOUS
<1>11. /\ \A l \in 1..n : b[l].key = k <=> l \in D
       /\ \A l \in 1..n : l \notin D <=> \E j \in 1..Len(b2) : f[j] = l
  BY <1>8, <1>10
<1>12. Thinned(b, b2, D)
  BY <1>1, <1>8, <1>11, Zenon DEF Thinned
<1> QED
  BY <1>1, <1>2, <1>7, <1>9, <1>11, <1>12

\* How many nodes the chains have.
Total(bs) == FoldLeft(LAMBDA a, b : a + Len(b), 0, bs)

LEMMA ChainsAreSeq ==
    ASSUME MapAssumption, NEW bs, ChainsOK(bs)
    PROVE  bs \in Seq(Seq(Nodes)) /\ Len(bs) = InitBuckets
<1>1. PICK n \in Nat : n = InitBuckets
  BY DEF MapAssumption
<1>2. bs \in [1..n -> Seq(Nodes)]
  BY <1>1 DEF ChainsOK
<1>3. bs \in Seq(Seq(Nodes))
  BY <1>2, SeqDef
<1> QED
  BY <1>1, <1>2, <1>3

LEMMA TotalOf ==
    ASSUME MapAssumption, NEW bs, ChainsOK(bs)
    PROVE  \E F : /\ Total(bs) = F[InitBuckets] /\ F[0] = 0
                  /\ \A m \in 1..InitBuckets : F[m] = F[m - 1] + Len(bs[m])
<1>1. PICK X : X = Nodes
  OBVIOUS
<1>2. bs \in Seq(Seq(X)) /\ Len(bs) = InitBuckets
  BY <1>1, ChainsAreSeq
<1>3. \E F : /\ Total(bs) = F[Len(bs)] /\ F[0] = 0
             /\ \A m \in 1..Len(bs) : F[m] = F[m - 1] + Len(bs[m])
  BY <1>2, LengthsFold DEF Total
<1> QED
  BY <1>2, <1>3

\* When one chain changes, so does the total.
LEMMA TotalChange ==
    ASSUME MapAssumption, NEW bs, ChainsOK(bs), NEW i \in 1..InitBuckets, NEW b \in Seq(Nodes), NEW bs2,
           ChainsOK(bs2), OneChain(bs, bs2, i, b)
    PROVE  /\ Total(bs) \in Nat /\ Total(bs2) \in Nat
           /\ Total(bs2) + Len(bs[i]) = Total(bs) + Len(b)
<1>1. PICK n \in Nat : n = InitBuckets
  BY DEF MapAssumption
<1>2. PICK F : Total(bs) = F[n] /\ F[0] = 0 /\ \A m \in 1..n : F[m] = F[m - 1] + Len(bs[m])
  BY <1>1, TotalOf
<1>3. PICK G : Total(bs2) = G[n] /\ G[0] = 0 /\ \A m \in 1..n : G[m] = G[m - 1] + Len(bs2[m])
  BY <1>1, TotalOf
<1>4. PICK p \in Nat, q \in Nat : p = Len(bs[i]) /\ q = Len(b)
  BY DEF ChainsOK
<1>5. bs2[i] = b /\ \A l \in 1..n : l # i => bs2[l] = bs[l]
  BY <1>1, OneChainIs
<1>6. \A l \in 1..n : Len(bs[l]) \in Nat
  BY <1>1 DEF ChainsOK
<1> DEFINE Good(m) == /\ F[m] \in Nat /\ G[m] \in Nat
                      /\ m < i => G[m] = F[m]
                      /\ i <= m => G[m] + p = F[m] + q
           B == {m \in 0..n : ~Good(m)}
<1>7. ASSUME B # {} PROVE FALSE
  <2>1. PICK m \in B : \A a \in B : m <= a
    <3>1. B \subseteq Nat
      BY <1>1
    <3> HIDE DEF B
    <3> QED
      BY <1>7, <3>1, LeastNumber, Zenon
  <2>2. m \in 0..n /\ ~Good(m)
    OBVIOUS
  <2>3. m # 0
    BY <1>1, <1>2, <1>3, <2>2
  <2>4. m - 1 \in 0..n /\ Good(m - 1)
    <3>1. m - 1 \in 0..n /\ ~(m <= m - 1)
      BY <1>1, <2>2, <2>3
    <3> QED
      BY <2>1, <3>1
  <2>5. m \in 1..n
    BY <2>2, <2>3
  <2>6. PICK x \in Nat, y \in Nat : x = F[m - 1] /\ y = G[m - 1]
    BY <2>4
  <2>7. CASE m = i
    <3>1. F[m] = x + p /\ G[m] = y + q /\ y = x
      BY <1>2, <1>3, <1>4, <1>5, <2>4, <2>5, <2>6, <2>7
    <3> QED
      BY <2>2, <2>7, <3>1
  <2>8. CASE m # i
    <3>1. PICK z \in Nat : z = Len(bs[m]) /\ z = Len(bs2[m])
      BY <1>5, <1>6, <2>5, <2>8
    <3>2. F[m] = x + z /\ G[m] = y + z
      BY <1>2, <1>3, <2>5, <2>6, <3>1
    <3>3. (m < i => y = x) /\ (i <= m => y + p = x + q)
      BY <1>1, <2>4, <2>5, <2>6, <2>8
    <3> QED
      BY <2>2, <3>2, <3>3
  <2> QED
    BY <2>7, <2>8
<1>8. Good(n)
  BY <1>1, <1>7
<1> QED
  BY <1>1, <1>2, <1>3, <1>4, <1>8

\* The chains, the free nodes and what the calls have stored.
ChainPart(kd, bs, fn, md, re) ==
    /\ ChainsOK(bs)
    /\ fn \in Nat
    /\ fn = NodesPool \/ kd = "fixed"
    /\ kd = "fixed" => fn + Total(bs) = NodesPool
    /\ kd # "open" => ChainsHold(bs, md)
    /\ kd = "chaining" \/ (kd = "fixed" /\ ~re) => ChainsExact(bs, md)

\* b becomes c, which still has every key but k.
ChainKept(b, c, k, v) ==
    /\ c \in Seq(Nodes)
    /\ \A j \in 1..Len(c) : Bucket(c[j].key) = Bucket(k)
    /\ v # NULL => InChain(c, k)
    /\ \A j \in Keys : j # k /\ InChain(b, j) => InChain(c, j)

LEMMA ChainStep ==
    ASSUME MapAssumption, NEW kd, NEW bs, NEW fn, NEW md \in [Keys -> Values \cup {NULL}],
           NEW re, ChainPart(kd, bs, fn, md, re), kd \in {"chaining", "fixed"},
           NEW k \in Keys, NEW v, NEW md2, Recorded(md, md2, k, v),
           NEW b, b = bs[Bucket(k)],
           NEW c, ChainKept(b, c, k, v), NEW bs2, OneChain(bs, bs2, Bucket(k), c),
           NEW re2, re => re2,
           kd = "chaining" \/ (kd = "fixed" /\ ~re2) => (ChainExact(b, md) => ChainExact(c, md2)),
           NEW fn2 \in Nat,
           kd # "fixed" => fn2 = fn,
           kd = "fixed" => fn2 + Len(c) = fn + Len(b)
    PROVE  ChainPart(kd, bs2, fn2, md2, re2)
<1>1. PICK i \in 1..InitBuckets : i = Bucket(k)
  BY BucketIn
<1>2. ChainsOK(bs) /\ fn \in Nat /\ c \in Seq(Nodes)
  BY DEF ChainPart, ChainKept
<1>3. OneChain(bs, bs2, i, c) /\ \A j \in 1..Len(c) : Bucket(c[j].key) = i
  BY <1>1 DEF ChainKept
<1>4. ChainsOK(bs2)
  BY <1>2, <1>3, OneChainOK
<1>5. ASSUME kd = "fixed" PROVE fn2 + Total(bs2) = NodesPool
  <2>1. /\ Total(bs) \in Nat /\ Total(bs2) \in Nat
        /\ Total(bs2) + Len(bs[i]) = Total(bs) + Len(c)
    BY <1>2, <1>3, <1>4, TotalChange
  <2>2. PICK t \in Nat, t2 \in Nat : t = Total(bs) /\ t2 = Total(bs2)
    BY <2>1
  <2>3. PICK p \in Nat, q \in Nat : p = Len(b) /\ q = Len(c)
    <3>1. b \in Seq(Nodes)
      BY <1>1, <1>2 DEF ChainsOK
    <3> QED
      BY <1>2, <3>1
  <2>4. t2 + p = t + q
    BY <1>1, <2>1, <2>2, <2>3
  <2>5. fn2 + q = fn + p /\ fn + t = NodesPool
    BY <1>5, <2>2, <2>3 DEF ChainPart
  <2>6. fn2 + t2 = fn + t
    BY <1>2, <2>4, <2>5
  <2> QED
    BY <2>2, <2>5, <2>6
<1>6. ChainsHold(bs2, md2)
  <2>1. ChainsHold(bs, md)
    BY DEF ChainPart
  <2>2. v # NULL => InChain(c, k)
    BY DEF ChainKept
  <2>3. \A j \in Keys : j # k /\ InChain(bs[Bucket(k)], j) => InChain(c, j)
    BY DEF ChainKept
  <2> QED
    <3>1. OneChain(bs, bs2, Bucket(k), c) /\ Recorded(md, md2, k, v)
      OBVIOUS
    <3> QED
      BY <1>2, <2>1, <2>2, <2>3, <3>1, OneChainHolds
<1>7. ASSUME kd = "chaining" \/ (kd = "fixed" /\ ~re2) PROVE ChainsExact(bs2, md2)
  <2>1. ChainsExact(bs, md)
    BY <1>7 DEF ChainPart
  <2>2. ChainExact(b, md)
    BY <1>1, <2>1 DEF ChainsExact
  <2>3. ChainExact(c, md2)
    BY <1>7, <2>2
  <2> QED
    BY <1>2, <2>1, <2>3, OneChainExact
<1>8. fn2 = NodesPool \/ kd = "fixed"
  BY DEF ChainPart
<1> QED
  BY <1>4, <1>5, <1>6, <1>7, <1>8 DEF ChainPart

\* A node is added at the end.
Appended(b, c, k, v) == c = Append(b, Node(k, v))

LEMMA AppendKept ==
    ASSUME MapAssumption, NEW k \in Keys, NEW v \in Values, NEW b \in Seq(Nodes),
           \A j \in 1..Len(b) : Bucket(b[j].key) = Bucket(k), NEW c, Appended(b, c, k, v)
    PROVE  ChainKept(b, c, k, v) /\ Len(c) = Len(b) + 1
<1>1. PICK n \in Nat : n = Len(b)
  OBVIOUS
<1>2. PICK e : e = Node(k, v) /\ e \in Nodes /\ e.key = k
  <2>1. Node(k, v) \in Nodes /\ Node(k, v).key = k /\ Node(k, v).value = v
    BY DEF Node, Nodes
  <2> QED
    BY <2>1
<1>3. c \in Seq(Nodes) /\ Len(c) = n + 1 /\ c[n + 1] = e /\ \A j \in 1..n : c[j] = b[j]
  BY <1>1, <1>2 DEF Appended
<1>4. InChain(c, k)
  <2>1. n + 1 \in 1..Len(c) /\ c[n + 1].key = k
    BY <1>1, <1>2, <1>3
  <2> QED
    BY <2>1 DEF InChain
<1>5. \A j \in Keys : InChain(b, j) => InChain(c, j)
  <2> SUFFICES ASSUME NEW j \in Keys, NEW l \in 1..n, b[l].key = j PROVE InChain(c, j)
    BY <1>1 DEF InChain
  <2>1. l \in 1..Len(c) /\ c[l].key = j
    BY <1>1, <1>3
  <2> QED
    BY <2>1 DEF InChain
<1>6. \A j \in 1..Len(c) : Bucket(c[j].key) = Bucket(k)
  <2> SUFFICES ASSUME NEW j \in 1..n + 1 PROVE Bucket(c[j].key) = Bucket(k)
    BY <1>3
  <2>1. CASE j = n + 1
    BY <1>2, <1>3, <2>1
  <2>2. CASE j # n + 1
    <3>1. j \in 1..n
      BY <1>1, <2>2
    <3> QED
      BY <1>1, <1>3, <3>1
  <2> QED
    BY <2>1, <2>2
<1> QED
  BY <1>1, <1>3, <1>4, <1>5, <1>6 DEF ChainKept

LEMMA AppendExact ==
    ASSUME NEW k \in Keys, NEW v \in Values, NEW b \in Seq(Nodes), ~InChain(b, k),
           NEW c, Appended(b, c, k, v), NEW md \in [Keys -> Values \cup {NULL}],
           NEW md2, Recorded(md, md2, k, v), ChainExact(b, md)
    PROVE  ChainExact(c, md2)
<1>1. PICK n \in Nat : n = Len(b)
  OBVIOUS
<1>2. PICK e : e = Node(k, v) /\ e \in Nodes /\ e.key = k /\ e.value = v
  <2>1. Node(k, v) \in Nodes /\ Node(k, v).key = k /\ Node(k, v).value = v
    BY DEF Node, Nodes
  <2> QED
    BY <2>1
<1>3. c \in Seq(Nodes) /\ Len(c) = n + 1 /\ c[n + 1] = e /\ \A j \in 1..n : c[j] = b[j]
  BY <1>1, <1>2 DEF Appended
<1>4. md2[k] = v /\ \A j \in Keys : j # k => md2[j] = md[j]
  BY DEF Recorded
<1>5. \A j \in 1..n : b[j].key # k /\ b[j].key \in Keys
  <2>1. \A j \in 1..n : b[j] \in Nodes
    BY <1>1
  <2> QED
    BY <1>1, <2>1 DEF InChain, Nodes
<1>6. \A j \in 1..n : md2[c[j].key] = c[j].value
  BY <1>1, <1>3, <1>4, <1>5 DEF ChainExact
<1>7. ASSUME NEW j \in 1..n + 1, NEW l \in 1..n + 1, c[l].key = c[j].key PROVE l = j
  <2>1. CASE j \in 1..n /\ l \in 1..n
    BY <1>1, <1>3, <1>7, <2>1 DEF ChainExact
  <2>2. CASE j = n + 1 /\ l \in 1..n
    BY <1>2, <1>3, <1>5, <1>7, <2>2
  <2>3. CASE l = n + 1 /\ j \in 1..n
    BY <1>2, <1>3, <1>5, <1>7, <2>3
  <2>4. CASE j = n + 1 /\ l = n + 1
    BY <2>4
  <2> QED
    BY <1>1, <2>1, <2>2, <2>3, <2>4
<1>8. \A j \in 1..n + 1 : md2[c[j].key] = c[j].value
  <2> SUFFICES ASSUME NEW j \in 1..n + 1 PROVE md2[c[j].key] = c[j].value
    OBVIOUS
  <2>1. CASE j = n + 1
    BY <1>2, <1>3, <1>4, <2>1
  <2>2. CASE j # n + 1
    BY <1>1, <1>6, <2>2
  <2> QED
    BY <2>1, <2>2
<1> QED
  BY <1>3, <1>7, <1>8 DEF ChainExact

\* A node gets another value.
Revalued(b, c, p, v) == c = [b EXCEPT ![p].value = v]

LEMMA ReplaceKept ==
    ASSUME MapAssumption, NEW k \in Keys, NEW v \in Values, NEW b \in Seq(Nodes),
           \A j \in 1..Len(b) : Bucket(b[j].key) = Bucket(k),
           NEW p \in 1..Len(b), b[p].key = k, NEW c, Revalued(b, c, p, v)
    PROVE  ChainKept(b, c, k, v) /\ Len(c) = Len(b)
<1>1. PICK n \in Nat : n = Len(b)
  OBVIOUS
<1>2. PICK e : e = [b[p] EXCEPT !.value = v]
  OBVIOUS
<1>3. e \in Nodes /\ e.key = k
  <2>1. b[p] \in Nodes
    OBVIOUS
  <2> QED
    BY <1>2, <2>1 DEF Nodes
<1>4. c = [b EXCEPT ![p] = e]
  BY <1>2 DEF Revalued
<1>5. c \in Seq(Nodes) /\ Len(c) = n /\ \A j \in 1..n : c[j] = IF j = p THEN e ELSE b[j]
  BY <1>1, <1>3, <1>4, ExceptSeq
<1>6. \A j \in 1..n : c[j].key = b[j].key
  BY <1>3, <1>5
<1>7. \A j \in Keys : InChain(b, j) => InChain(c, j)
  BY <1>1, <1>5, <1>6 DEF InChain
<1>8. InChain(b, k)
  BY DEF InChain
<1> QED
  BY <1>1, <1>5, <1>6, <1>7, <1>8 DEF ChainKept

LEMMA ReplaceExact ==
    ASSUME NEW k \in Keys, NEW v \in Values, NEW b \in Seq(Nodes),
           NEW p \in 1..Len(b), b[p].key = k, NEW c, Revalued(b, c, p, v),
           NEW md \in [Keys -> Values \cup {NULL}],
           NEW md2, Recorded(md, md2, k, v), ChainExact(b, md)
    PROVE  ChainExact(c, md2)
<1>1. PICK n \in Nat : n = Len(b)
  OBVIOUS
<1>2. PICK e : e = [b[p] EXCEPT !.value = v]
  OBVIOUS
<1>3. e \in Nodes /\ e.key = k /\ e.value = v
  <2>1. b[p] \in Nodes
    OBVIOUS
  <2> QED
    BY <1>2, <2>1 DEF Nodes
<1>4. c = [b EXCEPT ![p] = e]
  BY <1>2 DEF Revalued
<1>5. c \in Seq(Nodes) /\ Len(c) = n /\ \A j \in 1..n : c[j] = IF j = p THEN e ELSE b[j]
  BY <1>1, <1>3, <1>4, ExceptSeq
<1>6. \A j \in 1..n : c[j].key = b[j].key /\ b[j].key \in Keys
  <2>1. \A j \in 1..n : b[j] \in Nodes
    BY <1>1
  <2> QED
    BY <1>3, <1>5, <2>1 DEF Nodes
<1>7. md2[k] = v /\ \A j \in Keys : j # k => md2[j] = md[j]
  BY DEF Recorded
<1>8. \A j \in 1..n : j # p => b[j].key # k
  BY <1>1 DEF ChainExact
<1>9. \A j \in 1..n : md2[c[j].key] = c[j].value
  <2> SUFFICES ASSUME NEW j \in 1..n PROVE md2[c[j].key] = c[j].value
    OBVIOUS
  <2>1. CASE j = p
    BY <1>3, <1>5, <1>7, <2>1
  <2>2. CASE j # p
    <3>1. md[b[j].key] = b[j].value
      BY <1>1 DEF ChainExact
    <3> QED
      BY <1>5, <1>6, <1>7, <1>8, <2>2, <3>1
  <2> QED
    BY <2>1, <2>2
<1>10. \A j, l \in 1..n : c[l].key = c[j].key => l = j
  BY <1>1, <1>6 DEF ChainExact
<1> QED
  BY <1>5, <1>9, <1>10 DEF ChainExact

\* Nodes of one key are taken out.
LEMMA ThinnedKept ==
    ASSUME NEW k \in Keys, NEW b \in Seq(Nodes),
           \A j \in 1..Len(b) : Bucket(b[j].key) = Bucket(k),
           NEW D, \A l \in D : l \in 1..Len(b) => b[l].key = k,
           NEW c \in Seq(Nodes), Thinned(b, c, D)
    PROVE  ChainKept(b, c, k, NULL)
<1>1. PICK f \in [1..Len(c) -> 1..Len(b)] :
        /\ \A j \in 1..Len(c) : c[j] = b[f[j]]
        /\ \A l \in 1..Len(b) : l \notin D <=> \E j \in 1..Len(c) : f[j] = l
  BY Zenon DEF Thinned
<1>2. \A j \in 1..Len(c) : Bucket(c[j].key) = Bucket(k)
  BY <1>1
<1>3. ASSUME NEW j \in Keys, j # k, InChain(b, j) PROVE InChain(c, j)
  <2>1. PICK l \in 1..Len(b) : b[l].key = j
    BY <1>3 DEF InChain
  <2>2. l \notin D
    BY <1>3, <2>1
  <2>3. PICK i \in 1..Len(c) : f[i] = l
    BY <1>1, <2>2
  <2>4. c[i].key = j
    BY <1>1, <2>1, <2>3
  <2> QED
    BY <2>4 DEF InChain
<1> QED
  BY <1>2, <1>3 DEF ChainKept

LEMMA ThinnedExact ==
    ASSUME NEW k \in Keys, NEW b \in Seq(Nodes),
           NEW D, \A l \in 1..Len(b) : b[l].key = k => l \in D,
           NEW c, Thinned(b, c, D), NEW md \in [Keys -> Values \cup {NULL}], NEW v,
           NEW md2, Recorded(md, md2, k, v), ChainExact(b, md)
    PROVE  ChainExact(c, md2)
<1>1. PICK f \in [1..Len(c) -> 1..Len(b)] :
        /\ \A j, l \in 1..Len(c) : j < l => f[j] < f[l]
        /\ \A j \in 1..Len(c) : c[j] = b[f[j]]
        /\ \A l \in 1..Len(b) : l \notin D <=> \E j \in 1..Len(c) : f[j] = l
  BY Zenon DEF Thinned
<1>2. \A j \in Keys : j # k => md2[j] = md[j]
  BY DEF Recorded
<1>3. \A l \in 1..Len(b) : b[l].key \in Keys
  <2>1. \A l \in 1..Len(b) : b[l] \in Nodes
    OBVIOUS
  <2> QED
    BY <2>1 DEF Nodes
<1>4. ASSUME NEW j \in 1..Len(c) PROVE md2[c[j].key] = c[j].value
  <2>1. PICK l \in 1..Len(b) : l = f[j]
    BY <1>1
  <2>2. l \notin D
    BY <1>1, <2>1
  <2>3. c[j] = b[l] /\ b[l].key # k
    BY <1>1, <2>1, <2>2
  <2>4. md[b[l].key] = b[l].value
    BY DEF ChainExact
  <2> QED
    BY <1>2, <1>3, <2>3, <2>4
<1>5. ASSUME NEW j \in 1..Len(c), NEW i \in 1..Len(c), c[i].key = c[j].key PROVE i = j
  <2>1. f[i] \in 1..Len(b) /\ f[j] \in 1..Len(b) /\ b[f[i]].key = b[f[j]].key
    BY <1>1, <1>5
  <2>2. f[i] = f[j]
    BY <2>1 DEF ChainExact
  <2>3. ~(i < j) /\ ~(j < i)
    BY <1>1, <2>1, <2>2
  <2>4. i \in Int /\ j \in Int
    OBVIOUS
  <2> QED
    BY <2>3, <2>4
<1> QED
  BY <1>4, <1>5 DEF ChainExact

\* What the calls of the chaining maps leave behind.
ChainState == ChainPart(kind, buckets, freeNodes, model, reinserted)
MapTypes ==
    /\ kind \in Kinds
    /\ model \in [Keys -> Values \cup {NULL}]
    /\ reinserted \in BOOLEAN

LEMMA TheChain ==
    ASSUME MapAssumption, NEW bs, ChainsOK(bs), NEW k \in Keys
    PROVE  /\ bs[Bucket(k)] \in Seq(Nodes)
           /\ \A j \in 1..Len(bs[Bucket(k)]) : Bucket(bs[Bucket(k)][j].key) = Bucket(k)
<1>1. Bucket(k) \in 1..InitBuckets
  BY BucketIn
<1> QED
  BY <1>1 DEF ChainsOK

\* A node that is added, in either map.
LEMMA ChainCall ==
    ASSUME MapAssumption, MapTypes, ChainState, kind \in {"chaining", "fixed"},
           NEW k \in Keys, NEW v \in Values, Chain(k, v),
           kind' = kind, Recorded(model, model', k, v), reinserted => reinserted',
           kind = "chaining" \/ ~reinserted' => ~InChain(buckets[Bucket(k)], k),
           kind # "fixed" => freeNodes' = freeNodes,
           kind = "fixed" => freeNodes' \in Nat /\ freeNodes' + 1 = freeNodes
    PROVE  ChainState'
<1>1. PICK bs2 : bs2 = buckets'
  OBVIOUS
<1>2. PICK fn2 : fn2 = freeNodes'
  OBVIOUS
<1>3. PICK md2 : md2 = model'
  OBVIOUS
<1>4. PICK re2 : re2 = reinserted'
  OBVIOUS
<1>5. PICK b : b = buckets[Bucket(k)]
  OBVIOUS
<1>6. PICK c : Appended(b, c, k, v)
  BY DEF Appended
<1>7. ChainsOK(buckets) /\ freeNodes \in Nat /\ model \in [Keys -> Values \cup {NULL}]
  BY DEF ChainState, ChainPart, MapTypes
<1>8. b \in Seq(Nodes) /\ \A j \in 1..Len(b) : Bucket(b[j].key) = Bucket(k)
  BY <1>5, <1>7, TheChain
<1>9. ChainKept(b, c, k, v) /\ Len(c) = Len(b) + 1
  BY <1>6, <1>8, AppendKept
<1>10. OneChain(buckets, bs2, Bucket(k), c)
  BY <1>1, <1>5, <1>6 DEF Chain, OneChain, Appended
<1>11. Recorded(model, md2, k, v)
  BY <1>3
<1>12. kind = "chaining" \/ (kind = "fixed" /\ ~re2) => (ChainExact(b, model) => ChainExact(c, md2))
  <2> SUFFICES ASSUME kind = "chaining" \/ (kind = "fixed" /\ ~re2), ChainExact(b, model)
               PROVE  ChainExact(c, md2)
    OBVIOUS
  <2>1. ~InChain(b, k)
    BY <1>4, <1>5
  <2> QED
    BY <1>6, <1>7, <1>8, <1>11, <2>1, AppendExact
<1>13. /\ fn2 \in Nat /\ (kind # "fixed" => fn2 = freeNodes)
       /\ kind = "fixed" => fn2 + Len(c) = freeNodes + Len(b)
  <2>1. PICK n \in Nat : n = Len(b)
    BY <1>8
  <2>2. fn2 \in Nat /\ (kind # "fixed" => fn2 = freeNodes) /\ (kind = "fixed" => fn2 + 1 = freeNodes)
    BY <1>2, <1>7
  <2>3. kind = "fixed" => fn2 + (n + 1) = freeNodes + n
    BY <1>7, <2>1, <2>2
  <2> QED
    BY <1>9, <2>1, <2>2, <2>3
<1>14. ChainPart(kind, buckets, freeNodes, model, reinserted) /\ (reinserted => re2)
  BY <1>4 DEF ChainState
<1>15. ChainPart(kind, bs2, fn2, md2, re2)
  <2>1. ChainKept(b, c, k, v)
    BY <1>9
  <2> QED
    BY <1>5, <1>7, <2>1, <1>10, <1>11, <1>12, <1>13, <1>14, ChainStep
<1> QED
  BY <1>1, <1>2, <1>3, <1>4, <1>15 DEF ChainState

\* A node that gets another value.
LEMMA ReplaceCall ==
    ASSUME MapAssumption, MapTypes, ChainState, kind \in {"chaining", "fixed"},
           NEW k \in Keys, NEW v \in Values, Position(k) # 0, Replace(k, v),
           kind' = kind, Recorded(model, model', k, v), reinserted => reinserted',
           freeNodes' = freeNodes
    PROVE  ChainState'
<1>1. PICK bs2 : bs2 = buckets'
  OBVIOUS
<1>2. PICK md2 : md2 = model'
  OBVIOUS
<1>3. PICK re2 : re2 = reinserted'
  OBVIOUS
<1>4. PICK b : b = buckets[Bucket(k)]
  OBVIOUS
<1>5. PICK p : p = Position(k)
  OBVIOUS
<1>6. PICK c : Revalued(b, c, p, v)
  BY DEF Revalued
<1>7. ChainsOK(buckets) /\ freeNodes \in Nat /\ model \in [Keys -> Values \cup {NULL}]
  BY DEF ChainState, ChainPart, MapTypes
<1>8. b \in Seq(Nodes) /\ \A j \in 1..Len(b) : Bucket(b[j].key) = Bucket(k)
  BY <1>4, <1>7, TheChain
<1>9. p \in 1..Len(b) /\ b[p].key = k
  BY <1>4, <1>5, <1>8, PositionFirst
<1>10. ChainKept(b, c, k, v) /\ Len(c) = Len(b)
  BY <1>6, <1>8, <1>9, ReplaceKept
<1>11. OneChain(buckets, bs2, Bucket(k), c)
  BY <1>1, <1>4, <1>5, <1>6 DEF Replace, OneChain, Revalued
<1>12. Recorded(model, md2, k, v)
  BY <1>2
<1>13. ChainExact(b, model) => ChainExact(c, md2)
  BY <1>6, <1>7, <1>8, <1>9, <1>12, ReplaceExact
<1>14. freeNodes + Len(c) = freeNodes + Len(b)
  BY <1>10
<1>15. ChainPart(kind, buckets, freeNodes, model, reinserted) /\ (reinserted => re2)
  BY <1>3 DEF ChainState
<1>16. ChainPart(kind, bs2, freeNodes, md2, re2)
  BY <1>4, <1>7, <1>10, <1>11, <1>12, <1>13, <1>14, <1>15, ChainStep
<1> QED
  BY <1>1, <1>2, <1>3, <1>16 DEF ChainState

\* Nodes of one key that are taken out.
LEMMA ThinCall ==
    ASSUME MapAssumption, MapTypes, ChainState, kind \in {"chaining", "fixed"},
           NEW k \in Keys, NEW b, b = buckets[Bucket(k)], NEW c \in Seq(Nodes),
           NEW D, Thinned(b, c, D), \A l \in D : l \in 1..Len(b) => b[l].key = k,
           kind = "chaining" \/ ~reinserted => \A l \in 1..Len(b) : b[l].key = k => l \in D,
           OneChain(buckets, buckets', Bucket(k), c),
           kind' = kind, Recorded(model, model', k, NULL), reinserted' = reinserted,
           kind # "fixed" => freeNodes' = freeNodes,
           kind = "fixed" => freeNodes' \in Nat /\ freeNodes' + Len(c) = freeNodes + Len(b)
    PROVE  ChainState'
<1>1. PICK bs2 : bs2 = buckets'
  OBVIOUS
<1>2. PICK fn2 : fn2 = freeNodes'
  OBVIOUS
<1>3. PICK md2 : md2 = model'
  OBVIOUS
<1>4. PICK o : o = NULL
  OBVIOUS
<1>7. ChainsOK(buckets) /\ freeNodes \in Nat /\ model \in [Keys -> Values \cup {NULL}]
  BY DEF ChainState, ChainPart, MapTypes
<1>8. b \in Seq(Nodes) /\ \A j \in 1..Len(b) : Bucket(b[j].key) = Bucket(k)
  BY <1>7, TheChain
<1>9. ChainKept(b, c, k, o)
  BY <1>4, <1>8, ThinnedKept
<1>10. OneChain(buckets, bs2, Bucket(k), c)
  BY <1>1
<1>11. Recorded(model, md2, k, o)
  BY <1>3, <1>4
<1>12. kind = "chaining" \/ (kind = "fixed" /\ ~reinserted) =>
         (ChainExact(b, model) => ChainExact(c, md2))
  <2> SUFFICES ASSUME kind = "chaining" \/ ~reinserted, ChainExact(b, model)
               PROVE  ChainExact(c, md2)
    OBVIOUS
  <2> QED
    BY <1>7, <1>8, <1>11, ThinnedExact
<1>13. /\ fn2 \in Nat /\ (kind # "fixed" => fn2 = freeNodes)
       /\ kind = "fixed" => fn2 + Len(c) = freeNodes + Len(b)
  BY <1>2, <1>7
<1>14. ChainPart(kind, buckets, freeNodes, model, reinserted)
  BY DEF ChainState
<1>15. ChainPart(kind, bs2, fn2, md2, reinserted)
  BY <1>7, <1>9, <1>10, <1>11, <1>12, <1>13, <1>14, ChainStep
<1> QED
  BY <1>1, <1>2, <1>3, <1>15 DEF ChainState

\* Where a chain is exact, a key that is not stored has no node.
LEMMA NoneStored ==
    ASSUME MapAssumption, NEW b \in Seq(Nodes), NEW md, ChainExact(b, md), NEW k, md[k] = NULL
    PROVE  ~InChain(b, k)
<1> SUFFICES ASSUME NEW j \in 1..Len(b), b[j].key = k PROVE FALSE
  BY DEF InChain
<1>1. b[j] \in Nodes /\ md[k] = b[j].value
  BY DEF ChainExact
<1>2. b[j].value \in Values
  BY <1>1 DEF Nodes
<1> QED
  BY <1>1, <1>2 DEF MapAssumption

LEMMA ChainingPutStep ==
    ASSUME MapAssumption, MapTypes, ChainState, NEW k \in Keys, NEW v \in Values, ChainingPut(k, v)
    PROVE  ChainState'
<1>1. /\ kind = "chaining" /\ kind' = kind /\ freeNodes' = freeNodes
      /\ Recorded(model, model', k, v) /\ (reinserted => reinserted')
  BY DEF ChainingPut, Put, Recorded
<1>2. CASE Position(k) # 0
  BY <1>1, <1>2, ReplaceCall DEF ChainingPut
<1>3. CASE Position(k) = 0
  <2>1. PICK b : b = buckets[Bucket(k)]
    OBVIOUS
  <2>2. b \in Seq(Nodes)
    BY <2>1, TheChain DEF ChainState, ChainPart
  <2>3. ~InChain(b, k)
    BY <1>3, <2>1, <2>2, PositionFirst
  <2>4. Chain(k, v)
    BY <1>3 DEF ChainingPut
  <2> QED
    BY <1>1, <2>1, <2>3, <2>4, ChainCall
<1> QED
  BY <1>2, <1>3

LEMMA FixedSubscriptStep ==
    ASSUME MapAssumption, MapTypes, ChainState, NEW k \in Keys, NEW v \in Values,
           FixedSubscript(k, v)
    PROVE  ChainState'
<1>1. /\ kind = "fixed" /\ kind' = kind
      /\ Recorded(model, model', k, v) /\ (reinserted => reinserted')
  BY DEF FixedSubscript, Recorded
<1>2. CASE Position(k) # 0 /\ Replace(k, v) /\ UNCHANGED freeNodes
  BY <1>1, <1>2, ReplaceCall
<1>3. CASE Position(k) = 0 /\ freeNodes > 0 /\ Chain(k, v) /\ freeNodes' = freeNodes - 1
  <2>1. PICK b : b = buckets[Bucket(k)]
    OBVIOUS
  <2>2. b \in Seq(Nodes)
    BY <2>1, TheChain DEF ChainState, ChainPart
  <2>3. ~InChain(b, k)
    BY <1>3, <2>1, <2>2, PositionFirst
  <2>4. freeNodes' \in Nat /\ freeNodes' + 1 = freeNodes
    BY <1>3 DEF ChainState, ChainPart
  <2> QED
    BY <1>1, <1>3, <2>1, <2>3, <2>4, ChainCall
<1> QED
  BY <1>2, <1>3 DEF FixedSubscript

LEMMA FixedInsertStep ==
    ASSUME MapAssumption, MapTypes, ChainState, NEW k \in Keys, NEW v \in Values, FixedInsert(k, v)
    PROVE  ChainState'
<1>1. /\ kind = "fixed" /\ kind' = kind /\ Chain(k, v)
      /\ Recorded(model, model', k, v) /\ (reinserted => reinserted')
      /\ ~reinserted' => ~reinserted /\ model[k] = NULL
  BY DEF FixedInsert, Put, Recorded
<1>2. PICK b : b = buckets[Bucket(k)]
  OBVIOUS
<1>3. b \in Seq(Nodes) /\ Bucket(k) \in 1..InitBuckets
  BY <1>2, TheChain, BucketIn DEF ChainState, ChainPart
<1>4. ~reinserted' => ~InChain(b, k)
  <2> SUFFICES ASSUME ~reinserted' PROVE ~InChain(b, k)
    OBVIOUS
  <2>1. ChainExact(b, model)
    BY <1>1, <1>2, <1>3 DEF ChainState, ChainPart, ChainsExact
  <2> QED
    BY <1>1, <1>3, <2>1, NoneStored
<1>5. freeNodes' \in Nat /\ freeNodes' + 1 = freeNodes
  BY DEF FixedInsert, ChainState, ChainPart
<1> QED
  BY <1>1, <1>2, <1>4, <1>5, ChainCall

LEMMA ChainingEraseStep ==
    ASSUME MapAssumption, MapTypes, ChainState, NEW k \in Keys, ChainingErase(k)
    PROVE  ChainState'
<1>1. /\ kind = "chaining" /\ kind' = kind /\ freeNodes' = freeNodes
      /\ Recorded(model, model', k, NULL) /\ reinserted' = reinserted
  BY DEF ChainingErase, Recorded
<1>2. PICK b : b = buckets[Bucket(k)]
  OBVIOUS
<1>3. b \in Seq(Nodes)
  BY <1>2, TheChain DEF ChainState, ChainPart
<1>4. PICK c, D : /\ c = Without(b, k) /\ c \in Seq(Nodes) /\ Thinned(b, c, D)
                  /\ \A l \in 1..Len(b) : b[l].key = k <=> l \in D
  BY <1>3, WithoutIs
<1>5. OneChain(buckets, buckets', Bucket(k), c)
  BY <1>2, <1>4 DEF ChainingErase, OneChain
<1>7. /\ Thinned(b, c, D) /\ c \in Seq(Nodes)
      /\ \A l \in 1..Len(b) : b[l].key = k <=> l \in D
  BY <1>4
<1> QED
  BY <1>1, <1>2, <1>5, <1>7, ThinCall

\* The walk of erase stops at a node with the key, and that one is taken out.
LEMMA FixedErased ==
    ASSUME MapAssumption, ChainState, NEW k \in Keys, FixedErase(k)
    PROVE  \E b, c, p :
              /\ b = buckets[Bucket(k)] /\ b \in Seq(Nodes) /\ p \in 1..Len(b) /\ b[p].key = k
              /\ \A j \in 1..Len(b) : b[j].key = k => p <= j
              /\ c \in Seq(Nodes) /\ Len(c) = Len(b) - 1 /\ Thinned(b, c, {p})
              /\ OneChain(buckets, buckets', Bucket(k), c)
<1>1. PICK b : b = buckets[Bucket(k)]
  OBVIOUS
<1>2. b \in Seq(Nodes)
  BY <1>1, TheChain DEF ChainState, ChainPart
<1>3. PICK p : p = Position(k) /\ p # 0
  BY DEF FixedErase
<1>4. /\ p \in 1..Len(b) /\ b[p].key = k
      /\ \A j \in 1..Len(b) : b[j].key = k => p <= j
  BY <1>1, <1>2, <1>3, PositionFirst
<1>5. PICK c : /\ c = RemoveAt(b, p) /\ c \in Seq(Nodes) /\ Len(c) = Len(b) - 1
               /\ Thinned(b, c, {p})
  <2>1. PICK X : X = Nodes
    OBVIOUS
  <2>2. b \in Seq(X)
    BY <1>2, <2>1
  <2> QED
    BY <1>4, <2>1, <2>2, RemovedOne
<1>6. OneChain(buckets, buckets', Bucket(k), c)
  BY <1>1, <1>3, <1>5 DEF FixedErase, OneChain
<1> QED
  BY <1>1, <1>2, <1>4, <1>5, <1>6

LEMMA FixedEraseStep ==
    ASSUME MapAssumption, MapTypes, ChainState, NEW k \in Keys, FixedErase(k)
    PROVE  ChainState'
<1>1. /\ kind = "fixed" /\ kind' = kind /\ freeNodes' = freeNodes + 1 /\ freeNodes \in Nat
      /\ Recorded(model, model', k, NULL) /\ reinserted' = reinserted
  BY DEF FixedErase, Recorded, ChainState, ChainPart
<1>2. PICK b, c, p :
         /\ b = buckets[Bucket(k)] /\ b \in Seq(Nodes) /\ p \in 1..Len(b) /\ b[p].key = k
         /\ \A j \in 1..Len(b) : b[j].key = k => p <= j
         /\ c \in Seq(Nodes) /\ Len(c) = Len(b) - 1 /\ Thinned(b, c, {p})
         /\ OneChain(buckets, buckets', Bucket(k), c)
  BY FixedErased
<1>3. PICK D : D = {p}
  OBVIOUS
<1>4. Thinned(b, c, D) /\ \A l \in D : l \in 1..Len(b) => b[l].key = k
  BY <1>2, <1>3
<1>5. ~reinserted => \A l \in 1..Len(b) : b[l].key = k => l \in D
  <2> SUFFICES ASSUME ~reinserted, NEW l \in 1..Len(b), b[l].key = k PROVE l = p
    BY <1>3
  <2>1. Bucket(k) \in 1..InitBuckets
    BY BucketIn
  <2>2. ChainExact(b, model)
    BY <1>1, <1>2, <2>1 DEF ChainState, ChainPart, ChainsExact
  <2> QED
    BY <1>2, <2>2 DEF ChainExact
<1>6. freeNodes' \in Nat /\ freeNodes' + Len(c) = freeNodes + Len(b)
  <2>1. PICK n \in Nat : n = Len(b)
    BY <1>2
  <2>2. (freeNodes + 1) + (n - 1) = freeNodes + n
    BY <1>1, <2>1
  <2>3. Len(c) = n - 1
    BY <1>2, <2>1
  <2>4. freeNodes' = freeNodes + 1 /\ freeNodes \in Nat
    BY <1>1
  <2> QED
    BY <2>1, <2>2, <2>3, <2>4
<1>7. c \in Seq(Nodes) /\ OneChain(buckets, buckets', Bucket(k), c) /\ b = buckets[Bucket(k)]
  BY <1>2
<1>8. kind # "chaining"
  BY <1>1
<1> QED
  BY <1>1, <1>4, <1>5, <1>6, <1>7, <1>8, ThinCall

-----------------------------------------------------------------------------
(* The table of the open map.                                              *)

\* The slot reached after d steps in a table of n slots.
After(n, k, d) == ((k + d) % n) + 1

LEMMA StepsIn ==
    ASSUME NEW n \in Nat \ {0}, NEW k \in Nat, NEW d \in Nat
    PROVE  After(n, k, d) \in 1..n
<1>1. PICK r \in 0..n - 1 : r = (k + d) % n
  <2>1. k + d \in Int
    OBVIOUS
  <2> QED
    BY <2>1, DivMod
<1> QED
  BY <1>1 DEF After

\* Every slot is reached from any key.
LEMMA EverySlotReached ==
    ASSUME NEW n \in Nat \ {0}, NEW k \in Nat, NEW i \in 1..n
    PROVE  \E d \in 0..n - 1 : After(n, k, d) = i
<1>1. PICK a \in Int : a = (i - 1) - k
  OBVIOUS
<1>2. PICK d \in 0..n - 1 : d = a % n
  BY DivMod
<1>3. (d + k) % n = (a + k) % n
  <2>1. k \in Int
    OBVIOUS
  <2>2. ((a % n) + k) % n = (a + k) % n
    BY <2>1, RemainderFirst, Zenon
  <2> QED
    BY <1>2, <2>2
<1>4. a + k = i - 1 /\ i - 1 \in 0..n - 1 /\ d + k = k + d
  BY <1>1, <1>2
<1>5. (i - 1) % n = i - 1
  BY <1>4, SmallRemainder
<1>6. After(n, k, d) = (i - 1) + 1
  BY <1>3, <1>4, <1>5 DEF After
<1> QED
  BY <1>2, <1>6

LEMMA TableLen ==
    ASSUME NEW n \in Nat, NEW tab \in Tables(n)
    PROVE  tab \in Seq(MapSlots) /\ Len(tab) = n /\ DOMAIN tab = 1..n
<1>1. tab \in [1..n -> MapSlots]
  BY DEF Tables
<1>2. tab \in Seq(MapSlots)
  BY <1>1, SeqDef
<1> QED
  BY <1>1, <1>2

\* The probe stops at the first slot that is a stop.
StopsAt(n, k, stops, s, d) ==
    /\ d \in 0..n - 1 /\ s = After(n, k, d) /\ s \in 1..n /\ s \in stops
    /\ \A e \in 0..d - 1 : After(n, k, e) \notin stops

LEMMA ProbeStops ==
    ASSUME NEW n \in Nat \ {0}, NEW tab \in Tables(n), NEW k \in Nat, NEW stops
    PROVE  /\ FirstSlot(tab, k, stops) # 0 =>
                  \E d \in 0..n - 1 : StopsAt(n, k, stops, FirstSlot(tab, k, stops), d)
           /\ FirstSlot(tab, k, stops) = 0 => \A i \in 1..n : i \notin stops
<1> DEFINE ds == {d \in 0..n - 1 : After(n, k, d) \in stops}
<1>1. Len(tab) = n
  BY TableLen
<1>2. FirstSlot(tab, k, stops) = IF ds = {} THEN 0 ELSE After(n, k, Min(ds))
  BY <1>1 DEF FirstSlot, ProbeSlot, After
<1>3. ASSUME ds # {} PROVE Min(ds) \in ds /\ \A e \in ds : Min(ds) <= e
  <2>1. ds \subseteq Nat
    OBVIOUS
  <2>2. \E d \in ds : \A e \in ds : d <= e
    <3> HIDE DEF ds
    <3> QED
      BY <1>3, <2>1, LeastNumber, Zenon
  <2> QED
    BY <2>2 DEF Min
<1>4. CASE ds = {}
  <2>1. FirstSlot(tab, k, stops) = 0
    BY <1>2, <1>4
  <2>2. ASSUME NEW i \in 1..n PROVE i \notin stops
    <3>1. PICK d \in 0..n - 1 : After(n, k, d) = i
      BY EverySlotReached
    <3> QED
      BY <1>4, <3>1
  <2> QED
    BY <2>1, <2>2
<1>5. CASE ds # {}
  <2>1. PICK d : d = Min(ds)
    OBVIOUS
  <2>2. d \in 0..n - 1 /\ After(n, k, d) \in stops
    BY <1>3, <1>5, <2>1
  <2>3. FirstSlot(tab, k, stops) = After(n, k, d)
    BY <1>2, <1>5, <2>1
  <2>4. After(n, k, d) \in 1..n
    <3>1. d \in Nat
      BY <2>2
    <3> QED
      BY <3>1, StepsIn
  <2>5. ASSUME NEW e \in 0..d - 1 PROVE After(n, k, e) \notin stops
    <3>1. e \in 0..n - 1 /\ ~(d <= e)
      BY <2>2
    <3> QED
      BY <1>3, <1>5, <2>1, <3>1
  <2>6. FirstSlot(tab, k, stops) # 0
    BY <2>3, <2>4
  <2>7. StopsAt(n, k, stops, FirstSlot(tab, k, stops), d)
    BY <2>2, <2>3, <2>4, <2>5 DEF StopsAt
  <2> QED
    BY <2>2, <2>6, <2>7
<1> QED
  BY <1>4, <1>5

Busy(n, tab) == {i \in 1..n : tab[i].status = "OCCUPIED"}

LEMMA OccupiedIs ==
    ASSUME NEW n \in Nat, NEW tab \in Tables(n)
    PROVE  /\ Occupied(tab) = Cardinality(Busy(n, tab))
           /\ IsFiniteSet(Busy(n, tab)) /\ Occupied(tab) \in 0..n
<1>1. DOMAIN tab = 1..n
  BY TableLen
<1>2. Occupied(tab) = Cardinality(Busy(n, tab))
  BY <1>1 DEF Occupied, Busy
<1>3. IsFiniteSet(1..n) /\ Cardinality(1..n) = n
  BY FS_Interval
<1>4. Busy(n, tab) \subseteq 1..n
  BY DEF Busy
<1>5. /\ IsFiniteSet(Busy(n, tab)) /\ Cardinality(Busy(n, tab)) <= n
      /\ Cardinality(Busy(n, tab)) \in Nat
  BY <1>3, <1>4, FS_Subset, FS_CardinalityType
<1> QED
  BY <1>2, <1>5

\* A slot of the key that the probe gets to: none before it is EMPTY.
Reached(n, tab, k, i) ==
    \E d \in 0..n - 1 :
        After(n, k, d) = i /\ \A e \in 0..d - 1 : tab[After(n, k, e)].status # "EMPTY"

TableOK(n, tab) ==
    /\ n \in Nat \ {0}
    /\ tab \in Tables(n)
    /\ \A i \in 1..n : tab[i].status = "OCCUPIED" =>
          /\ tab[i].key \in Keys /\ tab[i].value \in Values
          /\ Reached(n, tab, tab[i].key, i)

\* One slot is written.
SlotIs(n, tab, tab2, i, s) ==
    /\ i \in 1..n
    /\ tab2 \in Tables(n)
    /\ tab2[i] = s
    /\ \A j \in 1..n : j # i => tab2[j] = tab[j]

\* k is put at i, the first slot that is not OCCUPIED or has k.
PutAt(n, tab, tab2, i, k, v) ==
    /\ SlotIs(n, tab, tab2, i, Slot("OCCUPIED", k, v))
    /\ tab[i].status # "OCCUPIED" \/ Holds(tab[i], k)
    /\ \E d \in 0..n - 1 :
          /\ i = After(n, k, d)
          /\ \A e \in 0..d - 1 : /\ tab[After(n, k, e)].status = "OCCUPIED"
                                 /\ ~Holds(tab[After(n, k, e)], k)

LEMMA SlotWritten ==
    ASSUME NEW n, NEW tab \in Tables(n), NEW i \in 1..n, NEW s \in MapSlots,
           NEW tab2, tab2 = [tab EXCEPT ![i] = s]
    PROVE  SlotIs(n, tab, tab2, i, s)
BY DEF SlotIs, Tables

LEMMA SlotType ==
    ASSUME NEW st \in {"EMPTY", "OCCUPIED", "DELETED"}, NEW k \in Keys \cup {NULL},
           NEW v \in Values \cup {NULL}
    PROVE  Slot(st, k, v) \in MapSlots
BY DEF Slot, MapSlots

LEMMA StoreIs ==
    ASSUME MapAssumption, NEW n \in Nat \ {0}, NEW tab \in Tables(n), NEW k \in Keys, NEW v \in Values,
           Occupied(tab) < n
    PROVE  PutAt(n, tab, Store(tab, k, v), PutSlot(tab, k), k, v)
<1>1. PICK stops : stops = {i \in DOMAIN tab : tab[i].status # "OCCUPIED" \/ Holds(tab[i], k)}
  OBVIOUS
<1>2. DOMAIN tab = 1..n /\ k \in Nat
  BY TableLen DEF MapAssumption
<1>3. PICK i : i = PutSlot(tab, k) /\ i = FirstSlot(tab, k, stops)
  BY <1>1 DEF PutSlot
<1>4. i # 0
  <2> SUFFICES ASSUME i = 0 PROVE FALSE
    OBVIOUS
  <2>1. \A j \in 1..n : j \notin stops
    BY <1>2, <1>3, ProbeStops
  <2>2. Busy(n, tab) = 1..n
    BY <1>1, <1>2, <2>1 DEF Busy
  <2>3. Occupied(tab) = n
    BY <2>2, OccupiedIs, FS_Interval
  <2> QED
    BY <2>3
<1>5. PICK d \in 0..n - 1 : StopsAt(n, k, stops, i, d)
  BY <1>2, <1>3, <1>4, ProbeStops
<1>6. i \in 1..n /\ i \in stops /\ i = After(n, k, d)
  BY <1>5 DEF StopsAt
<1>7. ASSUME NEW e \in 0..d - 1
      PROVE  /\ tab[After(n, k, e)].status = "OCCUPIED" /\ ~Holds(tab[After(n, k, e)], k)
  <2>1. After(n, k, e) \notin stops
    BY <1>5 DEF StopsAt
  <2>2. After(n, k, e) \in 1..n
    <3>1. e \in Nat
      OBVIOUS
    <3> QED
      BY <1>2, <3>1, StepsIn
  <2> QED
    BY <1>1, <1>2, <2>1, <2>2
<1>8. PICK s \in MapSlots : s = Slot("OCCUPIED", k, v)
  BY SlotType
<1>9. PICK tab2 : tab2 = Store(tab, k, v) /\ tab2 = [tab EXCEPT ![i] = s]
  BY <1>3, <1>8 DEF Store
<1>10. SlotIs(n, tab, tab2, i, s)
  BY <1>6, <1>9, SlotWritten
<1>11. PutAt(n, tab, tab2, i, k, v)
  BY <1>1, <1>6, <1>7, <1>8, <1>10 DEF PutAt
<1> QED
  BY <1>3, <1>9, <1>11

\* What a probe gets to, it still gets to when no slot becomes EMPTY.
LEMMA ReachedStill ==
    ASSUME NEW n \in Nat \ {0}, NEW tab, NEW tab2, NEW k \in Nat, NEW i, Reached(n, tab, k, i),
           \A j \in 1..n : tab[j].status # "EMPTY" => tab2[j].status # "EMPTY"
    PROVE  Reached(n, tab2, k, i)
<1>1. PICK d \in 0..n - 1 : After(n, k, d) = i
                            /\ \A e \in 0..d - 1 : tab[After(n, k, e)].status # "EMPTY"
  BY DEF Reached
<1>2. \A e \in 0..d - 1 : tab2[After(n, k, e)].status # "EMPTY"
  <2> SUFFICES ASSUME NEW e \in 0..d - 1 PROVE tab2[After(n, k, e)].status # "EMPTY"
    OBVIOUS
  <2>1. e \in Nat
    OBVIOUS
  <2>2. After(n, k, e) \in 1..n
    BY <2>1, StepsIn
  <2> QED
    BY <1>1, <2>2
<1> QED
  BY <1>1, <1>2 DEF Reached

LEMMA StoreOK ==
    ASSUME MapAssumption, NEW n, NEW tab, TableOK(n, tab), NEW k \in Keys, NEW v \in Values,
           NEW i, NEW tab2, PutAt(n, tab, tab2, i, k, v)
    PROVE  TableOK(n, tab2)
<1>1. n \in Nat \ {0} /\ tab \in Tables(n) /\ tab2 \in Tables(n) /\ k \in Nat
  BY DEF TableOK, PutAt, SlotIs, MapAssumption
<1>2. /\ i \in 1..n /\ tab2[i].status = "OCCUPIED" /\ tab2[i].key = k /\ tab2[i].value = v
      /\ \A j \in 1..n : j # i => tab2[j] = tab[j]
  BY DEF PutAt, SlotIs, Slot
<1>3. \A j \in 1..n : tab[j].status # "EMPTY" => tab2[j].status # "EMPTY"
  BY <1>2
<1>4. ASSUME NEW j \in 1..n, tab2[j].status = "OCCUPIED"
      PROVE  /\ tab2[j].key \in Keys /\ tab2[j].value \in Values
             /\ Reached(n, tab2, tab2[j].key, j)
  <2>1. CASE j = i
    <3>1. PICK d \in 0..n - 1 : i = After(n, k, d)
                                /\ \A e \in 0..d - 1 : tab[After(n, k, e)].status = "OCCUPIED"
      BY DEF PutAt
    <3>2. Reached(n, tab, k, i)
      BY <3>1 DEF Reached
    <3>3. Reached(n, tab2, k, i)
      BY <1>1, <1>3, <3>2, ReachedStill
    <3> QED
      BY <1>2, <2>1, <3>3
  <2>2. CASE j # i
    <3>1. tab2[j] = tab[j] /\ tab[j].status = "OCCUPIED"
      BY <1>2, <1>4, <2>2
    <3>2. PICK q : q = tab[j].key
      OBVIOUS
    <3>3. q \in Keys /\ tab[j].value \in Values /\ Reached(n, tab, q, j)
      BY <3>1, <3>2 DEF TableOK
    <3>4. q \in Nat
      BY <3>3 DEF MapAssumption
    <3>5. Reached(n, tab2, q, j)
      BY <1>1, <1>3, <3>3, <3>4, ReachedStill
    <3> QED
      BY <3>1, <3>2, <3>3, <3>5
  <2> QED
    BY <2>1, <2>2
<1> QED
  BY <1>1, <1>4 DEF TableOK

\* Another slot is OCCUPIED, unless k was there.
LEMMA StoreCount ==
    ASSUME NEW n \in Nat \ {0}, NEW tab \in Tables(n), NEW k, NEW v, NEW i, NEW tab2,
           PutAt(n, tab, tab2, i, k, v)
    PROVE  Occupied(tab2) = Occupied(tab) + (IF Holds(tab[i], k) THEN 0 ELSE 1)
<1>1. /\ i \in 1..n /\ tab2 \in Tables(n) /\ tab2[i].status = "OCCUPIED"
      /\ \A j \in 1..n : j # i => tab2[j] = tab[j]
      /\ tab[i].status # "OCCUPIED" \/ Holds(tab[i], k)
  BY DEF PutAt, SlotIs, Slot
<1>2. /\ Occupied(tab) = Cardinality(Busy(n, tab)) /\ IsFiniteSet(Busy(n, tab))
      /\ Occupied(tab2) = Cardinality(Busy(n, tab2)) /\ Occupied(tab) \in Nat
  BY <1>1, OccupiedIs
<1>3. CASE Holds(tab[i], k)
  <2>1. Busy(n, tab2) = Busy(n, tab)
    BY <1>1, <1>3 DEF Busy, Holds
  <2> QED
    BY <1>2, <1>3, <2>1
<1>4. CASE ~Holds(tab[i], k)
  <2>1. i \notin Busy(n, tab) /\ Busy(n, tab2) = Busy(n, tab) \cup {i}
    BY <1>1, <1>4 DEF Busy
  <2>2. Cardinality(Busy(n, tab2)) = Cardinality(Busy(n, tab)) + 1
    BY <1>2, <2>1, FS_AddElement
  <2> QED
    BY <1>2, <1>4, <2>2
<1> QED
  BY <1>3, <1>4

\* find stops with the key in its hands when a slot has it.
LEMMA FindIs ==
    ASSUME MapAssumption, NEW n, NEW tab, TableOK(n, tab), NEW k \in Keys
    PROVE  /\ FindSlot(tab, k) # 0 => FindSlot(tab, k) \in 1..n /\ Holds(tab[FindSlot(tab, k)], k)
           /\ FindSlot(tab, k) = 0 => \A i \in 1..n : ~Holds(tab[i], k)
<1>1. PICK stops : stops = {i \in DOMAIN tab : tab[i].status = "EMPTY" \/ Holds(tab[i], k)}
  OBVIOUS
<1>2. n \in Nat \ {0} /\ tab \in Tables(n) /\ DOMAIN tab = 1..n /\ k \in Nat
  BY TableLen DEF MapAssumption, TableOK
<1>3. PICK s : s = FirstSlot(tab, k, stops)
  OBVIOUS
<1>4. FindSlot(tab, k) = IF s # 0 /\ Holds(tab[s], k) THEN s ELSE 0
  BY <1>1, <1>3 DEF FindSlot
<1>5. s # 0 => \E d \in 0..n - 1 : StopsAt(n, k, stops, s, d)
  BY <1>2, <1>3, ProbeStops
<1>6. s = 0 => \A i \in 1..n : i \notin stops
  BY <1>2, <1>3, ProbeStops
<1>7. s # 0 => s \in 1..n
  BY <1>5 DEF StopsAt
<1>8. ASSUME NEW i \in 1..n, Holds(tab[i], k) PROVE s # 0 /\ Holds(tab[s], k)
  <2>1. i \in stops
    BY <1>1, <1>2, <1>8
  <2>2. s # 0
    BY <1>6, <2>1
  <2>3. PICK d \in 0..n - 1 : StopsAt(n, k, stops, s, d)
    BY <1>5, <2>2
  <2>4. Reached(n, tab, k, i)
    BY <1>8 DEF TableOK, Holds
  <2>5. PICK f \in 0..n - 1 : After(n, k, f) = i
                              /\ \A e \in 0..f - 1 : tab[After(n, k, e)].status # "EMPTY"
    BY <2>4 DEF Reached
  <2>6. ~(f < d)
    <3> SUFFICES ASSUME f < d PROVE FALSE
      OBVIOUS
    <3>1. f \in 0..d - 1
      BY <1>2
    <3> QED
      BY <2>1, <2>3, <2>5, <3>1 DEF StopsAt
  <2>7. s = After(n, k, d) /\ s \in stops
    BY <2>3 DEF StopsAt
  <2>8. CASE f = d
    BY <1>8, <2>2, <2>5, <2>7, <2>8
  <2>9. CASE f # d
    <3>1. d \in 0..f - 1
      BY <1>2, <2>6, <2>9
    <3>2. tab[s].status # "EMPTY"
      BY <2>5, <2>7, <3>1
    <3> QED
      BY <1>1, <2>2, <2>7, <3>2
  <2> QED
    BY <2>8, <2>9
<1>9. 0 \notin 1..n
  BY <1>2
<1> QED
  BY <1>4, <1>7, <1>8, <1>9

\* A key that is stored has a slot, and a slot has what is stored.
TableHolds(n, tab, md) ==
    \A k \in Keys : md[k] # NULL => \E i \in 1..n : Holds(tab[i], k)

TableExact(n, tab, md) ==
    \A i \in 1..n : tab[i].status = "OCCUPIED" =>
        /\ md[tab[i].key] = tab[i].value
        /\ \A j \in 1..n : Holds(tab[j], tab[i].key) => j = i

LEMMA StoreHolds ==
    ASSUME NEW n, NEW tab, NEW k \in Keys, NEW v, NEW i, NEW tab2, PutAt(n, tab, tab2, i, k, v),
           NEW md \in [Keys -> Values \cup {NULL}], NEW md2, Recorded(md, md2, k, v),
           TableHolds(n, tab, md)
    PROVE  TableHolds(n, tab2, md2)
<1>1. /\ i \in 1..n /\ Holds(tab2[i], k)
      /\ \A j \in 1..n : j # i => tab2[j] = tab[j]
      /\ tab[i].status # "OCCUPIED" \/ Holds(tab[i], k)
  BY DEF PutAt, SlotIs, Slot, Holds
<1>2. \A j \in Keys : j # k => md2[j] = md[j]
  BY DEF Recorded
<1> SUFFICES ASSUME NEW j \in Keys, md2[j] # NULL PROVE \E l \in 1..n : Holds(tab2[l], j)
  BY DEF TableHolds
<1>3. CASE j = k
  BY <1>1, <1>3
<1>4. CASE j # k
  <2>1. PICK l \in 1..n : Holds(tab[l], j)
    BY <1>2, <1>4 DEF TableHolds
  <2>2. l # i
    BY <1>1, <1>4, <2>1 DEF Holds
  <2> QED
    BY <1>1, <2>1, <2>2
<1> QED
  BY <1>3, <1>4

LEMMA NoneInTable ==
    ASSUME MapAssumption, NEW n, NEW tab, TableOK(n, tab), NEW md, TableExact(n, tab, md),
           NEW k, md[k] = NULL
    PROVE  \A i \in 1..n : ~Holds(tab[i], k)
<1> SUFFICES ASSUME NEW i \in 1..n, Holds(tab[i], k) PROVE FALSE
  OBVIOUS
<1>1. tab[i].status = "OCCUPIED" /\ tab[i].key = k
  BY DEF Holds
<1>2. md[k] = tab[i].value
  BY <1>1 DEF TableExact
<1>3. tab[i].value \in Values
  BY <1>1 DEF TableOK
<1> QED
  BY <1>2, <1>3 DEF MapAssumption

LEMMA StoreExact ==
    ASSUME MapAssumption, NEW n, NEW tab, TableOK(n, tab), NEW k \in Keys, NEW v, NEW i, NEW tab2,
           PutAt(n, tab, tab2, i, k, v),
           NEW md \in [Keys -> Values \cup {NULL}], md[k] = NULL,
           NEW md2, Recorded(md, md2, k, v), TableExact(n, tab, md)
    PROVE  TableExact(n, tab2, md2)
<1>1. /\ i \in 1..n /\ tab2[i].status = "OCCUPIED" /\ tab2[i].key = k /\ tab2[i].value = v
      /\ \A j \in 1..n : j # i => tab2[j] = tab[j]
  BY DEF PutAt, SlotIs, Slot
<1>2. md2[k] = v /\ \A j \in Keys : j # k => md2[j] = md[j]
  BY DEF Recorded
<1>3. \A j \in 1..n : ~Holds(tab[j], k)
  BY NoneInTable
<1> SUFFICES ASSUME NEW j \in 1..n, tab2[j].status = "OCCUPIED"
             PROVE  /\ md2[tab2[j].key] = tab2[j].value
                    /\ \A l \in 1..n : Holds(tab2[l], tab2[j].key) => l = j
  BY DEF TableExact
<1>4. CASE j = i
  <2>1. md2[tab2[j].key] = tab2[j].value
    BY <1>1, <1>2, <1>4
  <2>2. ASSUME NEW l \in 1..n, Holds(tab2[l], k), l # i PROVE FALSE
    BY <1>1, <1>3, <2>2
  <2> QED
    BY <1>1, <1>4, <2>1, <2>2
<1>5. CASE j # i
  <2>1. tab2[j] = tab[j] /\ tab[j].status = "OCCUPIED"
    BY <1>1, <1>5
  <2>2. PICK q : q = tab[j].key
    OBVIOUS
  <2>3. q \in Keys /\ q # k
    BY <1>3, <2>1, <2>2 DEF TableOK, Holds
  <2>4. md[q] = tab[j].value /\ \A l \in 1..n : Holds(tab[l], q) => l = j
    BY <2>1, <2>2 DEF TableExact
  <2>5. md2[q] = tab2[j].value
    BY <1>2, <2>1, <2>3, <2>4
  <2>6. ASSUME NEW l \in 1..n, Holds(tab2[l], q) PROVE l = j
    <3>1. l # i
      BY <1>1, <2>3, <2>6 DEF Holds
    <3>2. Holds(tab[l], q)
      BY <1>1, <2>6, <3>1
    <3> QED
      BY <2>4, <3>2
  <2> QED
    BY <2>1, <2>2, <2>5, <2>6
<1> QED
  BY <1>4, <1>5

-----------------------------------------------------------------------------
\* erase marks the slot of k DELETED.
Gone == Slot("DELETED", NULL, NULL)

LEMMA GoneIs == Gone.status = "DELETED" /\ Gone \in MapSlots
<1>1. Gone.status = "DELETED"
  BY DEF Gone, Slot
<1>2. Gone \in MapSlots
  BY SlotType DEF Gone
<1> QED
  BY <1>1, <1>2

LEMMA EraseOK ==
    ASSUME MapAssumption, NEW n, NEW tab, TableOK(n, tab), NEW i, NEW tab2, SlotIs(n, tab, tab2, i, Gone)
    PROVE  TableOK(n, tab2)
<1>1. n \in Nat \ {0} /\ tab2 \in Tables(n)
  BY DEF TableOK, SlotIs
<1>2. /\ i \in 1..n /\ tab2[i].status = "DELETED"
      /\ \A j \in 1..n : j # i => tab2[j] = tab[j]
  BY GoneIs DEF SlotIs
<1>3. \A j \in 1..n : tab[j].status # "EMPTY" => tab2[j].status # "EMPTY"
  BY <1>2
<1>4. ASSUME NEW j \in 1..n, tab2[j].status = "OCCUPIED"
      PROVE  /\ tab2[j].key \in Keys /\ tab2[j].value \in Values
             /\ Reached(n, tab2, tab2[j].key, j)
  <2>1. j # i
    BY <1>2, <1>4
  <2>2. tab2[j] = tab[j] /\ tab[j].status = "OCCUPIED"
    BY <1>2, <1>4, <2>1
  <2>3. PICK q : q = tab[j].key
    OBVIOUS
  <2>4. q \in Keys /\ tab[j].value \in Values /\ Reached(n, tab, q, j)
    BY <2>2, <2>3 DEF TableOK
  <2>5. q \in Nat
    BY <2>4 DEF MapAssumption
  <2>6. Reached(n, tab2, q, j)
    BY <1>1, <1>3, <2>4, <2>5, ReachedStill
  <2> QED
    BY <2>2, <2>3, <2>4, <2>6
<1> QED
  BY <1>1, <1>4 DEF TableOK

LEMMA EraseCount ==
    ASSUME NEW n \in Nat, NEW tab \in Tables(n), NEW i, NEW tab2,
           SlotIs(n, tab, tab2, i, Gone), tab[i].status = "OCCUPIED"
    PROVE  Occupied(tab) = Occupied(tab2) + 1
<1>1. /\ i \in 1..n /\ tab2 \in Tables(n) /\ tab2[i].status = "DELETED"
      /\ \A j \in 1..n : j # i => tab2[j] = tab[j]
  BY GoneIs DEF SlotIs
<1>2. /\ Occupied(tab) = Cardinality(Busy(n, tab)) /\ IsFiniteSet(Busy(n, tab2))
      /\ Occupied(tab2) = Cardinality(Busy(n, tab2))
  BY <1>1, OccupiedIs
<1>3. i \notin Busy(n, tab2) /\ Busy(n, tab) = Busy(n, tab2) \cup {i}
  BY <1>1 DEF Busy
<1>4. Cardinality(Busy(n, tab)) = Cardinality(Busy(n, tab2)) + 1
  BY <1>2, <1>3, FS_AddElement
<1> QED
  BY <1>2, <1>4

LEMMA EraseHolds ==
    ASSUME NEW n, NEW tab, NEW k \in Keys, NEW i, NEW tab2, SlotIs(n, tab, tab2, i, Gone),
           Holds(tab[i], k), NEW md \in [Keys -> Values \cup {NULL}],
           NEW md2, Recorded(md, md2, k, NULL), TableHolds(n, tab, md)
    PROVE  TableHolds(n, tab2, md2)
<1>1. i \in 1..n /\ \A j \in 1..n : j # i => tab2[j] = tab[j]
  BY DEF SlotIs
<1>2. md2[k] = NULL /\ \A j \in Keys : j # k => md2[j] = md[j]
  BY DEF Recorded
<1> SUFFICES ASSUME NEW j \in Keys, md2[j] # NULL PROVE \E l \in 1..n : Holds(tab2[l], j)
  BY DEF TableHolds
<1>3. j # k
  BY <1>2
<1>4. PICK l \in 1..n : Holds(tab[l], j)
  BY <1>2, <1>3 DEF TableHolds
<1>5. l # i
  BY <1>3, <1>4 DEF Holds
<1> QED
  BY <1>1, <1>4, <1>5

LEMMA EraseExact ==
    ASSUME NEW n, NEW tab, TableOK(n, tab), NEW k \in Keys, NEW i, NEW tab2,
           SlotIs(n, tab, tab2, i, Gone), Holds(tab[i], k),
           NEW md \in [Keys -> Values \cup {NULL}],
           NEW md2, Recorded(md, md2, k, NULL), TableExact(n, tab, md)
    PROVE  TableExact(n, tab2, md2)
<1>1. /\ i \in 1..n /\ tab2[i].status = "DELETED"
      /\ \A j \in 1..n : j # i => tab2[j] = tab[j]
  BY GoneIs DEF SlotIs
<1>2. \A j \in Keys : j # k => md2[j] = md[j]
  BY DEF Recorded
<1> SUFFICES ASSUME NEW j \in 1..n, tab2[j].status = "OCCUPIED"
             PROVE  /\ md2[tab2[j].key] = tab2[j].value
                    /\ \A l \in 1..n : Holds(tab2[l], tab2[j].key) => l = j
  BY DEF TableExact
<1>3. j # i /\ tab2[j] = tab[j] /\ tab[j].status = "OCCUPIED"
  BY <1>1
<1>4. PICK q : q = tab[j].key
  OBVIOUS
<1>5. q \in Keys
  BY <1>3, <1>4 DEF TableOK
<1>6. md[q] = tab[j].value /\ \A l \in 1..n : Holds(tab[l], q) => l = j
  BY <1>3, <1>4 DEF TableExact
<1>7. q # k
  BY <1>1, <1>3, <1>6
<1>8. md2[q] = tab2[j].value
  BY <1>2, <1>3, <1>5, <1>6, <1>7
<1>9. ASSUME NEW l \in 1..n, Holds(tab2[l], q) PROVE l = j
  <2>1. l # i
    BY <1>1, <1>9 DEF Holds
  <2> QED
    BY <1>1, <1>6, <1>9, <2>1
<1> QED
  BY <1>3, <1>4, <1>8, <1>9

\* What reHash has made of the first m slots of tab, in a table of w slots.
MovedSoFar(n, tab, w, m, t) ==
    /\ TableOK(w, t)
    /\ \A i \in 1..w : t[i].status # "DELETED"
    /\ \A i, j \in 1..w : t[i].status = "OCCUPIED" /\ Holds(t[j], t[i].key) => i = j
    /\ \A i \in 1..w : t[i].status = "OCCUPIED" =>
          \E l \in 1..m : /\ tab[l].status = "OCCUPIED"
                          /\ tab[l].key = t[i].key /\ tab[l].value = t[i].value
    /\ \A l \in 1..m : tab[l].status = "OCCUPIED" => \E i \in 1..w : Holds(t[i], tab[l].key)
    /\ Occupied(t) <= Cardinality(Busy(m, tab))

LEMMA BusyGrows ==
    ASSUME NEW m \in Nat \ {0}, NEW tab
    PROVE  /\ Cardinality(Busy(m, tab)) \in Nat /\ Cardinality(Busy(m - 1, tab)) \in 0..m - 1
           /\ tab[m].status = "OCCUPIED" =>
                  Cardinality(Busy(m, tab)) = Cardinality(Busy(m - 1, tab)) + 1
           /\ tab[m].status # "OCCUPIED" => Busy(m, tab) = Busy(m - 1, tab)
<1>1. PICK p \in Nat : p = m - 1
  OBVIOUS
<1>2. IsFiniteSet(1..p) /\ Cardinality(1..p) = p
  BY FS_Interval
<1>3. Busy(p, tab) \subseteq 1..p
  BY DEF Busy
<1>4. /\ IsFiniteSet(Busy(p, tab)) /\ Cardinality(Busy(p, tab)) <= p
      /\ Cardinality(Busy(p, tab)) \in Nat
  BY <1>2, <1>3, FS_Subset, FS_CardinalityType
<1>5. CASE tab[m].status = "OCCUPIED"
  <2>1. m \notin Busy(p, tab) /\ Busy(m, tab) = Busy(p, tab) \cup {m}
    BY <1>1, <1>5 DEF Busy
  <2>2. Cardinality(Busy(m, tab)) = Cardinality(Busy(p, tab)) + 1
    BY <1>4, <2>1, FS_AddElement
  <2> QED
    BY <1>1, <1>4, <1>5, <2>2
<1>6. CASE tab[m].status # "OCCUPIED"
  <2>1. Busy(m, tab) = Busy(p, tab)
    BY <1>1, <1>6 DEF Busy
  <2> QED
    BY <1>1, <1>4, <1>6, <2>1
<1> QED
  BY <1>5, <1>6

LEMMA FreshOK ==
    ASSUME NEW n, NEW tab, NEW w \in Nat \ {0}
    PROVE  MovedSoFar(n, tab, w, 0, Fresh(w))
<1>1. PICK t : t = Fresh(w)
  OBVIOUS
<1>2. t \in Tables(w) /\ \A i \in 1..w : t[i].status = "EMPTY"
  BY <1>1, FreshType DEF Fresh, EmptySlot, Slot
<1>3. TableOK(w, t)
  BY <1>2 DEF TableOK
<1>4. Busy(w, t) = {} /\ Busy(0, tab) = {}
  BY <1>2 DEF Busy
<1>5. Occupied(t) = 0 /\ Cardinality(Busy(0, tab)) = 0
  BY <1>2, <1>4, OccupiedIs, FS_EmptySet
<1>6. MovedSoFar(n, tab, w, 0, t)
  BY <1>2, <1>3, <1>5 DEF MovedSoFar, Holds
<1> QED
  BY <1>1, <1>6

LEMMA MovedSkips ==
    ASSUME NEW n, NEW tab, NEW w, NEW m \in Nat \ {0}, NEW t, MovedSoFar(n, tab, w, m - 1, t),
           tab[m].status # "OCCUPIED"
    PROVE  MovedSoFar(n, tab, w, m, t)
<1>1. Busy(m, tab) = Busy(m - 1, tab)
  BY BusyGrows
<1>2. \A l \in 1..m - 1 : l \in 1..m
  OBVIOUS
<1>3. \A l \in 1..m : l # m => l \in 1..m - 1
  OBVIOUS
<1> QED
  BY <1>1, <1>2, <1>3 DEF MovedSoFar

\* Where no slot is DELETED, a key is never put in twice.
LEMMA StoreDistinct ==
    ASSUME MapAssumption, NEW w, NEW t, TableOK(w, t), \A i \in 1..w : t[i].status # "DELETED",
           \A i, j \in 1..w : t[i].status = "OCCUPIED" /\ Holds(t[j], t[i].key) => i = j,
           NEW k \in Keys, NEW v, NEW i, NEW t2, PutAt(w, t, t2, i, k, v)
    PROVE  \A j, l \in 1..w : t2[j].status = "OCCUPIED" /\ Holds(t2[l], t2[j].key) => j = l
<1>1. /\ i \in 1..w /\ t2[i].status = "OCCUPIED" /\ t2[i].key = k
      /\ \A j \in 1..w : j # i => t2[j] = t[j]
      /\ t[i].status # "OCCUPIED" \/ Holds(t[i], k)
  BY DEF PutAt, SlotIs, Slot
<1>2. w \in Nat \ {0} /\ k \in Nat /\ t \in Tables(w)
  BY DEF TableOK, MapAssumption
<1>3. ASSUME NEW j \in 1..w, j # i, Holds(t[j], k) PROVE FALSE
  <2>1. PICK d \in 0..w - 1 : i = After(w, k, d) /\ \A e \in 0..d - 1 : ~Holds(t[After(w, k, e)], k)
    BY DEF PutAt
  <2>2. Reached(w, t, k, j)
    BY <1>3 DEF TableOK, Holds
  <2>3. PICK f \in 0..w - 1 : After(w, k, f) = j
                              /\ \A e \in 0..f - 1 : t[After(w, k, e)].status # "EMPTY"
    BY <2>2 DEF Reached
  <2>4. f # d
    BY <1>3, <2>1, <2>3
  <2>5. ~(f < d)
    <3> SUFFICES ASSUME f < d PROVE FALSE
      OBVIOUS
    <3>1. f \in 0..d - 1
      BY <1>2
    <3> QED
      BY <1>3, <2>1, <2>3, <3>1
  <2>6. d \in 0..f - 1
    BY <1>2, <2>4, <2>5
  <2>7. t[i].status # "EMPTY" /\ t[i].status # "DELETED"
    BY <1>1, <2>1, <2>3, <2>6
  <2>8. t[i] \in MapSlots
    BY <1>1, <1>2 DEF Tables
  <2>9. t[i].status = "OCCUPIED" /\ t[i].key = k
    BY <1>1, <2>7, <2>8 DEF MapSlots, Holds
  <2> QED
    BY <1>1, <1>3, <2>9
<1> SUFFICES ASSUME NEW j \in 1..w, NEW l \in 1..w, t2[j].status = "OCCUPIED", Holds(t2[l], t2[j].key)
             PROVE  j = l
  OBVIOUS
<1>4. CASE j = i /\ l # i
  BY <1>1, <1>3, <1>4
<1>5. CASE j # i /\ l = i
  <2>1. Holds(t[j], k)
    BY <1>1, <1>5 DEF Holds
  <2> QED
    BY <1>3, <1>5, <2>1
<1>6. CASE j # i /\ l # i
  BY <1>1, <1>6
<1> QED
  BY <1>4, <1>5, <1>6

LEMMA MovedOne ==
    ASSUME MapAssumption, NEW n, NEW tab, TableOK(n, tab), NEW w, w = 2 * n, NEW m \in 1..n,
           NEW t, MovedSoFar(n, tab, w, m - 1, t), tab[m].status = "OCCUPIED"
    PROVE  MovedSoFar(n, tab, w, m, Store(t, tab[m].key, tab[m].value))
<1>1. PICK k : k = tab[m].key
  OBVIOUS
<1>2. PICK v : v = tab[m].value
  OBVIOUS
<1>3. k \in Keys /\ v \in Values
  BY <1>1, <1>2 DEF TableOK
<1>4. n \in Nat \ {0} /\ m \in Nat \ {0} /\ w \in Nat \ {0} /\ m <= n /\ w > n
  BY DEF TableOK
<1>5. TableOK(w, t) /\ t \in Tables(w)
  BY DEF MovedSoFar, TableOK
<1>6. PICK a \in 0..m - 1 : a = Cardinality(Busy(m - 1, tab))
  BY <1>4, BusyGrows
<1>7. PICK o \in Nat : o = Occupied(t)
  BY <1>4, <1>5, OccupiedIs
<1>8. o <= a
  BY <1>6, <1>7 DEF MovedSoFar
<1>9. Occupied(t) < w
  BY <1>4, <1>6, <1>7, <1>8
<1>10. PICK i : i = PutSlot(t, k)
  OBVIOUS
<1>11. PICK t2 : t2 = Store(t, k, v)
  OBVIOUS
<1>12. PutAt(w, t, t2, i, k, v)
  BY <1>3, <1>4, <1>5, <1>9, <1>10, <1>11, StoreIs
<1>13. TableOK(w, t2)
  BY <1>3, <1>5, <1>12, StoreOK
<1>14. \A j, l \in 1..w : t2[j].status = "OCCUPIED" /\ Holds(t2[l], t2[j].key) => j = l
  BY <1>3, <1>5, <1>12, StoreDistinct DEF MovedSoFar
<1>15. /\ i \in 1..w /\ t2[i].status = "OCCUPIED" /\ t2[i].key = k /\ t2[i].value = v
       /\ \A j \in 1..w : j # i => t2[j] = t[j]
       /\ t[i].status # "OCCUPIED" \/ Holds(t[i], k)
  BY <1>12 DEF PutAt, SlotIs, Slot
<1>16. \A j \in 1..w : t2[j].status # "DELETED"
  BY <1>15 DEF MovedSoFar
<1>17. ASSUME NEW j \in 1..w, t2[j].status = "OCCUPIED"
       PROVE  \E l \in 1..m : /\ tab[l].status = "OCCUPIED"
                              /\ tab[l].key = t2[j].key /\ tab[l].value = t2[j].value
  <2>1. CASE j = i
    BY <1>1, <1>2, <1>4, <1>15, <2>1
  <2>2. CASE j # i
    <3>1. t2[j] = t[j]
      BY <1>15, <2>2
    <3>2. PICK l \in 1..m - 1 : /\ tab[l].status = "OCCUPIED"
                                /\ tab[l].key = t[j].key /\ tab[l].value = t[j].value
      BY <1>17, <3>1 DEF MovedSoFar
    <3>3. l \in 1..m
      BY <1>4
    <3> QED
      BY <3>1, <3>2, <3>3
  <2> QED
    BY <2>1, <2>2
<1>18. ASSUME NEW l \in 1..m, tab[l].status = "OCCUPIED"
       PROVE  \E j \in 1..w : Holds(t2[j], tab[l].key)
  <2>1. CASE tab[l].key = k
    BY <1>15, <2>1 DEF Holds
  <2>2. CASE tab[l].key # k
    <3>1. l \in 1..m - 1
      BY <1>1, <1>4, <2>2
    <3>2. PICK j \in 1..w : Holds(t[j], tab[l].key)
      BY <1>18, <3>1 DEF MovedSoFar
    <3>3. j # i
      BY <1>15, <2>2, <3>2 DEF Holds
    <3> QED
      BY <1>15, <3>2, <3>3
  <2> QED
    BY <2>1, <2>2
<1>19. Occupied(t2) <= Cardinality(Busy(m, tab))
  <2>1. Occupied(t2) = Occupied(t) + (IF Holds(t[i], k) THEN 0 ELSE 1)
    BY <1>4, <1>5, <1>12, StoreCount
  <2>2. Cardinality(Busy(m, tab)) = a + 1
    BY <1>4, <1>6, BusyGrows
  <2>3. Occupied(t2) = o \/ Occupied(t2) = o + 1
    BY <1>7, <2>1
  <2> QED
    BY <1>6, <1>7, <1>8, <2>2, <2>3
<1>20. MovedSoFar(n, tab, w, m, t2)
  BY <1>13, <1>14, <1>16, <1>17, <1>18, <1>19 DEF MovedSoFar
<1> QED
  BY <1>1, <1>2, <1>11, <1>20

\* The new table has room, and what the old one had.
LEMMA RehashIs ==
    ASSUME MapAssumption, NEW n, NEW tab, TableOK(n, tab)
    PROVE  MovedSoFar(n, tab, 2 * n, n, Rehashed(tab))
<1>1. n \in Nat \ {0} /\ tab \in Tables(n)
  BY DEF TableOK
<1>2. PICK w \in Nat \ {0} : w = 2 * n
  BY <1>1
<1>3. tab \in Seq(MapSlots) /\ Len(tab) = n
  BY <1>1, TableLen
<1>4. PICK F : /\ Rehashed(tab) = F[n] /\ F[0] = Fresh(w)
               /\ \A m \in 1..n :
                     F[m] = IF tab[m].status = "OCCUPIED"
                            THEN Store(F[m - 1], tab[m].key, tab[m].value) ELSE F[m - 1]
  BY <1>2, <1>3, MovedFold
<1> DEFINE Good(m) == MovedSoFar(n, tab, w, m, F[m])
           B == {m \in 0..n : ~Good(m)}
<1>5. Good(0)
  BY <1>4, FreshOK
<1>6. ASSUME NEW m \in 1..n, Good(m - 1) PROVE Good(m)
  <2>1. CASE tab[m].status = "OCCUPIED"
    <3>1. PICK t : t = F[m - 1]
      OBVIOUS
    <3>2. MovedSoFar(n, tab, w, m - 1, t)
      BY <1>6, <3>1
    <3>3. MovedSoFar(n, tab, w, m, Store(t, tab[m].key, tab[m].value))
      BY <1>2, <2>1, <3>2, MovedOne
    <3>4. F[m] = Store(t, tab[m].key, tab[m].value)
      BY <1>4, <2>1, <3>1
    <3> QED
      BY <3>3, <3>4
  <2>2. CASE tab[m].status # "OCCUPIED"
    <3>1. F[m] = F[m - 1]
      BY <1>4, <2>2
    <3>2. PICK t : t = F[m]
      OBVIOUS
    <3>3. m \in Nat \ {0} /\ MovedSoFar(n, tab, w, m - 1, t)
      BY <1>1, <1>6, <3>1, <3>2
    <3>4. MovedSoFar(n, tab, w, m, t)
      BY <2>2, <3>3, MovedSkips
    <3> QED
      BY <3>2, <3>4
  <2> QED
    BY <2>1, <2>2
<1> HIDE DEF Good
<1>7. Good(n)
  <2> SUFFICES ASSUME B # {} PROVE FALSE
    BY <1>1
  <2>1. PICK m \in B : \A a \in B : m <= a
    <3>1. B \subseteq Nat
      BY <1>1
    <3> HIDE DEF B
    <3> QED
      BY <3>1, LeastNumber, Zenon
  <2>2. m \in 0..n /\ ~Good(m)
    OBVIOUS
  <2>3. m # 0
    BY <1>5, <2>2
  <2>4. m - 1 \in 0..n /\ ~(m <= m - 1) /\ m \in 1..n
    BY <1>1, <2>2, <2>3
  <2>5. Good(m - 1)
    BY <2>1, <2>4
  <2> QED
    BY <1>6, <2>2, <2>4, <2>5
<1> QED
  BY <1>2, <1>4, <1>7 DEF Good

LEMMA RehashHolds ==
    ASSUME NEW n, NEW tab, NEW w, NEW t, MovedSoFar(n, tab, w, n, t), NEW md, TableHolds(n, tab, md)
    PROVE  TableHolds(w, t, md)
<1> SUFFICES ASSUME NEW k \in Keys, md[k] # NULL PROVE \E i \in 1..w : Holds(t[i], k)
  BY DEF TableHolds
<1>1. PICK l \in 1..n : Holds(tab[l], k)
  BY DEF TableHolds
<1> QED
  BY <1>1 DEF Holds, MovedSoFar

LEMMA RehashExact ==
    ASSUME NEW n, NEW tab, NEW w, NEW t, MovedSoFar(n, tab, w, n, t), NEW md, TableExact(n, tab, md)
    PROVE  TableExact(w, t, md)
<1> SUFFICES ASSUME NEW i \in 1..w, t[i].status = "OCCUPIED"
             PROVE  /\ md[t[i].key] = t[i].value
                    /\ \A j \in 1..w : Holds(t[j], t[i].key) => j = i
  BY DEF TableExact
<1>1. PICK l \in 1..n : tab[l].status = "OCCUPIED" /\ tab[l].key = t[i].key /\ tab[l].value = t[i].value
  BY DEF MovedSoFar
<1>2. md[tab[l].key] = tab[l].value
  BY <1>1 DEF TableExact
<1>3. \A j \in 1..w : Holds(t[j], t[i].key) => i = j
  BY DEF MovedSoFar
<1> QED
  BY <1>1, <1>2, <1>3

-----------------------------------------------------------------------------
\* The table, its size and what the calls have stored.
TablePart(kd, n, tab, sz, md, re) ==
    /\ TableOK(n, tab)
    /\ sz = Occupied(tab) /\ sz < n
    /\ kd = "open" => /\ TableHolds(n, tab, md)
                      /\ ~re => TableExact(n, tab, md)

TableState == \E n : TablePart(kind, n, table, size, model, reinserted)

\* insert, behind its test for the load, in the table as it was or in the new
\* one.
LEMMA StoreCall ==
    ASSUME MapAssumption, MapTypes, kind = "open",
           NEW n, NEW tab, NEW sz, TablePart(kind, n, tab, sz, model, reinserted),
           NEW k \in Keys, NEW v \in Values, StoreIn(tab, sz, k, v),
           Holds(tab[PutSlot(tab, k)], k) \/ sz + 1 < n
    PROVE  TableState'
<1>1. PICK t2 : t2 = table' /\ t2 = Store(tab, k, v)
  BY DEF StoreIn
<1>2. PICK md2 : md2 = model'
  OBVIOUS
<1>3. PICK re2 : re2 = reinserted'
  OBVIOUS
<1>4. PICK i : i = PutSlot(tab, k)
  OBVIOUS
<1>5. TableOK(n, tab) /\ n \in Nat \ {0} /\ tab \in Tables(n) /\ sz = Occupied(tab) /\ sz < n
  BY DEF TablePart, TableOK
<1>6. PutAt(n, tab, t2, i, k, v)
  BY <1>1, <1>4, <1>5, StoreIs
<1>7. Recorded(model, md2, k, v) /\ (~re2 => ~reinserted /\ model[k] = NULL) /\ kind' = kind
  BY <1>2, <1>3 DEF StoreIn, Put, Recorded
<1>8. model \in [Keys -> Values \cup {NULL}]
  BY DEF MapTypes
<1>9. TableOK(n, t2)
  BY <1>5, <1>6, StoreOK
<1>10. Occupied(t2) = sz + (IF Holds(tab[i], k) THEN 0 ELSE 1)
  BY <1>5, <1>6, StoreCount
<1>11. size' = Occupied(t2)
  BY <1>4, <1>10 DEF StoreIn
<1>12. Occupied(t2) < n
  <2>1. sz \in Nat
    BY <1>5, OccupiedIs
  <2>2. CASE Holds(tab[i], k)
    BY <1>5, <1>10, <2>1, <2>2
  <2>3. CASE ~Holds(tab[i], k)
    BY <1>4, <1>10, <2>1, <2>3
  <2> QED
    BY <2>2, <2>3
<1>13. TableHolds(n, tab, model) /\ (~reinserted => TableExact(n, tab, model))
  BY DEF TablePart
<1>14. TableHolds(n, t2, md2)
  BY <1>6, <1>7, <1>8, <1>13, StoreHolds
<1>15. ASSUME ~re2 PROVE TableExact(n, t2, md2)
  BY <1>5, <1>6, <1>7, <1>8, <1>13, <1>15, StoreExact
<1>16. TablePart(kind', n, t2, size', md2, re2)
  BY <1>9, <1>11, <1>12, <1>14, <1>15 DEF TablePart
<1> QED
  BY <1>1, <1>2, <1>3, <1>16 DEF TableState

\* The same behind a rehash.
LEMMA RehashCall ==
    ASSUME MapAssumption, MapTypes, kind = "open", TableState, NEW k \in Keys, NEW v \in Values,
           NEW t, t = Rehashed(table), StoreIn(t, Occupied(t), k, v)
    PROVE  TableState'
<1>1. PICK n : TablePart(kind, n, table, size, model, reinserted)
  BY DEF TableState
<1>2. TableOK(n, table) /\ n \in Nat \ {0} /\ table \in Tables(n) /\ size = Occupied(table) /\ size < n
  BY <1>1 DEF TablePart, TableOK
<1>3. PICK w \in Nat : w = 2 * n /\ w > n
  BY <1>2
<1>4. MovedSoFar(n, table, w, n, t)
  BY <1>2, <1>3, RehashIs
<1>5. PICK o : o = Occupied(t)
  OBVIOUS
<1>6. o \in Nat /\ o <= size /\ size \in Nat
  <2>1. t \in Tables(w)
    BY <1>4 DEF MovedSoFar, TableOK
  <2>2. o \in Nat
    BY <1>3, <1>5, <2>1, OccupiedIs
  <2>3. size \in Nat /\ size = Cardinality(Busy(n, table))
    BY <1>2, OccupiedIs
  <2>4. o <= Cardinality(Busy(n, table))
    BY <1>4, <1>5 DEF MovedSoFar
  <2> QED
    BY <2>2, <2>3, <2>4
<1>7. TableOK(w, t) /\ o < w /\ o + 1 < w
  <2>1. TableOK(w, t)
    BY <1>4 DEF MovedSoFar
  <2> QED
    BY <1>2, <1>3, <1>6, <2>1
<1>8. TableHolds(w, t, model) /\ (~reinserted => TableExact(w, t, model))
  BY <1>1, <1>4, RehashHolds, RehashExact DEF TablePart
<1>9. TablePart(kind, w, t, o, model, reinserted)
  BY <1>5, <1>7, <1>8 DEF TablePart
<1>10. StoreIn(t, o, k, v)
  BY <1>5
<1> QED
  BY <1>7, <1>9, <1>10, StoreCall

\* The test for the load leaves a slot free.
LEMMA RoomLeft ==
    ASSUME NEW n, TablePart(kind, n, table, size, model, reinserted)
    PROVE  Overloaded(size) \/ size + 1 < n
<1>1. n \in Nat \ {0} /\ table \in Tables(n) /\ size = Occupied(table)
  BY DEF TablePart, TableOK
<1>2. Len(table) = n /\ size \in Nat
  BY <1>1, TableLen, OccupiedIs
<1> QED
  BY <1>1, <1>2 DEF Overloaded

LEMMA OpenInsertStep ==
    ASSUME MapAssumption, MapTypes, TableState, NEW k \in Keys, NEW v \in Values, OpenInsert(k, v)
    PROVE  TableState'
<1>1. kind = "open"
  BY DEF OpenInsert
<1>2. CASE ~Overloaded(size) /\ StoreIn(table, size, k, v)
  <2>1. PICK n : TablePart(kind, n, table, size, model, reinserted)
    BY DEF TableState
  <2>2. size + 1 < n
    BY <1>2, <2>1, RoomLeft
  <2> QED
    BY <1>1, <1>2, <2>1, <2>2, StoreCall
<1>3. CASE LET t == Rehashed(table) IN StoreIn(t, Occupied(t), k, v)
  <2>1. PICK t : t = Rehashed(table)
    OBVIOUS
  <2>2. StoreIn(t, Occupied(t), k, v)
    BY <1>3, <2>1
  <2> QED
    BY <1>1, <2>1, <2>2, RehashCall
<1> QED
  BY <1>2, <1>3 DEF OpenInsert

LEMMA OpenSubscriptStep ==
    ASSUME MapAssumption, MapTypes, TableState, NEW k \in Keys, NEW v \in Values, OpenSubscript(k, v)
    PROVE  TableState'
<1>1. kind = "open"
  BY DEF OpenSubscript
<1>2. CASE /\ Holds(table[PutSlot(table, k)], k) \/ ~Overloaded(size)
           /\ StoreIn(table, size, k, v)
  <2>1. PICK n : TablePart(kind, n, table, size, model, reinserted)
    BY DEF TableState
  <2>2. Holds(table[PutSlot(table, k)], k) \/ size + 1 < n
    BY <1>2, <2>1, RoomLeft
  <2> QED
    BY <1>1, <1>2, <2>1, <2>2, StoreCall
<1>3. CASE LET t == Rehashed(table) IN StoreIn(t, Occupied(t), k, v)
  <2>1. PICK t : t = Rehashed(table)
    OBVIOUS
  <2>2. StoreIn(t, Occupied(t), k, v)
    BY <1>3, <2>1
  <2> QED
    BY <1>1, <2>1, <2>2, RehashCall
<1> QED
  BY <1>2, <1>3 DEF OpenSubscript

LEMMA OpenEraseStep ==
    ASSUME MapAssumption, MapTypes, TableState, NEW k \in Keys, OpenErase(k)
    PROVE  TableState'
<1>1. PICK n : TablePart(kind, n, table, size, model, reinserted)
  BY DEF TableState
<1>2. TableOK(n, table) /\ n \in Nat \ {0} /\ table \in Tables(n) /\ size = Occupied(table) /\ size < n
  BY <1>1 DEF TablePart, TableOK
<1>3. PICK i : i = FindSlot(table, k)
  OBVIOUS
<1>4. i # 0
  BY <1>3 DEF OpenErase
<1>5. i \in 1..n /\ Holds(table[i], k)
  BY <1>2, <1>3, <1>4, FindIs
<1>6. PICK s : s = Gone
  OBVIOUS
<1>7. PICK t2 : t2 = table'
  OBVIOUS
<1>8. t2 = [table EXCEPT ![i] = s]
  BY <1>3, <1>6, <1>7 DEF OpenErase, Gone
<1>9. SlotIs(n, table, t2, i, Gone)
  <2>1. s \in MapSlots
    BY <1>6, GoneIs
  <2>2. SlotIs(n, table, t2, i, s)
    BY <1>2, <1>5, <1>8, <2>1, SlotWritten
  <2> QED
    BY <1>6, <2>2
<1>10. PICK md2 : md2 = model'
  OBVIOUS
<1>11. PICK re2 : re2 = reinserted'
  OBVIOUS
<1>12. /\ Recorded(model, md2, k, NULL) /\ re2 = reinserted /\ kind' = kind
       /\ size' = size - 1 /\ kind = "open"
  BY <1>10, <1>11 DEF OpenErase, Recorded
<1>13. model \in [Keys -> Values \cup {NULL}]
  BY DEF MapTypes
<1>14. TableOK(n, t2)
  BY <1>2, <1>9, EraseOK
<1>15. size' = Occupied(t2) /\ size' < n
  <2>1. Occupied(table) = Occupied(t2) + 1
    BY <1>2, <1>5, <1>9, EraseCount DEF Holds
  <2>2. t2 \in Tables(n)
    BY <1>14 DEF TableOK
  <2>3. Occupied(t2) \in Nat
    BY <1>2, <2>2, OccupiedIs
  <2> QED
    BY <1>2, <1>12, <2>1, <2>3
<1>16. TableHolds(n, table, model) /\ (~reinserted => TableExact(n, table, model))
  BY <1>1, <1>12 DEF TablePart
<1>17. TableHolds(n, t2, md2)
  BY <1>5, <1>9, <1>12, <1>13, <1>16, EraseHolds
<1>18. ~re2 => TableExact(n, t2, md2)
  BY <1>2, <1>5, <1>9, <1>12, <1>13, <1>16, EraseExact
<1>19. TablePart(kind', n, t2, size', md2, re2)
  BY <1>14, <1>15, <1>17, <1>18 DEF TablePart
<1> QED
  BY <1>7, <1>10, <1>11, <1>19 DEF TableState

-----------------------------------------------------------------------------
(* The three maps.                                                         *)

MapInv == MapTypes /\ ChainState /\ TableState

\* What a call keeps of the other two maps.
LEMMA ChainsStay ==
    ASSUME ChainState, kind = "open", UNCHANGED <<kind, chained>>
    PROVE  ChainState'
<1>1. buckets' = buckets /\ freeNodes' = freeNodes /\ kind' = kind
  BY DEF chained
<1> QED
  BY <1>1 DEF ChainState, ChainPart

LEMMA TableStays ==
    ASSUME TableState, kind # "open", UNCHANGED <<kind, open>>
    PROVE  TableState'
<1>1. table' = table /\ size' = size /\ kind' = kind
  BY DEF open
<1>2. PICK n : TablePart(kind, n, table, size, model, reinserted)
  BY DEF TableState
<1>3. TablePart(kind', n, table', size', model', reinserted')
  BY <1>1, <1>2 DEF TablePart
<1> QED
  BY <1>3 DEF TableState

LEMMA TypesStay ==
    ASSUME MapTypes, kind' = kind, NEW k \in Keys, NEW v \in Values \cup {NULL},
           model' = [model EXCEPT ![k] = v], reinserted' \in BOOLEAN
    PROVE  MapTypes'
BY DEF MapTypes

LEMMA PutTypes ==
    ASSUME MapTypes, NEW k \in Keys, NEW v \in Values, kind' = kind, Put(k, v)
    PROVE  MapTypes'
<1>1. reinserted' = (reinserted \/ model[k] # NULL) /\ model' = [model EXCEPT ![k] = v]
  BY DEF Put
<1>2. reinserted' \in BOOLEAN
  BY <1>1
<1> QED
  BY <1>1, <1>2, TypesStay

LEMMA CallStep ==
    ASSUME MapAssumption, MapInv, NEW k \in Keys, Call(k)
    PROVE  MapInv'
<1>1. MapTypes /\ ChainState /\ TableState /\ reinserted \in BOOLEAN
  BY DEF MapInv, MapTypes
<1>2. ASSUME NEW v \in Values, ChainingPut(k, v) PROVE MapInv'
  <2>1. /\ kind' = kind /\ kind # "open" /\ Put(k, v) /\ UNCHANGED <<kind, open>>
    BY <1>2 DEF ChainingPut
  <2> QED
    BY <1>1, <1>2, <2>1, ChainingPutStep, PutTypes, TableStays DEF MapInv
<1>3. ASSUME NEW v \in Values, FixedSubscript(k, v) PROVE MapInv'
  <2>1. /\ kind' = kind /\ kind # "open" /\ UNCHANGED <<kind, open>>
        /\ model' = [model EXCEPT ![k] = v] /\ reinserted' = reinserted
    BY <1>3 DEF FixedSubscript
  <2>2. MapTypes'
    BY <1>1, <2>1, TypesStay
  <2> QED
    BY <1>1, <1>3, <2>1, <2>2, FixedSubscriptStep, TableStays DEF MapInv
<1>4. ASSUME NEW v \in Values, FixedInsert(k, v) PROVE MapInv'
  <2>1. kind' = kind /\ kind # "open" /\ Put(k, v) /\ UNCHANGED <<kind, open>>
    BY <1>4 DEF FixedInsert
  <2> QED
    BY <1>1, <1>4, <2>1, FixedInsertStep, PutTypes, TableStays DEF MapInv
<1>5. ASSUME NEW v \in Values, OpenInsert(k, v) PROVE MapInv'
  <2>1. kind' = kind /\ kind = "open" /\ Put(k, v) /\ UNCHANGED <<kind, chained>>
    BY <1>5 DEF OpenInsert, StoreIn
  <2> QED
    BY <1>1, <1>5, <2>1, OpenInsertStep, PutTypes, ChainsStay DEF MapInv
<1>6. ASSUME NEW v \in Values, OpenSubscript(k, v) PROVE MapInv'
  <2>1. kind' = kind /\ kind = "open" /\ Put(k, v) /\ UNCHANGED <<kind, chained>>
    BY <1>6 DEF OpenSubscript, StoreIn
  <2> QED
    BY <1>1, <1>6, <2>1, OpenSubscriptStep, PutTypes, ChainsStay DEF MapInv
<1>7. CASE ChainingErase(k)
  <2>1. /\ kind' = kind /\ kind # "open" /\ UNCHANGED <<kind, open>>
        /\ model' = [model EXCEPT ![k] = NULL] /\ reinserted' = reinserted
    BY <1>7 DEF ChainingErase
  <2>2. MapTypes'
    BY <1>1, <2>1, TypesStay
  <2> QED
    BY <1>1, <1>7, <2>1, <2>2, ChainingEraseStep, TableStays DEF MapInv
<1>8. CASE FixedErase(k)
  <2>1. /\ kind' = kind /\ kind # "open" /\ UNCHANGED <<kind, open>>
        /\ model' = [model EXCEPT ![k] = NULL] /\ reinserted' = reinserted
    BY <1>8 DEF FixedErase
  <2>2. MapTypes'
    BY <1>1, <2>1, TypesStay
  <2> QED
    BY <1>1, <1>8, <2>1, <2>2, FixedEraseStep, TableStays DEF MapInv
<1>9. CASE OpenErase(k)
  <2>1. /\ kind' = kind /\ kind = "open" /\ UNCHANGED <<kind, chained>>
        /\ model' = [model EXCEPT ![k] = NULL] /\ reinserted' = reinserted
    BY <1>9 DEF OpenErase
  <2>2. MapTypes'
    BY <1>1, <2>1, TypesStay
  <2> QED
    BY <1>1, <1>9, <2>1, <2>2, OpenEraseStep, ChainsStay DEF MapInv
<1> QED
  BY <1>2, <1>3, <1>4, <1>5, <1>6, <1>7, <1>8, <1>9 DEF Call

\* No chain has a node at first.
LEMMA NoNodes ==
    ASSUME MapAssumption, NEW bs, ChainsOK(bs), \A i \in 1..InitBuckets : Len(bs[i]) = 0
    PROVE  Total(bs) = 0
<1>1. PICK n \in Nat : n = InitBuckets
  BY DEF MapAssumption
<1>2. PICK F : Total(bs) = F[n] /\ F[0] = 0 /\ \A m \in 1..n : F[m] = F[m - 1] + Len(bs[m])
  BY <1>1, TotalOf
<1> DEFINE B == {m \in 0..n : F[m] # 0}
<1> SUFFICES ASSUME B # {} PROVE FALSE
  BY <1>1, <1>2
<1>3. PICK m \in B : \A a \in B : m <= a
  <2>1. B \subseteq Nat
    BY <1>1
  <2> HIDE DEF B
  <2> QED
    BY <2>1, LeastNumber, Zenon
<1>4. m \in 0..n /\ F[m] # 0 /\ m # 0
  BY <1>2
<1>5. m \in 1..n /\ m - 1 \in 0..n /\ ~(m <= m - 1)
  BY <1>1, <1>4
<1>6. F[m - 1] = 0
  BY <1>3, <1>5
<1>7. F[m] = 0
  BY <1>1, <1>2, <1>5, <1>6
<1> QED
  BY <1>4, <1>7

LEMMA MapStart ==
    ASSUME MapAssumption, Init
    PROVE  MapInv
<1>1. PICK n \in Nat \ {0} : n = InitBuckets
  BY DEF MapAssumption
<1>2. kind \in Kinds /\ freeNodes = NodesPool /\ size = 0 /\ reinserted = FALSE
  BY DEF Init
<1>3. model \in [Keys -> Values \cup {NULL}] /\ \A k \in Keys : model[k] = NULL
  BY DEF Init
<1>4. <<>> \in Seq(Nodes) /\ Len(<<>>) = 0
  BY EmptySeq, Zenon
<1>5. PICK e : e = <<>>
  OBVIOUS
<1>6. buckets = [i \in 1..InitBuckets |-> e]
  BY <1>5 DEF Init
<1>7. e \in Seq(Nodes) /\ Len(e) = 0
  BY <1>4, <1>5, Zenon
<1>8. ChainsOK(buckets) /\ \A i \in 1..InitBuckets : Len(buckets[i]) = 0
  BY <1>6, <1>7 DEF ChainsOK
<1>9. Total(buckets) = 0
  BY <1>8, NoNodes
<1>10. ChainState
  <2>1. NodesPool \in Nat /\ freeNodes + 0 = NodesPool
    BY <1>2 DEF MapAssumption
  <2>2. ChainsHold(buckets, model)
    BY <1>3 DEF ChainsHold
  <2>3. ChainsExact(buckets, model)
    BY <1>8 DEF ChainsExact, ChainExact
  <2> QED
    BY <1>2, <1>8, <1>9, <2>1, <2>2, <2>3 DEF ChainState, ChainPart
<1>11. TableState
  <2>1. PICK t : t = table
    OBVIOUS
  <2>2. t = Fresh(n)
    BY <1>1, <2>1 DEF Init, Fresh
  <2>3. t \in Tables(n) /\ \A i \in 1..n : t[i].status = "EMPTY"
    BY <2>2, FreshType DEF Fresh, EmptySlot, Slot
  <2>4. TableOK(n, t)
    BY <2>3 DEF TableOK
  <2>5. Occupied(t) = 0
    <3>1. Busy(n, t) = {}
      BY <2>3 DEF Busy
    <3> QED
      BY <2>3, <3>1, OccupiedIs, FS_EmptySet
  <2>6. TableHolds(n, t, model) /\ TableExact(n, t, model)
    BY <1>3, <2>3 DEF TableHolds, TableExact
  <2>7. TablePart(kind, n, t, size, model, reinserted)
    BY <1>1, <1>2, <2>4, <2>5, <2>6 DEF TablePart
  <2> QED
    BY <2>1, <2>7 DEF TableState
<1> QED
  BY <1>2, <1>3, <1>10, <1>11 DEF MapInv, MapTypes

LEMMA MapNext ==
    ASSUME MapAssumption, TableAssumption, MapInv, [MCNext]_<<part, maps, ids>>
    PROVE  MapInv'
<1>1. CASE UNCHANGED maps
  <2>1. /\ kind' = kind /\ model' = model /\ reinserted' = reinserted
        /\ buckets' = buckets /\ freeNodes' = freeNodes /\ table' = table /\ size' = size
    BY <1>1 DEF maps, vars, chained, open, history
  <2>2. MapTypes' /\ ChainState'
    BY <2>1 DEF MapInv, MapTypes, ChainState
  <2>3. TableState'
    BY <2>1 DEF MapInv, TableState
  <2> QED
    BY <2>2, <2>3 DEF MapInv
<1>2. CASE LibraryNext
  <2>1. \E k \in Keys : Call(k)
    <3>1. CASE Next
      BY <3>1 DEF Next
    <3>2. CASE TableNext
      <4>1. PICK k \in TableKeys :
              \/ \E v \in Values : \/ ChainingTableInsert(k, v)
                                   \/ FixedTableInsert(k, v)
                                   \/ OpenTableInsert(k, v)
              \/ ChainingTableRemove(k) \/ FixedTableRemove(k) \/ OpenTableRemove(k)
        BY <3>2 DEF TableNext
      <4>2. k \in Keys
        BY DEF TableAssumption
      <4>3. Call(k)
        BY <4>1 DEF Call, ChainingTableInsert, FixedTableInsert, OpenTableInsert,
                    ChainingTableRemove, FixedTableRemove, OpenTableRemove
      <4> QED
        BY <4>2, <4>3
    <3> QED
      BY <1>2, <3>1, <3>2 DEF LibraryNext
  <2> QED
    BY <2>1, CallStep
<1> QED
  BY <1>1, <1>2 DEF MCNext

LEMMA MapAlways == MCSpec => []MapInv
<1>1. MCInit => MapInv
  BY MapAssumption, MapStart DEF MCInit, TableInit
<1>2. MapInv /\ [MCNext]_<<part, maps, ids>> => MapInv'
  BY MapAssumption, TableAssumption, MapNext
<1> QED
  BY <1>1, <1>2, PTL DEF MCSpec

-----------------------------------------------------------------------------
\* What find returns.

LEMMA ChainFind ==
    ASSUME MapAssumption, ChainsOK(buckets), kind # "open", NEW k \in Keys,
           NEW b, b = buckets[Bucket(k)]
    PROVE  /\ ~InChain(b, k) => Find(k) = NULL
           /\ InChain(b, k) => \E p \in 1..Len(b) :
                 /\ b[p].key = k /\ Find(k) = b[p].value /\ Find(k) \in Values
                 /\ \A j \in 1..Len(b) : b[j].key = k => p <= j
<1>1. b \in Seq(Nodes)
  BY TheChain
<1>2. PICK p : p = Position(k)
  OBVIOUS
<1>3. Find(k) = IF p = 0 THEN NULL ELSE b[p].value
  BY <1>2 DEF Find
<1>4. /\ p = 0 <=> ~InChain(b, k)
      /\ p # 0 => /\ p \in 1..Len(b) /\ b[p].key = k
                  /\ \A j \in 1..Len(b) : b[j].key = k => p <= j
  BY <1>1, <1>2, PositionFirst
<1>5. p # 0 => b[p].value \in Values
  <2>1. p # 0 => b[p] \in Nodes
    BY <1>1, <1>4
  <2> QED
    BY <2>1 DEF Nodes
<1> QED
  BY <1>3, <1>4, <1>5

LEMMA TableFinds ==
    ASSUME MapAssumption, kind = "open", NEW n, TableOK(n, table), NEW k \in Keys
    PROVE  \/ Find(k) = NULL /\ \A i \in 1..n : ~Holds(table[i], k)
           \/ \E i \in 1..n : Holds(table[i], k) /\ Find(k) = table[i].value /\ Find(k) \in Values
<1>1. PICK i : i = FindSlot(table, k)
  OBVIOUS
<1>2. Find(k) = IF i = 0 THEN NULL ELSE table[i].value
  BY <1>1 DEF Find
<1>3. CASE i = 0
  BY <1>1, <1>2, <1>3, FindIs
<1>4. CASE i # 0
  <2>1. i \in 1..n /\ Holds(table[i], k)
    BY <1>1, <1>4, FindIs
  <2>2. table[i].value \in Values
    BY <2>1 DEF TableOK, Holds
  <2> QED
    BY <1>2, <1>4, <2>1, <2>2
<1> QED
  BY <1>3, <1>4

LEMMA FindMeaning ==
    ASSUME MapAssumption, MapInv
    PROVE  LiveKeysFound /\ ExactUnlessReinserted
<1>0. NULL \notin Values /\ model \in [Keys -> Values \cup {NULL}] /\ kind \in {"chaining", "fixed", "open"}
  BY DEF MapAssumption, MapInv, MapTypes
<1> SUFFICES ASSUME NEW k \in Keys
             PROVE  /\ model[k] # NULL => Find(k) # NULL
                    /\ kind = "chaining" \/ ~reinserted => Find(k) = model[k]
  BY DEF LiveKeysFound, ExactUnlessReinserted
<1>1. CASE kind = "open"
  <2>1. PICK n : TablePart(kind, n, table, size, model, reinserted)
    BY DEF MapInv, TableState
  <2>2. /\ TableOK(n, table) /\ TableHolds(n, table, model)
        /\ ~reinserted => TableExact(n, table, model)
    BY <1>1, <2>1 DEF TablePart
  <2>3. CASE Find(k) = NULL /\ \A i \in 1..n : ~Holds(table[i], k)
    BY <2>2, <2>3 DEF TableHolds
  <2>4. CASE \E i \in 1..n : Holds(table[i], k) /\ Find(k) = table[i].value /\ Find(k) \in Values
    <3>1. PICK i \in 1..n : Holds(table[i], k) /\ Find(k) = table[i].value /\ Find(k) \in Values
      BY <2>4
    <3>2. ~reinserted => model[k] = table[i].value
      BY <2>2, <3>1 DEF TableExact, Holds
    <3> QED
      BY <1>0, <1>1, <3>1, <3>2
  <2> QED
    BY <1>1, <2>2, <2>3, <2>4, TableFinds
<1>2. CASE kind # "open"
  <2>1. PICK b : b = buckets[Bucket(k)]
    OBVIOUS
  <2>2. /\ ChainsOK(buckets) /\ ChainsHold(buckets, model)
        /\ kind = "chaining" \/ ~reinserted => ChainsExact(buckets, model)
    BY <1>0, <1>2 DEF MapInv, ChainState, ChainPart
  <2>3. CASE ~InChain(b, k)
    <3>1. Find(k) = NULL
      BY <1>2, <2>1, <2>2, <2>3, ChainFind
    <3>2. model[k] = NULL
      BY <2>1, <2>2, <2>3 DEF ChainsHold
    <3> QED
      BY <3>1, <3>2
  <2>4. CASE InChain(b, k)
    <3>1. PICK p \in 1..Len(b) : b[p].key = k /\ Find(k) = b[p].value /\ Find(k) \in Values
      BY <1>2, <2>1, <2>2, <2>4, ChainFind
    <3>2. Bucket(k) \in 1..InitBuckets
      BY BucketIn
    <3>3. kind = "chaining" \/ ~reinserted => model[k] = b[p].value
      BY <2>1, <2>2, <3>1, <3>2 DEF ChainsExact, ChainExact
    <3> QED
      BY <1>0, <3>1, <3>3
  <2> QED
    BY <2>3, <2>4
<1> QED
  BY <1>1, <1>2

LEMMA AccountingMeaning ==
    ASSUME MapAssumption, MapInv
    PROVE  Accounting
<1>1. PICK n : TablePart(kind, n, table, size, model, reinserted)
  BY DEF MapInv, TableState
<1>2. TableOK(n, table) /\ n \in Nat \ {0} /\ table \in Tables(n) /\ size = Occupied(table) /\ size < n
  BY <1>1 DEF TablePart, TableOK
<1>3. Len(table) = n /\ DOMAIN table = 1..n /\ size \in 0..n
  BY <1>2, TableLen, OccupiedIs
<1>4. \A i \in DOMAIN table :
          table[i] \in [status : {"EMPTY", "OCCUPIED", "DELETED"},
                        key : Keys \cup {NULL}, value : Values \cup {NULL}]
  BY <1>2, <1>3 DEF Tables, MapSlots
<1>5. ChainsOK(buckets)
  BY DEF MapInv, ChainState, ChainPart
<1>6. \A i \in DOMAIN buckets : \A j \in DOMAIN buckets[i] :
          /\ buckets[i][j] \in [key : Keys, value : Values]
          /\ Bucket(buckets[i][j].key) = i
  <2> SUFFICES ASSUME NEW i \in DOMAIN buckets, NEW j \in DOMAIN buckets[i]
               PROVE  buckets[i][j] \in Nodes /\ Bucket(buckets[i][j].key) = i
    BY DEF Nodes
  <2>1. i \in 1..InitBuckets /\ buckets[i] \in Seq(Nodes)
    BY <1>5 DEF ChainsOK
  <2>2. j \in 1..Len(buckets[i])
    BY <2>1
  <2> QED
    BY <1>5, <2>1, <2>2 DEF ChainsOK
<1>7. freeNodes \in Nat /\ (freeNodes = NodesPool \/ kind = "fixed")
      /\ (kind = "fixed" => freeNodes + Total(buckets) = NodesPool)
  BY DEF MapInv, ChainState, ChainPart
<1>8. Total(buckets) \in Nat
  <2>1. PICK i \in 1..InitBuckets : i = 1
    BY DEF MapAssumption
  <2>2. buckets[i] \in Seq(Nodes) /\ OneChain(buckets, buckets, i, buckets[i])
    BY <1>5 DEF ChainsOK, OneChain
  <2> QED
    BY <1>5, <2>2, TotalChange
<1>9. freeNodes \in 0..NodesPool
  BY <1>7, <1>8 DEF MapAssumption
<1>10. TypeOK
  BY <1>3, <1>4, <1>6, <1>9 DEF MapInv, MapTypes, TypeOK
<1> QED
  BY <1>2, <1>3, <1>7, <1>10 DEF Accounting, Total

-----------------------------------------------------------------------------
(* The theorems about the maps.                                            *)

\* Through any calls of insert, erase and reHash, no node of
\* FixedSizedChainingHashMap's pool is lost, size_ of OpenAddressingHashMap
\* counts its OCCUPIED slots, and insert finds a slot to stop at.
THEOREM NothingLost == MCSpec => []Accounting
<1>1. MapInv => Accounting
  BY MapAssumption, AccountingMeaning
<1> QED
  BY <1>1, MapAlways, PTL

\* A key that was put in and not erased since is found by all three maps: a
\* DELETED slot or a move to a larger table never hides it from the probing.
THEOREM LiveKeysStay == MCSpec => []LiveKeysFound
<1>1. MapInv => LiveKeysFound
  BY MapAssumption, FindMeaning
<1> QED
  BY <1>1, MapAlways, PTL

\* find returns the latest value put in and nothing of an erased key, in
\* FixedSizedChainingHashMap and OpenAddressingHashMap as long as no key was put
\* in while it was there, in ChainingHashMap always.
THEOREM MapIsExact == MCSpec => []ExactUnlessReinserted
<1>1. MapInv => ExactUnlessReinserted
  BY MapAssumption, FindMeaning
<1> QED
  BY <1>1, MapAlways, PTL

-----------------------------------------------------------------------------
(* A fixed table is a map of queues.                                       *)

\* The nodes of k, in the order of the chain, hold the values q.
QueuedAt(b, k, q, f) ==
    /\ f \in [1..Len(q) -> 1..Len(b)]
    /\ \A i, j \in 1..Len(q) : i < j => f[i] < f[j]
    /\ \A i \in 1..Len(q) : b[f[i]].key = k /\ b[f[i]].value = q[i]
    /\ \A l \in 1..Len(b) : b[l].key = k => \E i \in 1..Len(q) : f[i] = l

Queued(b, k, q) == \E f : QueuedAt(b, k, q, f)

\* A node of another key does not matter, nor does one that is taken out; q2
\* is what is left of q behind its first s values.
LEMMA QueueThinned ==
    ASSUME NEW b \in Seq(Nodes), NEW k, NEW q \in Seq(Values), NEW f, QueuedAt(b, k, q, f),
           NEW c \in Seq(Nodes), NEW D, Thinned(b, c, D), NEW s \in Nat, NEW q2 \in Seq(Values),
           Len(q2) + s = Len(q), \A i \in 1..Len(q2) : q2[i] = q[i + s],
           \A i \in 1..Len(q) : f[i] \in D <=> i <= s
    PROVE  Queued(c, k, q2)
<1>1. PICK n \in Nat, n2 \in Nat : n = Len(q) /\ n2 = Len(q2) /\ n2 + s = n
  <2>1. Len(q) \in Nat /\ Len(q2) \in Nat
    OBVIOUS
  <2>2. Len(q2) + s = Len(q)
    OBVIOUS
  <2> QED
    BY <2>1, <2>2
<1>2. PICK g \in [1..Len(c) -> 1..Len(b)] :
        /\ \A j, l \in 1..Len(c) : j < l => g[j] < g[l]
        /\ \A j \in 1..Len(c) : c[j] = b[g[j]]
        /\ \A l \in 1..Len(b) : l \notin D <=> \E j \in 1..Len(c) : g[j] = l
  BY Zenon DEF Thinned
<1>3. /\ f \in [1..n -> 1..Len(b)]
      /\ \A i, j \in 1..n : i < j => f[i] < f[j]
      /\ \A i \in 1..n : b[f[i]].key = k /\ b[f[i]].value = q[i]
      /\ \A l \in 1..Len(b) : b[l].key = k => \E i \in 1..n : f[i] = l
  BY <1>1 DEF QueuedAt
<1>4. \A i \in 1..n2 : i + s \in 1..n /\ ~(i + s <= s)
  BY <1>1
<1>5. \A i \in 1..n2 : \E j \in 1..Len(c) : g[j] = f[i + s]
  <2> SUFFICES ASSUME NEW i \in 1..n2 PROVE \E j \in 1..Len(c) : g[j] = f[i + s]
    OBVIOUS
  <2>1. PICK l : l = f[i + s]
    OBVIOUS
  <2>2. l \in 1..Len(b) /\ l \notin D
    BY <1>1, <1>3, <1>4, <2>1
  <2> QED
    BY <1>2, <2>1, <2>2
<1>6. PICK h : h = [i \in 1..n2 |-> CHOOSE j \in 1..Len(c) : g[j] = f[i + s]]
  OBVIOUS
<1>7. \A i \in 1..n2 : h[i] \in 1..Len(c) /\ g[h[i]] = f[i + s]
  BY <1>5, <1>6
<1>8. h \in [1..n2 -> 1..Len(c)]
  BY <1>6, <1>7
<1>9. \A i, j \in 1..n2 : i < j => h[i] < h[j]
  <2> SUFFICES ASSUME NEW i \in 1..n2, NEW j \in 1..n2, i < j, ~(h[i] < h[j]) PROVE FALSE
    OBVIOUS
  <2>1. PICK x \in 1..Len(c), y \in 1..Len(c) : x = h[i] /\ y = h[j]
    BY <1>7
  <2>2. i + s < j + s
    BY <1>1
  <2>3. f[i + s] < f[j + s]
    BY <1>3, <1>4, <2>2
  <2>4. g[x] < g[y]
    BY <1>7, <2>1, <2>3
  <2>5. y < x \/ y = x
    BY <2>1
  <2>6. g[x] \in 1..Len(b) /\ g[y] \in 1..Len(b)
    BY <1>2
  <2> QED
    BY <1>2, <2>4, <2>5, <2>6
<1>10. \A i \in 1..n2 : c[h[i]].key = k /\ c[h[i]].value = q2[i]
  <2> SUFFICES ASSUME NEW i \in 1..n2 PROVE c[h[i]].key = k /\ c[h[i]].value = q2[i]
    OBVIOUS
  <2>1. c[h[i]] = b[f[i + s]]
    BY <1>2, <1>7
  <2>2. q2[i] = q[i + s]
    BY <1>1
  <2> QED
    BY <1>3, <1>4, <2>1, <2>2
<1>11. \A l \in 1..Len(c) : c[l].key = k => \E i \in 1..n2 : h[i] = l
  <2> SUFFICES ASSUME NEW l \in 1..Len(c), c[l].key = k PROVE \E i \in 1..n2 : h[i] = l
    OBVIOUS
  <2>1. PICK m \in 1..Len(b) : m = g[l] /\ m \notin D /\ b[m].key = k
    BY <1>2
  <2>2. PICK j \in 1..n : f[j] = m
    BY <1>3, <2>1
  <2>3. ~(j <= s)
    BY <1>1, <2>1, <2>2
  <2>4. PICK i \in 1..n2 : j = i + s
    <3>1. j - s \in 1..n2 /\ j = (j - s) + s
      BY <1>1, <2>3
    <3> QED
      BY <3>1
  <2>5. h[i] \in 1..Len(c) /\ g[h[i]] = g[l]
    BY <1>7, <2>1, <2>2, <2>4
  <2>6. PICK x \in 1..Len(c) : x = h[i]
    BY <2>5
  <2>7. ~(x < l) /\ ~(l < x)
    BY <1>2, <2>1, <2>5, <2>6
  <2>8. x = l
    BY <2>7
  <2> QED
    BY <2>6, <2>8
<1>12. QueuedAt(c, k, q2, h)
  <2>1. Len(q2) = n2
    BY <1>1
  <2>2. /\ h \in [1..Len(q2) -> 1..Len(c)]
        /\ \A i, j \in 1..Len(q2) : i < j => h[i] < h[j]
        /\ \A i \in 1..Len(q2) : c[h[i]].key = k /\ c[h[i]].value = q2[i]
        /\ \A l \in 1..Len(c) : c[l].key = k => \E i \in 1..Len(q2) : h[i] = l
    BY <2>1, <1>8, <1>9, <1>10, <1>11, Zenon
  <2> QED
    BY <2>2, Zenon DEF QueuedAt
<1> QED
  BY <1>12, Zenon DEF Queued

\* A node at the end of the chain is the last of its queue.
LEMMA QueueGrows ==
    ASSUME NEW b \in Seq(Nodes), NEW k \in Keys, NEW q \in Seq(Values), Queued(b, k, q),
           NEW v \in Values, NEW c, Appended(b, c, k, v), NEW q2, q2 = Append(q, v)
    PROVE  Queued(c, k, q2)
<1>1. PICK n \in Nat, m \in Nat : n = Len(q) /\ m = Len(b)
  OBVIOUS
<1>2. PICK f : /\ f \in [1..n -> 1..m]
               /\ \A i, j \in 1..n : i < j => f[i] < f[j]
               /\ \A i \in 1..n : b[f[i]].key = k /\ b[f[i]].value = q[i]
               /\ \A l \in 1..m : b[l].key = k => \E i \in 1..n : f[i] = l
  BY <1>1, Zenon DEF Queued, QueuedAt
<1>3. PICK e : e = Node(k, v) /\ e \in Nodes /\ e.key = k /\ e.value = v
  <2>1. Node(k, v) \in Nodes /\ Node(k, v).key = k /\ Node(k, v).value = v
    BY DEF Node, Nodes
  <2> QED
    BY <2>1
<1>4. Len(c) = m + 1 /\ c[m + 1] = e /\ \A j \in 1..m : c[j] = b[j]
  BY <1>1, <1>3 DEF Appended
<1>5. Len(q2) = n + 1 /\ q2[n + 1] = v /\ \A j \in 1..n : q2[j] = q[j]
  BY <1>1
<1>6. PICK h : h = [i \in 1..n + 1 |-> IF i = n + 1 THEN m + 1 ELSE f[i]]
  OBVIOUS
<1>7. h[n + 1] = m + 1 /\ \A i \in 1..n : h[i] = f[i] /\ h[i] \in 1..m
  <2>1. n + 1 \in 1..n + 1 /\ \A i \in 1..n : i \in 1..n + 1 /\ i # n + 1
    BY <1>1
  <2>2. h[n + 1] = m + 1 /\ \A i \in 1..n : h[i] = f[i]
    BY <1>6, <2>1
  <2> QED
    BY <1>2, <2>2
<1>8. h \in [1..n + 1 -> 1..m + 1]
  <2> SUFFICES ASSUME NEW i \in 1..n + 1 PROVE h[i] \in 1..m + 1
    BY <1>6
  <2>1. CASE i = n + 1
    BY <1>1, <1>7, <2>1
  <2>2. CASE i # n + 1
    <3>1. i \in 1..n
      BY <1>1, <2>2
    <3> QED
      BY <1>1, <1>7, <3>1
  <2> QED
    BY <2>1, <2>2
<1>9. \A i, j \in 1..n + 1 : i < j => h[i] < h[j]
  <2> SUFFICES ASSUME NEW i \in 1..n + 1, NEW j \in 1..n + 1, i < j PROVE h[i] < h[j]
    OBVIOUS
  <2>0. i < j
    OBVIOUS
  <2>1. i \in 1..n
    BY <1>1
  <2>2. CASE j = n + 1
    BY <1>1, <1>7, <2>1, <2>2
  <2>3. CASE j # n + 1
    <3>1. j \in 1..n
      BY <1>1, <2>3
    <3>2. f[i] < f[j]
      BY <1>2, <2>0, <2>1, <3>1
    <3> QED
      BY <1>7, <2>1, <3>1, <3>2
  <2> QED
    BY <2>2, <2>3
<1>10. \A i \in 1..n + 1 : c[h[i]].key = k /\ c[h[i]].value = q2[i]
  <2> SUFFICES ASSUME NEW i \in 1..n + 1 PROVE c[h[i]].key = k /\ c[h[i]].value = q2[i]
    OBVIOUS
  <2>1. CASE i = n + 1
    BY <1>3, <1>4, <1>5, <1>7, <2>1
  <2>2. CASE i # n + 1
    <3>1. i \in 1..n
      BY <1>1, <2>2
    <3>2. c[h[i]] = b[f[i]] /\ q2[i] = q[i]
      BY <1>4, <1>5, <1>7, <3>1
    <3> QED
      BY <1>2, <3>1, <3>2
  <2> QED
    BY <2>1, <2>2
<1>11. \A l \in 1..m + 1 : c[l].key = k => \E i \in 1..n + 1 : h[i] = l
  <2> SUFFICES ASSUME NEW l \in 1..m + 1, c[l].key = k PROVE \E i \in 1..n + 1 : h[i] = l
    OBVIOUS
  <2>1. CASE l = m + 1
    <3>1. n + 1 \in 1..n + 1
      BY <1>1
    <3> QED
      BY <1>7, <2>1, <3>1
  <2>2. CASE l # m + 1
    <3>1. l \in 1..m /\ b[l].key = k
      BY <1>1, <1>4, <2>2
    <3>2. PICK i \in 1..n : f[i] = l
      BY <1>2, <3>1
    <3>3. i \in 1..n + 1 /\ h[i] = l
      BY <1>1, <1>7, <3>2
    <3> QED
      BY <3>3
  <2> QED
    BY <2>1, <2>2
<1>12. QueuedAt(c, k, q2, h)
  <2>1. Len(q2) = n + 1 /\ Len(c) = m + 1
    BY <1>4, <1>5
  <2>2. /\ h \in [1..Len(q2) -> 1..Len(c)]
        /\ \A i, j \in 1..Len(q2) : i < j => h[i] < h[j]
        /\ \A i \in 1..Len(q2) : c[h[i]].key = k /\ c[h[i]].value = q2[i]
        /\ \A l \in 1..Len(c) : c[l].key = k => \E i \in 1..Len(q2) : h[i] = l
    BY <2>1, <1>8, <1>9, <1>10, <1>11, Zenon
  <2> QED
    BY <2>2, Zenon DEF QueuedAt
<1> QED
  BY <1>12, Zenon DEF Queued

\* The queues of the other keys stay what they are.
LEMMA QueueStays ==
    ASSUME NEW b \in Seq(Nodes), NEW k \in Keys, NEW v \in Values, NEW c, Appended(b, c, k, v),
           NEW j, j # k, NEW q, Queued(b, j, q)
    PROVE  Queued(c, j, q)
<1>1. PICK m \in Nat : m = Len(b)
  OBVIOUS
<1>2. PICK f : QueuedAt(b, j, q, f)
  BY DEF Queued
<1>3. PICK e : e = Node(k, v) /\ e \in Nodes /\ e.key = k
  <2>1. Node(k, v) \in Nodes /\ Node(k, v).key = k
    BY DEF Node, Nodes
  <2> QED
    BY <2>1
<1>4. Len(c) = m + 1 /\ c[m + 1] = e /\ \A i \in 1..m : c[i] = b[i]
  BY <1>1, <1>3 DEF Appended
<1>5. f \in [1..Len(q) -> 1..m + 1] /\ \A i \in 1..Len(q) : f[i] \in 1..m
  BY <1>1, <1>2 DEF QueuedAt
<1>6. \A i \in 1..Len(q) : c[f[i]].key = j /\ c[f[i]].value = q[i]
  BY <1>2, <1>4, <1>5 DEF QueuedAt
<1>7. \A l \in 1..m + 1 : c[l].key = j => \E i \in 1..Len(q) : f[i] = l
  <2> SUFFICES ASSUME NEW l \in 1..m + 1, c[l].key = j PROVE \E i \in 1..Len(q) : f[i] = l
    OBVIOUS
  <2>1. l # m + 1
    BY <1>3, <1>4
  <2>2. l \in 1..m /\ b[l].key = j
    BY <1>1, <1>4, <2>1
  <2> QED
    BY <1>1, <1>2, <2>2 DEF QueuedAt
<1>8. QueuedAt(c, j, q, f)
  BY <1>2, <1>4, <1>5, <1>6, <1>7 DEF QueuedAt
<1> QED
  BY <1>8 DEF Queued

\* The first node of a key is the head of its queue.
LEMMA QueueFirst ==
    ASSUME NEW b \in Seq(Nodes), NEW k, NEW q \in Seq(Values), NEW f, QueuedAt(b, k, q, f),
           NEW p \in 1..Len(b), b[p].key = k, \A j \in 1..Len(b) : b[j].key = k => p <= j
    PROVE  Len(q) # 0 /\ f[1] = p /\ b[p].value = q[1]
<1>1. PICK n \in Nat : n = Len(q)
  OBVIOUS
<1>2. /\ f \in [1..n -> 1..Len(b)]
      /\ \A i, j \in 1..n : i < j => f[i] < f[j]
      /\ \A i \in 1..n : b[f[i]].key = k /\ b[f[i]].value = q[i]
      /\ \A l \in 1..Len(b) : b[l].key = k => \E i \in 1..n : f[i] = l
  BY <1>1 DEF QueuedAt
<1>3. PICK i \in 1..n : f[i] = p
  BY <1>2
<1>4. PICK o \in 1..n : o = 1
  BY <1>1, <1>3
<1>5. f[o] \in 1..Len(b) /\ p <= f[o]
  BY <1>2
<1>6. ~(o < i)
  BY <1>2, <1>3, <1>5
<1>7. o = i
  BY <1>4, <1>6
<1> QED
  BY <1>1, <1>2, <1>3, <1>4, <1>7

\* The fixed table is what its calls have left of each key's values.
QueuesInv ==
    /\ stored \in [TableKeys -> Seq(Values)]
    /\ library = "table" /\ kind = "fixed" =>
          \A k \in TableKeys : Queued(buckets[Bucket(k)], k, stored[k])

LEMMA QueueInsertStep ==
    ASSUME MapAssumption, TableAssumption, MapInv, QueuesInv, library = "table", library' = library,
           NEW k \in TableKeys, NEW v \in Values, FixedTableInsert(k, v)
    PROVE  QueuesInv'
<1>1. kind = "fixed" /\ kind' = kind /\ Chain(k, v) /\ stored' = [stored EXCEPT ![k] = Append(@, v)]
  BY DEF FixedTableInsert, FixedInsert
<1>2. PICK bs2 : bs2 = buckets'
  OBVIOUS
<1>3. PICK st2 : st2 = stored'
  OBVIOUS
<1>4. PICK b : b = buckets[Bucket(k)]
  OBVIOUS
<1>5. PICK c : Appended(b, c, k, v)
  BY DEF Appended
<1>6. OneChain(buckets, bs2, Bucket(k), c)
  BY <1>1, <1>2, <1>4, <1>5 DEF Chain, OneChain, Appended
<1>7. ChainsOK(buckets) /\ k \in Keys /\ Bucket(k) \in 1..InitBuckets
  BY BucketIn DEF MapInv, ChainState, ChainPart, TableAssumption
<1>8. bs2[Bucket(k)] = c /\ \A l \in 1..InitBuckets : l # Bucket(k) => bs2[l] = buckets[l]
  <2>1. PICK i \in 1..InitBuckets : i = Bucket(k)
    BY <1>7
  <2>2. OneChain(buckets, bs2, i, c)
    BY <1>6, <2>1
  <2>3. bs2[i] = c /\ \A l \in 1..InitBuckets : l # i => bs2[l] = buckets[l]
    BY <1>7, <2>2, OneChainIs
  <2> QED
    BY <2>1, <2>3
<1>9. b \in Seq(Nodes)
  BY <1>4, <1>7, TheChain
<1>10. PICK q \in Seq(Values) : q = stored[k]
  BY DEF QueuesInv
<1>11. PICK q2 : q2 = Append(q, v)
  OBVIOUS
<1>12. q2 \in Seq(Values) /\ st2 = [stored EXCEPT ![k] = q2]
  BY <1>1, <1>3, <1>10, <1>11
<1>13. /\ st2 \in [TableKeys -> Seq(Values)] /\ st2[k] = q2
       /\ \A j \in TableKeys : j # k => st2[j] = stored[j]
  BY <1>12 DEF QueuesInv
<1>14. ASSUME NEW j \in TableKeys PROVE Queued(bs2[Bucket(j)], j, st2[j])
  <2>1. Queued(buckets[Bucket(j)], j, stored[j])
    BY <1>1 DEF QueuesInv
  <2>2. CASE j = k
    <3>1. Queued(b, k, q)
      BY <1>4, <1>10, <2>1, <2>2
    <3>2. Queued(c, k, q2)
      BY <1>5, <1>7, <1>9, <1>11, <3>1, QueueGrows
    <3> QED
      BY <1>8, <1>13, <2>2, <3>2
  <2>3. CASE j # k /\ Bucket(j) = Bucket(k)
    <3>1. PICK r : r = stored[j]
      OBVIOUS
    <3>2. Queued(b, j, r)
      BY <1>4, <2>1, <2>3, <3>1
    <3>3. Queued(c, j, r)
      BY <1>5, <1>7, <1>9, <2>3, <3>2, QueueStays
    <3> QED
      BY <1>8, <1>13, <2>3, <3>1, <3>3
  <2>4. CASE j # k /\ Bucket(j) # Bucket(k)
    <3>1. Bucket(j) \in 1..InitBuckets
      BY BucketIn DEF TableAssumption
    <3> QED
      BY <1>8, <1>13, <2>1, <2>4, <3>1
  <2> QED
    BY <2>2, <2>3, <2>4
<1> QED
  BY <1>2, <1>3, <1>13, <1>14 DEF QueuesInv

LEMMA QueueRemoveStep ==
    ASSUME MapAssumption, TableAssumption, MapInv, QueuesInv, library = "table", library' = library,
           NEW k \in TableKeys, FixedTableRemove(k)
    PROVE  QueuesInv'
<1>1. kind = "fixed" /\ kind' = kind /\ FixedErase(k) /\ stored' = [stored EXCEPT ![k] = Tail(@)]
  BY DEF FixedTableRemove, FixedErase
<1>2. PICK bs2 : bs2 = buckets'
  OBVIOUS
<1>3. PICK st2 : st2 = stored'
  OBVIOUS
<1>4. ChainsOK(buckets) /\ k \in Keys /\ Bucket(k) \in 1..InitBuckets
  BY BucketIn DEF MapInv, ChainState, ChainPart, TableAssumption
<1>5. PICK b, c, p :
         /\ b = buckets[Bucket(k)] /\ b \in Seq(Nodes) /\ p \in 1..Len(b) /\ b[p].key = k
         /\ \A j \in 1..Len(b) : b[j].key = k => p <= j
         /\ c \in Seq(Nodes) /\ Len(c) = Len(b) - 1 /\ Thinned(b, c, {p})
         /\ OneChain(buckets, buckets', Bucket(k), c)
  BY <1>1, <1>4, FixedErased DEF MapInv
<1>6. PICK D : D = {p} /\ Thinned(b, c, D)
  BY <1>5
<1>7. bs2[Bucket(k)] = c /\ \A l \in 1..InitBuckets : l # Bucket(k) => bs2[l] = buckets[l]
  <2>1. PICK i \in 1..InitBuckets : i = Bucket(k)
    BY <1>4
  <2>2. OneChain(buckets, bs2, i, c)
    BY <1>2, <1>5, <2>1
  <2>3. bs2[i] = c /\ \A l \in 1..InitBuckets : l # i => bs2[l] = buckets[l]
    BY <1>4, <2>2, OneChainIs
  <2> QED
    BY <2>1, <2>3
<1>8. PICK q \in Seq(Values) : q = stored[k]
  BY DEF QueuesInv
<1>9. PICK f : QueuedAt(b, k, q, f)
  <2>1. Queued(b, k, q)
    BY <1>1, <1>5, <1>8 DEF QueuesInv
  <2> QED
    BY <2>1 DEF Queued
<1>10. Len(q) # 0 /\ f[1] = p
  BY <1>5, <1>9, QueueFirst
<1>11. PICK n \in Nat : n = Len(q) /\ n # 0
  BY <1>10
<1>12. PICK q2 : q2 = Tail(q)
  OBVIOUS
<1>13. /\ q2 \in Seq(Values) /\ Len(q2) = n - 1
       /\ \A i \in 1..n - 1 : q2[i] = q[i + 1]
  BY <1>11, <1>12
<1>14. Queued(c, k, q2)
  <2>1. PICK s \in Nat : s = 1
    OBVIOUS
  <2>2. Len(q2) + s = Len(q) /\ \A i \in 1..Len(q2) : q2[i] = q[i + s]
    BY <1>11, <1>13, <2>1
  <2>3. ASSUME NEW i \in 1..Len(q) PROVE f[i] \in D <=> i <= s
    <3>1. CASE i = 1
      BY <1>6, <1>10, <2>1, <3>1
    <3>2. CASE i # 1
      <4>1. 1 \in 1..Len(q) /\ 1 < i /\ ~(i <= s)
        BY <1>11, <2>1, <3>2
      <4>2. f[1] < f[i] /\ f[1] \in 1..Len(b) /\ f[i] \in 1..Len(b)
        BY <1>9, <4>1 DEF QueuedAt
      <4> QED
        BY <1>6, <1>10, <4>1, <4>2
    <3> QED
      BY <3>1, <3>2
  <2>4. b \in Seq(Nodes) /\ c \in Seq(Nodes)
    BY <1>5
  <2> QED
    BY <1>6, <1>9, <1>13, <2>2, <2>3, <2>4, QueueThinned
<1>15. st2 = [stored EXCEPT ![k] = q2]
  BY <1>1, <1>3, <1>8, <1>12
<1>16. /\ st2 \in [TableKeys -> Seq(Values)] /\ st2[k] = q2
       /\ \A j \in TableKeys : j # k => st2[j] = stored[j]
  BY <1>13, <1>15 DEF QueuesInv
<1>17. ASSUME NEW j \in TableKeys PROVE Queued(bs2[Bucket(j)], j, st2[j])
  <2>1. Queued(buckets[Bucket(j)], j, stored[j])
    BY <1>1 DEF QueuesInv
  <2>2. CASE j = k
    BY <1>7, <1>14, <1>16, <2>2
  <2>3. CASE j # k /\ Bucket(j) = Bucket(k)
    <3>1. PICK r \in Seq(Values) : r = stored[j]
      BY DEF QueuesInv
    <3>2. PICK h : QueuedAt(b, j, r, h)
      BY <1>5, <2>1, <2>3, <3>1 DEF Queued
    <3>3. PICK s \in Nat : s = 0
      OBVIOUS
    <3>4. Len(r) + s = Len(r) /\ \A i \in 1..Len(r) : r[i] = r[i + s]
      BY <3>3
    <3>5. ASSUME NEW i \in 1..Len(r) PROVE h[i] \in D <=> i <= s
      <4>1. b[h[i]].key = j
        BY <3>2 DEF QueuedAt
      <4>2. h[i] # p
        BY <1>5, <2>3, <4>1
      <4> QED
        BY <1>6, <3>3, <4>2
    <3>6. b \in Seq(Nodes) /\ c \in Seq(Nodes)
      BY <1>5
    <3>7. Queued(c, j, r)
      BY <1>6, <3>2, <3>4, <3>5, <3>6, QueueThinned
    <3> QED
      BY <1>7, <1>16, <2>3, <3>1, <3>7
  <2>4. CASE j # k /\ Bucket(j) # Bucket(k)
    <3>1. Bucket(j) \in 1..InitBuckets
      BY BucketIn DEF TableAssumption
    <3> QED
      BY <1>7, <1>16, <2>1, <2>4, <3>1
  <2> QED
    BY <2>2, <2>3, <2>4
<1> QED
  BY <1>2, <1>3, <1>16, <1>17 DEF QueuesInv

LEMMA QueuesStart ==
    ASSUME MapAssumption, TableAssumption, TableInit
    PROVE  QueuesInv
<1>1. PICK e : e = <<>>
  OBVIOUS
<1>2. e \in Seq(Nodes) /\ e \in Seq(Values) /\ Len(e) = 0
  BY <1>1, EmptySeq, Zenon
<1>3. stored = [k \in TableKeys |-> e] /\ buckets = [i \in 1..InitBuckets |-> e]
  BY <1>1 DEF TableInit, Init
<1>4. ASSUME NEW k \in TableKeys PROVE Queued(buckets[Bucket(k)], k, stored[k])
  <2>1. Bucket(k) \in 1..InitBuckets
    BY BucketIn DEF TableAssumption
  <2>2. buckets[Bucket(k)] = e /\ stored[k] = e
    BY <1>3, <2>1
  <2>3. PICK f : f = [i \in 1..0 |-> 0]
    OBVIOUS
  <2>4. f \in [1..Len(e) -> 1..Len(e)] /\ \A i \in 1..Len(e) : FALSE
    BY <1>2, <2>3
  <2>5. QueuedAt(e, k, e, f)
    BY <2>4 DEF QueuedAt
  <2>6. Queued(e, k, e)
    BY <2>5 DEF Queued
  <2> QED
    BY <2>2, <2>6
<1> QED
  BY <1>2, <1>3, <1>4 DEF QueuesInv

LEMMA QueuesNext ==
    ASSUME MapAssumption, TableAssumption, MapInv, QueuesInv, [MCNext]_<<part, maps, ids>>
    PROVE  QueuesInv'
<1>1. CASE UNCHANGED maps
  <2>1. kind' = kind /\ library' = library /\ buckets' = buckets /\ stored' = stored
    BY <1>1 DEF maps, vars, chained
  <2> QED
    BY <2>1 DEF QueuesInv
<1>2. CASE library = "map" /\ UNCHANGED <<stored, library>>
  BY <1>2 DEF QueuesInv
<1>3. CASE library = "table" /\ TableNext /\ UNCHANGED library
  <2>1. PICK k \in TableKeys :
              \/ \E v \in Values : \/ ChainingTableInsert(k, v)
                                   \/ FixedTableInsert(k, v)
                                   \/ OpenTableInsert(k, v)
              \/ ChainingTableRemove(k) \/ FixedTableRemove(k) \/ OpenTableRemove(k)
    BY <1>3 DEF TableNext
  <2>2. CASE \E v \in Values : FixedTableInsert(k, v)
    BY <1>3, <2>2, QueueInsertStep
  <2>3. CASE FixedTableRemove(k)
    BY <1>3, <2>3, QueueRemoveStep
  <2>4. CASE \/ \E v \in Values : ChainingTableInsert(k, v) \/ OpenTableInsert(k, v)
             \/ ChainingTableRemove(k) \/ OpenTableRemove(k)
    <3>1. kind # "fixed" /\ kind' = kind /\ stored' = stored
      BY <2>4 DEF ChainingTableInsert, OpenTableInsert, ChainingTableRemove, OpenTableRemove,
                  ChainingPut, OpenInsert, StoreIn, ChainingErase, OpenErase
    <3> QED
      BY <3>1 DEF QueuesInv
  <2> QED
    BY <2>1, <2>2, <2>3, <2>4
<1> QED
  BY <1>1, <1>2, <1>3 DEF MCNext, LibraryNext

LEMMA QueuesMeaning ==
    ASSUME MapAssumption, TableAssumption, MapInv, QueuesInv
    PROVE  FixedTableIsMapOfQueues
<1> SUFFICES ASSUME library = "table", kind = "fixed", NEW k \in TableKeys
             PROVE  /\ Find(k) # NULL <=> stored[k] # <<>>
                    /\ Find(k) # NULL => Find(k) = Head(stored[k])
  BY DEF FixedTableIsMapOfQueues, TableContains, TableFind
<1>1. k \in Keys /\ ChainsOK(buckets) /\ NULL \notin Values
  BY DEF TableAssumption, MapAssumption, MapInv, ChainState, ChainPart
<1>2. PICK b : b = buckets[Bucket(k)]
  OBVIOUS
<1>3. b \in Seq(Nodes)
  BY <1>1, <1>2, TheChain
<1>4. PICK q \in Seq(Values) : q = stored[k]
  BY DEF QueuesInv
<1>5. PICK f : QueuedAt(b, k, q, f)
  BY <1>2, <1>4 DEF QueuesInv, Queued
<1>6. CASE ~InChain(b, k)
  <2>1. Find(k) = NULL
    BY <1>1, <1>2, <1>6, ChainFind
  <2>2. ~(1 \in 1..Len(q))
    <3> SUFFICES ASSUME NEW i \in 1..Len(q) PROVE FALSE
      OBVIOUS
    <3>1. f[i] \in 1..Len(b) /\ b[f[i]].key = k
      BY <1>5 DEF QueuedAt
    <3> QED
      BY <1>6, <3>1 DEF InChain
  <2>3. q = <<>>
    BY <2>2
  <2> QED
    BY <1>4, <2>1, <2>3
<1>7. CASE InChain(b, k)
  <2>1. PICK p \in 1..Len(b) :
           /\ b[p].key = k /\ Find(k) = b[p].value /\ Find(k) \in Values
           /\ \A j \in 1..Len(b) : b[j].key = k => p <= j
    BY <1>1, <1>2, <1>7, ChainFind
  <2>2. Len(q) # 0 /\ b[p].value = q[1]
    BY <1>3, <1>5, <2>1, QueueFirst
  <2>3. q # <<>> /\ Head(q) = q[1]
    BY <2>2
  <2> QED
    BY <1>1, <1>4, <2>1, <2>2, <2>3
<1> QED
  BY <1>6, <1>7

\* FixedSizedChainingHashTable: find returns the oldest value of a key that was
\* not removed, remove uncovers the next, and contains is false when there is
\* none left.
THEOREM FixedTableQueues == MCSpec => []FixedTableIsMapOfQueues
<1>1. MCInit => QueuesInv
  BY MapAssumption, TableAssumption, QueuesStart DEF MCInit
<1>2. MapInv /\ QueuesInv /\ [MCNext]_<<part, maps, ids>> => QueuesInv'
  BY MapAssumption, TableAssumption, QueuesNext
<1>3. MapInv /\ QueuesInv => FixedTableIsMapOfQueues
  BY MapAssumption, TableAssumption, QueuesMeaning
<1> QED
  BY <1>1, <1>2, <1>3, MapAlways, PTL DEF MCSpec
=============================================================================
