------------------------------ MODULE HashMap ------------------------------
(***************************************************************************)
(* The hash maps of HFT/HashMap.hpp: ChainingHashMap, which keeps a list   *)
(* per bucket, FixedSizedChainingHashMap, which takes the nodes of its     *)
(* lists from a pool, and OpenAddressingHashMap, which probes linearly and *)
(* marks erased slots DELETED.  Which of them a behaviour uses is chosen   *)
(* at its start.                                                           *)
(*                                                                         *)
(* Keys are numbers and std::hash is the identity on them, as it is in     *)
(* libstdc++.  Pool nodes are alike, so only their number is kept.  A call *)
(* that throws changes nothing and is no step.                             *)
(***************************************************************************)
EXTENDS Integers, Sequences, SequencesExt, FiniteSetsExt

CONSTANTS
    Kinds,        \* the maps explored: "chaining", "fixed", "open"
    Keys,         \* the keys used
    Values,       \* the values stored, Value{} among them
    NULL,         \* nullptr, and a key that is not there
    InitBuckets,  \* Const::initBuckets
    NodesPool,    \* the size of nodesPool_
    MaxBuckets    \* bound: operations that would rehash beyond it are left out

ASSUME MapAssumption ==
    /\ Kinds \subseteq {"chaining", "fixed", "open"}
    /\ Keys \subseteq Nat
    /\ NULL \notin Values
    /\ InitBuckets \in Nat \ {0}
    /\ NodesPool \in Nat
    /\ MaxBuckets \in Nat

VARIABLES
    kind,         \* the map in use
    buckets,      \* buckets[i + 1]: the nodes chained in bucket i
    freeNodes,    \* how many nodes freeNodes_ holds
    table,        \* table_ of the open map, table[i + 1] its slot i
    size,         \* size_ of the open map
    model,        \* history: what the calls so far should have stored
    reinserted    \* history: a key was put in while it was there

chained == <<buckets, freeNodes>>
open == <<table, size>>
history == <<model, reinserted>>
vars == <<kind, chained, open, history>>

Node(k, v) == [key |-> k, value |-> v]
Slot(st, k, v) == [status |-> st, key |-> k, value |-> v]
EmptySlot == Slot("EMPTY", NULL, NULL)

Init ==
    /\ kind \in Kinds
    /\ buckets = [i \in 1..InitBuckets |-> <<>>]
    /\ freeNodes = NodesPool
    /\ table = [i \in 1..InitBuckets |-> EmptySlot]
    /\ size = 0
    /\ model = [k \in Keys |-> NULL]
    /\ reinserted = FALSE

\* Every call leaves its mark on the history.
Put(k, v) ==
    /\ model' = [model EXCEPT ![k] = v]
    /\ reinserted' = (reinserted \/ model[k] # NULL)

-----------------------------------------------------------------------------
(* ChainingHashMap and FixedSizedChainingHashMap                           *)

Bucket(k) == (k % InitBuckets) + 1

\* Where the walk along the bucket's list finds the key, or 0.
Position(k) == SelectInSeq(buckets[Bucket(k)], LAMBDA n : n.key = k)

Chain(k, v) == buckets' = [buckets EXCEPT ![Bucket(k)] = Append(@, Node(k, v))]
Replace(k, v) == buckets' = [buckets EXCEPT ![Bucket(k)][Position(k)].value = v]

\* ChainingHashMap::insert, and map[k] = v, which does the same.
ChainingPut(k, v) ==
    /\ kind = "chaining"
    /\ IF Position(k) # 0 THEN Replace(k, v) ELSE Chain(k, v)
    /\ Put(k, v)
    /\ UNCHANGED <<kind, freeNodes, open>>

\* list::remove takes every node that equals the one found, which is one with
\* the same key.
Without(list, k) ==
    FoldLeft(LAMBDA kept, n : IF n.key = k THEN kept ELSE Append(kept, n), <<>>, list)

ChainingErase(k) ==
    /\ kind = "chaining"
    /\ Position(k) # 0
    /\ buckets' = [buckets EXCEPT ![Bucket(k)] = Without(@, k)]
    /\ model' = [model EXCEPT ![k] = NULL]
    /\ UNCHANGED <<kind, freeNodes, open, reinserted>>

\* Mutant: the search for the key is left out.
FixedSubscriptBlind(k, v) ==
    /\ kind = "fixed"
    /\ freeNodes > 0
    /\ Chain(k, v)
    /\ freeNodes' = freeNodes - 1
    /\ model' = [model EXCEPT ![k] = v]
    /\ UNCHANGED <<kind, open, reinserted>>

\* FixedSizedChainingHashMap: map[k] = v.
FixedSubscript(k, v) ==
    /\ kind = "fixed"
    /\ \/ /\ Position(k) # 0
          /\ Replace(k, v)
          /\ UNCHANGED freeNodes
       \/ /\ Position(k) = 0
          /\ freeNodes > 0
          /\ Chain(k, v)
          /\ freeNodes' = freeNodes - 1
    /\ model' = [model EXCEPT ![k] = v]
    /\ UNCHANGED <<kind, open, reinserted>>

\* FixedSizedChainingHashMap::insert does not look for the key.
FixedInsert(k, v) ==
    /\ kind = "fixed"
    /\ freeNodes > 0
    /\ Chain(k, v)
    /\ freeNodes' = freeNodes - 1
    /\ Put(k, v)
    /\ UNCHANGED <<kind, open>>

\* FixedSizedChainingHashMap::erase: the first node with the key.
FixedErase(k) ==
    /\ kind = "fixed"
    /\ Position(k) # 0
    /\ buckets' = [buckets EXCEPT ![Bucket(k)] = RemoveAt(@, Position(k))]
    /\ freeNodes' = freeNodes + 1
    /\ model' = [model EXCEPT ![k] = NULL]
    /\ UNCHANGED <<kind, open, reinserted>>

-----------------------------------------------------------------------------
(* OpenAddressingHashMap                                                   *)

\* The slot reached after d steps from the key's own.
ProbeSlot(tab, k, d) == ((k + d) % Len(tab)) + 1

\* The first slot along the probe that is one of stops, or 0 when none is.
FirstSlot(tab, k, stops) ==
    LET ds == {d \in 0..(Len(tab) - 1) : ProbeSlot(tab, k, d) \in stops}
    IN  IF ds = {} THEN 0 ELSE ProbeSlot(tab, k, Min(ds))

Holds(s, k) == s.status = "OCCUPIED" /\ s.key = k

\* Where insert and operator[] stop: the key, or a slot that is not OCCUPIED.
PutSlot(tab, k) ==
    FirstSlot(tab, k, {i \in DOMAIN tab : tab[i].status # "OCCUPIED" \/ Holds(tab[i], k)})

\* Where contains, find and erase stop with the key in their hands: a DELETED
\* slot does not end the probe, an EMPTY one does.
FindSlot(tab, k) ==
    LET i == FirstSlot(tab, k, {j \in DOMAIN tab : tab[j].status = "EMPTY" \/ Holds(tab[j], k)})
    IN  IF i # 0 /\ Holds(tab[i], k) THEN i ELSE 0

\* insert, behind its test for the load.
Store(tab, k, v) == [tab EXCEPT ![PutSlot(tab, k)] = Slot("OCCUPIED", k, v)]

\* reHash: twice the slots, the old nodes inserted in the order of the table.
Rehashed(tab) ==
    FoldLeft(LAMBDA acc, s : IF s.status = "OCCUPIED" THEN Store(acc, s.key, s.value) ELSE acc,
             [i \in 1..(2 * Len(tab)) |-> EmptySlot], tab)

Occupied(tab) == Cardinality({i \in DOMAIN tab : tab[i].status = "OCCUPIED"})

\* size_ + 1 > table_.size() * maxLoadFactor_, with the factor 0.7.
Overloaded(n) == 10 * (n + 1) > 7 * Len(table)

\* reHash counts the nodes again.
StoreIn(tab, n, k, v) ==
    /\ table' = Store(tab, k, v)
    /\ size' = n + (IF Holds(tab[PutSlot(tab, k)], k) THEN 0 ELSE 1)
    /\ Put(k, v)
    /\ UNCHANGED <<kind, chained>>

\* Mutant: the load is never looked at.
OpenInsertNoRehash(k, v) ==
    /\ kind = "open"
    /\ PutSlot(table, k) # 0
    /\ StoreIn(table, size, k, v)

\* OpenAddressingHashMap::insert looks at the load before it looks for the key.
OpenInsert(k, v) ==
    /\ kind = "open"
    /\ \/ ~Overloaded(size) /\ StoreIn(table, size, k, v)
       \/ /\ Overloaded(size)
          /\ 2 * Len(table) <= MaxBuckets
          /\ LET t == Rehashed(table) IN StoreIn(t, Occupied(t), k, v)

\* OpenAddressingHashMap: map[k] = v looks at the load only for a new node.
OpenSubscript(k, v) ==
    /\ kind = "open"
    /\ \/ /\ Holds(table[PutSlot(table, k)], k) \/ ~Overloaded(size)
          /\ StoreIn(table, size, k, v)
       \/ /\ ~Holds(table[PutSlot(table, k)], k)
          /\ Overloaded(size)
          /\ 2 * Len(table) <= MaxBuckets
          /\ LET t == Rehashed(table) IN StoreIn(t, Occupied(t), k, v)

\* Mutant: the erased slot is made EMPTY.
OpenEraseEmpties(k) ==
    /\ kind = "open"
    /\ FindSlot(table, k) # 0
    /\ table' = [table EXCEPT ![FindSlot(table, k)] = EmptySlot]
    /\ size' = size - 1
    /\ model' = [model EXCEPT ![k] = NULL]
    /\ UNCHANGED <<kind, chained, reinserted>>

\* OpenAddressingHashMap::erase.  No one reads what the slot still holds.
OpenErase(k) ==
    /\ kind = "open"
    /\ FindSlot(table, k) # 0
    /\ table' = [table EXCEPT ![FindSlot(table, k)] = Slot("DELETED", NULL, NULL)]
    /\ size' = size - 1
    /\ model' = [model EXCEPT ![k] = NULL]
    /\ UNCHANGED <<kind, chained, reinserted>>

-----------------------------------------------------------------------------
\* find, which contains agrees with.
Find(k) ==
    IF kind = "open"
    THEN LET i == FindSlot(table, k) IN IF i = 0 THEN NULL ELSE table[i].value
    ELSE LET i == Position(k) IN IF i = 0 THEN NULL ELSE buckets[Bucket(k)][i].value

\* A call of insert, of operator[] with or without an assignment, or of erase.
Call(k) ==
    \/ \E v \in Values :
          \/ ChainingPut(k, v)
          \/ FixedSubscript(k, v)
          \/ FixedInsert(k, v)
          \/ OpenInsert(k, v)
          \/ OpenSubscript(k, v)
    \/ ChainingErase(k)
    \/ FixedErase(k)
    \/ OpenErase(k)

Next == \E k \in Keys : Call(k)

Spec == Init /\ [][Next]_vars

-----------------------------------------------------------------------------
(* Properties.                                                             *)

\* Types.  The nodes of a chain carry keys of that bucket.
TypeOK ==
    /\ kind \in Kinds
    /\ \A i \in DOMAIN buckets : \A j \in DOMAIN buckets[i] :
          /\ buckets[i][j] \in [key : Keys, value : Values]
          /\ Bucket(buckets[i][j].key) = i
    /\ freeNodes \in 0..NodesPool
    /\ \A i \in DOMAIN table :
          table[i] \in [status : {"EMPTY", "OCCUPIED", "DELETED"},
                        key : Keys \cup {NULL}, value : Values \cup {NULL}]
    /\ size \in 0..Len(table)
    /\ model \in [Keys -> Values \cup {NULL}]
    /\ reinserted \in BOOLEAN

\* Nothing is lost from the books: every node of the pool is free or in one
\* chain, size_ counts the OCCUPIED slots, and one slot at least is not
\* OCCUPIED, without which the loop of insert would never end.
Accounting ==
    /\ TypeOK
    /\ kind = "fixed" =>
          freeNodes + FoldLeft(LAMBDA a, b : a + Len(b), 0, buckets) = NodesPool
    /\ size = Occupied(table)
    /\ size < Len(table)

\* A key that was put in and not erased since is found, collisions, DELETED
\* slots and rehashing notwithstanding.
LiveKeysFound == \A k \in Keys : model[k] # NULL => Find(k) # NULL

\* The map holds what its calls say it should: the latest value of every key
\* put in and nothing of an erased one, as long as no key was put in while it
\* was there.  ChainingHashMap needs no such care.
ExactUnlessReinserted ==
    kind = "chaining" \/ ~reinserted => \A k \in Keys : Find(k) = model[k]

\* An erased key is gone.
ErasedIsGone == \A k \in Keys : model[k] = NULL => Find(k) = NULL
=============================================================================
