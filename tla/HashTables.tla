---------------------------- MODULE HashTables -----------------------------
(***************************************************************************)
(* The hash tables of c++20/HashTables.cpp, from which the maps of         *)
(* HFT/HashMap.hpp grew: the same three layouts and the same loops, with   *)
(* insert, remove, contains and find and without operator[].  Which of the *)
(* two libraries a behaviour uses is chosen at its start.                  *)
(***************************************************************************)
EXTENDS HashMap

CONSTANTS
    Libraries,   \* "map" and "table", the ones explored
    TableKeys    \* the keys used with a table

ASSUME TableAssumption == TableKeys \subseteq Keys

VARIABLES
    library,
    stored       \* history: stored[k], what a fixed table was given for k and
                 \* has not removed, oldest first

TableInit ==
    /\ Init
    /\ library \in Libraries
    /\ stored = [k \in TableKeys |-> <<>>]

\* A bucket's list is searched, and the node updated or appended.
ChainingTableInsert(k, v) == ChainingPut(k, v) /\ UNCHANGED stored
ChainingTableRemove(k) == ChainingErase(k) /\ UNCHANGED stored

\* Mutant: the new node goes to the head of the bucket's list.
FixedTableInsertFront(k, v) ==
    /\ kind = "fixed" /\ freeNodes > 0
    /\ buckets' = [buckets EXCEPT ![Bucket(k)] = <<Node(k, v)>> \o @]
    /\ freeNodes' = freeNodes - 1
    /\ Put(k, v)
    /\ stored' = [stored EXCEPT ![k] = Append(@, v)]
    /\ UNCHANGED <<kind, open>>

\* A node of the pool goes to the end of the bucket's list, whether or not
\* the key is there.
FixedTableInsert(k, v) == FixedInsert(k, v) /\ stored' = [stored EXCEPT ![k] = Append(@, v)]
FixedTableRemove(k) == FixedErase(k) /\ stored' = [stored EXCEPT ![k] = Tail(@)]

OpenTableInsert(k, v) == OpenInsert(k, v) /\ UNCHANGED stored
OpenTableRemove(k) == OpenErase(k) /\ UNCHANGED stored

TableNext ==
    \E k \in TableKeys :
        \/ \E v \in Values : \/ ChainingTableInsert(k, v)
                             \/ FixedTableInsert(k, v)
                             \/ OpenTableInsert(k, v)
        \/ ChainingTableRemove(k) \/ FixedTableRemove(k) \/ OpenTableRemove(k)

LibraryNext ==
    /\ \/ library = "map" /\ Next /\ UNCHANGED stored
       \/ library = "table" /\ TableNext
    /\ UNCHANGED library

-----------------------------------------------------------------------------
TableFind(k) == Find(k)
TableContains(k) == TableFind(k) # NULL

\* Without operator[], FixedSizedChainingHashTable is a map of queues: find
\* returns the oldest value of a key that was not removed, remove uncovers
\* the next, and contains is false when there is none left.
FixedTableIsMapOfQueues ==
    library = "table" /\ kind = "fixed" =>
        \A k \in TableKeys :
            /\ TableContains(k) <=> stored[k] # <<>>
            /\ TableContains(k) => TableFind(k) = Head(stored[k])
=============================================================================
