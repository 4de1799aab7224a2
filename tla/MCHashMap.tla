----------------------------- MODULE MCHashMap -----------------------------
(***************************************************************************)
(* The hash maps and hash tables with four keys, two to a bucket, two of   *)
(* which still share one after an open map has rehashed; 3 and 7 probe     *)
(* past the end.  Or moodycamel's table of thread ids, with three threads  *)
(* that collide until the table has been replaced twice.                   *)
(***************************************************************************)
EXTENDS HashTables

CONSTANTS HashThreads, InitialSize, Leaving, MaxExits, EMPTY, REUSABLE

\* The marks of a slot without thread are no thread ids, nullptr is no producer.
ASSUME IdAssumption ==
    /\ HashThreads \subseteq Nat
    /\ InitialSize \in Nat \ {0}
    /\ EMPTY \notin HashThreads /\ REUSABLE \notin HashThreads /\ EMPTY # REUSABLE
    /\ NULL \notin Nat

VARIABLES
    part,    \* "maps" or "ids"
    tables, hashCount, resizing, inactive, thread, mine, exits

maps == <<vars, library, stored>>
ids == <<tables, hashCount, resizing, inactive, thread, mine, exits>>

Ids == INSTANCE MoodyHash WITH Threads <- HashThreads

MCInit ==
    /\ TableInit /\ Ids!Init
    /\ part \in {"maps", "ids"}
    /\ part = "maps" \/ (kind = "open" /\ library = "map")

MCNext ==
    /\ \/ part = "maps" /\ LibraryNext /\ UNCHANGED ids
       \/ part = "ids" /\ Ids!Next /\ UNCHANGED maps
    /\ UNCHANGED part

MCSpec == MCInit /\ [][MCNext]_<<part, maps, ids>>

\* Values are only stored and returned.
ValueSymmetry == Permutations(Values)

-----------------------------------------------------------------------------
\* moodycamel's table of thread ids gives no two threads one producer.
OneThreadPerProducer == part = "ids" => Ids!OneThreadPerProducer

\* Every probe of a table of thread ids ends at a slot never used.
ProbesEnd == part = "ids" => Ids!ProbesEnd
=============================================================================
