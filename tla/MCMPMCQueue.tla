---------------------------- MODULE MCMPMCQueue ----------------------------
(***************************************************************************)
(* Queues with many producers and consumers: MPMCQueue with three threads  *)
(* on two cells, long enough for a lap, or the scan of moodycamel's queue  *)
(* over two sub-queues with a plain consumer and one that has a token.     *)
(***************************************************************************)
EXTENDS MPMCQueue, FiniteSets

CONSTANTS
    Plain, TokenUsers, Quota, OffsetWidth, MaxBulk, MaxProducers, MaxElements,
    MaxGivenBack

\* Producers are numbered and tokens are records, and NULL is neither.
ASSUME ScanAssumption ==
    /\ IsFiniteSet(Plain \cup TokenUsers)
    /\ OffsetWidth \in Nat \ {0} /\ MaxBulk \in Nat
    /\ NULL \notin Nat
    /\ NULL \notin [initialOffset : Nat, lastKnown : Nat, items : Nat,
                    current : Nat \cup {NULL}, desired : Nat \cup {NULL}]

VARIABLES
    part,    \* "mpmc" or "scan"
    sub, producerCount, enqueued, globalOffset, nextId, token, consumer, look, due

scan == <<sub, producerCount, enqueued, globalOffset, nextId, token, consumer, look, due>>

Scan == INSTANCE MoodyQueue

MCInit == Init /\ Scan!Init /\ part \in {"mpmc", "scan"}

MCNext ==
    /\ \/ part = "mpmc" /\ Next /\ UNCHANGED scan
       \/ part = "scan" /\ Scan!Next /\ UNCHANGED vars
    /\ UNCHANGED part

MCSpec == MCInit /\ [][MCNext]_<<part, vars, scan>>

-----------------------------------------------------------------------------
\* When a dequeue of moodycamel's queue returns with less than it wanted, what
\* was in the queue as the call began is taken or reserved, but for as many
\* elements as others reserved in vain and gave back meanwhile.
NothingOverlooked == part = "scan" => Scan!NothingOverlooked
=============================================================================
