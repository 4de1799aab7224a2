---------------------------- MODULE MCTaggedPool ---------------------------
(***************************************************************************)
(* The pools.  TaggedPool has three slots, enough for a head index that    *)
(* leaves and comes back while another thread is between its load and its  *)
(* compare-exchange; the simple pools have one thread that allocates and   *)
(* one that gives back, the one use in which all three of them are safe.   *)
(***************************************************************************)
EXTENDS TaggedPool

CONSTANTS Kinds, Allocators, Deallocators, Messages

\* pool_ is an array of at least one message.
ASSUME SimpleAssumption ==
    /\ Kinds \subseteq {"locked", "stack", "ring"}
    /\ Cardinality(Messages) \in Nat \ {0}
    /\ Messages = 0..(Cardinality(Messages) - 1)

VARIABLES
    part,    \* "tagged" or "simple"
    kind, slots, top, tail, thread, lent

simple == <<kind, slots, top, tail, thread, lent>>

Simple == INSTANCE SimplePools WITH head <- top, held <- lent

MCInit ==
    /\ Init /\ Simple!Init
    /\ part \in {"tagged", "simple"}
    /\ part = "simple" \/ kind = "locked"

MCNext ==
    /\ \/ part = "tagged" /\ Next /\ UNCHANGED simple
       \/ part = "simple" /\ Simple!Next /\ UNCHANGED vars
    /\ UNCHANGED part

MCSpec == MCInit /\ [][MCNext]_<<part, vars, simple>>

-----------------------------------------------------------------------------
\* With one thread on each side, a message of CustomLockedPool, of
\* CustomLockFreePool and of LockFreePool has one holder, and none is lost.
EachMessageOnce == part = "simple" => Simple!EachMessageOnce
=============================================================================
