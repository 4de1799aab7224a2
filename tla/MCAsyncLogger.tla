--------------------------- MODULE MCAsyncLogger ---------------------------
(***************************************************************************)
(* AsyncLogger with two threads, a queue of two and a pool of three, which *)
(* refused messages exhaust; or one of the queues that block, with two     *)
(* threads on either side and room for one element.                        *)
(***************************************************************************)
EXTENDS AsyncLogger

CONSTANTS Kinds, Producers, Consumers, Calls, Room

VARIABLES
    part,    \* "logger" or "blocking"
    kind, q, state, left, taken

blocking == <<kind, q, state, left, taken>>

Blocking == INSTANCE BlockingQueue WITH Capacity <- Room

MCInit ==
    /\ Init /\ Blocking!Init
    /\ part \in {"logger", "blocking"}
    /\ part = "blocking" \/ kind = "locked"

MCNext ==
    /\ \/ part = "logger" /\ Next /\ UNCHANGED blocking
       \/ part = "blocking" /\ Blocking!Next /\ UNCHANGED vars
    /\ UNCHANGED part

MCSpec ==
    /\ MCInit
    /\ [][MCNext]_<<part, vars, blocking>>
    /\ part = "logger" => Fairness
    /\ part = "blocking" => Blocking!Fairness

-----------------------------------------------------------------------------
\* No wake-up is lost in BoundedBlockingQueue, LockedQueue and the producers
\* and consumers of my_threads: every call returns, in order.
EveryCallReturns == part = "blocking" => Blocking!EveryCallReturns
=============================================================================
