----------------------------- MODULE RingQueue -----------------------------
(***************************************************************************)
(* What the single-producer single-consumer ring of HFT/Queue.hpp really   *)
(* promises to its two threads.  It is a bounded FIFO whose dequeue is not *)
(* atomic: the consumer first claims the oldest message (the slot counts   *)
(* as free from then on) and reads the slot afterwards.  A producer that   *)
(* fills the ring in between reuses that very slot, and the consumer then  *)
(* receives the newest message instead of the one it claimed.              *)
(*                                                                         *)
(* SPSCQueue implements this specification; a plain FIFO it does not.      *)
(***************************************************************************)
EXTENDS Naturals, Sequences

CONSTANTS
    Msgs,      \* the message pointers a producer may enqueue
    NULL,      \* nullptr: what dequeue returns when it finds nothing
    Capacity   \* the number of slots

VARIABLES
    items,     \* the messages enqueued and not yet claimed, oldest first
    claim,     \* the content of the slot the consumer has claimed, or NULL
    out        \* what the last completed dequeue returned

qvars == <<items, claim, out>>

Init ==
    /\ items = <<>>
    /\ claim = NULL
    /\ out = NULL

\* A successful enqueue.  With Capacity - 1 unclaimed messages the only slot
\* left is the claimed one.
Enqueue(m) ==
    /\ Len(items) < Capacity
    /\ items' = Append(items, m)
    /\ claim' = IF claim # NULL /\ Len(items) = Capacity - 1 THEN m ELSE claim
    /\ UNCHANGED out

\* The consumer commits to the oldest message and gives its slot back.
Claim ==
    /\ claim = NULL
    /\ items # <<>>
    /\ claim' = Head(items)
    /\ items' = Tail(items)
    /\ UNCHANGED out

\* The consumer reads the slot it claimed and returns what it finds there.
Deliver ==
    /\ claim # NULL
    /\ out' = claim
    /\ claim' = NULL
    /\ UNCHANGED items

\* A dequeue that returns nullptr.  It may miss a message whose enqueue has
\* not returned yet.
Miss ==
    /\ claim = NULL
    /\ out' = NULL
    /\ UNCHANGED <<items, claim>>

Next ==
    \/ \E m \in Msgs : Enqueue(m)
    \/ Claim
    \/ Deliver
    \/ Miss

Spec == Init /\ [][Next]_qvars
=============================================================================
