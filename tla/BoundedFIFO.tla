---------------------------- MODULE BoundedFIFO ----------------------------
(***************************************************************************)
(* What the users of a multi-producer multi-consumer Queue rely on: a FIFO *)
(* of at most Capacity messages from which every message is removed by one *)
(* thread, which returns exactly that message.                             *)
(*                                                                         *)
(* An enqueue that returns false and a dequeue that returns nullptr change *)
(* nothing here; when they may happen is a property of the implementation. *)
(***************************************************************************)
EXTENDS Naturals, Sequences

CONSTANTS
    Threads,   \* the threads that share the queue
    Msgs,      \* the message pointers
    NULL,      \* nullptr
    Capacity   \* the most messages the queue holds

VARIABLES
    items,     \* the messages in the queue, oldest first
    hand       \* hand[t]: the message thread t has removed and not returned yet

fvars == <<items, hand>>

Init ==
    /\ items = <<>>
    /\ hand = [t \in Threads |-> NULL]

Enqueue(m) ==
    /\ Len(items) < Capacity
    /\ items' = Append(items, m)
    /\ UNCHANGED hand

Dequeue(t) ==
    /\ items # <<>>
    /\ hand[t] = NULL
    /\ hand' = [hand EXCEPT ![t] = Head(items)]
    /\ items' = Tail(items)

\* dequeue returns the message to its caller.
Return(t) ==
    /\ hand' = [hand EXCEPT ![t] = NULL]
    /\ UNCHANGED items

Next ==
    \/ \E m \in Msgs : Enqueue(m)
    \/ \E t \in Threads : Dequeue(t) \/ Return(t)

Spec == Init /\ [][Next]_fvars
=============================================================================
