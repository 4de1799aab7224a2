--------------------------- MODULE BlockingQueue ---------------------------
(***************************************************************************)
(* The queues built from a mutex and condition variables:                  *)
(* BoundedBlockingQueue of c++20/BoundedBlockingQueue.cpp ("bounded"),     *)
(* LockedQueue of HFT/Queue.hpp ("locked") and the producer and consumer   *)
(* of Study/my_threads.cpp ("study", which notifies after the unlock).     *)
(*                                                                         *)
(* What a thread does between taking the mutex and releasing it or waiting *)
(* is one step.  Every thread makes a fixed number of calls.               *)
(***************************************************************************)
EXTENDS Integers, Sequences, FiniteSets

CONSTANTS
    Kinds,      \* the queues explored
    Producers, Consumers,
    Calls,      \* how often each of the threads calls
    Capacity    \* capacity of the bounded queue

VARIABLES
    kind,
    q,          \* the elements, each named by its producer and its call
    state,      \* state[t]: "idle", "waiting", "woken", or "notify"
    left,       \* left[t]: the calls t has still to finish
    taken       \* history: what was dequeued, in order

vars == <<kind, q, state, left, taken>>

Users == Producers \cup Consumers

Init ==
    /\ kind \in Kinds
    /\ q = <<>>
    /\ state = [t \in Users |-> "idle"]
    /\ left = [t \in Users |-> Calls]
    /\ taken = <<>>

\* Threads that hold no lock and are at the predicate of their wait.
Testing(t) == left[t] > 0 /\ state[t] \in {"idle", "woken"}

Waiting(others) == {t \in others : state[t] = "waiting"}

\* Mutant: the other condition variable is notified.
NotifySame(t, after) ==
    LET others == IF t \in Producers THEN Producers ELSE Consumers
    IN  IF Waiting(others) = {} THEN state' = [state EXCEPT ![t] = after]
        ELSE \E u \in Waiting(others) :
                state' = [state EXCEPT ![t] = after, ![u] = "woken"]

\* notify_one on the condition variable of the other side: one of its waiting
\* threads, if there is one, is woken.
Notify(t, after) ==
    LET others == IF t \in Producers THEN Consumers ELSE Producers
    IN  IF Waiting(others) = {} THEN state' = [state EXCEPT ![t] = after]
        ELSE \E u \in Waiting(others) :
                state' = [state EXCEPT ![t] = after, ![u] = "woken"]

Wait(t) ==
    /\ state' = [state EXCEPT ![t] = "waiting"]
    /\ UNCHANGED <<kind, q, left, taken>>

\* Only the bounded queue makes a producer wait.
Enqueue(t) ==
    /\ Testing(t)
    /\ IF kind = "bounded" /\ Len(q) >= Capacity THEN Wait(t)
       ELSE /\ q' = Append(q, <<t, left[t]>>)
            /\ left' = [left EXCEPT ![t] = @ - 1]
            /\ IF kind = "study" THEN state' = [state EXCEPT ![t] = "notify"]
                                 ELSE Notify(t, "idle")
            /\ UNCHANGED <<kind, taken>>

\* my_threads: cv1.notify_one() when the lock is gone.
NotifyLater(t) ==
    /\ state[t] = "notify"
    /\ Notify(t, "idle")
    /\ UNCHANGED <<kind, q, left, taken>>

Dequeue(t) ==
    /\ Testing(t)
    /\ IF q = <<>> THEN Wait(t)
       ELSE /\ q' = Tail(q)
            /\ taken' = Append(taken, Head(q))
            /\ left' = [left EXCEPT ![t] = @ - 1]
            /\ IF kind = "bounded" THEN Notify(t, "idle")
                                   ELSE state' = [state EXCEPT ![t] = "idle"]
            /\ UNCHANGED kind

\* A thread may wake without having been notified.
Spurious(t) ==
    /\ state[t] = "waiting"
    /\ state' = [state EXCEPT ![t] = "woken"]
    /\ UNCHANGED <<kind, q, left, taken>>

Next ==
    \/ \E t \in Producers : Enqueue(t) \/ NotifyLater(t)
    \/ \E t \in Consumers : Dequeue(t)
    \/ \E t \in Users : Spurious(t)

\* A runnable thread gets to run, and gets the mutex in the end: the others
\* have finitely many calls to make.  A spurious wake-up is never owed.
Fairness ==
    /\ \A t \in Producers : WF_vars(Enqueue(t) \/ NotifyLater(t))
    /\ \A t \in Consumers : WF_vars(Dequeue(t))

Spec == Init /\ [][Next]_vars /\ Fairness

-----------------------------------------------------------------------------
\* No wake-up is lost: with as many dequeues as enqueues to come every call
\* returns, though notify_one wakes one thread only, which may find that
\* another thread was quicker; and each producer's elements come out in order.
EveryCallReturns ==
    <>[](/\ \A t \in Users : left[t] = 0
         /\ \A i, j \in DOMAIN taken :
                i < j /\ taken[i][1] = taken[j][1] => taken[i][2] > taken[j][2])
=============================================================================
