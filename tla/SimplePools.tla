---------------------------- MODULE SimplePools ----------------------------
(***************************************************************************)
(* Pools that keep their free messages in an array: CustomLockedPool       *)
(* ("locked", a stack behind a mutex) and CustomLockFreePool ("stack", the *)
(* same array with an atomic head) of HFT/MemoryPool.hpp, and LockFreePool *)
(* of c++20/LockFreeQueue.cpp ("ring", a ring of free slots).              *)
(***************************************************************************)
EXTENDS Integers, FiniteSets

CONSTANTS
    Kinds,         \* the pools explored
    Allocators,    \* threads that allocate
    Deallocators,  \* threads that deallocate
    Messages       \* the messages of pool_, 0 .. capacity_ - 1

VARIABLES
    kind,
    slots,      \* freeMsgs_, or freelist_
    head,       \* head_; the top of the locked pool's stack
    tail,       \* tail_ of the ring
    thread,     \* what each thread has read so far
    held        \* history: the messages handed out, each as often as it was

vars == <<kind, slots, head, tail, thread, held>>

capacity_ == Cardinality(Messages)
Idle == [pc |-> "idle"]
Go(t, r) == thread' = [thread EXCEPT ![t] = r]

Init ==
    /\ kind \in Kinds
    /\ slots = [i \in 0..capacity_ - 1 |-> i]
    /\ head = IF kind = "ring" THEN capacity_ ELSE capacity_ - 1
    /\ tail = 0
    /\ thread = [t \in Allocators \cup Deallocators |-> Idle]
    /\ held = [m \in Messages |-> 0]

HandOut(t, m) ==
    /\ held' = [held EXCEPT ![m] = @ + 1]
    /\ Go(t, Idle)

\* The caller gives m up when it calls.
GiveBack(m) == held[m] > 0 /\ held' = [held EXCEPT ![m] = @ - 1]

\* CustomLockedPool: top and pop, or push, with the mutex held.
LockedAllocate(t) ==
    /\ kind = "locked" /\ head >= 0
    /\ HandOut(t, slots[head])
    /\ head' = head - 1
    /\ UNCHANGED <<kind, slots, tail>>

LockedDeallocate(m) ==
    /\ kind = "locked" /\ GiveBack(m)
    /\ head' = head + 1
    /\ slots' = [slots EXCEPT ![head + 1] = m]
    /\ UNCHANGED <<kind, tail, thread>>

\* CustomLockFreePool::allocate.  compare_exchange_weak may fail for no reason.
StackLoad(t) ==
    /\ kind = "stack" /\ thread[t] = Idle
    /\ head >= 0
    /\ Go(t, [pc |-> "read", head |-> head])
    /\ UNCHANGED <<kind, slots, head, tail, held>>

StackRead(t) ==
    /\ kind = "stack" /\ thread[t].pc = "read"
    /\ Go(t, [pc |-> "pop", head |-> thread[t].head, msg |-> slots[thread[t].head]])
    /\ UNCHANGED <<kind, slots, head, tail, held>>

\* Mutant: the head is stored without looking whether it has changed.
StackPopNoCompare(t) ==
    /\ kind = "stack" /\ thread[t].pc = "pop"
    /\ head' = thread[t].head - 1
    /\ HandOut(t, thread[t].msg)
    /\ UNCHANGED <<kind, slots, tail>>

StackPop(t) ==
    /\ kind = "stack" /\ thread[t].pc = "pop"
    /\ \/ /\ head = thread[t].head
          /\ head' = head - 1
          /\ HandOut(t, thread[t].msg)
       \/ /\ Go(t, IF head < 0 THEN Idle ELSE [pc |-> "read", head |-> head])
          /\ UNCHANGED <<head, held>>
    /\ UNCHANGED <<kind, slots, tail>>

\* CustomLockFreePool::deallocate.  With the head at the top it throws.
StackCall(t, m) ==
    /\ kind = "stack" /\ thread[t] = Idle
    /\ GiveBack(m)
    /\ Go(t, [pc |-> "write", head |-> head, msg |-> m])
    /\ UNCHANGED <<kind, slots, head, tail>>

StackWrite(t) ==
    /\ kind = "stack" /\ thread[t].pc = "write"
    /\ LET h == thread[t].head IN
       IF h + 1 >= capacity_ THEN Go(t, Idle) /\ UNCHANGED slots
       ELSE /\ slots' = [slots EXCEPT ![h + 1] = thread[t].msg]
            /\ Go(t, [thread[t] EXCEPT !.pc = "push"])
    /\ UNCHANGED <<kind, head, tail, held>>

StackPush(t) ==
    /\ kind = "stack" /\ thread[t].pc = "push"
    /\ \/ /\ head = thread[t].head
          /\ head' = head + 1
          /\ Go(t, Idle)
       \/ /\ Go(t, [thread[t] EXCEPT !.pc = "write", !.head = head])
          /\ UNCHANGED head
    /\ UNCHANGED <<kind, slots, tail, held>>

\* LockFreePool, with one thread on each side: a slot is read or written in the
\* step of the load before it, for the other thread does not touch it until
\* the store that follows.
\* acquire: the two loads, then the store.
RingTail(t) ==
    /\ kind = "ring" /\ thread[t] = Idle
    /\ Go(t, [pc |-> "head", tail |-> tail])
    /\ UNCHANGED <<kind, slots, head, tail, held>>

RingHead(t) ==
    /\ kind = "ring" /\ thread[t].pc = "head"
    /\ Go(t, IF thread[t].tail = head THEN Idle
             ELSE [pc |-> "take", tail |-> thread[t].tail,
                   msg |-> slots[thread[t].tail % capacity_]])
    /\ UNCHANGED <<kind, slots, head, tail, held>>

RingTake(t) ==
    /\ kind = "ring" /\ thread[t].pc = "take"
    /\ tail' = (thread[t].tail + 1) % (2 * capacity_)
    /\ HandOut(t, thread[t].msg)
    /\ UNCHANGED <<kind, slots, head>>

\* release.  The difference in the overflow test is unsigned.
RingCall(t, m) ==
    /\ kind = "ring" /\ thread[t] = Idle
    /\ GiveBack(m)
    /\ Go(t, [pc |-> "check", head |-> head, msg |-> m])
    /\ UNCHANGED <<kind, slots, head, tail>>

RingWrite(t) ==
    /\ kind = "ring" /\ thread[t].pc = "check"
    /\ LET h == thread[t].head IN
       IF h - tail = capacity_ THEN Go(t, Idle) /\ UNCHANGED slots
       ELSE /\ slots' = [slots EXCEPT ![h % capacity_] = thread[t].msg]
            /\ Go(t, [pc |-> "give", head |-> h])
    /\ UNCHANGED <<kind, head, tail, held>>

RingGive(t) ==
    /\ kind = "ring" /\ thread[t].pc = "give"
    /\ head' = (thread[t].head + 1) % (2 * capacity_)
    /\ Go(t, Idle)
    /\ UNCHANGED <<kind, slots, tail, held>>

Next ==
    \/ \E t \in Allocators : \/ LockedAllocate(t)
                             \/ StackLoad(t) \/ StackRead(t) \/ StackPop(t)
                             \/ RingTail(t) \/ RingHead(t) \/ RingTake(t)
    \/ \E m \in Messages : LockedDeallocate(m)
    \/ \E t \in Deallocators : \/ \E m \in Messages : StackCall(t, m) \/ RingCall(t, m)
                               \/ StackWrite(t) \/ StackPush(t)
                               \/ RingWrite(t) \/ RingGive(t)

Spec == Init /\ [][Next]_vars

-----------------------------------------------------------------------------
FreeSlots ==
    IF kind = "ring" THEN {i % capacity_ : i \in tail..tail + ((head - tail) % (2 * capacity_)) - 1}
    ELSE 0..head

\* What a pool is for: a message is with one holder at a time, and when no
\* call is under way the messages nobody holds are the free ones, each once.
EachMessageOnce ==
    /\ \A m \in Messages : held[m] <= 1
    /\ (\A t \in DOMAIN thread : thread[t] = Idle) =>
        /\ {slots[i] : i \in FreeSlots} = {m \in Messages : held[m] = 0}
        /\ Cardinality(FreeSlots) = Cardinality({m \in Messages : held[m] = 0})
=============================================================================
