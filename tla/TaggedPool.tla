---------------------------- MODULE TaggedPool -----------------------------
(***************************************************************************)
(* LockFreeThreadSafePool of HFT/MemoryPool.hpp: a free list of slot       *)
(* indices linked through nextFree_ and entered through head_, one atomic  *)
(* 64-bit word that packs a 32-bit index and a 32-bit tag.  The tag grows  *)
(* with every successful compare-exchange, so that a head_ which has the   *)
(* old index again is not taken for the old head_.                         *)
(*                                                                         *)
(* Every load, compare-exchange and access to nextFree_ is a step.  A      *)
(* message may be deallocated by another thread than the one that          *)
(* allocated it, as the logger does.                                       *)
(***************************************************************************)
EXTENDS Integers, FiniteSets

CONSTANTS
    Threads,     \* the threads that share the pool
    N,           \* Const::poolMsgCount
    HalfMod,     \* 2^32: the range of the packed index
    TagMod,      \* 2^32: the range of the tag
    MaxInUse     \* how many messages the users hold or ask for at a time

ASSUME PoolAssumption ==
    /\ IsFiniteSet(Threads)
    /\ N \in Nat \ {0}
    /\ HalfMod \in Nat
    /\ N < HalfMod
    /\ TagMod \in Nat \ {0}
    /\ MaxInUse \in Nat

VARIABLES
    nextFree,    \* nextFree_
    head,        \* head_, as the record that pack makes
    pc,          \* pc[t]: where thread t is
    old,         \* old[t]: oldHead
    next,        \* next[t]: nextIndex in allocate
    item,        \* item[t]: index in deallocate
    held,        \* the slots allocate returned and nobody gave back
    fault        \* an access beyond nextFree_ has ended the program

vars == <<nextFree, head, pc, old, next, item, held, fault>>

Slots == 0..(N - 1)

\* size_t: all ones is size_t(-1).
FullMod == HalfMod * HalfMod

Minus1 == FullMod - 1

\* What the packed index reads once size_t(-1) went through pack.
Nil == HalfMod - 1

\* Mutant: the tag stays as it is.
PackSameTag(index, tag) == [index |-> index % HalfMod, tag |-> 0]

\* pack: both halves are cut to 32 bits.  unpack is the record's fields.
pack(index, tag) == [index |-> index % HalfMod, tag |-> tag % TagMod]

Init ==
    /\ nextFree = [i \in Slots |-> (i - 1) % FullMod]
    /\ head = pack(N - 1, 0)
    /\ pc = [t \in Threads |-> "idle"]
    /\ old = [t \in Threads |-> head]
    /\ next = [t \in Threads |-> 0]
    /\ item = [t \in Threads |-> 0]
    /\ held = {}
    /\ fault = FALSE

At(t, l) == ~fault /\ pc[t] = l

Goto(t, l) == pc' = [pc EXCEPT ![t] = l]

Allocating == {t \in Threads : pc[t] \in {"allocNext", "allocCas"}}

Freeing == {t \in Threads : pc[t] \in {"freeLink", "freeCas"}}

InTransit == {item[t] : t \in Freeing}

\* Bound: no thread sleeps through a whole cycle of the tag (2^32 successful
\* operations) between its load of head_ and its compare-exchange.
NoFullTagCycle ==
    \A t \in Allocating \cup Freeing : old[t].tag # (head.tag + 1) % TagMod

-----------------------------------------------------------------------------
(* allocate                                                                *)

\* The call and the load of head_.
CallAllocate(t) ==
    /\ At(t, "idle")
    /\ Cardinality(held \cup InTransit) + Cardinality(Allocating) < MaxInUse
    /\ old' = [old EXCEPT ![t] = head]
    /\ Goto(t, "allocNext")
    /\ UNCHANGED <<nextFree, head, next, item, held, fault>>

\* index == -1: return nullptr.  Otherwise read nextFree_[index]; beyond the
\* vector that read ends the program, because the index of an empty list lies
\* 2^32 words behind the start of nextFree_.
AllocateNext(t) ==
    /\ At(t, "allocNext")
    /\ IF old[t].index = Minus1 THEN
          Goto(t, "idle") /\ UNCHANGED <<next, fault>>
       ELSE IF old[t].index \in Slots THEN
          /\ next' = [next EXCEPT ![t] = nextFree[old[t].index]]
          /\ Goto(t, "allocCas")
          /\ UNCHANGED fault
       ELSE
          fault' = TRUE /\ UNCHANGED <<next, pc>>
    /\ UNCHANGED <<nextFree, head, old, item, held>>

\* The compare-exchange succeeds: allocate returns &pool_[index].
PopHead(t) ==
    /\ At(t, "allocCas")
    /\ head = old[t]
    /\ NoFullTagCycle
    /\ head' = pack(next[t], old[t].tag + 1)
    /\ held' = held \cup {old[t].index}
    /\ Goto(t, "idle")
    /\ UNCHANGED <<nextFree, old, next, item, fault>>

\* It fails, spuriously or not, and reloads oldHead.
MissPop(t) ==
    /\ At(t, "allocCas")
    /\ old' = [old EXCEPT ![t] = head]
    /\ Goto(t, "allocNext")
    /\ UNCHANGED <<nextFree, head, next, item, held, fault>>

-----------------------------------------------------------------------------
(* deallocate                                                              *)

\* A user gives back a message it holds; the load of head_.
CallDeallocate(t, i) ==
    /\ At(t, "idle")
    /\ i \in held
    /\ held' = held \ {i}
    /\ item' = [item EXCEPT ![t] = i]
    /\ old' = [old EXCEPT ![t] = head]
    /\ Goto(t, "freeLink")
    /\ UNCHANGED <<nextFree, head, next, fault>>

LinkNext(t) ==
    /\ At(t, "freeLink")
    /\ nextFree' = [nextFree EXCEPT ![item[t]] = old[t].index]
    /\ Goto(t, "freeCas")
    /\ UNCHANGED <<head, old, next, item, held, fault>>

PushHead(t) ==
    /\ At(t, "freeCas")
    /\ head = old[t]
    /\ NoFullTagCycle
    /\ head' = pack(item[t], old[t].tag + 1)
    /\ Goto(t, "idle")
    /\ UNCHANGED <<nextFree, old, next, item, held, fault>>

\* Mutant: after a failed compare-exchange the link is not written again.
MissPushNoRelink(t) ==
    /\ At(t, "freeCas")
    /\ old' = [old EXCEPT ![t] = head]
    /\ Goto(t, "freeCas")
    /\ UNCHANGED <<nextFree, head, next, item, held, fault>>

MissPush(t) ==
    /\ At(t, "freeCas")
    /\ old' = [old EXCEPT ![t] = head]
    /\ Goto(t, "freeLink")
    /\ UNCHANGED <<nextFree, head, next, item, held, fault>>

Step(t) ==
    \/ CallAllocate(t)
    \/ AllocateNext(t)
    \/ PopHead(t)
    \/ MissPop(t)
    \/ \E i \in Slots : CallDeallocate(t, i)
    \/ LinkNext(t)
    \/ PushHead(t)
    \/ MissPush(t)

Next == \E t \in Threads : Step(t)

Spec == Init /\ [][Next]_vars

-----------------------------------------------------------------------------
(* Properties.                                                             *)

Heads == [index : 0..(HalfMod - 1), tag : 0..(TagMod - 1)]

TypeOK ==
    /\ nextFree \in [Slots -> 0..(FullMod - 1)]
    /\ head \in Heads
    /\ pc \in [Threads -> {"idle", "allocNext", "allocCas", "freeLink", "freeCas"}]
    /\ old \in [Threads -> Heads]
    /\ next \in [Threads -> 0..(FullMod - 1)]
    /\ item \in [Threads -> Slots]
    /\ held \subseteq Slots
    /\ fault \in BOOLEAN

\* The index found after following the list for k links.
Follow[k \in 0..N] ==
    IF k = 0 THEN head.index
    ELSE IF Follow[k - 1] \in Slots THEN nextFree[Follow[k - 1]] % HalfMod
    ELSE Follow[k - 1]

FreeList == {Follow[k] : k \in 0..N} \cap Slots

\* No slot is lost and none is handed out twice: the list that starts at
\* head_ ends, and holds exactly the slots that no user holds and no
\* deallocate has in its hands, in every state of every compare-exchange race,
\* and no call has read beyond nextFree_.
FreeListIntact ==
    /\ TypeOK /\ ~fault
    /\ Follow[N] = Nil
    /\ FreeList = Slots \ (held \cup InTransit)
    /\ held \cap InTransit = {}
    /\ Cardinality(InTransit) = Cardinality(Freeing)

\* As long as the users stay within the pool, allocate never reads beyond
\* nextFree_.
NoFault == ~fault

-----------------------------------------------------------------------------
(* TaggedPool implements MessagePool: both operations take effect at their *)
(* compare-exchange.                                                       *)

Pool == INSTANCE MessagePool WITH
    free <- FreeList,
    used <- held \cup InTransit

\* Every compare-exchange that succeeds moves exactly one slot between the
\* free list and the users.
ImplementsMessagePool == Pool!Spec
=============================================================================
