--------------------------- MODULE MoodyFreeList ---------------------------
(***************************************************************************)
(* moodycamel's FreeList, the lock-free stack the sub-queues return their  *)
(* blocks to and take them from.  A reference count per node keeps a node  *)
(* from being put back while another thread is still reading its next.     *)
(***************************************************************************)
EXTENDS Integers, FiniteSets

CONSTANTS
    Threads,
    Nodes,
    SHOULD_BE_ON_FREELIST,  \* the bit above every reference count
    NULL

VARIABLES
    freeListHead,
    freeListRefs,  \* freeListRefs[n], the bit included
    freeListNext,
    out,           \* history: the nodes the list's users have
    thread         \* where each thread is

vars == <<freeListHead, freeListRefs, freeListNext, out, thread>>

Idle == [pc |-> "idle"]
Go(t, r) == thread' = [thread EXCEPT ![t] = r]

Init ==
    /\ freeListHead = NULL
    /\ freeListRefs = [n \in Nodes |-> 0]
    /\ freeListNext = [n \in Nodes |-> NULL]
    /\ out = Nodes
    /\ thread = [t \in Threads |-> Idle]

AddRefs(n, d) == freeListRefs' = [freeListRefs EXCEPT ![n] = @ + d]

\* add: with no reference left, the thread goes on to link the node.
Add(t, n) ==
    /\ thread[t] = Idle /\ n \in out
    /\ AddRefs(n, SHOULD_BE_ON_FREELIST)
    /\ Go(t, IF freeListRefs[n] = 0 THEN [pc |-> "load", node |-> n, back |-> Idle]
                                    ELSE Idle)
    /\ out' = out \ {n}
    /\ UNCHANGED <<freeListHead, freeListNext>>

\* add_knowing_refcount_is_zero
LoadHead(t) ==
    /\ thread[t].pc = "load"
    /\ Go(t, [pc |-> "link", node |-> thread[t].node, back |-> thread[t].back,
              head |-> freeListHead])
    /\ UNCHANGED <<freeListHead, freeListRefs, freeListNext, out>>

Link(t) ==
    /\ thread[t].pc = "link"
    /\ freeListNext' = [freeListNext EXCEPT ![thread[t].node] = thread[t].head]
    /\ freeListRefs' = [freeListRefs EXCEPT ![thread[t].node] = 1]
    /\ Go(t, [thread[t] EXCEPT !.pc = "push"])
    /\ UNCHANGED <<freeListHead, out>>

Push(t) ==
    /\ thread[t].pc = "push"
    /\ \/ /\ freeListHead = thread[t].head
          /\ freeListHead' = thread[t].node
          /\ Go(t, thread[t].back)
       \/ /\ freeListHead # thread[t].head
          /\ Go(t, [thread[t] EXCEPT !.pc = "undo", !.head = freeListHead])
          /\ UNCHANGED freeListHead
    /\ UNCHANGED <<freeListRefs, freeListNext, out>>

\* Only when nobody refers to the node may the thread try again itself.
Undo(t) ==
    /\ thread[t].pc = "undo"
    /\ AddRefs(thread[t].node, SHOULD_BE_ON_FREELIST - 1)
    /\ Go(t, IF freeListRefs[thread[t].node] = 1 THEN [thread[t] EXCEPT !.pc = "link"]
                                                 ELSE thread[t].back)
    /\ UNCHANGED <<freeListHead, freeListNext, out>>

\* try_get; it starts again with the head a failed exchange saw.
TryFrom(n) == IF n = NULL THEN Idle ELSE [pc |-> "refs", node |-> n]

TryGet(t) ==
    /\ thread[t] = Idle \/ thread[t].pc = "again"
    /\ Go(t, TryFrom(freeListHead))
    /\ UNCHANGED <<freeListHead, freeListRefs, freeListNext, out>>

LoadRefs(t) ==
    /\ thread[t].pc = "refs"
    /\ LET r == freeListRefs[thread[t].node]
       IN  Go(t, IF r % SHOULD_BE_ON_FREELIST = 0 THEN [pc |-> "again"]
                 ELSE [pc |-> "hold", node |-> thread[t].node, refs |-> r])
    /\ UNCHANGED <<freeListHead, freeListRefs, freeListNext, out>>

\* Mutant: the count is raised without looking whether it is still that.
HoldNoCompare(t) ==
    /\ thread[t].pc = "hold"
    /\ AddRefs(thread[t].node, 1)
    /\ Go(t, [pc |-> "next", node |-> thread[t].node])
    /\ UNCHANGED <<freeListHead, freeListNext, out>>

Hold(t) ==
    /\ thread[t].pc = "hold"
    /\ IF freeListRefs[thread[t].node] = thread[t].refs
       THEN AddRefs(thread[t].node, 1) /\ Go(t, [pc |-> "next", node |-> thread[t].node])
       ELSE Go(t, [pc |-> "again"]) /\ UNCHANGED freeListRefs
    /\ UNCHANGED <<freeListHead, freeListNext, out>>

ReadNext(t) ==
    /\ thread[t].pc = "next"
    /\ Go(t, [pc |-> "pop", node |-> thread[t].node, next |-> freeListNext[thread[t].node]])
    /\ UNCHANGED <<freeListHead, freeListRefs, freeListNext, out>>

Pop(t) ==
    /\ thread[t].pc = "pop"
    /\ \/ /\ freeListHead = thread[t].node
          /\ freeListHead' = thread[t].next
          /\ Go(t, [pc |-> "taken", node |-> thread[t].node])
       \/ /\ freeListHead # thread[t].node
          /\ Go(t, [pc |-> "release", node |-> thread[t].node, back |-> TryFrom(freeListHead)])
          /\ UNCHANGED freeListHead
    /\ UNCHANGED <<freeListRefs, freeListNext, out>>

Return(t) ==
    /\ thread[t].pc = "taken"
    /\ AddRefs(thread[t].node, -2)
    /\ out' = out \cup {thread[t].node}
    /\ Go(t, Idle)
    /\ UNCHANGED <<freeListHead, freeListNext>>

\* The head had changed.  Whoever drops the last reference to a node that
\* should be on the list puts it there.
Release(t) ==
    /\ thread[t].pc = "release"
    /\ AddRefs(thread[t].node, -1)
    /\ Go(t, IF freeListRefs[thread[t].node] = SHOULD_BE_ON_FREELIST + 1
             THEN [pc |-> "load", node |-> thread[t].node, back |-> thread[t].back]
             ELSE thread[t].back)
    /\ UNCHANGED <<freeListHead, freeListNext, out>>

Next ==
    \E t \in Threads :
        \/ \E n \in Nodes : Add(t, n)
        \/ LoadHead(t) \/ Link(t) \/ Push(t) \/ Undo(t)
        \/ TryGet(t) \/ LoadRefs(t) \/ Hold(t) \/ ReadNext(t) \/ Pop(t)
        \/ Return(t) \/ Release(t)

Spec == Init /\ [][Next]_vars

-----------------------------------------------------------------------------
\* A node taken off the list is nobody else's: nobody has it, nobody else
\* took it, and it is not waiting to be put on (the assertion of try_get).
HandedOutOnce ==
    \A t \in Threads : thread[t].pc = "taken" =>
        /\ thread[t].node \notin out
        /\ freeListRefs[thread[t].node] < SHOULD_BE_ON_FREELIST
        /\ \A u \in Threads \ {t} :
                thread[u].pc = "taken" => thread[u].node # thread[t].node

\* The nodes reached from the head in k steps or fewer.
Reached[k \in Nat] ==
    IF k = 0 THEN {freeListHead} \ {NULL}
    ELSE Reached[k - 1] \cup ({freeListNext[n] : n \in Reached[k - 1]} \ {NULL})

\* Between calls every node given back is on the list, though adding a node
\* may have been left to a thread that was only trying to get one.
NothingLost ==
    (\A t \in Threads : thread[t] = Idle) =>
        /\ Reached[Cardinality(Nodes)] = Nodes \ out
        /\ \A n \in Nodes : freeListRefs[n] = IF n \in out THEN 0 ELSE 1

\* The free list is exact under contention.
FreeListExact == HandedOutOnce /\ NothingLost
=============================================================================
