----------------------------- MODULE RefCounts -----------------------------
(***************************************************************************)
(* SharedPtr and WeakPtr of Study/weak_ptr_impl.cpp: pointers of both      *)
(* kinds are made, copied, moved, assigned, locked and destroyed in any    *)
(* order, and share a ControlBlock that counts them.  A control block that *)
(* was deleted may be allocated again.                                     *)
(***************************************************************************)
EXTENDS Integers, FiniteSets

CONSTANTS
    SharedPtrs, WeakPtrs,   \* the variables that hold a pointer
    ControlBlocks,
    NULL,                   \* a pointer without control block
    NONE                    \* no pointer: not constructed, or destroyed

VARIABLES
    control,   \* control[p], the member of pointer p
    heap       \* the live control blocks, those whose object is not deleted,
               \* and the two counts of each

vars == <<control, heap>>

Ptrs == SharedPtrs \cup WeakPtrs

Init ==
    /\ control = [p \in Ptrs |-> NONE]
    /\ heap = [blocks |-> {}, objects |-> {},
               shared_count |-> [b \in ControlBlocks |-> 0],
               weak_count |-> [b \in ControlBlocks |-> 0]]

There(p) == control[p] # NONE
Set(p, c) == control' = [control EXCEPT ![p] = c]

-----------------------------------------------------------------------------
(* What the members do to the heap                                         *)

IncrementShared(h, c) == IF c = NULL THEN h ELSE [h EXCEPT !.shared_count[c] = @ + 1]
IncrementWeak(h, c) == IF c = NULL THEN h ELSE [h EXCEPT !.weak_count[c] = @ + 1]

\* Mutant: the control block goes with the object.
ReleaseSharedEager(h, c) ==
    IF c = NULL THEN h
    ELSE LET last == h.shared_count[c] = 1
         IN  [h EXCEPT !.shared_count[c] = @ - 1,
                       !.weak_count[c] = IF last THEN @ - 1 ELSE @,
                       !.objects = IF last THEN @ \ {c} ELSE @,
                       !.blocks = IF last THEN @ \ {c} ELSE @]

\* SharedPtr::release.  The shared pointers together count as one weak one.
ReleaseShared(h, c) ==
    IF c = NULL THEN h
    ELSE LET last == h.shared_count[c] = 1
         IN  [h EXCEPT !.shared_count[c] = @ - 1,
                       !.weak_count[c] = IF last THEN @ - 1 ELSE @,
                       !.objects = IF last THEN @ \ {c} ELSE @,
                       !.blocks = IF last /\ h.weak_count[c] = 1 THEN @ \ {c} ELSE @]

\* WeakPtr::release
ReleaseWeak(h, c) ==
    IF c = NULL THEN h
    ELSE [h EXCEPT !.weak_count[c] = @ - 1,
                   !.blocks = IF h.shared_count[c] = 0 /\ h.weak_count[c] = 1
                              THEN @ \ {c} ELSE @]

-----------------------------------------------------------------------------
(* SharedPtr                                                               *)

MakeEmpty(p) == ~There(p) /\ Set(p, NULL) /\ UNCHANGED heap

MakeShared(p, c) ==
    /\ ~There(p) /\ c \notin heap.blocks
    /\ Set(p, c)
    /\ heap' = [blocks |-> heap.blocks \cup {c}, objects |-> heap.objects \cup {c},
                shared_count |-> [heap.shared_count EXCEPT ![c] = 1],
                weak_count |-> [heap.weak_count EXCEPT ![c] = 1]]

CopyShared(p, q) ==
    /\ ~There(p) /\ There(q)
    /\ Set(p, control[q])
    /\ heap' = IncrementShared(heap, control[q])

MoveShared(p, q) ==
    /\ ~There(p) /\ There(q)
    /\ control' = [control EXCEPT ![p] = control[q], ![q] = NULL]
    /\ UNCHANGED heap

\* An assignment to itself is no step.
AssignShared(p, q) ==
    /\ p # q /\ There(p) /\ There(q)
    /\ Set(p, control[q])
    /\ heap' = IncrementShared(ReleaseShared(heap, control[p]), control[q])

MoveAssignShared(p, q) ==
    /\ p # q /\ There(p) /\ There(q)
    /\ control' = [control EXCEPT ![p] = control[q], ![q] = NULL]
    /\ heap' = ReleaseShared(heap, control[p])

DestroyShared(p) ==
    /\ There(p)
    /\ Set(p, NONE)
    /\ heap' = ReleaseShared(heap, control[p])

-----------------------------------------------------------------------------
(* WeakPtr                                                                 *)

MakeWeak(w) == ~There(w) /\ Set(w, NULL) /\ UNCHANGED heap

\* From a SharedPtr, or from a WeakPtr.
CopyWeak(w, p) ==
    /\ ~There(w) /\ There(p)
    /\ Set(w, control[p])
    /\ heap' = IncrementWeak(heap, control[p])

AssignWeak(w, v) ==
    /\ w # v /\ There(w) /\ There(v)
    /\ Set(w, control[v])
    /\ heap' = IncrementWeak(ReleaseWeak(heap, control[w]), control[v])

DestroyWeak(w) ==
    /\ There(w)
    /\ Set(w, NONE)
    /\ heap' = ReleaseWeak(heap, control[w])

expired(c) == IF c = NULL THEN TRUE ELSE heap.shared_count[c] = 0

\* lock() makes a SharedPtr, an empty one when the object is gone.
Lock(p, w) ==
    /\ ~There(p) /\ There(w)
    /\ LET c == IF expired(control[w]) THEN NULL ELSE control[w]
       IN  Set(p, c) /\ heap' = IncrementShared(heap, c)

Next ==
    \/ \E p \in SharedPtrs :
        \/ MakeEmpty(p) \/ DestroyShared(p)
        \/ \E c \in ControlBlocks : MakeShared(p, c)
        \/ \E q \in SharedPtrs : \/ CopyShared(p, q) \/ MoveShared(p, q)
                                 \/ AssignShared(p, q) \/ MoveAssignShared(p, q)
        \/ \E w \in WeakPtrs : Lock(p, w)
    \/ \E w \in WeakPtrs :
        \/ MakeWeak(w) \/ DestroyWeak(w)
        \/ \E p \in Ptrs : CopyWeak(w, p)
        \/ \E v \in WeakPtrs : AssignWeak(w, v)

Spec == Init /\ [][Next]_vars

-----------------------------------------------------------------------------
Owners(c) == {p \in SharedPtrs : control[p] = c}
Observers(c) == {w \in WeakPtrs : control[w] = c}

\* The last owner deletes the object, and the last pointer of either kind the
\* control block: nothing is deleted while a pointer leads to it, and nothing
\* stays when no pointer does.
DeletedWithLastPointer ==
    \A c \in ControlBlocks :
        /\ c \in heap.objects <=> Owners(c) # {}
        /\ c \in heap.blocks <=> Owners(c) \cup Observers(c) # {}
=============================================================================
