------------------------------- MODULE Vector -------------------------------
(***************************************************************************)
(* zam::vector of Study/vector.cpp: vectors that are made, copied, moved,  *)
(* assigned, filled, emptied and destroyed in any order, and the memory    *)
(* that holds their elements.  Every vector constructs its elements one    *)
(* behind the other, so an allocation is its room and the elements in it.  *)
(***************************************************************************)
EXTENDS Integers, Sequences, SequencesExt

CONSTANTS
    Vecs,           \* the variables that hold a vector
    Allocations,    \* the addresses operator new[] returns
    Elements,       \* values of the elements
    Sizes,          \* arguments of the constructors and of reserve
    NULL,           \* nullptr
    NONE,           \* no vector: not constructed, or destroyed
    MaxCapacity     \* bound: the largest capacity

VARIABLES
    vec,        \* the members of each vector
    heap,       \* the memory, and the trouble met with it
    contents,   \* history: the elements the calls should have stored
    trivial     \* the elements are of an implicit-lifetime type, as int is

vars == <<vec, heap, contents, trivial>>

Empty == [data_ |-> NULL, size_ |-> 0, capacity_ |-> 0]

Init ==
    /\ vec = [v \in Vecs |-> NONE]
    /\ heap = [memory |-> [a \in Allocations |-> NULL], trouble |-> {}]
    /\ contents = [v \in Vecs |-> <<>>]
    /\ trivial \in BOOLEAN

There(v) == vec[v] # NONE
Free == {a \in Allocations : heap.memory[a] = NULL}

-----------------------------------------------------------------------------
(* What the members do to the heap                                         *)

New(h, a, n) == [h EXCEPT !.memory[a] = [room |-> n, elems |-> <<>>]]

Live(h, a) == IF a = NULL THEN FALSE ELSE h.memory[a] # NULL
Trouble(h, what) == [h EXCEPT !.trouble = @ \cup {what}]

\* Elements are constructed from place i on.
Construct(h, a, i, es) ==
    IF es = <<>> THEN h
    ELSE IF ~Live(h, a) THEN Trouble(h, "misuse")
    ELSE IF i # Len(h.memory[a].elems) \/ i + Len(es) > h.memory[a].room
         THEN Trouble(h, "misuse")
    ELSE [h EXCEPT !.memory[a].elems = @ \o es]

\* std::fill assigns to the places of new memory.  Of an implicit-lifetime type
\* they hold elements already; of another they hold none, and what the
\* assignment does is undefined.
Fill(h, a, es) ==
    IF trivial \/ es = <<>> THEN Construct(h, a, 0, es) ELSE Trouble(h, "raw")

\* The elements at places 0 to n - 1 are destroyed.
Destroy(h, a, n) ==
    IF n = 0 THEN h
    ELSE IF ~Live(h, a) THEN Trouble(h, "misuse")
    ELSE IF n > Len(h.memory[a].elems) THEN Trouble(h, "misuse")
    ELSE [h EXCEPT !.memory[a].elems = SubSeq(@, n + 1, Len(@))]

\* operator delete[] destroys no elements.
Delete(h, a) ==
    IF a = NULL THEN h
    ELSE IF ~Live(h, a) THEN Trouble(h, "misuse")
    ELSE [memory |-> [h.memory EXCEPT ![a] = NULL],
          trouble |-> h.trouble \cup IF h.memory[a].elems = <<>> THEN {} ELSE {"leak"}]

-----------------------------------------------------------------------------
(* The members that others are made of.  They turn a pair of a heap h and  *)
(* the members m of a vector into another.                                 *)

Now(v) == [h |-> heap, m |-> vec[v]]
At(s) == IF Live(s.h, s.m.data_) THEN SubSeq(s.h.memory[s.m.data_].elems, 1, s.m.size_) ELSE <<>>

\* Mutant: the elements that were moved from are not destroyed.
ReallocateLeaks(s, a, n) ==
    [h |-> Delete(Construct(New(s.h, a, n), a, 0, At(s)), s.m.data_),
     m |-> [s.m EXCEPT !.data_ = a, !.capacity_ = n]]

reallocate(s, a, n) ==
    [h |-> Delete(Destroy(Construct(New(s.h, a, n), a, 0, At(s)), s.m.data_, s.m.size_),
                  s.m.data_),
     m |-> [s.m EXCEPT !.data_ = a, !.capacity_ = n]]

Larger(n) == IF n = 0 THEN 1 ELSE 2 * n

Reserve(s, a, n) == IF n > s.m.capacity_ THEN reallocate(s, a, n) ELSE s

\* emplace_back of several elements for which there is room.
Emplace(s, es) == [h |-> Construct(s.h, s.m.data_, s.m.size_, es),
                   m |-> [s.m EXCEPT !.size_ = @ + Len(es)]]

EmplaceBack(s, a, e) ==
    Emplace(IF s.m.size_ = s.m.capacity_ THEN reallocate(s, a, Larger(s.m.capacity_)) ELSE s,
            <<e>>)

Becomes(v, s, es) ==
    /\ s.m.capacity_ <= MaxCapacity
    /\ vec' = [vec EXCEPT ![v] = s.m]
    /\ heap' = s.h
    /\ contents' = [contents EXCEPT ![v] = es]

-----------------------------------------------------------------------------
(* Construction, assignment and destruction                                *)

Make(v) == ~There(v) /\ Becomes(v, [h |-> heap, m |-> Empty], <<>>)

MakeSized(v, a, n) ==
    /\ ~There(v)
    /\ Becomes(v, [h |-> New(heap, a, n),
                   m |-> [data_ |-> a, size_ |-> 0, capacity_ |-> n]], <<>>)

MakeFilled(v, a, n, e) ==
    /\ ~There(v)
    /\ LET es == [i \in 1..n |-> e]
       IN  Becomes(v, [h |-> Fill(New(heap, a, n), a, es),
                       m |-> [data_ |-> a, size_ |-> n, capacity_ |-> n]], es)

MakeCopy(v, a, o) ==
    /\ ~There(v) /\ There(o)
    /\ Becomes(v, Emplace(Reserve([h |-> heap, m |-> Empty], a, vec[o].capacity_), At(Now(o))),
               contents[o])

\* The members go from one to the other, and leave it empty.
Take(v, o) ==
    /\ vec' = [vec EXCEPT ![v] = vec[o], ![o] = Empty]
    /\ contents' = [contents EXCEPT ![v] = contents[o], ![o] = <<>>]

MakeMoved(v, o) == ~There(v) /\ There(o) /\ Take(v, o) /\ UNCHANGED heap

\* An assignment to itself is no step.
AssignCopy(v, a, o) ==
    /\ v # o /\ There(v) /\ There(o)
    /\ LET cleared == [h |-> Destroy(heap, vec[v].data_, vec[v].size_),
                       m |-> [vec[v] EXCEPT !.size_ = 0]]
       IN  Becomes(v, Emplace(Reserve(cleared, a, vec[o].capacity_), At(Now(o))), contents[o])

\* The memory is freed with the elements in it.
AssignMoved(v, o) ==
    /\ v # o /\ There(v) /\ There(o)
    /\ Take(v, o)
    /\ heap' = LET freed == Delete(heap, vec[v].data_)
               IN  IF vec[v].size_ > 0 THEN Trouble(freed, "moved over") ELSE freed

Unmake(v) ==
    /\ There(v)
    /\ vec' = [vec EXCEPT ![v] = NONE]
    /\ heap' = Delete(Destroy(heap, vec[v].data_, vec[v].size_), vec[v].data_)
    /\ contents' = [contents EXCEPT ![v] = <<>>]

-----------------------------------------------------------------------------
(* Elements.  emplace_back with an element takes the same steps as         *)
(* push_back.  What throws ("Cannot pop_back", "out of bounds") changes    *)
(* nothing and is no step.                                                 *)

push_back(v, a, e) ==
    There(v) /\ Becomes(v, EmplaceBack(Now(v), a, e), Append(contents[v], e))

\* The argument is a reference to element i of the vector.  When the memory is
\* replaced the new element is made from what was there, which can be anything.
PushBackOwn(v, a, i) ==
    /\ There(v)
    /\ i \in 1..vec[v].size_
    /\ LET e == At(Now(v))[i]
       IN  IF vec[v].size_ < vec[v].capacity_ THEN push_back(v, a, e)
           ELSE \E junk \in Elements :
                    LET s == EmplaceBack(Now(v), a, junk)
                    IN  Becomes(v, [s EXCEPT !.h = Trouble(@, "dangling")],
                                Append(contents[v], contents[v][i]))

pop_back(v) ==
    /\ There(v)
    /\ vec[v].size_ > 0
    /\ vec' = [vec EXCEPT ![v].size_ = @ - 1]
    /\ heap' = IF Live(heap, vec[v].data_)
               THEN [heap EXCEPT !.memory[vec[v].data_].elems = SubSeq(@, 1, vec[v].size_ - 1)]
               ELSE Trouble(heap, "misuse")
    /\ contents' = [contents EXCEPT ![v] = Front(@)]

reserve(v, a, n) == There(v) /\ Becomes(v, Reserve(Now(v), a, n), contents[v])

\* Nothing is known of what follows an assignment to raw memory.
Next ==
    /\ "raw" \notin heap.trouble
    /\ UNCHANGED trivial
    /\ \E v \in Vecs :
        \/ Make(v) \/ Unmake(v) \/ pop_back(v)
        \/ \E o \in Vecs : MakeMoved(v, o) \/ AssignMoved(v, o)
        \/ \E a \in Free :
            \/ \E n \in Sizes : \/ MakeSized(v, a, n) \/ reserve(v, a, n)
                                \/ \E e \in Elements : MakeFilled(v, a, n, e)
            \/ \E o \in Vecs : MakeCopy(v, a, o) \/ AssignCopy(v, a, o)
            \/ \E e \in Elements : push_back(v, a, e)
            \/ \E i \in 1..MaxCapacity : PushBackOwn(v, a, i)

Spec == Init /\ [][Next]_vars

-----------------------------------------------------------------------------
\* Every vector has its memory to itself, with the elements the calls stored
\* and no others; none is destroyed twice or used after it was; no memory is
\* left behind, and none is freed with elements in it, but by an assignment
\* that moves over them.  Only a push_back of an element of the vector itself
\* can store anything else.
Accounted ==
    /\ "misuse" \notin heap.trouble
    /\ "leak" \in heap.trouble => "moved over" \in heap.trouble
    /\ {a \in Allocations : heap.memory[a] # NULL}
            = {vec[v].data_ : v \in {w \in Vecs : There(w)}} \ {NULL}
    /\ \A v, w \in Vecs :
            v # w /\ There(v) /\ There(w) /\ vec[v].data_ = vec[w].data_ => vec[v].data_ = NULL
    /\ \A v \in Vecs : There(v) =>
            /\ vec[v].size_ = Len(contents[v])
            /\ IF vec[v].data_ = NULL THEN vec[v] = Empty
               ELSE /\ heap.memory[vec[v].data_].room = vec[v].capacity_
                    /\ Len(heap.memory[vec[v].data_].elems) = vec[v].size_
            /\ "dangling" \notin heap.trouble => At(Now(v)) = contents[v]

\* That is so until the constructor vector(n, val) assigns to memory that holds
\* no elements, which only a type that needs construction can make it do.
ElementsAccounted == IF "raw" \in heap.trouble THEN ~trivial ELSE Accounted
=============================================================================
