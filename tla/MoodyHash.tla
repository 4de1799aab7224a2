----------------------------- MODULE MoodyHash -----------------------------
(***************************************************************************)
(* How moodycamel's ConcurrentQueue finds the ImplicitProducer of the      *)
(* calling thread: a lock-free hash table from thread ids to producers,    *)
(* replaced by one twice as large when half full, with the old tables kept *)
(* and searched; and how a thread that exits gives its producer back.      *)
(*                                                                         *)
(* A thread is its id, and the id hashes to itself.  A thread that exited  *)
(* stands for a later one with the same id when it calls again.  Searching *)
(* a table is one step: a slot never becomes empty again, and no other     *)
(* thread writes the id that is searched for.                              *)
(***************************************************************************)
EXTENDS Integers, Sequences, FiniteSets, FiniteSetsExt

CONSTANTS
    Threads,      \* thread ids, natural numbers
    InitialSize,  \* INITIAL_IMPLICIT_PRODUCER_HASH_SIZE
    Leaving,      \* the threads that may exit
    MaxExits,     \* bound: exits in a behaviour
    NULL,         \* nullptr
    EMPTY,        \* invalid_thread_id, a slot never used
    REUSABLE      \* invalid_thread_id2, the slot of a thread that exited

VARIABLES
    tables,       \* the tables; implicitProducerHash is the last
    hashCount,    \* implicitProducerHashCount
    resizing,     \* implicitProducerHashResizeInProgress
    inactive,     \* inactive[p]: producer p is free; producerListTail is the last
    thread,       \* where each thread is
    mine,         \* history: the producer each live thread was given
    exits         \* history: how many threads exited

vars == <<tables, hashCount, resizing, inactive, thread, mine, exits>>

Free == [key |-> EMPTY, value |-> NULL]
Idle == [pc |-> "idle"]
Table(size) == [i \in 0..size - 1 |-> Free]
Capacity(h) == Cardinality(DOMAIN tables[h])
Go(t, r) == thread' = [thread EXCEPT ![t] = r]

Init ==
    /\ tables = <<Table(InitialSize)>>
    /\ hashCount = 0
    /\ resizing = FALSE
    /\ inactive = <<>>
    /\ thread = [t \in Threads |-> Idle]
    /\ mine = [t \in Threads |-> NULL]
    /\ exits = 0

\* Slot n of the probe for t, and the slot where t is found, if it is, before
\* the first slot that was never used.
Probe(h, t, n) == (t + n) % Capacity(h)
FoundAt(h, t) ==
    {n \in 0..Capacity(h) - 1 :
        /\ tables[h][Probe(h, t, n)].key = t
        /\ \A m \in 0..n - 1 : tables[h][Probe(h, t, m)].key # EMPTY}
Holding(t) == {h \in DOMAIN tables : FoundAt(h, t) # {}}
ValueIn(h, t) == tables[h][Probe(h, t, Min(FoundAt(h, t)))].value

Return(t, p) ==
    /\ mine' = [mine EXCEPT ![t] = p]
    /\ Go(t, Idle)

\* get_or_add_implicit_producer: the search.
Search(t) ==
    /\ thread[t] = Idle
    /\ IF Holding(t) = {}
       THEN Go(t, [pc |-> "count", main |-> Len(tables)]) /\ UNCHANGED mine
       ELSE LET h == Max(Holding(t)) IN
            IF h = Len(tables) THEN Return(t, ValueIn(h, t))
            ELSE /\ Go(t, [pc |-> "copy", main |-> Len(tables), n |-> 0,
                           producer |-> ValueIn(h, t)])
                 /\ UNCHANGED mine
    /\ UNCHANGED <<exits, tables, hashCount, resizing, inactive>>

\* One slot of the probe is taken if it is free, or the next one is tried.
TrySlot(t) ==
    LET s == thread[t]
        i == Probe(s.main, t, s.n)
    IN  IF tables[s.main][i].key \in {EMPTY, REUSABLE}
        THEN /\ tables' = [tables EXCEPT ![s.main][i] = [key |-> t, value |-> s.producer]]
             /\ Return(t, s.producer)
        ELSE /\ Go(t, [s EXCEPT !.n = @ + 1])
             /\ UNCHANGED <<tables, mine>>

\* Found in an older table: added to the current one.
Copy(t) ==
    /\ thread[t].pc = "copy"
    /\ TrySlot(t)
    /\ UNCHANGED <<exits, hashCount, resizing, inactive>>

CountSlot(t) ==
    /\ thread[t].pc = "count"
    /\ hashCount' = hashCount + 1
    /\ Go(t, [pc |-> "room", main |-> thread[t].main, count |-> hashCount + 1])
    /\ UNCHANGED <<exits, tables, resizing, inactive, mine>>

HalfFull(h, count) == count >= Capacity(h) \div 2

\* Half full and nobody is resizing: this thread does.
StartResize(t) ==
    /\ thread[t].pc = "room"
    /\ HalfFull(thread[t].main, thread[t].count) /\ ~resizing
    /\ resizing' = TRUE
    /\ Go(t, [thread[t] EXCEPT !.pc = "resize"])
    /\ UNCHANGED <<exits, tables, hashCount, inactive, mine>>

\* The size is doubled until count threads fill less than half of it.
NewSize(size, count) ==
    LET doubled[k \in 0..count + 1] == IF k = 0 THEN size ELSE 2 * doubled[k - 1]
    IN  doubled[Min({k \in 1..count + 1 : count < doubled[k] \div 2})]

\* The table may have been replaced meanwhile.
Resize(t) ==
    /\ thread[t].pc = "resize"
    /\ IF HalfFull(Len(tables), thread[t].count)
       THEN tables' = Append(tables, Table(NewSize(Capacity(Len(tables)), thread[t].count)))
       ELSE UNCHANGED tables
    /\ Go(t, [thread[t] EXCEPT !.pc = "clear", !.main = Len(tables')])
    /\ UNCHANGED <<exits, hashCount, resizing, inactive, mine>>

ClearFlag(t) ==
    /\ thread[t].pc = "clear"
    /\ resizing' = FALSE
    /\ Go(t, [thread[t] EXCEPT !.pc = "fit"])
    /\ UNCHANGED <<exits, tables, hashCount, inactive, mine>>

\* No memory for the table, or for a producer.
OutOfMemory(t) ==
    /\ \/ thread[t].pc = "resize" /\ HalfFull(Len(tables), thread[t].count)
       \/ thread[t].pc = "scan" /\ thread[t].at = 0
    /\ hashCount' = hashCount - 1
    /\ resizing' = IF thread[t].pc = "resize" THEN FALSE ELSE resizing
    /\ Go(t, Idle)
    /\ UNCHANGED <<exits, tables, inactive, mine>>

\* Mutant: the old table is used for as long as the new one takes.
FitAlways(t) ==
    /\ \/ thread[t].pc = "fit"
       \/ /\ thread[t].pc = "room"
          /\ ~HalfFull(thread[t].main, thread[t].count) \/ resizing
    /\ Go(t, [pc |-> "scan", main |-> thread[t].main, at |-> Len(inactive)])
    /\ UNCHANGED <<exits, tables, hashCount, resizing, inactive, mine>>

\* Below three quarters the old table will do; otherwise the new one is
\* waited for.
Fit(t) ==
    /\ \/ thread[t].pc = "fit"
       \/ /\ thread[t].pc = "room"
          /\ ~HalfFull(thread[t].main, thread[t].count) \/ resizing
    /\ LET m == thread[t].main
           c == Capacity(m)
       IN  Go(t, IF thread[t].count < c \div 2 + c \div 4
                 THEN [pc |-> "scan", main |-> m, at |-> Len(inactive)]
                 ELSE [pc |-> "room", main |-> Len(tables), count |-> thread[t].count])
    /\ UNCHANGED <<exits, tables, hashCount, resizing, inactive, mine>>

\* recycle_or_create_producer: the list is walked from its tail.
Put(t, p) == Go(t, [pc |-> "put", main |-> thread[t].main, n |-> 0, producer |-> p])

\* Mutant: a producer found inactive is not marked active.
RecycleUnmarked(t) ==
    /\ thread[t].pc = "scan" /\ thread[t].at > 0
    /\ LET p == thread[t].at IN
       IF inactive[p] THEN Put(t, p) ELSE Go(t, [thread[t] EXCEPT !.at = @ - 1])
    /\ UNCHANGED <<exits, tables, hashCount, resizing, inactive, mine>>

Recycle(t) ==
    /\ thread[t].pc = "scan" /\ thread[t].at > 0
    /\ LET p == thread[t].at IN
       IF inactive[p] THEN inactive' = [inactive EXCEPT ![p] = FALSE] /\ Put(t, p)
       ELSE Go(t, [thread[t] EXCEPT !.at = @ - 1]) /\ UNCHANGED inactive
    /\ UNCHANGED <<exits, tables, hashCount, resizing, mine>>

Create(t) ==
    /\ thread[t].pc = "scan" /\ thread[t].at = 0
    /\ inactive' = Append(inactive, FALSE)
    /\ Put(t, Len(inactive'))
    /\ UNCHANGED <<exits, tables, hashCount, resizing, mine>>

\* A slot that is used again was counted before.
PutSlot(t) ==
    /\ thread[t].pc = "put"
    /\ TrySlot(t)
    /\ LET i == Probe(thread[t].main, t, thread[t].n)
       IN  hashCount' = IF tables[thread[t].main][i].key = REUSABLE
                        THEN hashCount - 1 ELSE hashCount
    /\ UNCHANGED <<exits, resizing, inactive>>

\* implicit_producer_thread_exited: a table at a time, the newest first; then
\* the producer may be taken by another thread.
Exit(t) ==
    /\ t \in Leaving /\ thread[t] = Idle /\ mine[t] # NULL /\ exits < MaxExits
    /\ exits' = exits + 1
    /\ Go(t, [pc |-> "exit", main |-> Len(tables), producer |-> mine[t]])
    /\ mine' = [mine EXCEPT ![t] = NULL]
    /\ UNCHANGED <<tables, hashCount, resizing, inactive>>

ExitTable(t) ==
    /\ thread[t].pc = "exit" /\ thread[t].main > 0
    /\ LET h == thread[t].main
           freed == {Probe(h, t, n) : n \in FoundAt(h, t)}
       IN  tables' = [tables EXCEPT ![h] =
                [i \in DOMAIN @ |-> IF i \in freed THEN [@[i] EXCEPT !.key = REUSABLE] ELSE @[i]]]
    /\ Go(t, [thread[t] EXCEPT !.main = @ - 1])
    /\ UNCHANGED <<exits, hashCount, resizing, inactive, mine>>

ExitDone(t) ==
    /\ thread[t].pc = "exit" /\ thread[t].main = 0
    /\ inactive' = [inactive EXCEPT ![thread[t].producer] = TRUE]
    /\ Go(t, Idle)
    /\ UNCHANGED <<exits, tables, hashCount, resizing, mine>>

Next ==
    \E t \in Threads :
        \/ Search(t) \/ Copy(t) \/ CountSlot(t) \/ StartResize(t)
        \/ Resize(t) \/ ClearFlag(t) \/ OutOfMemory(t) \/ Fit(t) \/ Recycle(t)
        \/ Create(t) \/ PutSlot(t) \/ Exit(t) \/ ExitTable(t) \/ ExitDone(t)

Spec == Init /\ [][Next]_vars

-----------------------------------------------------------------------------
\* A sub-queue has one producing thread at a time, which its enqueue relies
\* on: no two threads are given the same producer, a thread that comes back
\* finds the one it was given, and none of those is up for recycling.
OneThreadPerProducer ==
    \A t \in Threads : mine[t] # NULL =>
        /\ ~inactive[mine[t]]
        /\ \A u \in Threads \ {t} : mine[u] # mine[t]
        /\ thread[t] = Idle => Holding(t) # {} /\ ValueIn(Max(Holding(t)), t) = mine[t]

\* "Not an infinite loop because at least one slot is free in the hash
\* table": every probe for an id that is not there ends.
ProbesEnd == \A h \in DOMAIN tables : \E i \in DOMAIN tables[h] : tables[h][i].key = EMPTY
=============================================================================
