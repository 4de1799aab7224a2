---------------------------- MODULE AsyncLogger ----------------------------
(***************************************************************************)
(* HFT/AsyncLogger.hpp: any thread calls log, which formats its line into  *)
(* a message of the pool and puts the message in a queue; LoggerThread     *)
(* takes messages out, writes them and gives them back to the pool.        *)
(*                                                                         *)
(* queue_ is a CustomMPMCLockFreeQueue and is used here through BoundedFIFO*)
(* which MPMCQueue implements; pool_ is a LockFreeThreadSafePool, used     *)
(* through MessagePool, which TaggedPool implements while the pool is not  *)
(* exhausted.  A line is the pair <<t, n>> of the thread and the number of *)
(* its call.                                                               *)
(***************************************************************************)
EXTENDS Naturals, Sequences

CONSTANTS
    Threads,    \* the threads that log
    Logger,     \* loggerThread_
    Slots,      \* the messages of pool_
    NULL,       \* nullptr
    Capacity,   \* Const::queueCapacity
    MaxCalls    \* bound: calls of log per thread

ASSUME LoggerAssumption ==
    /\ NULL \notin Slots
    /\ Logger \notin Threads
    /\ Capacity \in Nat \ {0}
    /\ MaxCalls \in Nat

VARIABLES
    items,      \* queue_: the messages in it, oldest first
    hand,       \* queue_: what an unfinished dequeue has removed
    free, used, \* pool_
    text,       \* text[s]: the line in the buffer of message s
    pc,         \* pc[t]: where thread t is in log
    msg,        \* msg[t]: its msg
    calls,      \* calls[t]: how often it has called log
    lpc,        \* where LoggerThread is
    lmsg,       \* its msg
    runFlag,    \* runFlag_
    joined,     \* the destructor has returned
    output,     \* the lines written to outStream_
    crashed,    \* the pool was asked for more than it has
    lost,       \* history: the lines whose enqueue or formatting failed
    leaked      \* history: the messages of the failed enqueues

queue == <<items, hand>>
pool == <<free, used>>
caller == <<pc, msg, calls, text>>
writer == <<lpc, lmsg, output>>
control == <<runFlag, joined, crashed>>
vars == <<queue, pool, caller, writer, control, lost, leaked>>

Queue == INSTANCE BoundedFIFO WITH Threads <- {Logger}, Msgs <- Slots
Pool == INSTANCE MessagePool

Init ==
    /\ Queue!Init
    /\ Pool!Init
    /\ text = [s \in Slots |-> <<>>]
    /\ pc = [t \in Threads |-> "idle"]
    /\ msg = [t \in Threads |-> NULL]
    /\ calls = [t \in Threads |-> 0]
    /\ lpc = "test" /\ lmsg = NULL /\ output = <<>>
    /\ runFlag = TRUE /\ joined = FALSE /\ crashed = FALSE
    /\ lost = {} /\ leaked = {}

Line(t) == <<t, calls[t]>>

At(t, l) == ~crashed /\ pc[t] = l
LoggerAt(l) == ~crashed /\ lpc = l

-----------------------------------------------------------------------------
(* log                                                                     *)

\* The call and allocate.  The pool does not report that it is exhausted.
LogAllocate(t) ==
    /\ At(t, "idle")
    /\ runFlag
    /\ calls[t] < MaxCalls
    /\ calls' = [calls EXCEPT ![t] = @ + 1]
    /\ \/ \E s \in free :
             /\ Pool!Allocate(s)
             /\ msg' = [msg EXCEPT ![t] = s]
             /\ pc' = [pc EXCEPT ![t] = "format"]
             /\ UNCHANGED crashed
       \/ /\ free = {}
          /\ crashed' = TRUE
          /\ UNCHANGED <<pool, msg, pc>>
    /\ UNCHANGED <<queue, text, writer, runFlag, joined, lost, leaked>>

\* snprintf fills the buffer.
LogFormat(t) ==
    /\ At(t, "format")
    /\ text' = [text EXCEPT ![msg[t]] = Line(t)]
    /\ pc' = [pc EXCEPT ![t] = "enqueue"]
    /\ UNCHANGED <<queue, pool, msg, calls, writer, control, lost, leaked>>

\* snprintf fails: the message goes back and log throws.
LogEncodingError(t) ==
    /\ At(t, "format")
    /\ Pool!Deallocate(msg[t])
    /\ msg' = [msg EXCEPT ![t] = NULL]
    /\ pc' = [pc EXCEPT ![t] = "idle"]
    /\ lost' = lost \cup {Line(t)}
    /\ UNCHANGED <<queue, calls, text, writer, control, leaked>>

\* enqueue succeeds.  The message can be taken before enqueue has returned.
LogEnqueue(t) ==
    /\ At(t, "enqueue")
    /\ Queue!Enqueue(msg[t])
    /\ pc' = [pc EXCEPT ![t] = "return"]
    /\ UNCHANGED <<pool, msg, calls, text, writer, control, lost, leaked>>

\* enqueue returns true; log does not look at it.
LogReturn(t) ==
    /\ At(t, "return")
    /\ msg' = [msg EXCEPT ![t] = NULL]
    /\ pc' = [pc EXCEPT ![t] = "idle"]
    /\ UNCHANGED <<queue, pool, calls, text, writer, control, lost, leaked>>

\* A cell counts as taken until the dequeue that empties it is over.
QueueFull == Len(items) + (IF hand[Logger] = NULL THEN 0 ELSE 1) >= Capacity

\* Mutant: a message that does not fit in the queue is given back, and then
\* used as if it were still there.
LogRefusedRetries(t) ==
    /\ At(t, "enqueue")
    /\ QueueFull
    /\ Pool!Deallocate(msg[t])
    /\ UNCHANGED <<queue, caller, writer, control, lost, leaked>>

\* enqueue returns false; log does not look at it either.
LogRefused(t) ==
    /\ At(t, "enqueue")
    /\ QueueFull
    /\ lost' = lost \cup {Line(t)}
    /\ leaked' = leaked \cup {msg[t]}
    /\ msg' = [msg EXCEPT ![t] = NULL]
    /\ pc' = [pc EXCEPT ![t] = "idle"]
    /\ UNCHANGED <<queue, pool, calls, text, writer, control>>

-----------------------------------------------------------------------------
(* LoggerThread                                                            *)

LoggerTest ==
    /\ LoggerAt("test")
    /\ lpc' = IF runFlag THEN "dequeue" ELSE "done"
    /\ UNCHANGED <<queue, pool, caller, lmsg, output, control, lost, leaked>>

LoggerDequeue ==
    /\ LoggerAt("dequeue")
    /\ Queue!Dequeue(Logger)
    /\ lpc' = "got"
    /\ UNCHANGED <<pool, caller, lmsg, output, control, lost, leaked>>

\* Mutant: the message goes back to the pool unwritten.
LoggerGotSkips ==
    /\ LoggerAt("got")
    /\ lmsg' = hand[Logger]
    /\ Queue!Return(Logger)
    /\ lpc' = "free"
    /\ UNCHANGED <<pool, caller, output, control, lost, leaked>>

LoggerGot ==
    /\ LoggerAt("got")
    /\ lmsg' = hand[Logger]
    /\ Queue!Return(Logger)
    /\ lpc' = "write"
    /\ UNCHANGED <<pool, caller, output, control, lost, leaked>>

\* Mutant: the thread ends when it finds the queue empty.
LoggerIdleQuits ==
    /\ LoggerAt("dequeue")
    /\ items = <<>>
    /\ lpc' = "done"
    /\ UNCHANGED <<queue, pool, caller, lmsg, output, control, lost, leaked>>

\* dequeue returns nullptr: the queue is empty, or its oldest message belongs
\* to an enqueue that is not over.  The thread yields or sleeps and loops.
LoggerIdle ==
    /\ LoggerAt("dequeue")
    /\ items # <<>> => \E t \in Threads : pc[t] = "return" /\ msg[t] = Head(items)
    /\ lpc' = "test"
    /\ UNCHANGED <<queue, pool, caller, lmsg, output, control, lost, leaked>>

LoggerWrite ==
    /\ LoggerAt("write")
    /\ output' = Append(output, text[lmsg])
    /\ lpc' = "free"
    /\ UNCHANGED <<queue, pool, caller, lmsg, control, lost, leaked>>

LoggerFree ==
    /\ LoggerAt("free")
    /\ Pool!Deallocate(lmsg)
    /\ lmsg' = NULL
    /\ lpc' = "test"
    /\ UNCHANGED <<queue, caller, output, control, lost, leaked>>

-----------------------------------------------------------------------------
(* The destructor.  Its caller sees to it that no one logs any more.       *)

Destroy ==
    /\ ~crashed
    /\ runFlag
    /\ \A t \in Threads : pc[t] = "idle"
    /\ runFlag' = FALSE
    /\ UNCHANGED <<queue, pool, caller, writer, joined, crashed, lost, leaked>>

Join ==
    /\ ~crashed
    /\ ~runFlag
    /\ lpc = "done"
    /\ ~joined
    /\ joined' = TRUE
    /\ UNCHANGED <<queue, pool, caller, writer, runFlag, crashed, lost, leaked>>

Log(t) ==
    \/ LogAllocate(t)
    \/ LogFormat(t)
    \/ LogEncodingError(t)
    \/ LogEnqueue(t)
    \/ LogReturn(t)
    \/ LogRefused(t)

LoggerThread ==
    \/ LoggerTest
    \/ LoggerDequeue
    \/ LoggerGot
    \/ LoggerIdle
    \/ LoggerWrite
    \/ LoggerFree

Next == (\E t \in Threads : Log(t)) \/ LoggerThread \/ Destroy \/ Join

\* LoggerThread runs on, and a thread inside log gets out of it.
Fairness ==
    /\ WF_vars(LoggerThread)
    /\ \A t \in Threads : WF_vars(LogReturn(t))

Spec == Init /\ [][Next]_vars /\ Fairness

-----------------------------------------------------------------------------
(* Properties.                                                             *)

Lines == Threads \X (1..MaxCalls)

TypeOK ==
    /\ items \in Seq(Slots)
    /\ hand \in [{Logger} -> Slots \cup {NULL}]
    /\ free \subseteq Slots /\ used \subseteq Slots
    /\ text \in [Slots -> Lines \cup {<<>>}]
    /\ pc \in [Threads -> {"idle", "format", "enqueue", "return"}]
    /\ msg \in [Threads -> Slots \cup {NULL}]
    /\ calls \in [Threads -> 0..MaxCalls]
    /\ lpc \in {"test", "dequeue", "got", "write", "free", "done"}
    /\ lmsg \in Slots \cup {NULL}
    /\ {runFlag, joined, crashed} \subseteq BOOLEAN
    /\ output \in Seq(Lines)
    /\ lost \subseteq Lines
    /\ leaked \subseteq Slots

\* Who has a message: a thread inside log, the queue, LoggerThread, no one.
Filling(t, s) == pc[t] \in {"format", "enqueue"} /\ msg[t] = s
Waiting(s) == \E i \in DOMAIN items : items[i] = s
Draining(s) == hand[Logger] = s \/ lmsg = s

\* A message is free, or has exactly one holder: one thread filling it, one
\* place in the queue, LoggerThread, or, after a failed enqueue, no one ever
\* again.  So no line is overwritten before it is written out, and what is
\* deallocated was in use.
OneHolder ==
    /\ free \cap used = {}
    /\ \A s \in Slots : s \in used <=> \/ \E t \in Threads : Filling(t, s)
                                       \/ Waiting(s)
                                       \/ Draining(s)
                                       \/ s \in leaked
    /\ \A t, u \in Threads, s \in Slots : Filling(t, s) /\ Filling(u, s) => t = u
    /\ \A i, j \in DOMAIN items : items[i] = items[j] => i = j
    /\ \A s \in Slots :
          /\ Draining(s) => ~Waiting(s) /\ s \notin leaked
          /\ Waiting(s) => s \notin leaked
          /\ \A t \in Threads :
                Filling(t, s) => ~Waiting(s) /\ ~Draining(s) /\ s \notin leaked

\* The lines on their way out, in the order they will be written.
Pending ==
    (IF hand[Logger] = NULL THEN <<>> ELSE <<text[hand[Logger]]>>)
    \o (IF lpc = "write" THEN <<text[lmsg]>> ELSE <<>>)
    \o [i \in DOMAIN items |-> text[items[i]]]

Everything == output \o Pending

\* The lines of a thread are written in the order of its calls, none twice.
CallOrderKept ==
    \A i, j \in DOMAIN Everything :
        i < j /\ Everything[i][1] = Everything[j][1] => Everything[i][2] < Everything[j][2]

\* A line whose call of log is over is written, waits to be, or is lost to a
\* failed call; there is no other way for it to disappear, and a destroyed
\* logger loses exactly the lines that still waited.
Accounted ==
    \A t \in Threads, n \in 1..MaxCalls :
        n < calls[t] \/ (n = calls[t] /\ pc[t] = "idle" /\ ~crashed) =>
            <<t, n>> \in lost <=> ~\E i \in DOMAIN Everything : Everything[i] = <<t, n>>

\* A line in the queue is written, unless the logger is destroyed first or
\* the pool runs out.
EventuallyWritten ==
    \A l \in Lines :
        (\E i \in DOMAIN items : text[items[i]] = l)
            ~> ((\E i \in DOMAIN output : output[i] = l) \/ ~runFlag \/ crashed)
=============================================================================
