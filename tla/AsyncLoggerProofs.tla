------------------------- MODULE AsyncLoggerProofs -------------------------
(***************************************************************************)
(* Proofs about AsyncLogger, for any number of threads, messages and calls.*)
(* OneHolder is inductive once it is known where in their code the threads *)
(* have a message in their hands, which Hands states.                      *)
(***************************************************************************)
EXTENDS AsyncLogger, SequenceTheorems, TLAPS

\* msg, hand and lmsg are set exactly where the code holds a message, and
\* what is past formatting has a line.
Hands ==
    /\ \A t \in Threads : pc[t] # "idle" => msg[t] \in Slots /\ calls[t] \in 1..MaxCalls
    /\ hand[Logger] # NULL <=> lpc = "got"
    /\ lmsg # NULL <=> lpc \in {"write", "free"}
    /\ \A t \in Threads : pc[t] = "enqueue" => text[msg[t]] \in Lines
    /\ \A s \in Slots : Waiting(s) \/ Draining(s) => text[s] \in Lines

Inv == TypeOK /\ OneHolder /\ Hands

\* The logger starts with everything free.
LEMMA InitInv == Init => Inv
  <1> SUFFICES ASSUME Init PROVE Inv
    OBVIOUS
  <1> USE LoggerAssumption DEF Init, Queue!Init, Pool!Init
  <1>1. TypeOK
    <2>1. hand \in [{Logger} -> Slots \cup {NULL}]
      OBVIOUS
    <2>2. {runFlag, joined, crashed} \subseteq BOOLEAN
      OBVIOUS
    <2>3. calls \in [Threads -> 0..MaxCalls]
      OBVIOUS
    <2>4. items \in Seq(Slots) /\ output \in Seq(Lines)
      OBVIOUS
    <2>5. text \in [Slots -> Lines \cup {<<>>}]
      OBVIOUS
    <2>6. pc \in [Threads -> {"idle", "format", "enqueue", "return"}]
      OBVIOUS
    <2> QED BY <2>1, <2>2, <2>3, <2>4, <2>5, <2>6 DEF TypeOK
  <1>2. OneHolder
    BY DEF OneHolder, Filling, Waiting, Draining
  <1>3. Hands
    BY DEF Hands, Waiting, Draining
  <1> QED BY <1>1, <1>2, <1>3 DEF Inv

\* Every step of AsyncLogger keeps the types.
LEMMA StepTypes == Inv /\ [Next]_vars => TypeOK'
  <1> SUFFICES ASSUME Inv, [Next]_vars PROVE TypeOK'
    OBVIOUS
  <1> USE LoggerAssumption DEF Inv, TypeOK, Hands, Lines, At, LoggerAt, Line, queue, pool,
        caller, writer, control
  <1>1. ASSUME NEW t \in Threads, LogAllocate(t) PROVE TypeOK'
    <2>1. calls' \in [Threads -> 0..MaxCalls]
      BY <1>1 DEF LogAllocate
    <2>2. CASE \E s \in free :
                  /\ Pool!Allocate(s)
                  /\ msg' = [msg EXCEPT ![t] = s]
                  /\ pc' = [pc EXCEPT ![t] = "format"]
                  /\ UNCHANGED crashed
      BY <1>1, <2>1, <2>2 DEF LogAllocate, Pool!Allocate
    <2>3. CASE free = {} /\ crashed' = TRUE /\ UNCHANGED <<pool, msg, pc>>
      BY <1>1, <2>1, <2>3 DEF LogAllocate
    <2> QED BY <1>1, <2>2, <2>3 DEF LogAllocate
  <1>2. ASSUME NEW t \in Threads, LogFormat(t) PROVE TypeOK'
    BY <1>2 DEF LogFormat
  <1>3. ASSUME NEW t \in Threads, LogEncodingError(t) PROVE TypeOK'
    BY <1>3 DEF LogEncodingError, Pool!Deallocate
  <1>4. ASSUME NEW t \in Threads, LogEnqueue(t) PROVE TypeOK'
    BY <1>4 DEF LogEnqueue, Queue!Enqueue
  <1>5. ASSUME NEW t \in Threads, LogReturn(t) PROVE TypeOK'
    BY <1>5 DEF LogReturn
  <1>6. ASSUME NEW t \in Threads, LogRefused(t) PROVE TypeOK'
    BY <1>6 DEF LogRefused
  <1>7. ASSUME LoggerTest PROVE TypeOK'
    BY <1>7 DEF LoggerTest
  <1>8. ASSUME LoggerDequeue PROVE TypeOK'
    BY <1>8 DEF LoggerDequeue, Queue!Dequeue
  <1>9. ASSUME LoggerGot PROVE TypeOK'
    BY <1>9 DEF LoggerGot, Queue!Return
  <1>10. ASSUME LoggerIdle PROVE TypeOK'
    BY <1>10 DEF LoggerIdle
  <1>11. ASSUME LoggerWrite PROVE TypeOK'
    <2>1. text[lmsg] \in Lines
      BY <1>11 DEF LoggerWrite, Draining
    <2> QED BY <1>11, <2>1 DEF LoggerWrite
  <1>12. ASSUME LoggerFree PROVE TypeOK'
    BY <1>12 DEF LoggerFree, Pool!Deallocate
  <1>13. ASSUME Destroy PROVE TypeOK'
    BY <1>13 DEF Destroy
  <1>14. ASSUME Join PROVE TypeOK'
    BY <1>14 DEF Join
  <1>15. ASSUME UNCHANGED vars PROVE TypeOK'
    BY <1>15 DEF vars
  <1> QED
    BY <1>1, <1>2, <1>3, <1>4, <1>5, <1>6, <1>7, <1>8, <1>9, <1>10, <1>11, <1>12,
       <1>13, <1>14, <1>15 DEF Next, Log, LoggerThread

\* Every step keeps the hands where the code is.
LEMMA StepHands == Inv /\ TypeOK' /\ [Next]_vars => Hands'
  <1> SUFFICES ASSUME Inv, TypeOK', [Next]_vars PROVE Hands'
    OBVIOUS
  <1> USE LoggerAssumption DEF Inv, TypeOK, Hands, Waiting, Draining, At, LoggerAt, queue,
        pool, caller, writer, control
  <1>1. ASSUME NEW t \in Threads, LogAllocate(t) PROVE Hands'
    BY <1>1 DEF LogAllocate, Pool!Allocate
  <1>2. ASSUME NEW t \in Threads, LogFormat(t) PROVE Hands'
    <2>1. Line(t) \in Lines /\ msg[t] \in Slots
      BY <1>2 DEF LogFormat, Line, Lines
    <2>2. \A s \in Slots : text'[s] = IF s = msg[t] THEN Line(t) ELSE text[s]
      BY <1>2, <2>1 DEF LogFormat
    <2> QED BY <1>2, <2>1, <2>2 DEF LogFormat
  <1>3. ASSUME NEW t \in Threads, LogEncodingError(t) PROVE Hands'
    BY <1>3 DEF LogEncodingError, Pool!Deallocate
  <1>4. ASSUME NEW t \in Threads, LogEnqueue(t) PROVE Hands'
    BY <1>4 DEF LogEnqueue, Queue!Enqueue
  <1>5. ASSUME NEW t \in Threads, LogReturn(t) PROVE Hands'
    BY <1>5 DEF LogReturn
  <1>6. ASSUME NEW t \in Threads, LogRefused(t) PROVE Hands'
    BY <1>6 DEF LogRefused
  <1>7. ASSUME LoggerTest PROVE Hands'
    BY <1>7 DEF LoggerTest
  <1>8. ASSUME LoggerDequeue PROVE Hands'
    BY <1>8 DEF LoggerDequeue, Queue!Dequeue
  <1>9. ASSUME LoggerGot PROVE Hands'
    BY <1>9 DEF LoggerGot, Queue!Return
  <1>10. ASSUME LoggerIdle PROVE Hands'
    BY <1>10 DEF LoggerIdle
  <1>11. ASSUME LoggerWrite PROVE Hands'
    BY <1>11 DEF LoggerWrite
  <1>12. ASSUME LoggerFree PROVE Hands'
    BY <1>12 DEF LoggerFree, Pool!Deallocate
  <1>13. ASSUME Destroy PROVE Hands'
    BY <1>13 DEF Destroy
  <1>14. ASSUME Join PROVE Hands'
    BY <1>14 DEF Join
  <1>15. ASSUME UNCHANGED vars PROVE Hands'
    BY <1>15 DEF vars
  <1> QED
    BY <1>1, <1>2, <1>3, <1>4, <1>5, <1>6, <1>7, <1>8, <1>9, <1>10, <1>11, <1>12,
       <1>13, <1>14, <1>15 DEF Next, Log, LoggerThread

\* The last conjunct but one of OneHolder: the queue holds no message twice.
NoRepeats == \A i, j \in DOMAIN items : items[i] = items[j] => i = j

\* Every step keeps each message in one place.  A step that moves a message
\* says where it goes; OneHolder then follows without a look at the queue.
LEMMA StepHolder == Inv /\ TypeOK' /\ [Next]_vars => OneHolder'
  <1> SUFFICES ASSUME Inv, TypeOK', [Next]_vars PROVE OneHolder'
    OBVIOUS
  <1> USE LoggerAssumption DEF Inv, TypeOK, Hands, At, LoggerAt, queue, pool, caller, writer,
        control
  <1>0. NoRepeats
    BY DEF OneHolder, NoRepeats
  <1>1. ASSUME NEW t \in Threads, LogAllocate(t) PROVE OneHolder'
    <2>1. CASE free = {} /\ crashed' = TRUE /\ UNCHANGED <<pool, msg, pc>>
      BY <1>1, <2>1 DEF LogAllocate, OneHolder, Filling, Waiting, Draining
    <2>2. ASSUME NEW m \in free, Pool!Allocate(m), msg' = [msg EXCEPT ![t] = m],
                 pc' = [pc EXCEPT ![t] = "format"]
          PROVE OneHolder'
      <3>1. \A u \in Threads, s \in Slots : Filling(u, s)' <=> Filling(u, s) \/ (u = t /\ s = m)
        BY <1>1, <2>2 DEF LogAllocate, Filling
      <3>2. \A s \in Slots : Waiting(s)' <=> Waiting(s)
        BY <1>1 DEF LogAllocate, Waiting
      <3>3. \A s \in Slots : Draining(s)' <=> Draining(s)
        BY <1>1 DEF LogAllocate, Draining
      <3>4. NoRepeats'
        BY <1>1, <1>0 DEF LogAllocate, NoRepeats
      <3>5. m \in Slots /\ m \notin used /\ free' = free \ {m} /\ used' = used \cup {m}
        BY <2>2 DEF OneHolder, Pool!Allocate
      <3>6. leaked' = leaked
        BY <1>1 DEF LogAllocate
      <3>7. ~Waiting(m) /\ ~Draining(m) /\ m \notin leaked /\ \A u \in Threads : ~Filling(u, m)
        BY <3>5 DEF OneHolder
      <3>8. (free \cap used = {})'
        BY <3>5 DEF OneHolder
      <3>9. ASSUME NEW s \in Slots
            PROVE  s \in used' <=> \/ \E u \in Threads : Filling(u, s)'
                                   \/ Waiting(s)'
                                   \/ Draining(s)'
                                   \/ s \in leaked'
        BY <3>1, <3>2, <3>3, <3>5, <3>6 DEF OneHolder
      <3>10. \A u, v \in Threads, s \in Slots : Filling(u, s)' /\ Filling(v, s)' => u = v
        <4>1. \A u, v \in Threads, s \in Slots : Filling(u, s) /\ Filling(v, s) => u = v
          BY DEF OneHolder
        <4> SUFFICES ASSUME NEW u \in Threads, NEW v \in Threads, NEW s \in Slots,
                            Filling(u, s)', Filling(v, s)'
                     PROVE  u = v
          OBVIOUS
        <4>2. CASE s = m
          BY <3>1, <3>7, <4>2
        <4>3. CASE s # m
          BY <3>1, <4>1, <4>3
        <4> QED BY <4>2, <4>3
      <3>11. ASSUME NEW s \in Slots
             PROVE  /\ Draining(s)' => ~Waiting(s)' /\ s \notin leaked'
                    /\ Waiting(s)' => s \notin leaked'
                    /\ \A u \in Threads :
                         Filling(u, s)' => ~Waiting(s)' /\ ~Draining(s)' /\ s \notin leaked'
        BY <3>1, <3>2, <3>3, <3>6, <3>7 DEF OneHolder
      <3> QED BY <3>4, <3>8, <3>9, <3>10, <3>11 DEF OneHolder, NoRepeats
    <2> QED BY <1>1, <2>1, <2>2 DEF LogAllocate
  <1>2. ASSUME NEW t \in Threads, LogFormat(t) PROVE OneHolder'
    <2>1. \A u \in Threads, s \in Slots : Filling(u, s)' <=> Filling(u, s)
      BY <1>2 DEF LogFormat, Filling
    <2>2. \A s \in Slots : Waiting(s)' <=> Waiting(s)
      BY <1>2, <1>0 DEF LogFormat, Waiting, NoRepeats
    <2>3. \A s \in Slots : Draining(s)' <=> Draining(s)
      BY <1>2 DEF LogFormat, Draining
    <2>4. NoRepeats'
      BY <1>2, <1>0 DEF LogFormat, NoRepeats
    <2>5. UNCHANGED <<free, used, leaked>>
      BY <1>2 DEF LogFormat
    <2> QED BY <2>1, <2>2, <2>3, <2>4, <2>5 DEF OneHolder, NoRepeats
  <1>3. ASSUME NEW t \in Threads, LogEncodingError(t) PROVE OneHolder'
    <2>1. \A u \in Threads, s \in Slots : Filling(u, s)' <=> Filling(u, s) /\ u # t
      BY <1>3 DEF LogEncodingError, Pool!Deallocate, Filling
    <2>2. \A s \in Slots : Waiting(s)' <=> Waiting(s)
      BY <1>3, <1>0 DEF LogEncodingError, Pool!Deallocate, Waiting, NoRepeats
    <2>3. \A s \in Slots : Draining(s)' <=> Draining(s)
      BY <1>3 DEF LogEncodingError, Pool!Deallocate, Draining
    <2>4. NoRepeats'
      BY <1>3, <1>0 DEF LogEncodingError, Pool!Deallocate, NoRepeats
    <2>5. Filling(t, msg[t]) /\ msg[t] \in Slots
      BY <1>3 DEF LogEncodingError, Filling
    <2>6. free' = free \cup {msg[t]} /\ used' = used \ {msg[t]} /\ leaked' = leaked
      BY <1>3 DEF LogEncodingError, Pool!Deallocate
    <2>7. \A s \in Slots : Filling(t, s) => s = msg[t]
      BY DEF Filling
    <2> QED BY <2>1, <2>2, <2>3, <2>4, <2>5, <2>6, <2>7 DEF OneHolder, NoRepeats
  <1>4. ASSUME NEW t \in Threads, LogEnqueue(t) PROVE OneHolder'
    <2>1. \A u \in Threads, s \in Slots : Filling(u, s)' <=> Filling(u, s) /\ u # t
      BY <1>4 DEF LogEnqueue, Queue!Enqueue, Filling
    <2>2. \A s \in Slots : Waiting(s)' <=> Waiting(s) \/ s = msg[t]
      <3>1. /\ Len(items) \in Nat /\ DOMAIN items = 1..Len(items)
            /\ DOMAIN items' = 1..(Len(items) + 1)
            /\ \A i \in 1..Len(items) : items'[i] = items[i]
            /\ items'[Len(items) + 1] = msg[t]
        BY <1>4 DEF LogEnqueue, Queue!Enqueue
      <3>2. \A i \in 1..(Len(items) + 1) : i \in 1..Len(items) \/ i = Len(items) + 1
        BY <3>1
      <3>3. Len(items) + 1 \in DOMAIN items' /\ \A i \in DOMAIN items : i \in DOMAIN items'
        BY <3>1
      <3>4. ASSUME NEW s \in Slots, Waiting(s)' PROVE Waiting(s) \/ s = msg[t]
        BY <3>1, <3>2, <3>4 DEF Waiting
      <3>5. ASSUME NEW s \in Slots, Waiting(s) \/ s = msg[t] PROVE Waiting(s)'
        BY <3>1, <3>3, <3>5 DEF Waiting
      <3> QED BY <3>4, <3>5
    <2>3. \A s \in Slots : Draining(s)' <=> Draining(s)
      BY <1>4 DEF LogEnqueue, Queue!Enqueue, Draining
    <2>4. NoRepeats'
      <3>1. ~Waiting(msg[t])
        BY <1>4 DEF LogEnqueue, Filling, OneHolder
      <3> QED BY <1>4, <1>0, <3>1 DEF LogEnqueue, Queue!Enqueue, NoRepeats, Waiting
    <2>5. Filling(t, msg[t]) /\ msg[t] \in Slots
      BY <1>4 DEF LogEnqueue, Filling
    <2>6. UNCHANGED <<free, used, leaked>>
      BY <1>4 DEF LogEnqueue
    <2>7. \A s \in Slots : Filling(t, s) => s = msg[t]
      BY DEF Filling
    <2> QED BY <2>1, <2>2, <2>3, <2>4, <2>5, <2>6, <2>7 DEF OneHolder, NoRepeats
  <1>5. ASSUME NEW t \in Threads, LogReturn(t) PROVE OneHolder'
    <2>1. \A u \in Threads, s \in Slots : Filling(u, s)' <=> Filling(u, s)
      BY <1>5 DEF LogReturn, Filling
    <2>2. \A s \in Slots : Waiting(s)' <=> Waiting(s)
      BY <1>5, <1>0 DEF LogReturn, Waiting, NoRepeats
    <2>3. \A s \in Slots : Draining(s)' <=> Draining(s)
      BY <1>5 DEF LogReturn, Draining
    <2>4. NoRepeats'
      BY <1>5, <1>0 DEF LogReturn, NoRepeats
    <2>5. UNCHANGED <<free, used, leaked>>
      BY <1>5 DEF LogReturn
    <2> QED BY <2>1, <2>2, <2>3, <2>4, <2>5 DEF OneHolder, NoRepeats
  <1>6. ASSUME NEW t \in Threads, LogRefused(t) PROVE OneHolder'
    <2>1. \A u \in Threads, s \in Slots : Filling(u, s)' <=> Filling(u, s) /\ u # t
      BY <1>6 DEF LogRefused, Filling
    <2>2. \A s \in Slots : Waiting(s)' <=> Waiting(s)
      BY <1>6, <1>0 DEF LogRefused, Waiting, NoRepeats
    <2>3. \A s \in Slots : Draining(s)' <=> Draining(s)
      BY <1>6 DEF LogRefused, Draining
    <2>4. NoRepeats'
      BY <1>6, <1>0 DEF LogRefused, NoRepeats
    <2>5. Filling(t, msg[t]) /\ msg[t] \in Slots
      BY <1>6 DEF LogRefused, Filling
    <2>6. UNCHANGED <<free, used>> /\ leaked' = leaked \cup {msg[t]}
      BY <1>6 DEF LogRefused
    <2>7. \A s \in Slots : Filling(t, s) => s = msg[t]
      BY DEF Filling
    <2> QED BY <2>1, <2>2, <2>3, <2>4, <2>5, <2>6, <2>7 DEF OneHolder, NoRepeats
  <1>7. ASSUME LoggerTest PROVE OneHolder'
    BY <1>7 DEF LoggerTest, OneHolder, Filling, Waiting, Draining
  <1>8. ASSUME LoggerDequeue PROVE OneHolder'
    <2>1. \A u \in Threads, s \in Slots : Filling(u, s)' <=> Filling(u, s)
      BY <1>8 DEF LoggerDequeue, Queue!Dequeue, Filling
    <2>2. \A s \in Slots : Waiting(s)' <=> Waiting(s) /\ s # Head(items)
      <3>1. /\ Len(items) \in Nat \ {0} /\ DOMAIN items = 1..Len(items) /\ Head(items) = items[1]
            /\ DOMAIN items' = 1..(Len(items) - 1)
            /\ \A i \in 1..(Len(items) - 1) : items'[i] = items[i + 1]
        BY <1>8 DEF LoggerDequeue, Queue!Dequeue
      <3>2. ASSUME NEW s \in Slots, Waiting(s)' PROVE Waiting(s) /\ s # Head(items)
        <4>1. PICK i \in 1..(Len(items) - 1) : items[i + 1] = s
          BY <3>1, <3>2 DEF Waiting
        <4>2. i + 1 \in DOMAIN items /\ i + 1 # 1 /\ 1 \in DOMAIN items
          BY <3>1
        <4> QED BY <3>1, <4>1, <4>2, <1>0 DEF Waiting, NoRepeats
      <3>3. ASSUME NEW s \in Slots, Waiting(s), s # Head(items) PROVE Waiting(s)'
        <4>1. PICK i \in 1..Len(items) : items[i] = s
          BY <3>1, <3>3 DEF Waiting
        <4>2. i # 1 /\ i - 1 \in 1..(Len(items) - 1)
          BY <3>1, <3>3, <4>1
        <4>3. items'[i - 1] = s
          BY <3>1, <4>1, <4>2
        <4> QED BY <3>1, <4>2, <4>3 DEF Waiting
      <3> QED BY <3>2, <3>3
    <2>3. \A s \in Slots : Draining(s)' <=> s = Head(items)
      BY <1>8 DEF LoggerDequeue, Queue!Dequeue, Draining
    <2>4. NoRepeats'
      BY <1>8, <1>0 DEF LoggerDequeue, Queue!Dequeue, NoRepeats
    <2>5. Waiting(Head(items)) /\ Head(items) \in Slots
      BY <1>8 DEF LoggerDequeue, Queue!Dequeue, Waiting
    <2>6. UNCHANGED <<free, used, leaked>>
      BY <1>8 DEF LoggerDequeue
    <2>7. \A s \in Slots : ~Draining(s)
      BY <1>8 DEF LoggerDequeue, Draining
    <2> QED BY <2>1, <2>2, <2>3, <2>4, <2>5, <2>6, <2>7 DEF OneHolder, NoRepeats
  <1>9. ASSUME LoggerGot PROVE OneHolder'
    BY <1>9 DEF LoggerGot, Queue!Return, OneHolder, Filling, Waiting, Draining
  <1>10. ASSUME LoggerIdle PROVE OneHolder'
    BY <1>10 DEF LoggerIdle, OneHolder, Filling, Waiting, Draining
  <1>11. ASSUME LoggerWrite PROVE OneHolder'
    BY <1>11 DEF LoggerWrite, OneHolder, Filling, Waiting, Draining
  <1>12. ASSUME LoggerFree PROVE OneHolder'
    <2>1. \A u \in Threads, s \in Slots : Filling(u, s)' <=> Filling(u, s)
      BY <1>12 DEF LoggerFree, Pool!Deallocate, Filling
    <2>2. \A s \in Slots : Waiting(s)' <=> Waiting(s)
      BY <1>12, <1>0 DEF LoggerFree, Pool!Deallocate, Waiting, NoRepeats
    <2>3. \A s \in Slots : Draining(s)' <=> FALSE
      BY <1>12 DEF LoggerFree, Pool!Deallocate, Draining
    <2>4. NoRepeats'
      BY <1>12, <1>0 DEF LoggerFree, Pool!Deallocate, NoRepeats
    <2>5. Draining(lmsg) /\ lmsg \in Slots /\ \A s \in Slots : Draining(s) => s = lmsg
      BY <1>12 DEF LoggerFree, Draining
    <2>6. free' = free \cup {lmsg} /\ used' = used \ {lmsg} /\ leaked' = leaked
      BY <1>12 DEF LoggerFree, Pool!Deallocate
    <2> QED BY <2>1, <2>2, <2>3, <2>4, <2>5, <2>6 DEF OneHolder, NoRepeats
  <1>13. ASSUME Destroy PROVE OneHolder'
    BY <1>13 DEF Destroy, OneHolder, Filling, Waiting, Draining
  <1>14. ASSUME Join PROVE OneHolder'
    BY <1>14 DEF Join, OneHolder, Filling, Waiting, Draining
  <1>15. ASSUME UNCHANGED vars PROVE OneHolder'
    BY <1>15 DEF vars, OneHolder, Filling, Waiting, Draining
  <1> QED
    BY <1>1, <1>2, <1>3, <1>4, <1>5, <1>6, <1>7, <1>8, <1>9, <1>10, <1>11, <1>12,
       <1>13, <1>14, <1>15 DEF Next, Log, LoggerThread

LEMMA Invariance == Spec => []Inv
  <1>1. Inv /\ [Next]_vars => Inv'
    BY StepTypes, StepHands, StepHolder DEF Inv
  <1> QED BY InitInv, <1>1, PTL DEF Spec

\* Type correctness of AsyncLogger.
THEOREM TypeCorrect == Spec => []TypeOK
  BY Invariance, PTL DEF Inv

\* However many threads log, a message of the logger's pool is free or has one
\* holder, and only a refused message is never given back.
THEOREM MessagesHaveOneHolder == Spec => []OneHolder
  BY Invariance, PTL DEF Inv

-----------------------------------------------------------------------------
(* The lines.  Nothing but a successful enqueue changes Everything, and it *)
(* adds one line at the end.                                               *)

\* The lines that wait in the queue.
Queued == [i \in DOMAIN items |-> text[items[i]]]

LinesTyped ==
    /\ Queued \in Seq(Lines) /\ Len(Queued) = Len(items)
    /\ \A i \in 1..Len(items) : Queued[i] = text[items[i]]
    /\ hand[Logger] # NULL => text[hand[Logger]] \in Lines
    /\ lpc = "write" => text[lmsg] \in Lines
    /\ Pending \in Seq(Lines) /\ Everything \in Seq(Lines)

\* What is put together in Pending and Everything are sequences of lines.
LEMMA LinesAreTyped == Inv => LinesTyped
  <1> SUFFICES ASSUME Inv PROVE LinesTyped
    OBVIOUS
  <1> USE LoggerAssumption DEF Inv, TypeOK, Hands
  <1>1. \A i \in DOMAIN items : text[items[i]] \in Lines
    BY DEF Waiting
  <1>2. DOMAIN items = 1..Len(items) /\ Len(items) \in Nat
    OBVIOUS
  <1>3. Queued \in [1..Len(items) -> Lines]
    BY <1>1, <1>2 DEF Queued
  <1>4. Queued \in Seq(Lines)
    <2>1. Seq(Lines) = UNION {[1..n -> Lines] : n \in Nat}
      BY SeqDef
    <2>2. [1..Len(items) -> Lines] \in {[1..n -> Lines] : n \in Nat}
      BY <1>2
    <2> QED BY <1>3, <2>1, <2>2, Zenon
  <1>5. Len(Queued) = Len(items) /\ \A i \in 1..Len(items) : Queued[i] = text[items[i]]
    BY <1>2, <1>3, <1>4 DEF Queued
  <1>6. hand[Logger] # NULL => text[hand[Logger]] \in Lines
    BY DEF Draining
  <1>7. lpc = "write" => text[lmsg] \in Lines
    BY DEF Draining
  <1>8. Pending \in Seq(Lines)
    <2>1. (IF hand[Logger] = NULL THEN <<>> ELSE <<text[hand[Logger]]>>) \in Seq(Lines)
      BY <1>6
    <2>2. (IF lpc = "write" THEN <<text[lmsg]>> ELSE <<>>) \in Seq(Lines)
      BY <1>7
    <2> QED BY <1>4, <2>1, <2>2, ConcatProperties DEF Pending, Queued
  <1>9. Everything \in Seq(Lines)
    BY <1>8, ConcatProperties DEF Everything
  <1> QED BY <1>4, <1>5, <1>6, <1>7, <1>8, <1>9 DEF LinesTyped

PendingAt ==
    /\ lpc \notin {"got", "write"} => Pending = Queued
    /\ lpc = "got" => Pending = <<text[hand[Logger]]>> \o Queued
    /\ lpc = "write" => Pending = <<text[lmsg]>> \o Queued

\* What Pending is at each point of LoggerThread.
LEMMA PendingIs == Inv => PendingAt
  <1> SUFFICES ASSUME Inv PROVE PendingAt
    OBVIOUS
  <1> USE LinesAreTyped DEF LinesTyped
  <1>1. Queued \in Seq(Lines) /\ <<>> \in Seq(Lines) /\ <<>> \o <<>> = <<>>
    OBVIOUS
  <1>2. hand[Logger] # NULL <=> lpc = "got"
    BY DEF Inv, Hands
  <1>3. <<>> \o Queued = Queued
    BY <1>1, ConcatEmptySeq
  <1>4. CASE lpc \notin {"got", "write"}
    BY <1>1, <1>2, <1>3, <1>4 DEF PendingAt, Pending, Queued
  <1>5. CASE lpc = "got"
    <2>1. <<text[hand[Logger]]>> \in Seq(Lines)
      BY <1>2, <1>5
    <2>2. <<text[hand[Logger]]>> \o <<>> = <<text[hand[Logger]]>>
      BY <2>1, ConcatEmptySeq
    <2> QED BY <1>2, <1>5, <2>2 DEF PendingAt, Pending, Queued
  <1>6. CASE lpc = "write"
    <2>1. <<text[lmsg]>> \in Seq(Lines)
      BY <1>6
    <2>2. <<>> \o <<text[lmsg]>> = <<text[lmsg]>>
      BY <2>1, ConcatEmptySeq
    <2> QED BY <1>2, <1>6, <2>2 DEF PendingAt, Pending, Queued
  <1> QED BY <1>4, <1>5, <1>6

\* A step that neither moves a message nor touches the text of one on its way
\* leaves all lines as they are.
LEMMA StandStill ==
  ASSUME Inv, Inv', UNCHANGED <<items, hand, output, lmsg>>,
         lpc' = lpc \/ {lpc, lpc'} \cap {"got", "write"} = {},
         \A s \in Slots : Waiting(s) \/ Draining(s) => text'[s] = text[s]
  PROVE  Everything' = Everything
  <1>0. LinesTyped /\ LinesTyped' /\ PendingAt /\ PendingAt'
    BY LinesAreTyped, PendingIs, PTL
  <1> USE LoggerAssumption
  <1>1. Queued' = Queued
    <2>1. \A i \in DOMAIN items : items[i] \in Slots /\ text'[items[i]] = text[items[i]]
      BY DEF Waiting, Inv, TypeOK
    <2> QED BY <2>1 DEF Queued
  <1>2. hand[Logger] # NULL => text'[hand[Logger]] = text[hand[Logger]]
    BY DEF Draining, Inv, TypeOK
  <1>3. lpc = "write" => text'[lmsg] = text[lmsg]
    BY DEF Draining, Inv, TypeOK, Hands
  <1>4. hand[Logger] # NULL <=> lpc = "got"
    BY DEF Inv, Hands
  <1>5. Pending' = Pending
    BY <1>1, <1>2, <1>3, <1>4, <1>0 DEF PendingAt
  <1> QED BY <1>5 DEF Everything

\* LoggerThread takes the oldest line out of the queue, and writes it, without
\* a change to the order in which the lines come out.
LEMMA LoggerMovesLines ==
  ASSUME Inv, Inv', LoggerDequeue \/ LoggerGot \/ LoggerWrite
  PROVE  Everything' = Everything
  <1>0. LinesTyped /\ LinesTyped' /\ PendingAt /\ PendingAt'
    BY LinesAreTyped, PendingIs, PTL
  <1> USE LoggerAssumption
  <1>1. CASE LoggerDequeue
    <2>1. /\ lpc = "dequeue" /\ lpc' = "got" /\ items # <<>> /\ items' = Tail(items)
          /\ hand'[Logger] = Head(items) /\ text' = text /\ output' = output
      BY <1>1 DEF LoggerDequeue, LoggerAt, Queue!Dequeue, caller, Inv, TypeOK
    <2>2. /\ Len(items) \in Nat \ {0} /\ Head(items) = items[1] /\ Len(items') = Len(items) - 1
          /\ \A i \in 1..(Len(items) - 1) : items'[i] = items[i + 1]
      BY <2>1 DEF Inv, TypeOK
    <2>3. /\ Queued \in Seq(Lines) /\ Len(Queued) = Len(items)
          /\ \A i \in 1..Len(items) : Queued[i] = text[items[i]]
      BY <1>0 DEF LinesTyped
    <2>4. /\ Queued' \in Seq(Lines) /\ Len(Queued') = Len(items) - 1
          /\ \A i \in 1..(Len(items) - 1) : Queued'[i] = text[items[i + 1]]
      BY <2>1, <2>2, <1>0 DEF LinesTyped
    <2>5. text[items[1]] \in Lines
      BY <2>2, <2>3
    <2> DEFINE first == <<text[items[1]]>>
    <2>6. first \in Seq(Lines) /\ Len(first) = 1 /\ first[1] = text[items[1]]
      BY <2>5
    <2>7. first \o Queued' = Queued
      <3> HIDE DEF first
      <3>1. /\ first \o Queued' \in Seq(Lines) /\ Len(first \o Queued') = Len(items)
            /\ \A i \in 1..Len(items) :
                  (first \o Queued')[i] = IF i <= 1 THEN first[i] ELSE Queued'[i - 1]
        BY <2>2, <2>4, <2>6, ConcatProperties
      <3>2. \A i \in 1..Len(items) : (first \o Queued')[i] = Queued[i]
        <4> SUFFICES ASSUME NEW i \in 1..Len(items) PROVE (first \o Queued')[i] = Queued[i]
          OBVIOUS
        <4>1. CASE i = 1
          BY <2>2, <2>3, <2>6, <3>1, <4>1
        <4>2. CASE i # 1
          <5>1. i - 1 \in 1..(Len(items) - 1) /\ (i - 1) + 1 = i /\ ~(i <= 1)
            BY <2>2, <4>2
          <5> QED BY <2>3, <2>4, <3>1, <5>1
        <4> QED BY <4>1, <4>2
      <3> QED BY <2>3, <3>1, <3>2, SeqEqual
    <2> QED BY <2>1, <2>2, <2>7, <1>0 DEF PendingAt, Everything
  <1>2. CASE LoggerGot
    <2>1. /\ lpc = "got" /\ lpc' = "write" /\ items' = items /\ lmsg' = hand[Logger]
          /\ text' = text /\ output' = output
      BY <1>2 DEF LoggerGot, LoggerAt, Queue!Return, caller
    <2>2. Queued' = Queued
      BY <2>1 DEF Queued
    <2> QED BY <2>1, <2>2, <1>0 DEF PendingAt, Everything
  <1>3. CASE LoggerWrite
    <2>1. /\ lpc = "write" /\ lpc' = "free" /\ items' = items /\ text' = text
          /\ output' = Append(output, text[lmsg])
      BY <1>3 DEF LoggerWrite, LoggerAt, caller, queue
    <2>2. Queued' = Queued
      BY <2>1 DEF Queued
    <2>3. output \in Seq(Lines) /\ Queued \in Seq(Lines) /\ text[lmsg] \in Lines
      BY <2>1, <1>0 DEF LinesTyped, Inv, TypeOK
    <2>4. <<text[lmsg]>> \in Seq(Lines) /\ output' = output \o <<text[lmsg]>>
      BY <2>1, <2>3, AppendIsConcat
    <2>5. (output \o <<text[lmsg]>>) \o Queued = output \o (<<text[lmsg]>> \o Queued)
      BY <2>3, <2>4, ConcatAssociative
    <2> QED BY <2>1, <2>2, <2>4, <2>5, <1>0 DEF PendingAt, Everything
  <1> QED BY <1>1, <1>2, <1>3

\* A successful enqueue puts the line of its message behind all others.
LEMMA EnqueueAppends ==
  ASSUME Inv, Inv', NEW t \in Threads, LogEnqueue(t)
  PROVE  Everything' = Append(Everything, text[msg[t]])
  <1>0. LinesTyped /\ LinesTyped' /\ PendingAt /\ PendingAt'
    BY LinesAreTyped, PendingIs, PTL
  <1> USE LoggerAssumption
  <1>1. /\ items' = Append(items, msg[t]) /\ UNCHANGED <<hand, text, lpc, lmsg, output>>
        /\ msg[t] \in Slots /\ text[msg[t]] \in Lines
    BY DEF LogEnqueue, At, Queue!Enqueue, writer, Inv, Hands
  <1> DEFINE new == text[msg[t]]
  <1>2. /\ Len(items) \in Nat /\ Len(items') = Len(items) + 1
        /\ \A i \in 1..Len(items) : items'[i] = items[i]
        /\ items'[Len(items) + 1] = msg[t]
    BY <1>1 DEF Inv, TypeOK
  <1>3. /\ Queued \in Seq(Lines) /\ Len(Queued) = Len(items)
        /\ \A i \in 1..Len(items) : Queued[i] = text[items[i]]
    BY <1>0 DEF LinesTyped
  <1>4. /\ Queued' \in Seq(Lines) /\ Len(Queued') = Len(items) + 1
        /\ \A i \in 1..(Len(items) + 1) : Queued'[i] = text[items'[i]]
    BY <1>1, <1>2, <1>0 DEF LinesTyped
  <1>5. new \in Lines
    BY <1>1
  <1> HIDE DEF new
  <1>6. Queued' = Append(Queued, new)
    <2>1. /\ Append(Queued, new) \in Seq(Lines) /\ Len(Append(Queued, new)) = Len(items) + 1
          /\ \A i \in 1..Len(items) : Append(Queued, new)[i] = Queued[i]
          /\ Append(Queued, new)[Len(items) + 1] = new
      BY <1>3, <1>5, AppendProperties
    <2>2. \A i \in 1..(Len(items) + 1) : Append(Queued, new)[i] = Queued'[i]
      <3> SUFFICES ASSUME NEW i \in 1..(Len(items) + 1) PROVE Append(Queued, new)[i] = Queued'[i]
        OBVIOUS
      <3>1. CASE i = Len(items) + 1
        BY <1>2, <1>4, <2>1, <3>1 DEF new
      <3>2. CASE i # Len(items) + 1
        <4>1. i \in 1..Len(items)
          BY <1>2, <3>2
        <4> QED BY <1>2, <1>3, <1>4, <2>1, <4>1
      <3> QED BY <3>1, <3>2
    <2> QED BY <1>4, <2>1, <2>2, SeqEqual
  <1>7. Queued' = Queued \o <<new>>
    BY <1>3, <1>5, <1>6, AppendIsConcat
  <1>8. <<new>> \in Seq(Lines)
    BY <1>5
  <1>9. Pending' = Pending \o <<new>>
    <2>1. CASE lpc \notin {"got", "write"}
      BY <1>1, <1>7, <2>1, <1>0 DEF PendingAt
    <2>2. CASE lpc = "got"
      <3> DEFINE first == <<text[hand[Logger]]>>
      <3>1. first \in Seq(Lines)
        BY <2>2, <1>0 DEF LinesTyped, Inv, Hands
      <3>2. Pending' = first \o Queued' /\ Pending = first \o Queued
        BY <1>1, <2>2, <1>0 DEF PendingAt
      <3> HIDE DEF first
      <3> QED BY <1>3, <1>7, <1>8, <3>1, <3>2, ConcatAssociative
    <2>3. CASE lpc = "write"
      <3> DEFINE first == <<text[lmsg]>>
      <3>1. first \in Seq(Lines)
        BY <2>3, <1>0 DEF LinesTyped
      <3>2. Pending' = first \o Queued' /\ Pending = first \o Queued
        BY <1>1, <2>3, <1>0 DEF PendingAt
      <3> HIDE DEF first
      <3> QED BY <1>3, <1>7, <1>8, <3>1, <3>2, ConcatAssociative
    <2> QED BY <2>1, <2>2, <2>3
  <1>10. Pending \in Seq(Lines) /\ output \in Seq(Lines) /\ Everything \in Seq(Lines)
    BY <1>0 DEF LinesTyped, Inv, TypeOK
  <1>11. Everything' = Everything \o <<new>>
    BY <1>1, <1>8, <1>9, <1>10, ConcatAssociative DEF Everything
  <1> QED BY <1>5, <1>10, <1>11, AppendIsConcat DEF new

-----------------------------------------------------------------------------
(* Which lines there are.                                                  *)

Out(l) == \E i \in DOMAIN Everything : Everything[i] = l

\* No line is younger than the last call of its thread, a lost line does not
\* come out, and the line of a call that is under way is where pc says.
LinesKept ==
    /\ CallOrderKept
    /\ \A i \in DOMAIN Everything : Everything[i][2] <= calls[Everything[i][1]]
    /\ \A l \in lost : l[2] <= calls[l[1]] /\ ~Out(l)
    /\ \A t \in Threads : pc[t] \in {"format", "enqueue"} => Line(t) \notin lost /\ ~Out(Line(t))
    /\ \A t \in Threads : pc[t] = "enqueue" => text[msg[t]] = Line(t)
    /\ \A t \in Threads : pc[t] = "return" => Out(Line(t))
    /\ Accounted

\* Nothing but a successful enqueue changes the lines.
LEMMA LinesChangeByEnqueue ==
  ASSUME Inv, Inv', [Next]_vars, \A t \in Threads : ~LogEnqueue(t)
  PROVE  Everything' = Everything
  <1> USE LoggerAssumption DEF queue, pool, caller, writer, control, At, LoggerAt
  <1>1. ASSUME NEW t \in Threads, LogAllocate(t) PROVE Everything' = Everything
    BY <1>1, StandStill DEF LogAllocate
  <1>2. ASSUME NEW t \in Threads, LogFormat(t) PROVE Everything' = Everything
    <2>1. Filling(t, msg[t]) /\ msg[t] \in Slots
      BY <1>2 DEF LogFormat, Filling, Inv, Hands
    <2>2. \A s \in Slots : Waiting(s) \/ Draining(s) => s # msg[t]
      BY <2>1 DEF Inv, OneHolder
    <2>3. \A s \in Slots : Waiting(s) \/ Draining(s) => text'[s] = text[s]
      BY <1>2, <2>2 DEF LogFormat, Inv, TypeOK
    <2> QED BY <1>2, <2>3, StandStill DEF LogFormat
  <1>3. ASSUME NEW t \in Threads, LogEncodingError(t) PROVE Everything' = Everything
    BY <1>3, StandStill DEF LogEncodingError
  <1>4. ASSUME NEW t \in Threads, LogReturn(t) PROVE Everything' = Everything
    BY <1>4, StandStill DEF LogReturn
  <1>5. ASSUME NEW t \in Threads, LogRefused(t) PROVE Everything' = Everything
    BY <1>5, StandStill DEF LogRefused
  <1>6. ASSUME LoggerTest \/ LoggerIdle PROVE Everything' = Everything
    BY <1>6, StandStill DEF LoggerTest, LoggerIdle
  <1>7. ASSUME LoggerFree PROVE Everything' = Everything
    <2>0. PendingAt /\ PendingAt'
      BY PendingIs, PTL
    <2>1. Queued' = Queued /\ output' = output /\ lpc = "free" /\ lpc' = "test"
      BY <1>7 DEF LoggerFree, Queued
    <2> QED BY <2>0, <2>1 DEF PendingAt, Everything
  <1>8. ASSUME Destroy \/ Join \/ UNCHANGED vars PROVE Everything' = Everything
    BY <1>8, StandStill DEF Destroy, Join, vars
  <1> QED
    BY <1>1, <1>2, <1>3, <1>4, <1>5, <1>6, <1>7, <1>8, LoggerMovesLines
       DEF Next, Log, LoggerThread

\* The lines start out empty.
LEMMA InitLines == Init => LinesKept
  <1> SUFFICES ASSUME Init PROVE LinesKept
    OBVIOUS
  <1>1. LinesTyped /\ PendingAt
    BY InitInv, LinesAreTyped, PendingIs
  <1>2. Len(Queued) = 0 /\ Queued \in Seq(Lines)
    BY <1>1 DEF LinesTyped, Init, Queue!Init
  <1>3. Everything = <<>>
    <2>1. Pending = <<>>
      BY <1>1, <1>2, EmptySeq DEF PendingAt, Init
    <2> QED BY <2>1 DEF Everything, Init
  <1>4. DOMAIN Everything = {}
    BY <1>3
  <1>5. Accounted
    BY LoggerAssumption DEF Accounted, Init
  <1>6. CallOrderKept
    BY <1>4 DEF CallOrderKept
  <1> QED BY <1>4, <1>5, <1>6 DEF LinesKept, Out, Init

\* A line is a thread and a call of it.
LEMMA LineParts ==
  ASSUME NEW l \in Lines
  PROVE  l = <<l[1], l[2]>> /\ l[1] \in Threads /\ l[2] \in 1..MaxCalls
  BY DEF Lines

\* Every step keeps the lines in order and accounted for.
LEMMA StepLines == Inv /\ Inv' /\ LinesKept /\ [Next]_vars => LinesKept'
  <1> SUFFICES ASSUME Inv, Inv', LinesKept, [Next]_vars PROVE LinesKept'
    OBVIOUS
  <1> USE LoggerAssumption DEF At, LoggerAt, queue, pool, caller, writer, control
  <1>0. Everything \in Seq(Lines) /\ Everything' \in Seq(Lines)
    <2>1. LinesTyped /\ LinesTyped'
      BY LinesAreTyped, PTL
    <2> QED BY <2>1 DEF LinesTyped
  <1>1. ASSUME NEW t \in Threads, LogEnqueue(t) PROVE LinesKept'
    <2>1. Everything' = Append(Everything, Line(t))
      BY <1>1, EnqueueAppends DEF LogEnqueue, LinesKept
    <2>2. /\ calls' = calls /\ lost' = lost /\ text' = text /\ msg' = msg /\ crashed' = crashed
          /\ pc[t] = "enqueue" /\ pc'[t] = "return" /\ \A u \in Threads : u # t => pc'[u] = pc[u]
      BY <1>1 DEF LogEnqueue, Inv, TypeOK
    <2>3. \A u \in Threads : Line(u)' = Line(u)
      BY <2>2 DEF Line
    <2> DEFINE n == Len(Everything)
    <2>4. /\ n \in Nat /\ DOMAIN Everything = 1..n /\ DOMAIN Everything' = 1..(n + 1)
          /\ \A i \in 1..n : Everything'[i] = Everything[i]
          /\ Everything'[n + 1] = Line(t)
      BY <1>0, <2>1
    <2>5. /\ \A i \in 1..(n + 1) : i \in 1..n \/ i = n + 1
          /\ \A i \in 1..n : i \in 1..(n + 1)
          /\ n + 1 \in 1..(n + 1)
      BY <2>4
    <2> HIDE DEF n
    <2>6. \A l : Out(l)' <=> Out(l) \/ l = Line(t)
      BY <2>4, <2>5 DEF Out
    <2>7. Line(t)[1] = t /\ Line(t)[2] = calls[t] /\ Line(t) \notin lost /\ ~Out(Line(t))
      BY <2>2 DEF LinesKept, Line
    <2>8. calls[t] \in Nat
      BY DEF Inv, TypeOK
    <2>9. ASSUME NEW i \in 1..n, Everything[i][1] = t PROVE Everything[i][2] < calls[t]
      <3>1. Everything[i] \in Lines
        BY <1>0, <2>4
      <3>2. Everything[i] = <<t, Everything[i][2]>> /\ Everything[i][2] \in Nat
        BY <2>9, <3>1, LineParts
      <3>3. Everything[i][2] <= calls[t]
        BY <2>4, <2>9 DEF LinesKept
      <3>4. Everything[i] # <<t, calls[t]>>
        BY <2>4, <2>7 DEF Out, Line
      <3> QED BY <2>8, <3>2, <3>3, <3>4
    <2>10. CallOrderKept'
      <3> SUFFICES ASSUME NEW i \in 1..(n + 1), NEW j \in 1..(n + 1), i < j,
                          Everything'[i][1] = Everything'[j][1]
                   PROVE  Everything'[i][2] < Everything'[j][2]
        BY <2>4 DEF CallOrderKept
      <3>1. i \in 1..n
        BY <2>4
      <3>2. CASE j = n + 1
        BY <2>4, <2>7, <2>9, <3>1, <3>2
      <3>3. CASE j \in 1..n
        BY <2>4, <3>1, <3>3 DEF LinesKept, CallOrderKept
      <3> QED BY <2>5, <3>2, <3>3
    <2>11. (\A i \in DOMAIN Everything : Everything[i][2] <= calls[Everything[i][1]])'
      <3>1. Line(t)[2] <= calls[Line(t)[1]]
        BY <2>7, <2>8
      <3> QED BY <2>2, <2>4, <2>5, <3>1 DEF LinesKept
    <2>12. (\A l \in lost : l[2] <= calls[l[1]] /\ ~Out(l))'
      BY <2>2, <2>6, <2>7 DEF LinesKept
    <2>13. (\A u \in Threads : pc[u] \in {"format", "enqueue"} => Line(u) \notin lost /\ ~Out(Line(u)))'
      <3>1. \A u \in Threads : u # t => Line(u) # Line(t)
        BY DEF Line
      <3> QED BY <2>2, <2>3, <2>6, <3>1 DEF LinesKept
    <2>14. (\A u \in Threads : pc[u] = "enqueue" => text[msg[u]] = Line(u))'
      BY <2>2, <2>3 DEF LinesKept
    <2>15. (\A u \in Threads : pc[u] = "return" => Out(Line(u)))'
      BY <2>2, <2>3, <2>6 DEF LinesKept
    <2>16. Accounted'
      <3> SUFFICES ASSUME NEW u \in Threads, NEW k \in 1..MaxCalls,
                          k < calls'[u] \/ (k = calls'[u] /\ pc'[u] = "idle" /\ ~crashed')
                   PROVE  <<u, k>> \in lost' <=> ~Out(<<u, k>>)'
        BY DEF Accounted, Out
      <3>1. <<u, k>> # Line(t)
        BY <2>2, <2>8 DEF Line
      <3>2. k < calls[u] \/ (k = calls[u] /\ pc[u] = "idle" /\ ~crashed)
        BY <2>2
      <3>3. <<u, k>> \in lost <=> ~Out(<<u, k>>)
        BY <3>2 DEF LinesKept, Accounted, Out
      <3>4. Out(<<u, k>>)' <=> Out(<<u, k>>)
        BY <2>6, <3>1
      <3>5. <<u, k>> \in lost' <=> <<u, k>> \in lost
        BY <2>2
      <3> QED BY <3>3, <3>4, <3>5
    <2> QED BY <2>10, <2>11, <2>12, <2>13, <2>14, <2>15, <2>16 DEF LinesKept
  <1>2. ASSUME \A t \in Threads : ~LogEnqueue(t) PROVE LinesKept'
    <2>1. Everything' = Everything
      BY <1>2, LinesChangeByEnqueue
    <2>2. \A l : Out(l)' <=> Out(l)
      BY <2>1 DEF Out
    <2>3. calls \in [Threads -> 0..MaxCalls] /\ calls' \in [Threads -> 0..MaxCalls]
      BY DEF Inv, TypeOK
    <2>4. \A i \in DOMAIN Everything : Everything[i][1] \in Threads /\ Everything[i][2] \in 1..MaxCalls
      BY <1>0, LineParts
    <2>5. \A l \in lost : l \in Lines /\ l[1] \in Threads /\ l[2] \in 1..MaxCalls
      BY LineParts DEF Inv, TypeOK
    <2>6. CallOrderKept'
      BY <2>1 DEF LinesKept, CallOrderKept
    <2>7. ASSUME NEW t \in Threads, LogAllocate(t) PROVE LinesKept'
      <3>1. /\ calls' = [calls EXCEPT ![t] = @ + 1] /\ lost' = lost /\ text' = text
            /\ pc[t] = "idle" /\ ~crashed
            /\ \A u \in Threads : u # t => pc'[u] = pc[u] /\ msg'[u] = msg[u]
            /\ pc'[t] \in {"idle", "format"} /\ (pc'[t] = "idle" => crashed')
            /\ UNCHANGED crashed \/ crashed'
        BY <2>7 DEF LogAllocate, Inv, TypeOK
      <3>2. calls'[t] = calls[t] + 1 /\ \A u \in Threads : u # t => calls'[u] = calls[u]
        BY <2>3, <3>1
      <3>3. \A u \in Threads : calls[u] \in Nat /\ calls'[u] \in Nat /\ calls[u] <= calls'[u]
        BY <2>3, <3>2
      <3>4. (\A i \in DOMAIN Everything : Everything[i][2] <= calls[Everything[i][1]])'
        BY <2>1, <2>4, <3>3 DEF LinesKept
      <3>5. (\A l \in lost : l[2] <= calls[l[1]] /\ ~Out(l))'
        BY <2>2, <2>5, <3>1, <3>3 DEF LinesKept
      <3>6. Line(t)' \notin lost /\ ~Out(Line(t)')
        <4>1. Line(t)'[1] = t /\ Line(t)'[2] = calls[t] + 1
          BY <3>2 DEF Line
        <4> QED BY <2>4, <2>5, <3>3, <4>1 DEF LinesKept, Out
      <3>7. \A u \in Threads : u # t => Line(u)' = Line(u)
        BY <3>2 DEF Line
      <3>8. (\A u \in Threads : pc[u] \in {"format", "enqueue"} => Line(u) \notin lost /\ ~Out(Line(u)))'
        BY <2>2, <3>1, <3>6, <3>7 DEF LinesKept
      <3>9. (\A u \in Threads : pc[u] = "enqueue" => text[msg[u]] = Line(u))'
        BY <3>1, <3>7 DEF LinesKept
      <3>10. (\A u \in Threads : pc[u] = "return" => Out(Line(u)))'
        BY <2>2, <3>1, <3>7 DEF LinesKept
      <3>11. Accounted'
        <4> SUFFICES ASSUME NEW u \in Threads, NEW n \in 1..MaxCalls,
                            n < calls'[u] \/ (n = calls'[u] /\ pc'[u] = "idle" /\ ~crashed')
                     PROVE  <<u, n>> \in lost' <=> ~Out(<<u, n>>)'
          BY DEF Accounted, Out
        <4>1. n < calls[u] \/ (n = calls[u] /\ pc[u] = "idle" /\ ~crashed)
          BY <3>1, <3>2, <3>3
        <4>2. <<u, n>> \in lost <=> ~Out(<<u, n>>)
          BY <4>1 DEF LinesKept, Accounted, Out
        <4> QED BY <2>2, <3>1, <4>2
      <3> QED BY <2>6, <3>4, <3>5, <3>8, <3>9, <3>10, <3>11 DEF LinesKept
    <2>8. ASSUME NEW t \in Threads, LogFormat(t) PROVE LinesKept'
      <3>1. /\ calls' = calls /\ lost' = lost /\ msg' = msg /\ crashed' = crashed
            /\ pc[t] = "format" /\ pc'[t] = "enqueue"
            /\ \A u \in Threads : u # t => pc'[u] = pc[u]
            /\ text' = [text EXCEPT ![msg[t]] = Line(t)] /\ msg[t] \in Slots
        BY <2>8 DEF LogFormat, Inv, TypeOK, Hands
      <3>2. \A u \in Threads : Line(u)' = Line(u)
        BY <3>1 DEF Line
      <3>3. (\A u \in Threads : pc[u] = "enqueue" => text[msg[u]] = Line(u))'
        <4>1. text'[msg[t]] = Line(t)
          BY <3>1 DEF Inv, TypeOK
        <4>2. ASSUME NEW u \in Threads, u # t, pc[u] = "enqueue"
              PROVE  text'[msg[u]] = text[msg[u]]
          <5>1. Filling(t, msg[t]) /\ Filling(u, msg[u]) /\ msg[u] \in Slots
            BY <3>1, <4>2 DEF Filling, Inv, Hands
          <5>2. msg[u] # msg[t]
            BY <3>1, <4>2, <5>1 DEF Inv, OneHolder
          <5> QED BY <3>1, <5>1, <5>2 DEF Inv, TypeOK
        <4> QED BY <3>1, <3>2, <4>1, <4>2 DEF LinesKept
      <3>4. Accounted'
        <4> SUFFICES ASSUME NEW u \in Threads, NEW n \in 1..MaxCalls,
                            n < calls'[u] \/ (n = calls'[u] /\ pc'[u] = "idle" /\ ~crashed')
                     PROVE  <<u, n>> \in lost' <=> ~Out(<<u, n>>)'
          BY DEF Accounted, Out
        <4>1. n < calls[u] \/ (n = calls[u] /\ pc[u] = "idle" /\ ~crashed)
          BY <3>1
        <4>2. <<u, n>> \in lost <=> ~Out(<<u, n>>)
          BY <4>1 DEF LinesKept, Accounted, Out
        <4> QED BY <2>2, <3>1, <4>2
      <3>5. (\A i \in DOMAIN Everything : Everything[i][2] <= calls[Everything[i][1]])'
        BY <2>1, <3>1 DEF LinesKept
      <3>6. (\A l \in lost : l[2] <= calls[l[1]] /\ ~Out(l))'
        BY <2>2, <3>1 DEF LinesKept
      <3>7. (\A u \in Threads : pc[u] \in {"format", "enqueue"} => Line(u) \notin lost /\ ~Out(Line(u)))'
        BY <2>2, <3>1, <3>2 DEF LinesKept
      <3>8. (\A u \in Threads : pc[u] = "return" => Out(Line(u)))'
        BY <2>2, <3>1, <3>2 DEF LinesKept
      <3> QED BY <2>6, <3>3, <3>4, <3>5, <3>6, <3>7, <3>8 DEF LinesKept
    <2>9. ASSUME NEW t \in Threads, LogEncodingError(t) \/ LogRefused(t) PROVE LinesKept'
      <3>1. /\ calls' = calls /\ lost' = lost \cup {Line(t)} /\ text' = text /\ crashed' = crashed
            /\ pc[t] \in {"format", "enqueue"} /\ pc'[t] = "idle"
            /\ \A u \in Threads : u # t => pc'[u] = pc[u] /\ msg'[u] = msg[u]
        BY <2>9 DEF LogEncodingError, LogRefused, Inv, TypeOK
      <3>2. \A u \in Threads : Line(u)' = Line(u)
        BY <3>1 DEF Line
      <3>3. ~Out(Line(t)) /\ Line(t)[1] = t /\ Line(t)[2] = calls[t]
        BY <3>1 DEF LinesKept, Line
      <3>4. Accounted'
        <4> SUFFICES ASSUME NEW u \in Threads, NEW n \in 1..MaxCalls,
                            n < calls'[u] \/ (n = calls'[u] /\ pc'[u] = "idle" /\ ~crashed')
                     PROVE  <<u, n>> \in lost' <=> ~Out(<<u, n>>)'
          BY DEF Accounted, Out
        <4>1. CASE u = t /\ n = calls[t]
          <5>1. <<u, n>> = Line(t)
            BY <4>1 DEF Line
          <5>2. <<u, n>> \in lost' /\ ~Out(<<u, n>>)'
            BY <2>2, <3>1, <3>3, <5>1
          <5> QED BY <5>2
        <4>2. CASE ~(u = t /\ n = calls[t])
          <5>1. n < calls[u] \/ (n = calls[u] /\ pc[u] = "idle" /\ ~crashed)
            BY <3>1, <4>2
          <5>2. <<u, n>> \in lost <=> ~Out(<<u, n>>)
            BY <5>1 DEF LinesKept, Accounted, Out
          <5>3. <<u, n>> # Line(t)
            BY <4>2 DEF Line
          <5>4. <<u, n>> \in lost' <=> <<u, n>> \in lost
            BY <3>1, <5>3
          <5>5. Out(<<u, n>>)' <=> Out(<<u, n>>)
            BY <2>2
          <5> QED BY <5>2, <5>4, <5>5
        <4> QED BY <4>1, <4>2
      <3>5. (\A i \in DOMAIN Everything : Everything[i][2] <= calls[Everything[i][1]])'
        BY <2>1, <3>1 DEF LinesKept
      <3>6. (\A l \in lost : l[2] <= calls[l[1]] /\ ~Out(l))'
        <4>1. Line(t)[2] <= calls[Line(t)[1]]
          BY <2>3, <3>3
        <4> QED BY <2>2, <3>1, <3>3, <4>1 DEF LinesKept
      <3>7. (\A u \in Threads : pc[u] \in {"format", "enqueue"} => Line(u) \notin lost /\ ~Out(Line(u)))'
        <4>1. \A u \in Threads : u # t => Line(u) # Line(t)
          BY DEF Line
        <4> QED BY <2>2, <3>1, <3>2, <4>1 DEF LinesKept
      <3>8. (\A u \in Threads : pc[u] = "return" => Out(Line(u)))'
        BY <2>2, <3>1, <3>2 DEF LinesKept
      <3>9. (\A u \in Threads : pc[u] = "enqueue" => text[msg[u]] = Line(u))'
        BY <3>1, <3>2 DEF LinesKept
      <3> QED BY <2>6, <3>4, <3>5, <3>6, <3>7, <3>8, <3>9 DEF LinesKept
    <2>10. ASSUME NEW t \in Threads, LogReturn(t) PROVE LinesKept'
      <3>1. /\ calls' = calls /\ lost' = lost /\ text' = text /\ crashed' = crashed
            /\ pc[t] = "return" /\ pc'[t] = "idle"
            /\ \A u \in Threads : u # t => pc'[u] = pc[u] /\ msg'[u] = msg[u]
        BY <2>10 DEF LogReturn, Inv, TypeOK
      <3>2. \A u \in Threads : Line(u)' = Line(u)
        BY <3>1 DEF Line
      <3>3. Out(Line(t)) /\ Line(t) \notin lost
        BY <3>1 DEF LinesKept
      <3>4. Accounted'
        <4> SUFFICES ASSUME NEW u \in Threads, NEW n \in 1..MaxCalls,
                            n < calls'[u] \/ (n = calls'[u] /\ pc'[u] = "idle" /\ ~crashed')
                     PROVE  <<u, n>> \in lost' <=> ~Out(<<u, n>>)'
          BY DEF Accounted, Out
        <4>1. CASE u = t /\ n = calls[t]
          <5>1. <<u, n>> = Line(t)
            BY <4>1 DEF Line
          <5>2. <<u, n>> \notin lost' /\ Out(<<u, n>>)'
            BY <2>2, <3>1, <3>3, <5>1
          <5> QED BY <5>2
        <4>2. CASE ~(u = t /\ n = calls[t])
          <5>1. n < calls[u] \/ (n = calls[u] /\ pc[u] = "idle" /\ ~crashed)
            BY <3>1, <4>2
          <5>2. <<u, n>> \in lost <=> ~Out(<<u, n>>)
            BY <5>1 DEF LinesKept, Accounted, Out
          <5> QED BY <2>2, <3>1, <5>2
        <4> QED BY <4>1, <4>2
      <3>5. (\A i \in DOMAIN Everything : Everything[i][2] <= calls[Everything[i][1]])'
        BY <2>1, <3>1 DEF LinesKept
      <3>6. (\A l \in lost : l[2] <= calls[l[1]] /\ ~Out(l))'
        BY <2>2, <3>1 DEF LinesKept
      <3>7. (\A u \in Threads : pc[u] \in {"format", "enqueue"} => Line(u) \notin lost /\ ~Out(Line(u)))'
        BY <2>2, <3>1, <3>2 DEF LinesKept
      <3>8. (\A u \in Threads : pc[u] = "return" => Out(Line(u)))'
        BY <2>2, <3>1, <3>2 DEF LinesKept
      <3>9. (\A u \in Threads : pc[u] = "enqueue" => text[msg[u]] = Line(u))'
        BY <3>1, <3>2 DEF LinesKept
      <3> QED BY <2>6, <3>4, <3>5, <3>6, <3>7, <3>8, <3>9 DEF LinesKept
    <2>11. ASSUME UNCHANGED <<pc, msg, calls, text, lost, crashed>> PROVE LinesKept'
      BY <2>1, <2>11 DEF LinesKept, CallOrderKept, Accounted, Out, Line
    <2> QED
      BY <1>2, <2>7, <2>8, <2>9, <2>10, <2>11
         DEF Next, Log, LoggerThread, LoggerTest, LoggerDequeue, LoggerGot, LoggerIdle,
             LoggerWrite, LoggerFree, Destroy, Join, vars
  <1> QED BY <1>1, <1>2

LEMMA LinesInvariant == Spec => []LinesKept
  BY Invariance, InitLines, StepLines, PTL DEF Spec

\* However many threads log, and however LoggerThread, refused messages and
\* failing calls come between, the lines of a thread come out in the order of
\* its calls and none of them twice.
THEOREM LinesInCallOrder == Spec => []CallOrderKept
  BY LinesInvariant, PTL DEF LinesKept

\* A line whose call is over has come out, waits, or was lost to a call that
\* failed, and exactly one of these.
THEOREM EveryLineAccounted == Spec => []Accounted
  BY LinesInvariant, PTL DEF LinesKept
=============================================================================
