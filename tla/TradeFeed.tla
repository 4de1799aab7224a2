----------------------------- MODULE TradeFeed -----------------------------
(***************************************************************************)
(* The market-data path of HFT/TickerServer: ITCHTickerServer multicasts a *)
(* stored sequence of trades and answers gap requests over TCP;            *)
(* ITCHTradeReceiver reads the multicast in one thread, and in another     *)
(* puts the trades in sequence, asking for the ones it misses.             *)
(*                                                                         *)
(* A trade is its sequence number.  Messages live in slots of a shared     *)
(* pool (content says which trade a slot holds), and the receiver passes   *)
(* slots to the sequencer through the SPSC ring, whose contract RingQueue  *)
(* this module uses.  The multicast is UDP: packets are lost, repeated and *)
(* reordered.  TCP keeps its order, but a read may come up short, be       *)
(* interrupted, or find the connection closed.  faults says which of these *)
(* a behaviour may meet; it is chosen once, so that properties can speak   *)
(* of behaviours without them.                                             *)
(***************************************************************************)
EXTENDS Integers, Sequences, FiniteSets

CONSTANTS
    StoreSize,   \* the number of trades in TradeMsgStore
    Slots,       \* the messages of msgPool
    NULL,        \* nullptr
    FRAG,        \* what a short read leaves of a message in the TCP stream
    RecvCap,     \* capacity of tradeReceiverToSequencerQ
    SendCap,     \* capacity of sendQ
    FaultKinds,  \* the TCP faults explored: "close", "interrupt", "partial"
    PastOverrun  \* bound: whether behaviours go on after a ring was overrun

ASSUME FeedAssumption ==
    /\ StoreSize \in Nat
    /\ NULL \notin Slots
    /\ FRAG \notin Nat
    /\ RecvCap \in Nat \ {0}
    /\ SendCap \in Nat \ {0}
    /\ PastOverrun \in BOOLEAN

VARIABLES
    mcast,       \* how many trades the multicast server has sent
    requests,    \* gap requests on their way to the snapshot server
    stream,      \* its answers, on their way back
    closed,      \* the recovery connection is gone
    faults,      \* the TCP faults of this behaviour
    free,        \* msgPool: the slots allocate may hand out
    content,     \* content[s]: the sequence_number in slot s, free slots too
    rpc,         \* where the receiver thread is
    rmsg,        \* its msg
    recvItems,   \* recvQueue: the slots in it, oldest first
    recvClaim,   \* recvQueue: the slot claimed by an unfinished dequeue
    spc,         \* where the sequencer thread is
    smsg,        \* its msg: what the last dequeue returned
    nextSequence,\* nextSequence_
    missing,     \* numMessages - messagesReceived
    sendItems,   \* sendQueue: the slots in it, oldest first
    running,     \* the threads whose runFlag_ is set
    dead,        \* an exception left a thread, or the program crashed
    overrun,     \* history: an enqueue has met a ring with no unused slot
    delivered    \* history: the trades read from sendQueue

recvQ == <<recvItems, recvClaim>>
receiver == <<rpc, rmsg>>
sequencer == <<spc, nextSequence, missing>>
network == <<mcast, requests, stream, closed, faults>>
pool == <<free, content>>
vars == <<network, pool, receiver, recvQ, sequencer, smsg, sendItems, running,
          dead, overrun, delivered>>

Ring == INSTANCE RingQueue WITH
    Msgs <- Slots, Capacity <- RecvCap,
    items <- recvItems, claim <- recvClaim, out <- smsg

Seqs == 0..(StoreSize - 1)

Init ==
    /\ mcast = 0 /\ requests = <<>> /\ stream = <<>> /\ closed = FALSE
    /\ faults \in SUBSET FaultKinds
    /\ free = Slots /\ content = [s \in Slots |-> 0]
    /\ rpc = "top" /\ rmsg = NULL
    /\ recvItems = <<>> /\ recvClaim = NULL
    /\ spc = "poll" /\ smsg = NULL /\ nextSequence = 0 /\ missing = 0
    /\ sendItems = <<>>
    /\ running = {"receiver", "sequencer"} /\ dead = FALSE /\ overrun = FALSE
    /\ delivered = <<>>

Die == dead' = TRUE

\* deallocate: the slot's bytes stay until its next user writes it.
Deallocate(s) ==
    /\ free' = free \cup {s}
    /\ UNCHANGED content

-----------------------------------------------------------------------------
(* ITCHTickerServer                                                        *)

\* MulticastServer::serveClients: the next trade goes out.
Multicast ==
    /\ mcast < StoreSize
    /\ mcast' = mcast + 1
    /\ UNCHANGED <<requests, stream, closed, faults, pool, receiver, recvQ, sequencer, smsg,
                   sendItems, running, dead, overrun, delivered>>

\* SnapshotServer::serveGapRequest.
ServeGapRequest ==
    /\ requests # <<>>
    /\ ~closed
    /\ LET r == Head(requests)
       IN  stream' = stream \o [i \in 1..(r.end - r.start + 1) |-> r.start + i - 1]
    /\ requests' = Tail(requests)
    /\ UNCHANGED <<mcast, closed, faults, pool, receiver, recvQ, sequencer, smsg,
                   sendItems, running, dead, overrun, delivered>>

\* Two requests in one read are not the size of one: both are ignored.
IgnoreRequests ==
    /\ Len(requests) >= 2
    /\ ~closed
    /\ requests' = <<>>
    /\ UNCHANGED <<mcast, stream, closed, faults, pool, receiver, recvQ, sequencer, smsg,
                   sendItems, running, dead, overrun, delivered>>

\* The recovery connection breaks; what was received before can still be read.
CloseConnection ==
    /\ "close" \in faults
    /\ ~closed
    /\ closed' = TRUE
    /\ requests' = <<>>
    /\ UNCHANGED <<mcast, stream, faults, pool, receiver, recvQ, sequencer, smsg,
                   sendItems, running, dead, overrun, delivered>>

-----------------------------------------------------------------------------
(* MulticastTradeDataReceiver::run                                         *)

\* The loop test and allocate.  An exhausted pool ends the program.
ReceiverAllocate ==
    /\ ~dead
    /\ rpc = "top"
    /\ IF "receiver" \notin running THEN
          rpc' = "done" /\ UNCHANGED <<rmsg, free, dead>>
       ELSE IF free = {} THEN
          Die /\ UNCHANGED <<rpc, rmsg, free>>
       ELSE
          /\ \E s \in free : rmsg' = s /\ free' = free \ {s}
          /\ rpc' = "recv"
          /\ UNCHANGED dead
    /\ UNCHANGED <<network, content, recvQ, sequencer, smsg, sendItems, running, overrun, delivered>>

\* recv returns any packet the server has sent: late, again, or in its turn.
ReceiverPacket(n) ==
    /\ ~dead
    /\ rpc = "recv"
    /\ n < mcast
    /\ content' = [content EXCEPT ![rmsg] = n]
    /\ rpc' = "enqueue"
    /\ UNCHANGED <<network, free, rmsg, recvQ, sequencer, smsg, sendItems, running,
                   dead, overrun, delivered>>

\* recv fails: the message goes back to the pool.
ReceiverError ==
    /\ ~dead
    /\ rpc = "recv"
    /\ Deallocate(rmsg)
    /\ rmsg' = NULL
    /\ rpc' = "top"
    /\ UNCHANGED <<network, recvQ, sequencer, smsg, sendItems, running,
                   dead, overrun, delivered>>

\* The result of enqueue is not looked at: a full queue loses the message, and
\* with it its slot.
ReceiverEnqueue ==
    /\ ~dead
    /\ rpc = "enqueue"
    /\ IF Len(recvItems) < RecvCap THEN Ring!Enqueue(rmsg) ELSE UNCHANGED <<recvQ, smsg>>
    /\ overrun' = (overrun \/ Len(recvItems) + (IF recvClaim = NULL THEN 0 ELSE 1) >= RecvCap)
    /\ rmsg' = NULL
    /\ rpc' = "top"
    /\ UNCHANGED <<network, pool, sequencer, sendItems, running, dead, delivered>>

-----------------------------------------------------------------------------
(* TradeDataSequencer::run and TradeRecoveryManager                        *)

\* sendQueue_.enqueue(msg); ++nextSequence_, the result not looked at.
Forward(s) ==
    /\ sendItems' = IF Len(sendItems) < SendCap THEN Append(sendItems, s) ELSE sendItems
    /\ nextSequence' = nextSequence + 1
    /\ overrun' = (overrun \/ Len(sendItems) = SendCap)

\* The loop test fails.
SequencerStop ==
    /\ ~dead
    /\ spc = "poll"
    /\ "sequencer" \notin running
    /\ spc' = "done"
    /\ UNCHANGED <<network, pool, receiver, recvQ, nextSequence, missing, smsg,
                   sendItems, running, dead, overrun, delivered>>

\* The loop test, and dequeue up to its fetch_add on head_.
SequencerClaim ==
    /\ ~dead
    /\ spc = "poll"
    /\ "sequencer" \in running
    /\ Ring!Claim
    /\ spc' = "read"
    /\ UNCHANGED <<network, pool, receiver, nextSequence, missing, sendItems, running,
                   dead, overrun, delivered>>

SequencerRead ==
    /\ ~dead
    /\ spc = "read"
    /\ Ring!Deliver
    /\ spc' = "check"
    /\ UNCHANGED <<network, pool, receiver, nextSequence, missing, sendItems, running,
                   dead, overrun, delivered>>

\* Mutant: a dropped message is not given back to the pool.
SequencerDropLeaks ==
    /\ ~dead
    /\ spc = "check"
    /\ content[smsg] < nextSequence
    /\ smsg' = NULL
    /\ spc' = "poll"
    /\ UNCHANGED <<network, pool, receiver, recvQ, nextSequence, missing, sendItems,
                   running, dead, overrun, delivered>>

\* An old message is dropped.
SequencerDrop ==
    /\ ~dead
    /\ spc = "check"
    /\ content[smsg] < nextSequence
    /\ Deallocate(smsg)
    /\ smsg' = NULL
    /\ spc' = "poll"
    /\ UNCHANGED <<network, receiver, recvQ, nextSequence, missing, sendItems,
                   running, dead, overrun, delivered>>

\* Mutant: the range asked for includes the message that showed the gap.
SequencerGapInclusive ==
    /\ ~dead
    /\ spc = "check"
    /\ content[smsg] > nextSequence
    /\ requests' = Append(requests, [start |-> nextSequence, end |-> content[smsg]])
    /\ missing' = content[smsg] - nextSequence + 1
    /\ spc' = "recover"
    /\ UNCHANGED <<mcast, stream, closed, faults, pool, receiver, recvQ, nextSequence, smsg,
                   sendItems, running, dead, overrun, delivered>>

\* Mutant: one message more is waited for than was asked for.
SequencerGapOneMore ==
    /\ ~dead
    /\ spc = "check"
    /\ content[smsg] > nextSequence
    /\ requests' = Append(requests, [start |-> nextSequence, end |-> content[smsg] - 1])
    /\ missing' = content[smsg] - nextSequence + 1
    /\ spc' = "recover"
    /\ UNCHANGED <<mcast, stream, closed, faults, pool, receiver, recvQ, nextSequence, smsg,
                   sendItems, running, dead, overrun, delivered>>

\* A request into a connection that is gone is lost.
sendRecoveryRequest(startSeq, endSeq) ==
    requests' = IF closed THEN requests
                ELSE Append(requests, [start |-> startSeq, end |-> endSeq])

\* A gap: recover(nextSequence_, sequence_number - 1).  On a connection the
\* server has closed, the send may still seem to succeed, or throws.
SequencerGap ==
    /\ ~dead
    /\ spc = "check"
    /\ content[smsg] > nextSequence
    /\ \/ /\ sendRecoveryRequest(nextSequence, content[smsg] - 1)
          /\ missing' = content[smsg] - nextSequence
          /\ spc' = "recover"
          /\ UNCHANGED dead
       \/ /\ closed
          /\ Die
          /\ UNCHANGED <<requests, missing, spc>>
    /\ UNCHANGED <<mcast, stream, closed, faults, pool, receiver, recvQ, nextSequence, smsg,
                   sendItems, running, overrun, delivered>>

\* Mutant: an old message is taken for the one that is due.
SequencerForwardOld ==
    /\ ~dead
    /\ \/ spc = "check" /\ content[smsg] <= nextSequence
       \/ spc = "forward"
    /\ Forward(smsg)
    /\ smsg' = NULL
    /\ spc' = "poll"
    /\ UNCHANGED <<network, pool, receiver, recvQ, missing, running, dead, delivered>>

\* The message that was due, or the one that showed the gap once the recovery
\* has returned.
SequencerForward ==
    /\ ~dead
    /\ \/ spc = "check" /\ content[smsg] = nextSequence
       \/ spc = "forward"
    /\ Forward(smsg)
    /\ smsg' = NULL
    /\ spc' = "poll"
    /\ UNCHANGED <<network, pool, receiver, recvQ, missing, running, dead, delivered>>

\* epoll_wait reports the socket readable: a message, or the end of it.
Readable == stream # <<>> \/ closed

\* Its first act is allocate, whose result is not checked.
RecoverExhausted ==
    /\ ~dead
    /\ spc = "recover"
    /\ Readable
    /\ free = {}
    /\ Die
    /\ UNCHANGED <<network, pool, receiver, recvQ, sequencer, smsg, sendItems, running,
                   overrun, delivered>>

\* A whole message: onRecoveredMsg checks its number, which bytes read behind
\* a short read never have, and throws on a mismatch.
RecoverMessage ==
    /\ ~dead
    /\ spc = "recover"
    /\ free # {}
    /\ stream \notin {<<>>, <<FRAG>>}
    /\ IF Head(stream) # nextSequence THEN
          Die /\ UNCHANGED <<stream, pool, nextSequence, missing, spc, sendItems, overrun>>
       ELSE
          /\ \E s \in free :
                /\ free' = free \ {s}
                /\ content' = [content EXCEPT ![s] = Head(stream)]
                /\ Forward(s)
          /\ stream' = Tail(stream)
          /\ missing' = missing - 1
          /\ spc' = IF missing = 1 THEN "forward" ELSE "recover"
          /\ UNCHANGED dead
    /\ UNCHANGED <<mcast, requests, closed, faults, receiver, recvQ, smsg, running,
                   delivered>>

\* The non-blocking recv returns a part of a message, which is thrown away.
RecoverPartial ==
    /\ ~dead
    /\ spc = "recover"
    /\ free # {}
    /\ stream # <<>>
    /\ \/ "partial" \in faults /\ stream' = <<FRAG>> \o Tail(stream)
       \/ stream = <<FRAG>> /\ stream' = <<>>
    /\ UNCHANGED <<mcast, requests, closed, faults, pool, receiver, recvQ, sequencer, smsg,
                   sendItems, running, dead, overrun, delivered>>

\* recv finds the connection closed, or epoll_wait fails: the loop is left
\* with messages still missing.
RecoverBreak ==
    /\ ~dead
    /\ spc = "recover"
    /\ \/ closed /\ stream = <<>> /\ free # {}
       \/ "interrupt" \in faults
    /\ spc' = "forward"
    /\ missing' = 0
    /\ UNCHANGED <<network, pool, receiver, recvQ, nextSequence, smsg, sendItems,
                   running, dead, overrun, delivered>>

-----------------------------------------------------------------------------
(* main, and the reader of sendQ, which the repository leaves to its user. *)

\* main stops the sequencer, then the receiver.
Stop ==
    /\ ~dead
    /\ running # {}
    /\ running' = running \ (IF "sequencer" \in running THEN {"sequencer"} ELSE running)
    /\ UNCHANGED <<network, pool, receiver, recvQ, sequencer, smsg, sendItems, dead,
                   overrun, delivered>>

Consume ==
    /\ ~dead
    /\ sendItems # <<>>
    /\ delivered' = Append(delivered, content[Head(sendItems)])
    /\ Deallocate(Head(sendItems))
    /\ sendItems' = Tail(sendItems)
    /\ UNCHANGED <<network, receiver, recvQ, sequencer, smsg, running, dead, overrun>>

Server == Multicast \/ ServeGapRequest \/ IgnoreRequests \/ CloseConnection

Receiver ==
    \/ ReceiverAllocate
    \/ \E n \in Seqs : ReceiverPacket(n)
    \/ ReceiverError
    \/ ReceiverEnqueue

Sequencer ==
    \/ SequencerStop
    \/ SequencerClaim
    \/ SequencerRead
    \/ SequencerDrop
    \/ SequencerGap
    \/ SequencerForward
    \/ RecoverExhausted
    \/ RecoverMessage
    \/ RecoverPartial
    \/ RecoverBreak

Next ==
    /\ overrun => PastOverrun
    /\ Server \/ Receiver \/ Sequencer \/ Stop \/ Consume

\* The sequencer thread keeps running and the snapshot server keeps answering.
Fairness ==
    /\ WF_vars(Sequencer)
    /\ WF_vars(ServeGapRequest)

Spec == Init /\ [][Next]_vars /\ Fairness

-----------------------------------------------------------------------------
(* Properties.                                                             *)

TypeOK ==
    /\ mcast \in 0..StoreSize
    /\ requests \in Seq([start : Seqs, end : Seqs])
    /\ stream \in Seq(Seqs \cup {FRAG})
    /\ free \subseteq Slots
    /\ content \in [Slots -> Seqs \cup {0}]
    /\ rpc \in {"top", "recv", "enqueue", "done"}
    /\ rmsg \in Slots \cup {NULL}
    /\ recvItems \in Seq(Slots)
    /\ recvClaim \in Slots \cup {NULL}
    /\ spc \in {"poll", "read", "check", "recover", "forward", "done"}
    /\ smsg \in Slots \cup {NULL}
    /\ nextSequence \in 0..StoreSize
    /\ missing \in 0..StoreSize
    /\ sendItems \in Seq(Slots)
    /\ running \subseteq {"receiver", "sequencer"}
    /\ {closed, dead, overrun} \subseteq BOOLEAN

\* The trades come out of the sequencer as 0, 1, 2, ... with none missing,
\* repeated or out of order: what the blocking recovery is there for.
InSequence == \A i \in DOMAIN delivered : delivered[i] = i - 1

\* Whatever UDP does to the packets, they do so while TCP works and neither
\* ring is overrun.
InSequenceWithoutFaults == faults = {} /\ ~overrun => InSequence

\* With TCP faults too, nextSequence_ never runs ahead of the trades: a trade
\* that is forwarded is at least as new as the number of trades before it.
NeverRunsAhead == ~overrun => \A i \in DOMAIN delivered : delivered[i] >= i - 1

Holders(s) ==
    Cardinality({i \in DOMAIN recvItems : recvItems[i] = s})
    + Cardinality({i \in DOMAIN sendItems : sendItems[i] = s})
    + Cardinality({v \in {<<"r", rmsg>>, <<"s", smsg>>, <<"c", recvClaim>>} : v[2] = s})

\* A message is in one place: a slot is free, or exactly one queue or thread
\* has it.  So, until a ring is overrun, nothing is read after it was
\* deallocated, nothing is deallocated twice, and no slot leaks.
OneHolder ==
    /\ TypeOK
    /\ ~overrun => \A s \in Slots : Holders(s) = IF s \in free THEN 0 ELSE 1

\* A packet that reached the sequencer's queue makes the sequencer catch up
\* with it, recovery included, while TCP works and the program is neither
\* stopped nor dead nor overrun.
CatchesUp ==
    \A n \in Seqs :
        (faults = {} /\ \E i \in DOMAIN recvItems : content[recvItems[i]] = n)
            ~> (nextSequence > n \/ dead \/ overrun \/ "sequencer" \notin running)
=============================================================================
