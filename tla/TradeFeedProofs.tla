-------------------------- MODULE TradeFeedProofs --------------------------
(***************************************************************************)
(* Proofs about TradeFeed, for any number of trades and slots and any      *)
(* capacities: until a ring is overrun a message is in one place, the      *)
(* sequencer never runs ahead of the trades, and while TCP works it        *)
(* delivers all of them in sequence, whatever UDP does to the packets.     *)
(***************************************************************************)
EXTENDS TradeFeed, FiniteSetTheorems, SequenceTheorems, TLAPS

-----------------------------------------------------------------------------
(* Queues of slots.                                                        *)

Elems(q) == {q[i] : i \in DOMAIN q}

Distinct(q) == \A i, j \in DOMAIN q : q[i] = q[j] => i = j

LEMMA Appended ==
  ASSUME NEW S, NEW q \in Seq(S), NEW x \in S
  PROVE  /\ Append(q, x) \in Seq(S) /\ Len(Append(q, x)) = Len(q) + 1
         /\ \A i \in 1..Len(q) : Append(q, x)[i] = q[i]
         /\ Append(q, x)[Len(q) + 1] = x
         /\ Elems(Append(q, x)) = Elems(q) \cup {x}
         /\ Distinct(q) /\ x \notin Elems(q) => Distinct(Append(q, x))
  <1> DEFINE r == Append(q, x)
  <1>1. /\ r \in Seq(S) /\ Len(r) = Len(q) + 1
        /\ \A i \in 1..Len(q) : r[i] = q[i]
        /\ r[Len(q) + 1] = x
    BY AppendProperties
  <1>2. DOMAIN q = 1..Len(q) /\ DOMAIN r = 1..(Len(q) + 1) /\ Len(q) \in Nat
    BY <1>1, LenProperties
  <1> HIDE DEF r
  <1>3. Elems(r) = Elems(q) \cup {x}
    <2>1. \A i \in 1..Len(q) : i \in 1..(Len(q) + 1)
      BY <1>2
    <2>2. Len(q) + 1 \in 1..(Len(q) + 1)
      BY <1>2
    <2>3. \A i \in 1..(Len(q) + 1) : i \in 1..Len(q) \/ i = Len(q) + 1
      BY <1>2
    <2> QED BY <1>1, <1>2, <2>1, <2>2, <2>3 DEF Elems
  <1>4. ASSUME Distinct(q), x \notin Elems(q) PROVE Distinct(r)
    <2>1. \A i \in 1..Len(q) : q[i] # x
      BY <1>2, <1>4 DEF Elems
    <2>2. \A i \in 1..(Len(q) + 1) : i \in 1..Len(q) \/ i = Len(q) + 1
      BY <1>2
    <2> QED BY <1>1, <1>2, <1>4, <2>1, <2>2 DEF Distinct
  <1> QED BY <1>1, <1>3, <1>4 DEF r

LEMMA Removed ==
  ASSUME NEW S, NEW q \in Seq(S), q # <<>>
  PROVE  /\ Head(q) \in S /\ Head(q) \in Elems(q) /\ Head(q) = q[1] /\ Len(q) \in Nat \ {0}
         /\ Tail(q) \in Seq(S) /\ Len(Tail(q)) = Len(q) - 1
         /\ \A i \in 1..(Len(q) - 1) : Tail(q)[i] = q[i + 1]
         /\ Distinct(q) => Distinct(Tail(q)) /\ Elems(Tail(q)) = Elems(q) \ {Head(q)}
  <1> DEFINE r == Tail(q)
  <1>1. /\ Head(q) \in S /\ Head(q) = q[1] /\ Len(q) \in Nat \ {0}
        /\ r \in Seq(S) /\ Len(r) = Len(q) - 1
        /\ \A i \in 1..(Len(q) - 1) : r[i] = q[i + 1]
    BY HeadTailProperties, EmptySeq, LenProperties
  <1>2. DOMAIN q = 1..Len(q) /\ DOMAIN r = 1..(Len(q) - 1)
    BY <1>1, LenProperties
  <1> HIDE DEF r
  <1>3. Head(q) \in Elems(q)
    BY <1>1, <1>2 DEF Elems
  <1>4. ASSUME Distinct(q) PROVE Distinct(r) /\ Elems(r) = Elems(q) \ {Head(q)}
    <2>1. \A i \in 1..(Len(q) - 1) : i + 1 \in 1..Len(q) /\ i + 1 # 1
      BY <1>1
    <2>2. Distinct(r)
      <3> SUFFICES ASSUME NEW i \in 1..(Len(q) - 1), NEW j \in 1..(Len(q) - 1), r[i] = r[j] PROVE i = j
        BY <1>2 DEF Distinct
      <3>1. q[i + 1] = q[j + 1]
        BY <1>1
      <3>2. i + 1 = j + 1
        BY <1>2, <1>4, <2>1, <3>1 DEF Distinct
      <3> QED BY <3>2
    <2>3. ASSUME NEW y \in Elems(r) PROVE y \in Elems(q) /\ y # Head(q)
      <3>1. PICK i \in 1..(Len(q) - 1) : y = r[i]
        BY <1>2, <2>3 DEF Elems
      <3>2. y = q[i + 1] /\ i + 1 \in 1..Len(q)
        BY <1>1, <2>1, <3>1
      <3>3. q[i + 1] # q[1]
        BY <1>1, <1>2, <1>4, <2>1 DEF Distinct
      <3> QED BY <1>1, <1>2, <3>2, <3>3 DEF Elems
    <2>4. ASSUME NEW y \in Elems(q), y # Head(q) PROVE y \in Elems(r)
      <3>1. PICK i \in 1..Len(q) : y = q[i]
        BY <1>2, <2>4 DEF Elems
      <3>2. i # 1
        BY <1>1, <2>4, <3>1
      <3>3. i - 1 \in 1..(Len(q) - 1) /\ (i - 1) + 1 = i
        BY <1>1, <3>2
      <3>4. r[i - 1] = q[i]
        BY <1>1, <3>3
      <3> QED BY <1>2, <3>1, <3>3, <3>4 DEF Elems
    <2> QED BY <2>2, <2>3, <2>4
  <1> QED BY <1>1, <1>3, <1>4 DEF r

-----------------------------------------------------------------------------
(* The inductive invariant.                                                *)

\* What the threads hold at each of their places.
Control ==
    /\ delivered \in Seq(Seqs \cup {0})
    /\ Len(sendItems) <= SendCap
    /\ rmsg # NULL <=> rpc \in {"recv", "enqueue"}
    /\ recvClaim # NULL <=> spc = "read"
    /\ smsg # NULL <=> spc \in {"check", "recover", "forward"}
    /\ spc = "recover" => missing >= 1 /\ nextSequence + missing < StoreSize
    /\ spc = "forward" => nextSequence < StoreSize
    /\ rpc = "enqueue" \/ recvItems # <<>> \/ recvClaim # NULL \/ smsg # NULL => StoreSize > 0
    /\ closed => "close" \in faults

\* Slot s is in exactly one of three sets and three variables.
OneOf(s, F, Q, O, r, m, c) ==
    /\ s \in F \/ s \in Q \/ s \in O \/ s = r \/ s = m \/ s = c
    /\ s \in F => s \notin Q /\ s \notin O /\ s # r /\ s # m /\ s # c
    /\ s \in Q => s \notin O /\ s # r /\ s # m /\ s # c
    /\ s \in O => s # r /\ s # m /\ s # c
    /\ s = r => s # m /\ s # c
    /\ s = m => s # c

Held ==
    /\ Distinct(recvItems) /\ Distinct(sendItems)
    /\ \A s \in Slots : OneOf(s, free, Elems(recvItems), Elems(sendItems), rmsg, smsg, recvClaim)

\* Trade c comes n-th: not too early, and exactly so while TCP works.
Fits(c, n) == c >= n /\ (faults = {} => c = n)

\* The trades delivered and waiting in sendQueue are those up to nextSequence_,
\* and the message that showed a gap is the one behind it.
Ordered ==
    /\ nextSequence = Len(delivered) + Len(sendItems)
    /\ \A i \in 1..Len(delivered) : Fits(delivered[i], i - 1)
    /\ \A i \in 1..Len(sendItems) : Fits(content[sendItems[i]], Len(delivered) + i - 1)
    /\ spc = "recover" => content[smsg] = nextSequence + missing
    /\ spc = "forward" => Fits(content[smsg], nextSequence)

\* The gap requests, and what the stream may hold.
Requests == [start : Seqs, end : Seqs]
Parts == Seqs \cup {FRAG}

\* TypeOK, with those sets named.
Types ==
    /\ requests \in Seq(Requests) /\ stream \in Seq(Parts)
    /\ recvItems \in Seq(Slots) /\ sendItems \in Seq(Slots)
    /\ mcast \in 0..StoreSize /\ nextSequence \in 0..StoreSize /\ missing \in 0..StoreSize
    /\ free \subseteq Slots /\ content \in [Slots -> Seqs \cup {0}]
    /\ rpc \in {"top", "recv", "enqueue", "done"}
    /\ rmsg \in Slots \cup {NULL} /\ recvClaim \in Slots \cup {NULL} /\ smsg \in Slots \cup {NULL}
    /\ spc \in {"poll", "read", "check", "recover", "forward", "done"}
    /\ running \subseteq {"receiver", "sequencer"}
    /\ closed \in BOOLEAN /\ dead \in BOOLEAN /\ overrun \in BOOLEAN

LEMMA TypesAre == Types <=> TypeOK
  BY Zenon DEF Types, TypeOK, Requests, Parts

Places == Types /\ Control

FeedInv == Places /\ (~overrun => Held /\ Ordered)

-----------------------------------------------------------------------------
(* Types and places, in every state, overrun or not.                       *)

LEMMA InitFeed == Init => FeedInv
  <1> SUFFICES ASSUME Init PROVE FeedInv
    OBVIOUS
  <1> USE FeedAssumption
  <1>1. Types
    <2>1. /\ requests \in Seq(Requests) /\ stream \in Seq(Parts)
          /\ recvItems \in Seq(Slots) /\ sendItems \in Seq(Slots)
      BY DEF Init
    <2>2. /\ mcast \in 0..StoreSize /\ nextSequence \in 0..StoreSize /\ missing \in 0..StoreSize
          /\ free \subseteq Slots /\ content \in [Slots -> Seqs \cup {0}]
      BY DEF Init
    <2> QED BY <2>1, <2>2 DEF Init, Types
  <1>2. Control
    BY DEF Init, Control
  <1>3. Held
    BY DEF Init, Held, OneOf, Distinct, Elems
  <1>4. Ordered
    BY DEF Init, Ordered
  <1> QED BY <1>1, <1>2, <1>3, <1>4 DEF FeedInv, Places

\* What a slot in the hands of the sequencer holds is a trade of the store.
LEMMA HasTrade ==
  ASSUME Places, smsg # NULL
  PROVE  smsg \in Slots /\ content[smsg] \in Seqs /\ content[smsg] \in Nat /\ content[smsg] < StoreSize
  BY FeedAssumption DEF Places, Types, Control, Seqs

LEMMA PlacesServer == Places /\ Server => Places'
  <1> SUFFICES ASSUME Places, Server PROVE Places'
    OBVIOUS
  <1> USE FeedAssumption
  <1>a. Types /\ Control
    BY DEF Places
  <1>u. UNCHANGED <<pool, receiver, recvQ, sequencer, smsg, sendItems, running, dead, overrun, delivered, faults>>
    BY DEF Server, Multicast, ServeGapRequest, IgnoreRequests, CloseConnection
  <1>1. mcast' \in 0..StoreSize
    BY <1>a DEF Server, Multicast, ServeGapRequest, IgnoreRequests, CloseConnection, Types
  <1>2. requests' \in Seq(Requests)
    <2>1. \/ requests' = requests
          \/ requests' = <<>>
          \/ requests # <<>> /\ requests' = Tail(requests)
      BY DEF Server, Multicast, ServeGapRequest, IgnoreRequests, CloseConnection
    <2>2. requests \in Seq(Requests) /\ <<>> \in Seq(Requests)
      BY <1>a DEF Types
    <2>3. requests # <<>> => Tail(requests) \in Seq(Requests)
      BY <2>2, HeadTailProperties
    <2> QED BY <2>1, <2>2, <2>3
  <1>3. stream' \in Seq(Parts)
    <2>1. CASE ServeGapRequest
      <3> DEFINE r == Head(requests)
                 n == r.end - r.start + 1
                 answer == [i \in 1..n |-> r.start + i - 1]
      <3>1. r \in Requests
        BY <1>a, <2>1 DEF ServeGapRequest, Types
      <3>2. r.start \in Nat /\ r.end \in Nat /\ r.end < StoreSize
        BY <3>1 DEF Seqs, Requests
      <3> HIDE DEF r
      <3>3. answer \in [1..n -> Parts]
        BY <3>2 DEF Seqs, Parts
      <3>4. answer \in Seq(Parts)
        <4>1. CASE n \in Nat
          <5> HIDE DEF n, answer
          <5>1. [1..n -> Parts] \in {[1..m -> Parts] : m \in Nat}
            BY <4>1
          <5> QED BY <3>3, <5>1, SeqDef, Zenon
        <4>2. CASE n \notin Nat
          <5>1. 1..n = 1..0
            BY <3>2, <4>2
          <5> HIDE DEF n, answer
          <5>2. answer \in [1..0 -> Parts] /\ 0 \in Nat
            BY <3>3, <5>1
          <5> QED BY <5>2, SeqDef, Zenon
        <4> QED BY <4>1, <4>2
      <3>5. stream' = stream \o answer
        BY <2>1 DEF ServeGapRequest, r
      <3> HIDE DEF answer
      <3> QED BY <1>a, <3>4, <3>5 DEF Types
    <2>2. CASE ~ServeGapRequest
      BY <1>a, <2>2 DEF Server, Multicast, IgnoreRequests, CloseConnection, Types
    <2> QED BY <2>1, <2>2
  <1>4. closed' \in BOOLEAN /\ (closed' => "close" \in faults)
    <2>1. closed' = closed \/ (closed' = TRUE /\ "close" \in faults)
      BY DEF Server, Multicast, ServeGapRequest, IgnoreRequests, CloseConnection
    <2>2. closed \in BOOLEAN /\ (closed => "close" \in faults)
      BY <1>a DEF Types, Control
    <2>3. CASE closed' = closed
      BY <2>2, <2>3, Zenon
    <2>4. CASE closed' = TRUE /\ "close" \in faults
      BY <2>4, Zenon
    <2> QED BY <2>1, <2>3, <2>4, Zenon
  <1>5. Types'
    BY <1>a, <1>u, <1>1, <1>2, <1>3, <1>4 DEF Types, pool, receiver, recvQ, sequencer
  <1>6. Control'
    BY <1>a, <1>u, <1>4 DEF Control, pool, receiver, recvQ, sequencer
  <1> QED BY <1>5, <1>6 DEF Places

LEMMA PlacesReceiver == Places /\ Receiver => Places'
  <1> SUFFICES ASSUME Places, Receiver PROVE Places'
    OBVIOUS
  <1> USE FeedAssumption
  <1>a. Types /\ Control
    BY DEF Places
  <1>1. CASE ReceiverAllocate
    <2>1. Types'
      BY <1>1, <1>a DEF ReceiverAllocate, Die, Types, network, recvQ, sequencer
    <2>2. Control'
      BY <1>1, <1>a DEF ReceiverAllocate, Die, Types, Control, network, recvQ, sequencer
    <2> QED BY <2>1, <2>2 DEF Places
  <1>2. ASSUME NEW n \in Seqs, ReceiverPacket(n) PROVE Places'
    <2>1. Types'
      BY <1>2, <1>a DEF ReceiverPacket, Types, network, recvQ, sequencer
    <2>2. Control'
      BY <1>2, <1>a DEF ReceiverPacket, Types, Control, network, recvQ, sequencer, Seqs
    <2> QED BY <2>1, <2>2 DEF Places
  <1>3. CASE ReceiverError
    <2>1. Types'
      BY <1>3, <1>a DEF ReceiverError, Deallocate, Types, Control, network, recvQ, sequencer
    <2>2. Control'
      BY <1>3, <1>a DEF ReceiverError, Types, Control, network, recvQ, sequencer
    <2> QED BY <2>1, <2>2 DEF Places
  <1>4. CASE ReceiverEnqueue
    <2>1. /\ rpc = "enqueue" /\ rpc' = "top" /\ rmsg' = NULL /\ rmsg \in Slots /\ StoreSize > 0 /\ smsg' = smsg
          /\ UNCHANGED <<network, pool, sequencer, sendItems, running, dead, delivered>>
      BY <1>4, <1>a DEF ReceiverEnqueue, Control, Types, recvQ, Ring!Enqueue
    <2>2. /\ recvItems' \in Seq(Slots) /\ recvClaim' \in Slots \cup {NULL}
          /\ recvClaim' # NULL <=> recvClaim # NULL
      <3>1. CASE Len(recvItems) < RecvCap
        <4>1. /\ recvItems' = Append(recvItems, rmsg)
              /\ recvClaim' = IF recvClaim # NULL /\ Len(recvItems) = RecvCap - 1 THEN rmsg ELSE recvClaim
          BY <1>4, <3>1 DEF ReceiverEnqueue, Ring!Enqueue
        <4> QED BY <1>a, <2>1, <4>1 DEF Types
      <3>2. CASE ~(Len(recvItems) < RecvCap)
        BY <1>4, <1>a, <3>2 DEF ReceiverEnqueue, Types, recvQ
      <3> QED BY <3>1, <3>2
    <2>3. overrun' \in BOOLEAN
      BY <1>4 DEF ReceiverEnqueue
    <2>4. Types'
      BY <1>a, <2>1, <2>2, <2>3 DEF Types, network, pool, sequencer
    <2>5. Control'
      BY <1>a, <2>1, <2>2 DEF Control, network, pool, sequencer
    <2> QED BY <2>4, <2>5 DEF Places
  <1> QED BY <1>1, <1>2, <1>3, <1>4 DEF Receiver

\* What a forwarded message does to sendQueue.
LEMMA ForwardEffect ==
  ASSUME Places, NEW x \in Slots, Forward(x)
  PROVE  /\ sendItems' \in Seq(Slots) /\ Len(sendItems') <= SendCap
         /\ nextSequence' = nextSequence + 1 /\ overrun' \in BOOLEAN
  BY FeedAssumption DEF Forward, Places, Types, Control

LEMMA PlacesSequencer == Places /\ Sequencer => Places'
  <1> SUFFICES ASSUME Places, Sequencer PROVE Places'
    OBVIOUS
  <1> USE FeedAssumption
  <1>a. Types /\ Control
    BY DEF Places
  <1>1. CASE SequencerStop
    <2>1. Types'
      BY <1>1, <1>a DEF SequencerStop, Types, network, pool, receiver, recvQ
    <2>2. Control'
      BY <1>1, <1>a DEF SequencerStop, Control, network, pool, receiver, recvQ
    <2> QED BY <2>1, <2>2 DEF Places
  <1>2. CASE SequencerClaim
    <2>1. Types'
      BY <1>2, <1>a DEF SequencerClaim, Ring!Claim, Types, network, pool, receiver
    <2>2. Control'
      BY <1>2, <1>a DEF SequencerClaim, Ring!Claim, Types, Control, network, pool, receiver
    <2> QED BY <2>1, <2>2 DEF Places
  <1>3. CASE SequencerRead
    <2>1. Types'
      BY <1>3, <1>a DEF SequencerRead, Ring!Deliver, Types, network, pool, receiver
    <2>2. Control'
      BY <1>3, <1>a DEF SequencerRead, Ring!Deliver, Control, network, pool, receiver
    <2> QED BY <2>1, <2>2 DEF Places
  <1>4. CASE SequencerDrop
    <2>1. Types'
      BY <1>4, <1>a DEF SequencerDrop, Deallocate, Types, Control, network, receiver, recvQ
    <2>2. Control'
      BY <1>4, <1>a DEF SequencerDrop, Control, network, receiver, recvQ
    <2> QED BY <2>1, <2>2 DEF Places
  <1>5. CASE SequencerGap
    <2>1. /\ spc = "check" /\ smsg # NULL /\ content[smsg] > nextSequence
          /\ UNCHANGED <<mcast, stream, closed, faults, pool, receiver, recvQ, nextSequence, smsg,
                         sendItems, running, overrun, delivered>>
      BY <1>5, <1>a DEF SequencerGap, Control
    <2>2. content[smsg] \in Nat /\ content[smsg] < StoreSize /\ nextSequence \in Nat
      BY <1>a, <2>1, HasTrade DEF Types
    <2>3. \/ /\ requests' = requests \/ requests' = Append(requests, [start |-> nextSequence, end |-> content[smsg] - 1])
             /\ missing' = content[smsg] - nextSequence /\ spc' = "recover" /\ dead' = dead
          \/ requests' = requests /\ missing' = missing /\ spc' = spc /\ dead' = TRUE
      BY <1>5 DEF SequencerGap, sendRecoveryRequest, Die
    <2>4. requests' \in Seq(Requests)
      <3>1. [start |-> nextSequence, end |-> content[smsg] - 1] \in Requests
        BY <2>1, <2>2 DEF Seqs, Requests
      <3>2. requests \in Seq(Requests)
        BY <1>a DEF Types
      <3>3. Append(requests, [start |-> nextSequence, end |-> content[smsg] - 1]) \in Seq(Requests)
        BY <3>1, <3>2, AppendProperties
      <3> QED BY <2>3, <3>2, <3>3
    <2>5. missing' \in 0..StoreSize /\ spc' \in {"check", "recover"}
      BY <1>a, <2>1, <2>2, <2>3 DEF Types
    <2>6. Types'
      BY <1>a, <2>1, <2>3, <2>4, <2>5 DEF Types, pool, receiver, recvQ
    <2>7. Control'
      <3>1. spc' = "recover" => missing' >= 1 /\ nextSequence + missing' < StoreSize
        BY <2>1, <2>2, <2>3
      <3> QED BY <1>a, <2>1, <2>5, <3>1 DEF Control, pool, receiver, recvQ
    <2> QED BY <2>6, <2>7 DEF Places
  <1>6. CASE SequencerForward
    <2>1. /\ spc \in {"check", "forward"} /\ smsg # NULL /\ Forward(smsg) /\ smsg' = NULL /\ spc' = "poll"
          /\ spc = "check" => content[smsg] = nextSequence
          /\ UNCHANGED <<network, pool, receiver, recvQ, missing, running, dead, delivered>>
      BY <1>6, <1>a DEF SequencerForward, Control
    <2>2. smsg \in Slots /\ content[smsg] \in Nat /\ content[smsg] < StoreSize
      BY <2>1, HasTrade
    <2>3. nextSequence < StoreSize
      BY <1>a, <2>1, <2>2 DEF Control
    <2>4. /\ sendItems' \in Seq(Slots) /\ Len(sendItems') <= SendCap
          /\ nextSequence' = nextSequence + 1 /\ overrun' \in BOOLEAN
      BY <2>1, <2>2, ForwardEffect
    <2>5. Types'
      BY <1>a, <2>1, <2>3, <2>4 DEF Types, network, pool, receiver, recvQ
    <2>6. Control'
      BY <1>a, <2>1, <2>4 DEF Control, network, pool, receiver, recvQ
    <2> QED BY <2>5, <2>6 DEF Places
  <1>7. CASE RecoverExhausted
    <2>1. Types'
      BY <1>7, <1>a DEF RecoverExhausted, Die, Types, network, pool, receiver, recvQ, sequencer
    <2>2. Control'
      BY <1>7, <1>a DEF RecoverExhausted, Control, network, pool, receiver, recvQ, sequencer
    <2> QED BY <2>1, <2>2 DEF Places
  <1>8. CASE RecoverMessage
    <2>1. /\ spc = "recover" /\ stream # <<>> /\ missing >= 1 /\ nextSequence + missing < StoreSize
          /\ nextSequence \in Nat /\ missing \in Nat
          /\ UNCHANGED <<mcast, requests, closed, faults, receiver, recvQ, smsg, running, delivered>>
      BY <1>8, <1>a DEF RecoverMessage, Control, Types
    <2>2. CASE Head(stream) # nextSequence
      <3>1. dead' = TRUE /\ UNCHANGED <<stream, pool, nextSequence, missing, spc, sendItems, overrun>>
        BY <1>8, <2>2 DEF RecoverMessage, Die
      <3>2. Types'
        BY <1>a, <2>1, <3>1 DEF Types, pool, receiver, recvQ
      <3>3. Control'
        BY <1>a, <2>1, <3>1 DEF Control, pool, receiver, recvQ
      <3> QED BY <3>2, <3>3 DEF Places
    <2>3. CASE Head(stream) = nextSequence
      <3>1. PICK x \in free : free' = free \ {x} /\ content' = [content EXCEPT ![x] = nextSequence] /\ Forward(x)
        BY <1>8, <2>3 DEF RecoverMessage
      <3>2. /\ stream' = Tail(stream) /\ missing' = missing - 1 /\ dead' = dead
            /\ spc' = IF missing = 1 THEN "forward" ELSE "recover"
        BY <1>8, <2>3 DEF RecoverMessage
      <3>3. x \in Slots /\ nextSequence \in Seqs
        BY <1>a, <2>1 DEF Types, Seqs
      <3>4. /\ sendItems' \in Seq(Slots) /\ Len(sendItems') <= SendCap
          /\ nextSequence' = nextSequence + 1 /\ overrun' \in BOOLEAN
        BY <3>1, <3>3, ForwardEffect
      <3>5. stream' \in Seq(Parts)
        BY <1>a, <2>1, <3>2 DEF Types
      <3>6. free' \subseteq Slots /\ content' \in [Slots -> Seqs \cup {0}]
        BY <1>a, <3>1, <3>3 DEF Types
      <3>7. Types'
        BY <1>a, <2>1, <3>2, <3>4, <3>5, <3>6 DEF Types, receiver, recvQ
      <3>8. Control'
        BY <1>a, <2>1, <3>2, <3>4 DEF Control, receiver, recvQ
      <3> QED BY <3>7, <3>8 DEF Places
    <2> QED BY <2>2, <2>3
  <1>9. CASE RecoverPartial
    <2>1. stream' \in Seq(Parts)
      <3>1. \/ stream' = <<FRAG>> \o Tail(stream)
            \/ stream' = <<>>
        BY <1>9 DEF RecoverPartial
      <3>2. stream # <<>> /\ Tail(stream) \in Seq(Parts) /\ FRAG \in Parts
        BY <1>9, <1>a DEF RecoverPartial, Types, Parts
      <3>3. <<FRAG>> \in Seq(Parts) /\ <<>> \in Seq(Parts)
        BY <3>2
      <3>4. <<FRAG>> \o Tail(stream) \in Seq(Parts)
        BY <3>2, <3>3, ConcatProperties
      <3> QED BY <3>1, <3>3, <3>4
    <2>2. UNCHANGED <<mcast, requests, closed, faults, pool, receiver, recvQ, sequencer, smsg,
                      sendItems, running, dead, overrun, delivered>>
      BY <1>9 DEF RecoverPartial
    <2>3. Types'
      BY <1>a, <2>1, <2>2 DEF Types, pool, receiver, recvQ, sequencer
    <2>4. Control'
      BY <1>a, <2>2 DEF Control, pool, receiver, recvQ, sequencer
    <2> QED BY <2>3, <2>4 DEF Places
  <1>10. CASE RecoverBreak
    <2>1. Types'
      BY <1>10, <1>a DEF RecoverBreak, Types, network, pool, receiver, recvQ
    <2>2. Control'
      BY <1>10, <1>a DEF RecoverBreak, Types, Control, network, pool, receiver, recvQ
    <2> QED BY <2>1, <2>2 DEF Places
  <1> QED BY <1>1, <1>2, <1>3, <1>4, <1>5, <1>6, <1>7, <1>8, <1>9, <1>10 DEF Sequencer

LEMMA PlacesStep == Places /\ [Next]_vars => Places'
  <1> SUFFICES ASSUME Places, [Next]_vars PROVE Places'
    OBVIOUS
  <1> USE FeedAssumption
  <1>a. Types /\ Control
    BY DEF Places
  <1>1. CASE Stop
    <2>1. Types'
      BY <1>1, <1>a DEF Stop, Types, network, pool, receiver, recvQ, sequencer
    <2>2. Control'
      BY <1>1, <1>a DEF Stop, Control, network, pool, receiver, recvQ, sequencer
    <2> QED BY <2>1, <2>2 DEF Places
  <1>2. CASE Consume
    <2>1. /\ sendItems # <<>> /\ delivered' = Append(delivered, content[Head(sendItems)])
          /\ free' = free \cup {Head(sendItems)} /\ content' = content /\ sendItems' = Tail(sendItems)
          /\ UNCHANGED <<network, receiver, recvQ, sequencer, smsg, running, dead, overrun>>
      BY <1>2 DEF Consume, Deallocate
    <2>2. Head(sendItems) \in Slots /\ sendItems' \in Seq(Slots) /\ Len(sendItems') <= SendCap
      BY <1>a, <2>1 DEF Types, Control
    <2>3. delivered' \in Seq(Seqs \cup {0})
      BY <1>a, <2>1, <2>2 DEF Types, Control
    <2>4. Types'
      BY <1>a, <2>1, <2>2 DEF Types, network, receiver, recvQ, sequencer
    <2>5. Control'
      BY <1>a, <2>1, <2>2, <2>3 DEF Control, network, receiver, recvQ, sequencer
    <2> QED BY <2>4, <2>5 DEF Places
  <1>3. CASE UNCHANGED vars
    <2>1. Types'
      BY <1>3, <1>a DEF vars, Types, network, pool, receiver, recvQ, sequencer
    <2>2. Control'
      BY <1>3, <1>a DEF vars, Control, network, pool, receiver, recvQ, sequencer
    <2> QED BY <2>1, <2>2 DEF Places
  <1> QED BY <1>1, <1>2, <1>3, PlacesServer, PlacesReceiver, PlacesSequencer DEF Next

-----------------------------------------------------------------------------
(* A message is in one place.                                              *)

\* A ring once overrun stays so.
LEMMA OverrunStays ==
  ASSUME Next, ~overrun'
  PROVE  ~overrun
  BY Zenon DEF Next, Server, Receiver, Sequencer, Multicast, ServeGapRequest, IgnoreRequests,
         CloseConnection, ReceiverAllocate, ReceiverPacket, ReceiverError, ReceiverEnqueue,
         SequencerStop, SequencerClaim, SequencerRead, SequencerDrop, SequencerGap, SequencerForward,
         Forward, RecoverExhausted, RecoverMessage, RecoverPartial, RecoverBreak, Stop, Consume

\* A forwarded message goes to the end of sendQueue, or the ring is overrun.
LEMMA ForwardAppends ==
  ASSUME Places, NEW x, Forward(x), ~overrun'
  PROVE  sendItems' = Append(sendItems, x)
  <1>1. sendItems \in Seq(Slots) /\ Len(sendItems) \in Nat
    BY DEF Places, Types
  <1>2. Len(sendItems) # SendCap /\ Len(sendItems) <= SendCap
    BY DEF Forward, Places, Control
  <1> QED BY <1>1, <1>2, FeedAssumption DEF Forward

LEMMA HeldStep ==
  ASSUME FeedInv, Next, ~overrun'
  PROVE  Held'
  <1> USE FeedAssumption
  <1>a. Types /\ Control /\ Places /\ Held
    BY OverrunStays DEF FeedInv, Places
  <1>q. recvItems \in Seq(Slots) /\ sendItems \in Seq(Slots) /\ free \subseteq Slots
    BY <1>a DEF Types
  <1> DEFINE Q == Elems(recvItems)
             O == Elems(sendItems)
  <1>h. /\ Distinct(recvItems) /\ Distinct(sendItems)
        /\ \A s \in Slots : OneOf(s, free, Q, O, rmsg, smsg, recvClaim)
    BY <1>a DEF Held
  <1>s. ASSUME UNCHANGED <<free, recvItems, sendItems, rmsg, smsg, recvClaim>> PROVE Held'
    BY <1>h, <1>s DEF Held, OneOf, Distinct, Elems
  <1>1. CASE ReceiverAllocate
    <2>1. \/ UNCHANGED <<rmsg, free>>
          \/ rpc = "top" /\ \E x \in free : rmsg' = x /\ free' = free \ {x}
      BY <1>1 DEF ReceiverAllocate
    <2>2. UNCHANGED <<recvItems, sendItems, smsg, recvClaim>>
      BY <1>1 DEF ReceiverAllocate, recvQ
    <2>3. CASE UNCHANGED <<rmsg, free>>
      BY <1>s, <2>2, <2>3
    <2>4. CASE rpc = "top" /\ \E x \in free : rmsg' = x /\ free' = free \ {x}
      <3>1. PICK x \in free : rmsg' = x /\ free' = free \ {x}
        BY <2>4
      <3>2. rmsg = NULL
        BY <1>a, <2>4 DEF Control
      <3>3. \A s \in Slots : OneOf(s, free \ {x}, Q, O, x, smsg, recvClaim)
        BY <1>h, <3>2 DEF OneOf
      <3> QED BY <1>h, <2>2, <3>1, <3>3 DEF Held, Elems, Distinct
    <2> QED BY <2>1, <2>3, <2>4
  <1>2. CASE ReceiverError
    <2>1. rpc = "recv" /\ free' = free \cup {rmsg} /\ rmsg' = NULL /\ UNCHANGED <<recvItems, sendItems, smsg, recvClaim>>
      BY <1>2 DEF ReceiverError, Deallocate, recvQ
    <2>2. rmsg \in Slots
      BY <1>a, <2>1 DEF Control, Types
    <2>3. \A s \in Slots : OneOf(s, free \cup {rmsg}, Q, O, NULL, smsg, recvClaim)
      BY <1>h, <2>2 DEF OneOf
    <2> QED BY <1>h, <2>1, <2>3 DEF Held, Elems, Distinct
  <1>3. CASE ReceiverEnqueue
    <2>1. rpc = "enqueue" /\ rmsg' = NULL /\ smsg' = smsg /\ UNCHANGED <<free, sendItems>>
      BY <1>3 DEF ReceiverEnqueue, Ring!Enqueue, pool
    <2>2. rmsg \in Slots
      BY <1>a, <2>1 DEF Control, Types
    <2>3. ~(Len(recvItems) + (IF recvClaim = NULL THEN 0 ELSE 1) >= RecvCap)
      BY <1>3 DEF ReceiverEnqueue
    <2>4. Len(recvItems) \in Nat /\ Len(recvItems) < RecvCap /\ (recvClaim # NULL => Len(recvItems) # RecvCap - 1)
      BY <1>q, <2>3
    <2>5. recvItems' = Append(recvItems, rmsg) /\ recvClaim' = recvClaim
      BY <1>3, <2>4 DEF ReceiverEnqueue, Ring!Enqueue
    <2>6. rmsg \notin Q
      BY <1>h, <2>2 DEF OneOf
    <2>7. Elems(Append(recvItems, rmsg)) = Q \cup {rmsg} /\ Distinct(Append(recvItems, rmsg))
      BY <1>h, <1>q, <2>2, <2>6, Appended
    <2>8. \A s \in Slots : OneOf(s, free, Q \cup {rmsg}, O, NULL, smsg, recvClaim)
      BY <1>h, <2>2 DEF OneOf
    <2>9. \A s \in Slots : OneOf(s, free, Elems(recvItems'), O, NULL, smsg, recvClaim)
      BY <2>5, <2>7, <2>8
    <2> QED BY <1>h, <2>1, <2>5, <2>7, <2>9 DEF Held, Elems, Distinct
  <1>4. CASE SequencerClaim
    <2>1. /\ spc = "poll" /\ recvItems # <<>> /\ recvClaim = NULL /\ recvClaim' = Head(recvItems)
          /\ recvItems' = Tail(recvItems) /\ UNCHANGED <<free, sendItems, rmsg, smsg>>
      BY <1>4 DEF SequencerClaim, Ring!Claim, pool, receiver
    <2>2. /\ Head(recvItems) \in Slots /\ Head(recvItems) \in Q
          /\ Distinct(Tail(recvItems)) /\ Elems(Tail(recvItems)) = Q \ {Head(recvItems)}
      BY <1>h, <1>q, <2>1, Removed
    <2>3. \A s \in Slots : OneOf(s, free, Q \ {Head(recvItems)}, O, rmsg, smsg, Head(recvItems))
      BY <1>h, <2>1, <2>2 DEF OneOf
    <2>4. \A s \in Slots : OneOf(s, free, Elems(recvItems'), O, rmsg, smsg, recvClaim')
      BY <2>1, <2>2, <2>3
    <2> QED BY <1>h, <2>1, <2>2, <2>4 DEF Held, Elems, Distinct
  <1>5. CASE SequencerRead
    <2>1. /\ spc = "read" /\ smsg' = recvClaim /\ recvClaim' = NULL
          /\ UNCHANGED <<free, recvItems, sendItems, rmsg>>
      BY <1>5 DEF SequencerRead, Ring!Deliver, pool, receiver
    <2>2. smsg = NULL /\ recvClaim \in Slots
      BY <1>a, <2>1 DEF Control, Types
    <2>3. \A s \in Slots : OneOf(s, free, Q, O, rmsg, recvClaim, NULL)
      BY <1>h, <2>2 DEF OneOf
    <2> QED BY <1>h, <2>1, <2>3 DEF Held, Elems, Distinct
  <1>6. CASE SequencerDrop
    <2>1. /\ spc = "check" /\ free' = free \cup {smsg} /\ smsg' = NULL
          /\ UNCHANGED <<recvItems, sendItems, rmsg, recvClaim>>
      BY <1>6 DEF SequencerDrop, Deallocate, receiver, recvQ
    <2>2. smsg \in Slots
      BY <1>a, <2>1 DEF Control, Types
    <2>3. \A s \in Slots : OneOf(s, free \cup {smsg}, Q, O, rmsg, NULL, recvClaim)
      BY <1>h, <2>2 DEF OneOf
    <2> QED BY <1>h, <2>1, <2>3 DEF Held, Elems, Distinct
  <1>7. CASE SequencerForward
    <2>1. /\ spc \in {"check", "forward"} /\ Forward(smsg) /\ smsg' = NULL
          /\ UNCHANGED <<free, recvItems, rmsg, recvClaim>>
      BY <1>7 DEF SequencerForward, pool, receiver, recvQ
    <2>2. smsg \in Slots
      BY <1>a, <2>1 DEF Control, Types
    <2>3. sendItems' = Append(sendItems, smsg)
      BY <1>a, <2>1, ForwardAppends
    <2>4. smsg \notin O
      BY <1>h, <2>2 DEF OneOf
    <2>5. Elems(Append(sendItems, smsg)) = O \cup {smsg} /\ Distinct(Append(sendItems, smsg))
      BY <1>h, <1>q, <2>2, <2>4, Appended
    <2>6. \A s \in Slots : OneOf(s, free, Q, O \cup {smsg}, rmsg, NULL, recvClaim)
      BY <1>h, <2>2 DEF OneOf
    <2>7. \A s \in Slots : OneOf(s, free, Q, Elems(sendItems'), rmsg, NULL, recvClaim)
      BY <2>3, <2>5, <2>6
    <2> QED BY <1>h, <2>1, <2>3, <2>5, <2>7 DEF Held, Elems, Distinct
  <1>8. CASE RecoverMessage
    <2>1. UNCHANGED <<recvItems, rmsg, smsg, recvClaim>>
      BY <1>8 DEF RecoverMessage, receiver, recvQ
    <2>2. CASE Head(stream) # nextSequence
      <3>1. UNCHANGED <<free, sendItems>>
        BY <1>8, <2>2 DEF RecoverMessage, pool
      <3> QED BY <1>s, <2>1, <3>1
    <2>3. CASE Head(stream) = nextSequence
      <3>1. PICK x \in free : free' = free \ {x} /\ Forward(x)
        BY <1>8, <2>3 DEF RecoverMessage
      <3>2. x \in Slots /\ x \notin O
        BY <1>h, <1>q DEF OneOf
      <3>3. sendItems' = Append(sendItems, x)
        BY <1>a, <3>1, ForwardAppends
      <3>4. Elems(Append(sendItems, x)) = O \cup {x} /\ Distinct(Append(sendItems, x))
        BY <1>h, <1>q, <3>2, Appended
      <3>5. \A s \in Slots : OneOf(s, free \ {x}, Q, O \cup {x}, rmsg, smsg, recvClaim)
        BY <1>h, <3>2 DEF OneOf
      <3>6. \A s \in Slots : OneOf(s, free', Q, Elems(sendItems'), rmsg, smsg, recvClaim)
        BY <3>1, <3>3, <3>4, <3>5
      <3> QED BY <1>h, <2>1, <3>3, <3>4, <3>6 DEF Held, Elems, Distinct
    <2> QED BY <2>2, <2>3
  <1>9. CASE Consume
    <2>1. /\ sendItems # <<>> /\ free' = free \cup {Head(sendItems)} /\ sendItems' = Tail(sendItems)
          /\ UNCHANGED <<recvItems, rmsg, smsg, recvClaim>>
      BY <1>9 DEF Consume, Deallocate, receiver, recvQ
    <2>2. /\ Head(sendItems) \in Slots /\ Head(sendItems) \in O
          /\ Distinct(Tail(sendItems)) /\ Elems(Tail(sendItems)) = O \ {Head(sendItems)}
      BY <1>h, <1>q, <2>1, Removed
    <2>3. \A s \in Slots : OneOf(s, free \cup {Head(sendItems)}, Q, O \ {Head(sendItems)}, rmsg, smsg, recvClaim)
      BY <1>h, <2>2 DEF OneOf
    <2>4. \A s \in Slots : OneOf(s, free', Q, Elems(sendItems'), rmsg, smsg, recvClaim)
      BY <2>1, <2>2, <2>3
    <2>5. Distinct(sendItems') /\ Distinct(recvItems') /\ Elems(recvItems') = Q
      BY <1>h, <2>1, <2>2
    <2>6. \A s \in Slots : OneOf(s, free', Elems(recvItems'), Elems(sendItems'), rmsg', smsg', recvClaim')
      BY <2>1, <2>4, <2>5
    <2> QED BY <2>5, <2>6 DEF Held, OneOf, Elems, Distinct
  <1>10. CASE Server \/ (\E n \in Seqs : ReceiverPacket(n)) \/ SequencerStop \/ SequencerGap
              \/ RecoverExhausted \/ RecoverPartial \/ RecoverBreak \/ Stop
    <2>1. UNCHANGED <<free, recvItems, sendItems, rmsg, smsg, recvClaim>>
      BY <1>10 DEF Server, Multicast, ServeGapRequest, IgnoreRequests, CloseConnection, ReceiverPacket,
            SequencerStop, SequencerGap, RecoverExhausted, RecoverPartial, RecoverBreak, Stop,
            pool, receiver, recvQ
    <2> QED BY <1>s, <2>1
  <1> QED BY <1>1, <1>2, <1>3, <1>4, <1>5, <1>6, <1>7, <1>8, <1>9, <1>10 DEF Next, Receiver, Sequencer

-----------------------------------------------------------------------------
(* The trades keep their order.                                            *)

LEMMA OrderedStep ==
  ASSUME FeedInv, Next, ~overrun'
  PROVE  Ordered'
  <1> USE FeedAssumption
  <1>a. Types /\ Control /\ Places /\ Held /\ Ordered
    BY OverrunStays DEF FeedInv, Places
  <1>q. /\ sendItems \in Seq(Slots) /\ delivered \in Seq(Seqs \cup {0}) /\ content \in [Slots -> Seqs \cup {0}]
        /\ Len(sendItems) \in Nat /\ Len(delivered) \in Nat /\ nextSequence \in Nat /\ missing \in Nat
    BY <1>a DEF Types, Control
  <1>e. \A j \in 1..Len(sendItems) : sendItems[j] \in Slots /\ sendItems[j] \in Elems(sendItems)
    BY <1>q DEF Elems
  <1>n. \A x \in Slots : content[x] \in Nat
    BY <1>q DEF Seqs
  <1>o. /\ nextSequence = Len(delivered) + Len(sendItems)
        /\ \A j \in 1..Len(delivered) : Fits(delivered[j], j - 1)
        /\ \A j \in 1..Len(sendItems) : Fits(content[sendItems[j]], Len(delivered) + j - 1)
        /\ spc = "recover" => content[smsg] = nextSequence + missing
        /\ spc = "forward" => Fits(content[smsg], nextSequence)
    BY <1>a DEF Ordered
  <1>f. faults' = faults
    BY DEF Next, Server, Receiver, Sequencer, Multicast, ServeGapRequest, IgnoreRequests,
         CloseConnection, ReceiverAllocate, ReceiverPacket, ReceiverError, ReceiverEnqueue,
         SequencerStop, SequencerClaim, SequencerRead, SequencerDrop, SequencerGap, SequencerForward,
         RecoverExhausted, RecoverMessage, RecoverPartial, RecoverBreak, Stop, Consume, network
  \* Steps that neither forward nor consume.
  <1>s. ASSUME UNCHANGED <<delivered, sendItems, nextSequence>>,
               \A j \in 1..Len(sendItems) : content'[sendItems[j]] = content[sendItems[j]],
               spc' = "recover" => content'[smsg'] = nextSequence + missing',
               spc' = "forward" => Fits(content'[smsg'], nextSequence)
        PROVE  Ordered'
    BY <1>f, <1>o, <1>s DEF Ordered, Fits
  \* A forwarded message.
  <1>w. ASSUME NEW x \in Slots, Forward(x), Fits(content'[x], nextSequence), UNCHANGED delivered,
               \A j \in 1..Len(sendItems) : content'[sendItems[j]] = content[sendItems[j]],
               spc' = "recover" => content'[smsg'] = nextSequence + 1 + missing',
               spc' = "forward" => Fits(content'[smsg'], nextSequence + 1)
        PROVE  Ordered'
    <2>1. sendItems' = Append(sendItems, x) /\ nextSequence' = nextSequence + 1
      BY <1>a, <1>w, ForwardAppends DEF Forward
    <2>2. /\ Len(sendItems') = Len(sendItems) + 1
          /\ \A j \in 1..Len(sendItems) : sendItems'[j] = sendItems[j]
          /\ sendItems'[Len(sendItems) + 1] = x
      BY <1>q, <2>1, Appended
    <2>3. ASSUME NEW j \in 1..(Len(sendItems) + 1)
          PROVE  Fits(content'[sendItems'[j]], Len(delivered) + j - 1)
      <3>1. CASE j \in 1..Len(sendItems)
        BY <1>o, <1>w, <2>2, <3>1
      <3>2. CASE j = Len(sendItems) + 1
        <4>1. Len(delivered) + j - 1 = nextSequence
          BY <1>o, <1>q, <3>2
        <4> QED BY <1>w, <2>2, <3>2, <4>1
      <3> QED BY <1>q, <3>1, <3>2
    <2>4. nextSequence' = Len(delivered') + Len(sendItems')
      BY <1>o, <1>q, <1>w, <2>1, <2>2
    <2> QED BY <1>f, <1>o, <1>w, <2>1, <2>2, <2>3, <2>4 DEF Ordered, Fits
  <1>1. CASE Server \/ ReceiverAllocate \/ ReceiverError \/ ReceiverEnqueue \/ RecoverExhausted
             \/ RecoverPartial \/ Stop
    <2>1. UNCHANGED <<delivered, sendItems, nextSequence, content, spc, smsg, missing>>
      BY <1>1 DEF Server, Multicast, ServeGapRequest, IgnoreRequests, CloseConnection, ReceiverAllocate,
           ReceiverError, ReceiverEnqueue, Ring!Enqueue, RecoverExhausted, RecoverPartial, Stop, Deallocate,
           pool, sequencer
    <2> QED BY <1>o, <1>s, <2>1
  <1>2. ASSUME NEW n \in Seqs, ReceiverPacket(n) PROVE Ordered'
    <2>1. /\ rpc = "recv" /\ content' = [content EXCEPT ![rmsg] = n]
          /\ UNCHANGED <<delivered, sendItems, nextSequence, spc, smsg, missing>>
      BY <1>2 DEF ReceiverPacket, sequencer
    <2>2. rmsg \in Slots
      BY <1>a, <2>1 DEF Control, Types
    <2>3. rmsg \notin Elems(sendItems) /\ rmsg # smsg
      BY <1>a, <2>2 DEF Held, OneOf
    <2>4. \A j \in 1..Len(sendItems) : content'[sendItems[j]] = content[sendItems[j]]
      BY <1>e, <1>q, <2>1, <2>3
    <2>5. spc \in {"recover", "forward"} => content'[smsg] = content[smsg]
      BY <1>a, <1>q, <2>1, <2>3 DEF Control, Types
    <2> QED BY <1>o, <1>s, <2>1, <2>4, <2>5
  <1>3. CASE SequencerStop \/ SequencerClaim \/ SequencerRead \/ SequencerDrop
    <2>1. UNCHANGED <<delivered, sendItems, nextSequence, content>> /\ spc' \notin {"recover", "forward"}
      BY <1>3 DEF SequencerStop, SequencerClaim, SequencerRead, SequencerDrop, Deallocate, pool
    <2> QED BY <1>s, <2>1
  <1>4. CASE SequencerGap
    <2>1. /\ spc = "check" /\ UNCHANGED <<delivered, sendItems, nextSequence, content, smsg>>
          /\ content[smsg] > nextSequence
          /\ spc' = "check" \/ (spc' = "recover" /\ missing' = content[smsg] - nextSequence)
      BY <1>4 DEF SequencerGap, pool
    <2>2. content[smsg] \in Nat
      BY <1>a, <2>1, HasTrade DEF Control
    <2> QED BY <1>q, <1>s, <2>1, <2>2
  <1>5. CASE SequencerForward
    <2>1. /\ \/ spc = "check" /\ content[smsg] = nextSequence
             \/ spc = "forward"
          /\ Forward(smsg) /\ spc' = "poll" /\ UNCHANGED <<delivered, content>>
      BY <1>5 DEF SequencerForward, pool
    <2>2. smsg \in Slots
      BY <1>a, <2>1 DEF Control, Types
    <2>3. Fits(content[smsg], nextSequence)
      BY <1>o, <1>q, <2>1 DEF Fits
    <2> QED BY <1>w, <2>1, <2>2, <2>3
  <1>6. CASE RecoverMessage
    <2>1. spc = "recover" /\ UNCHANGED <<delivered, smsg>>
      BY <1>6 DEF RecoverMessage
    <2>2. CASE Head(stream) # nextSequence
      <3>1. UNCHANGED <<sendItems, nextSequence, content, spc, missing>>
        BY <1>6, <2>2 DEF RecoverMessage, pool
      <3> QED BY <1>o, <1>s, <2>1, <3>1
    <2>3. CASE Head(stream) = nextSequence
      <3>1. PICK x \in free : content' = [content EXCEPT ![x] = nextSequence] /\ Forward(x)
        BY <1>6, <2>3 DEF RecoverMessage
      <3>2. missing' = missing - 1 /\ spc' = IF missing = 1 THEN "forward" ELSE "recover"
        BY <1>6, <2>3 DEF RecoverMessage
      <3>3. smsg \in Slots /\ x \in Slots /\ x # smsg /\ x \notin Elems(sendItems)
        BY <1>a, <2>1 DEF Control, Types, Held, OneOf
      <3>4. \A j \in 1..Len(sendItems) : content'[sendItems[j]] = content[sendItems[j]]
        BY <1>e, <1>q, <3>1, <3>3
      <3>5. content'[x] = nextSequence /\ content'[smsg] = content[smsg]
        BY <1>q, <3>1, <3>3
      <3>6. Fits(content'[x], nextSequence)
        BY <1>q, <3>5 DEF Fits
      <3>7. content[smsg] = nextSequence + missing
        BY <1>o, <2>1
      <3>8. spc' = "recover" => content'[smsg'] = nextSequence + 1 + missing'
        BY <1>q, <2>1, <3>2, <3>5, <3>7
      <3>9. spc' = "forward" => Fits(content'[smsg'], nextSequence + 1)
        BY <1>q, <2>1, <3>2, <3>5, <3>7 DEF Fits
      <3> QED BY <1>w, <2>1, <3>1, <3>3, <3>4, <3>6, <3>8, <3>9
    <2> QED BY <2>2, <2>3
  <1>7. CASE RecoverBreak
    <2>1. /\ spc = "recover" /\ spc' = "forward"
          /\ UNCHANGED <<delivered, sendItems, nextSequence, content, smsg>>
          /\ closed \/ "interrupt" \in faults
      BY <1>7 DEF RecoverBreak, pool
    <2>2. faults # {}
      BY <1>a, <2>1 DEF Control
    <2>3. Fits(content[smsg], nextSequence)
      BY <1>o, <1>q, <2>1, <2>2 DEF Fits
    <2> QED BY <1>s, <2>1, <2>3
  <1>8. CASE Consume
    <2>1. /\ sendItems # <<>> /\ delivered' = Append(delivered, content[Head(sendItems)])
          /\ sendItems' = Tail(sendItems) /\ UNCHANGED <<content, spc, smsg, nextSequence, missing>>
      BY <1>8 DEF Consume, Deallocate, sequencer
    <2>2. /\ Head(sendItems) \in Slots /\ Head(sendItems) = sendItems[1] /\ Len(sendItems) \in Nat \ {0}
          /\ Len(sendItems') = Len(sendItems) - 1
          /\ \A j \in 1..(Len(sendItems) - 1) : sendItems'[j] = sendItems[j + 1]
      BY <1>q, <2>1, Removed
    <2>3. content[Head(sendItems)] \in Seqs \cup {0}
      BY <1>q, <2>2
    <2>4. /\ Len(delivered') = Len(delivered) + 1
          /\ \A j \in 1..Len(delivered) : delivered'[j] = delivered[j]
          /\ delivered'[Len(delivered) + 1] = content[sendItems[1]]
      BY <1>q, <2>1, <2>2, <2>3, Appended
    <2>5. nextSequence = (Len(delivered) + 1) + (Len(sendItems) - 1)
      BY <1>o, <1>q, <2>2
    <2>6. ASSUME NEW j \in 1..(Len(delivered) + 1) PROVE Fits(delivered'[j], j - 1)
      <3>1. CASE j \in 1..Len(delivered)
        BY <1>o, <2>4, <3>1
      <3>2. CASE j = Len(delivered) + 1
        <4>1. 1 \in 1..Len(sendItems) /\ Len(delivered) + 1 - 1 = j - 1
          BY <1>q, <2>2, <3>2
        <4>2. Fits(content[sendItems[1]], Len(delivered) + 1 - 1)
          BY <1>o, <4>1
        <4> QED BY <2>4, <3>2, <4>1, <4>2
      <3> QED BY <1>q, <3>1, <3>2
    <2>7. ASSUME NEW j \in 1..(Len(sendItems) - 1)
          PROVE  Fits(content[sendItems'[j]], (Len(delivered) + 1) + j - 1)
      <3>1. j + 1 \in 1..Len(sendItems) /\ Len(delivered) + (j + 1) - 1 = (Len(delivered) + 1) + j - 1
        BY <1>q, <2>2
      <3>2. Fits(content[sendItems[j + 1]], Len(delivered) + (j + 1) - 1)
        BY <1>o, <3>1
      <3> QED BY <2>2, <3>1, <3>2
    <2> QED BY <1>f, <1>o, <2>1, <2>2, <2>4, <2>5, <2>6, <2>7 DEF Ordered, Fits
  <1> QED BY <1>1, <1>2, <1>3, <1>4, <1>5, <1>6, <1>7, <1>8 DEF Next, Receiver, Sequencer

-----------------------------------------------------------------------------
(* The theorems.                                                           *)

LEMMA FeedInvariance == Spec => []FeedInv
  <1>1. FeedInv /\ [Next]_vars => FeedInv'
    <2> SUFFICES ASSUME FeedInv, [Next]_vars PROVE FeedInv'
      OBVIOUS
    <2>1. Places'
      BY PlacesStep DEF FeedInv
    <2>2. ASSUME ~overrun' PROVE Held' /\ Ordered'
      <3>1. CASE Next
        BY <2>2, <3>1, HeldStep, OrderedStep
      <3>2. CASE UNCHANGED vars
        <4>1. ~overrun
          BY <2>2, <3>2 DEF vars
        <4>2. Held /\ Ordered
          BY <4>1 DEF FeedInv
        <4> QED BY <3>2, <4>2 DEF vars, Held, Ordered, OneOf, Elems, Distinct, Fits, network, pool,
                receiver, recvQ, sequencer
      <3> QED BY <3>1, <3>2
    <2> QED BY <2>1, <2>2 DEF FeedInv
  <1> QED BY InitFeed, <1>1, PTL DEF Spec

\* Until a ring is overrun, a message is in the pool or in the hands of
\* exactly one thread or queue: no message is read after its deallocate, given
\* back twice or lost, through every interleaving of receiver, sequencer,
\* recovery and reader.
THEOREM MessagesHeldOnce == Spec => []OneHolder
  <1>1. FeedInv => OneHolder
    <2> SUFFICES ASSUME FeedInv PROVE OneHolder
      OBVIOUS
    <2>1. TypeOK
      BY TypesAre DEF FeedInv, Places
    <2>2. ASSUME ~overrun, NEW s \in Slots PROVE Holders(s) = IF s \in free THEN 0 ELSE 1
      <3> DEFINE A == {i \in DOMAIN recvItems : recvItems[i] = s}
                 B == {i \in DOMAIN sendItems : sendItems[i] = s}
                 C == {v \in {<<"r", rmsg>>, <<"s", smsg>>, <<"c", recvClaim>>} : v[2] = s}
      <3>1. Held
        BY <2>2 DEF FeedInv
      <3>2. OneOf(s, free, Elems(recvItems), Elems(sendItems), rmsg, smsg, recvClaim)
        BY <3>1 DEF Held
      <3>3. Cardinality(A) = IF s \in Elems(recvItems) THEN 1 ELSE 0
        <4>1. CASE s \in Elems(recvItems)
          <5>1. PICK i \in DOMAIN recvItems : recvItems[i] = s
            BY <4>1 DEF Elems
          <5>2. A = {i}
            BY <3>1, <5>1 DEF Held, Distinct
          <5> QED BY <4>1, <5>2, FS_Singleton
        <4>2. CASE s \notin Elems(recvItems)
          <5>1. A = {}
            BY <4>2 DEF Elems
          <5> QED BY <4>2, <5>1, FS_EmptySet
        <4> QED BY <4>1, <4>2
      <3>4. Cardinality(B) = IF s \in Elems(sendItems) THEN 1 ELSE 0
        <4>1. CASE s \in Elems(sendItems)
          <5>1. PICK i \in DOMAIN sendItems : sendItems[i] = s
            BY <4>1 DEF Elems
          <5>2. B = {i}
            BY <3>1, <5>1 DEF Held, Distinct
          <5> QED BY <4>1, <5>2, FS_Singleton
        <4>2. CASE s \notin Elems(sendItems)
          <5>1. B = {}
            BY <4>2 DEF Elems
          <5> QED BY <4>2, <5>1, FS_EmptySet
        <4> QED BY <4>1, <4>2
      <3>5. Cardinality(C) = IF s = rmsg \/ s = smsg \/ s = recvClaim THEN 1 ELSE 0
        <4>1. CASE s = rmsg
          <5>1. C = {<<"r", rmsg>>}
            BY <3>2, <4>1 DEF OneOf
          <5> QED BY <4>1, <5>1, FS_Singleton
        <4>2. CASE s = smsg
          <5>1. C = {<<"s", smsg>>}
            BY <3>2, <4>2 DEF OneOf
          <5> QED BY <4>2, <5>1, FS_Singleton
        <4>3. CASE s = recvClaim
          <5>1. C = {<<"c", recvClaim>>}
            BY <3>2, <4>3 DEF OneOf
          <5> QED BY <4>3, <5>1, FS_Singleton
        <4>4. CASE s # rmsg /\ s # smsg /\ s # recvClaim
          <5>1. C = {}
            BY <4>4
          <5> QED BY <4>4, <5>1, FS_EmptySet
        <4> QED BY <4>1, <4>2, <4>3, <4>4
      <3>6. Holders(s) = Cardinality(A) + Cardinality(B) + Cardinality(C)
        BY DEF Holders
      <3> HIDE DEF A, B, C
      <3> QED BY <3>2, <3>3, <3>4, <3>5, <3>6 DEF OneOf
    <2> QED BY <2>1, <2>2 DEF OneHolder
  <1> QED BY <1>1, FeedInvariance, PTL

\* With every TCP fault, nextSequence_ never runs ahead: a delivered trade is at
\* least as new as the number of trades delivered before it.
THEOREM TradesNotEarly == Spec => []NeverRunsAhead
  <1>1. FeedInv => NeverRunsAhead
    <2> SUFFICES ASSUME FeedInv, ~overrun, NEW i \in DOMAIN delivered PROVE delivered[i] >= i - 1
      BY DEF NeverRunsAhead
    <2>1. i \in 1..Len(delivered)
      BY DEF FeedInv, Places, Control
    <2> QED BY <2>1 DEF FeedInv, Ordered, Fits
  <1> QED BY <1>1, FeedInvariance, PTL

\* While TCP works and no ring is overrun, the blocking recovery delivers the
\* trades as 0, 1, 2, ..., whatever packets the multicast loses, repeats or
\* reorders.
THEOREM TradesInSequence == Spec => []InSequenceWithoutFaults
  <1>1. FeedInv => InSequenceWithoutFaults
    <2> SUFFICES ASSUME FeedInv, faults = {}, ~overrun, NEW i \in DOMAIN delivered
                 PROVE  delivered[i] = i - 1
      BY DEF InSequenceWithoutFaults, InSequence
    <2>1. i \in 1..Len(delivered)
      BY DEF FeedInv, Places, Control
    <2> QED BY <2>1 DEF FeedInv, Ordered, Fits
  <1> QED BY <1>1, FeedInvariance, PTL
=============================================================================
