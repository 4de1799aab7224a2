----------------------------- MODULE MoodyQueue -----------------------------
(***************************************************************************)
(* moodycamel's ConcurrentQueue over its sub-queues: the list of           *)
(* producers, the scan with which try_dequeue picks one, and the tokens    *)
(* with which a consumer keeps to one until everyone rotates.              *)
(*                                                                         *)
(* Of a sub-queue the four counters matter here, and every load and        *)
(* fetch_add of one of them is a step: size_approx reads two of them one   *)
(* after the other, and a dequeue reads three, reserves, looks again and   *)
(* then claims or gives back.  The elements and their blocks are in        *)
(* MoodyProducer.  The counters are natural numbers; they wrap in the code *)
(* and are only ever compared by their difference.                         *)
(***************************************************************************)
EXTENDS Integers, Sequences, FiniteSets, FiniteSetsExt, Functions

CONSTANTS
    Plain,        \* consumers without a token
    TokenUsers,   \* consumers with one
    Quota,        \* EXPLICIT_CONSUMER_CONSUMPTION_QUOTA_BEFORE_ROTATE
    OffsetWidth,  \* offsets are numbers modulo this
    MaxBulk,      \* bound: the most elements of one call
    MaxProducers, \* bound: producers created
    MaxElements,  \* bound: elements enqueued
    MaxGivenBack, \* bound: with more reservations given back, calls do not overlap
    NULL

VARIABLES
    sub,          \* sub[p]: the counters of producer p; the list runs from the last
    producerCount,
    enqueued,     \* history: how many elements were enqueued
    globalOffset, \* globalExplicitConsumerOffset
    nextId,       \* nextExplicitConsumerId
    token,        \* the ConsumerToken of each token user
    consumer,     \* where each consumer is in its call
    look,         \* and where in the dequeue of the sub-queue it is at
    due           \* history: due[c][p], the elements of p up to this index were
                  \* there when the call of c began; less what others gave back

vars == <<sub, producerCount, enqueued, globalOffset, nextId, token, consumer, look, due>>
shared == <<producerCount, enqueued, globalOffset, nextId>>

Consumers == Plain \cup TokenUsers
Idle == [pc |-> "idle"]
Failed == [pc |-> "failed"]
NoLook == [pc |-> "none"]
ListTail == Len(sub)
Go(c, r) == consumer' = [consumer EXCEPT ![c] = r]
GoOnly(c, r) == Go(c, r) /\ UNCHANGED <<sub, shared, token, look, due>>

Init ==
    /\ sub = <<>>
    /\ producerCount = 0 /\ enqueued = 0 /\ globalOffset = 0 /\ nextId = 0
    /\ token = [c \in TokenUsers |-> NULL]
    /\ consumer = [c \in Consumers |-> Idle]
    /\ look = [c \in Consumers |-> NoLook]
    /\ due = [c \in Consumers |-> <<>>]

\* add_producer counts the producer before it is in the list.
CountProducer ==
    /\ producerCount < MaxProducers
    /\ producerCount' = producerCount + 1
    /\ UNCHANGED <<sub, enqueued, globalOffset, nextId, token, consumer, look, due>>

LinkProducer ==
    /\ ListTail < producerCount
    /\ sub' = Append(sub, [tailIndex |-> 0, headIndex |-> 0, optimistic |-> 0, overcommit |-> 0])
    /\ UNCHANGED <<shared, token, consumer, look, due>>

Enqueue(p) ==
    /\ enqueued < MaxElements
    /\ enqueued' = enqueued + 1
    /\ sub' = [sub EXCEPT ![p].tailIndex = @ + 1]
    /\ UNCHANGED <<producerCount, globalOffset, nextId, token, consumer, look, due>>

-----------------------------------------------------------------------------
(* dequeue and dequeue_bulk of one sub-queue, up to the claim              *)

\* The call wants up to consumer[c].want elements of producer consumer[c].at.
AtProducer(c) == consumer[c].pc \in {"best", "each", "current", "others"}

At(c) == sub[consumer[c].at]
See(c, r) == look' = [look EXCEPT ![c] = r]
SeeOnly(c, r) == See(c, r) /\ UNCHANGED <<sub, shared, token, consumer, due>>

LoadTail(c) ==
    /\ look[c] = NoLook /\ AtProducer(c)
    /\ SeeOnly(c, [pc |-> "overcommit", tail |-> At(c).tailIndex])

LoadOvercommit(c) ==
    /\ look[c].pc = "overcommit"
    /\ SeeOnly(c, [pc |-> "check", tail |-> look[c].tail, over |-> At(c).overcommit])

\* Elements seem to be there, or not.
Check(c) ==
    /\ look[c].pc = "check"
    /\ LET l == look[c]
           desired == l.tail - (At(c).optimistic - l.over)
       IN  SeeOnly(c, IF desired <= 0 THEN [pc |-> "done", n |-> 0]
                      ELSE [pc |-> "count", over |-> l.over,
                            desired |-> Min({desired, consumer[c].want})])

AddOptimistic(c) ==
    /\ look[c].pc = "count"
    /\ sub' = [sub EXCEPT ![consumer[c].at].optimistic = @ + look[c].desired]
    /\ See(c, [pc |-> "reload", held |-> look[c].desired,
               from |-> At(c).optimistic - look[c].over])
    /\ UNCHANGED <<shared, token, consumer, due>>

\* The tail is read again: how many of the elements are really there.
ReloadTail(c) ==
    /\ look[c].pc = "reload"
    /\ LET l == look[c]
           n == Max({0, Min({l.held, At(c).tailIndex - l.from})})
       IN  SeeOnly(c, IF n < l.held THEN [pc |-> "giveback", held |-> l.held, n |-> n]
                      ELSE [pc |-> "claim", held |-> n])

\* Mutant: what was reserved in vain stays reserved.
AddOvercommitForgets(c) ==
    /\ look[c].pc = "giveback"
    /\ LET n == look[c].n
       IN  SeeOnly(c, IF n = 0 THEN [pc |-> "done", n |-> 0] ELSE [pc |-> "claim", held |-> n])

AddOvercommit(c) ==
    /\ look[c].pc = "giveback"
    /\ LET p == consumer[c].at
           n == look[c].n
           back == look[c].held - n
       IN  /\ sub' = [sub EXCEPT ![p].overcommit = @ + back]
           /\ due' = [e \in Consumers |-> IF e = c THEN due[c]
                        ELSE [q \in DOMAIN due[e] |-> due[e][q] - (IF q = p THEN back ELSE 0)]]
           /\ See(c, IF n = 0 THEN [pc |-> "done", n |-> 0] ELSE [pc |-> "claim", held |-> n])
    /\ UNCHANGED <<shared, token, consumer>>

ClaimHead(c) ==
    /\ look[c].pc = "claim"
    /\ sub' = [sub EXCEPT ![consumer[c].at].headIndex = @ + look[c].held]
    /\ See(c, [pc |-> "done", n |-> look[c].held])
    /\ UNCHANGED <<shared, token, consumer, due>>

\* The dequeue has returned to the call, which is at pc.
Dequeued(c, pc) ==
    /\ consumer[c].pc = pc /\ look[c].pc = "done"
    /\ See(c, NoLook)

\* The call has what it wanted, or goes on for the rest.
GoOn(c, n, rest) ==
    IF n = consumer[c].want
    THEN Go(c, Idle) /\ due' = [due EXCEPT ![c] = <<>>]
    ELSE Go(c, rest) /\ UNCHANGED due

-----------------------------------------------------------------------------
(* Without a token                                                         *)

\* The elements of p that c, the call of another consumer, has reserved and
\* neither claimed nor given back.
Reserved(c, p) ==
    IF look[c].pc \in {"reload", "giveback", "claim"} /\ consumer[c].at = p
    THEN look[c].held ELSE 0

\* Every call begins at the tail of the list.
Begin(c, r) ==
    /\ consumer[c] = Idle
    /\ \/ \A e \in Consumers : consumer[e].pc \in {"idle", "failed"}
       \/ \A p \in 1..ListTail : sub[p].overcommit <= MaxGivenBack
    /\ due' = [due EXCEPT ![c] = [p \in 1..ListTail |-> sub[p].tailIndex]]
    /\ Go(c, r)
    /\ UNCHANGED <<sub, shared, token, look>>

\* try_dequeue scores producers until three of them have elements, and then
\* tries the best.
Scored(s) ==
    IF s.at > 0 /\ s.nonEmpty < 3 THEN s
    ELSE IF s.nonEmpty = 0 THEN Failed
    ELSE [pc |-> "best", at |-> s.best, want |-> 1]

\* The others are tried in turn; best is not tried again.
Each(at, best, want) ==
    LET p == IF at = best THEN at - 1 ELSE at
    IN  IF p = 0 THEN Failed ELSE [pc |-> "each", at |-> p, best |-> best, want |-> want]

CallTryDequeue(c) ==
    Begin(c, Scored([pc |-> "score", at |-> ListTail, nonEmpty |-> 0,
                     best |-> NULL, bestSize |-> 0]))

\* try_dequeue_non_interleaved, and try_dequeue_bulk for up to max elements.
CallInOrder(c, max) == Begin(c, Each(ListTail, NULL, max))

\* try_dequeue and try_dequeue_bulk with a token.
CallWithToken(c, max, bulk) ==
    /\ token[c] # NULL /\ (bulk \/ max = 1)
    /\ Begin(c, [pc |-> "token", want |-> max, bulk |-> bulk])

\* size_approx loads the tail, and then the head.
SizeTail(c) ==
    /\ consumer[c].pc = "score"
    /\ GoOnly(c, [pc |-> "size", tail |-> At(c).tailIndex, score |-> consumer[c]])

Score(c) ==
    /\ consumer[c].pc = "size"
    /\ LET s == consumer[c].score
           n == Max({0, consumer[c].tail - sub[s.at].headIndex})
       IN  GoOnly(c, Scored([s EXCEPT !.at = @ - 1,
                                      !.nonEmpty = IF n > 0 THEN @ + 1 ELSE @,
                                      !.best = IF n > s.bestSize THEN s.at ELSE @,
                                      !.bestSize = Max({n, @})]))

TryBest(c) ==
    /\ Dequeued(c, "best")
    /\ GoOn(c, look[c].n, Each(ListTail, consumer[c].at, 1))
    /\ UNCHANGED <<sub, shared, token>>

TryEach(c) ==
    /\ Dequeued(c, "each")
    /\ LET n == look[c].n
           s == consumer[c]
       IN  GoOn(c, n, Each(s.at - 1, s.best, s.want - n))
    /\ UNCHANGED <<sub, shared, token>>

\* The call returns with less than it wanted.
Return(c) ==
    /\ consumer[c] = Failed
    /\ Go(c, Idle)
    /\ due' = [due EXCEPT ![c] = <<>>]
    /\ UNCHANGED <<sub, shared, token, look>>

-----------------------------------------------------------------------------
(* With a token                                                            *)

MakeToken(c) ==
    /\ token[c] = NULL
    /\ token' = [token EXCEPT ![c] = [initialOffset |-> nextId, lastKnown |-> OffsetWidth - 1,
                                      items |-> 0, current |-> NULL, desired |-> NULL]]
    /\ nextId' = (nextId + 1) % OffsetWidth
    /\ UNCHANGED <<sub, producerCount, enqueued, globalOffset, consumer, look, due>>

\* The n-th producer after p in the list, which goes round from its end to
\* the tail the caller knows.
Along(p, n, tail) == ((p - 1 - n) % tail) + 1

\* update_current_producer_after_rotation
Rotated(k) ==
    LET first == producerCount - 1 - (k.initialOffset % producerCount)
        start == IF k.desired = NULL THEN Along(ListTail, first, ListTail) ELSE k.desired
        delta == ((globalOffset - k.lastKnown) % OffsetWidth) % producerCount
        p == Along(start, delta, ListTail)
    IN  [k EXCEPT !.lastKnown = globalOffset, !.desired = p, !.current = p, !.items = 0]

TokenCheck(c) ==
    /\ consumer[c].pc = "token"
    /\ LET k == token[c]
           rotate == k.desired = NULL \/ k.lastKnown # globalOffset
           r == IF rotate THEN Rotated(k) ELSE k
       IN  IF rotate /\ k.desired = NULL /\ ListTail = 0
           THEN Go(c, Failed) /\ UNCHANGED token
           ELSE /\ token' = [token EXCEPT ![c] = r]
                /\ Go(c, [pc |-> "current", at |-> r.current,
                          want |-> consumer[c].want, bulk |-> consumer[c].bulk])
    /\ UNCHANGED <<sub, shared, look, due>>

\* The current producer first; having taken its quota, everyone rotates.
TokenCurrent(c) ==
    /\ Dequeued(c, "current")
    /\ LET n == look[c].n
           want == consumer[c].want
           items == token[c].items + n
           spent == n = want /\ (IF consumer[c].bulk THEN items >= Quota ELSE items = Quota)
       IN  /\ token' = [token EXCEPT ![c].items = items]
           /\ globalOffset' = IF spent THEN (globalOffset + 1) % OffsetWidth ELSE globalOffset
           /\ GoOn(c, n, [pc |-> "tail", want |-> want - n])
    /\ UNCHANGED <<sub, producerCount, enqueued, nextId>>

\* Then the others, once round; the last to give something is current.
Others(at, current, want, tail) ==
    LET p == IF at = 1 THEN tail ELSE at - 1
    IN  IF p = current THEN Failed
        ELSE [pc |-> "others", at |-> p, want |-> want, tail |-> tail]

TokenTail(c) ==
    /\ consumer[c].pc = "tail"
    /\ GoOnly(c, Others(token[c].current, token[c].current, consumer[c].want, ListTail))

TokenOthers(c) ==
    /\ Dequeued(c, "others")
    /\ LET n == look[c].n
           s == consumer[c]
           current == IF n = 0 THEN token[c].current ELSE s.at
       IN  /\ token' = IF n = 0 THEN token
                       ELSE [token EXCEPT ![c].current = s.at, ![c].items = n]
           /\ GoOn(c, n, Others(s.at, current, s.want - n, s.tail))
    /\ UNCHANGED <<sub, shared>>

-----------------------------------------------------------------------------
Next ==
    \/ CountProducer \/ LinkProducer
    \/ \E p \in 1..ListTail : Enqueue(p)
    \/ \E c \in Plain : \/ CallTryDequeue(c) \/ \E max \in 1..MaxBulk : CallInOrder(c, max)
                        \/ SizeTail(c) \/ Score(c)
                        \/ TryBest(c) \/ TryEach(c)
    \/ \E c \in Consumers : \/ LoadTail(c) \/ LoadOvercommit(c) \/ Check(c)
                            \/ AddOptimistic(c) \/ ReloadTail(c) \/ AddOvercommit(c)
                            \/ ClaimHead(c) \/ Return(c)
    \/ \E c \in TokenUsers : \/ MakeToken(c)
                             \/ \E max \in 1..MaxBulk, bulk \in BOOLEAN : CallWithToken(c, max, bulk)
                             \/ TokenCheck(c) \/ TokenCurrent(c) \/ TokenTail(c) \/ TokenOthers(c)

Spec == Init /\ [][Next]_vars

-----------------------------------------------------------------------------
\* No producer is overlooked.  When a call returns with less than it wanted,
\* the elements that were in a producer when the call began are gone: taken
\* or reserved by now, but for as many as others, while the call went on,
\* had reserved in vain and gave back.  So a call that nobody overlaps finds
\* everything, whatever it scored and wherever its token stood.  The comment
\* on try_dequeue promises no more ("likely but not guaranteed"): see due
\* and Reserved for why a reservation can hide an element.
ReservedOf(p) == SumFunctionOnSet([c \in Consumers |-> Reserved(c, p)], Consumers)

NothingOverlooked ==
    \A c \in Consumers : consumer[c] = Failed =>
        \A p \in DOMAIN due[c] : due[c][p] <= sub[p].headIndex + ReservedOf(p)
=============================================================================
