# A verification of the HFT components

The repository is a collection of C++ and Python programs. Its core is `HFT/`: lock-free
queues, message pools, hash maps, an asynchronous logger, an order book, and a market-data
feed (a ticker server and a trade receiver) built from them. `c++20/` and `Study/` hold the
exercises these grew from. This directory holds TLA+ models of that core and of the exercises
with state worth checking, TLC configurations that check them on small instances, and TLAPS
proofs of what matters most. `PROJECT.json` maps every definition to the lines it models and
lists the runs, the mutants (a plausible bug per property, which TLC must find), the findings,
the hazards and the theorems.

## Inventory

| Part | State | Operations | Interacts with |
|---|---|---|---|
| `CustomSPSCLockFreeQueue` (`Queue.hpp`) | ring of pointers, `head_`, `tail_` | `enqueue`, `dequeue` | receiver -> sequencer -> reader of `sendQ` |
| `CustomMPMCLockFreeQueue` (`Queue.hpp`) | ring of cells with sequence numbers, `head_`, `tail_` | `enqueue`, `dequeue` | callers of `log` -> logger thread |
| `MoodycamelLockFreeQueue` (`moodycamel/concurrentqueue.h`) | a sub-queue per producer (counters, blocks, block index), free list of blocks, hash of thread ids, list of producers, tokens | `enqueue`, `try_dequeue`, bulk calls, thread exit | any producers and consumers |
| `LockedQueue`, `c++20/BoundedBlockingQueue.cpp`, `Study/my_threads.cpp` | a queue, a mutex, condition variables | `enqueue`, `dequeue` | producers and consumers that wait |
| `LockFreeThreadSafePool` (`MemoryPool.hpp`) | `nextFree_` links, `head_` = index and tag in one word | `allocate`, `deallocate` | all buffers of the feed and the logger |
| `CustomLockedPool`, `CustomLockFreePool`, `c++20/LockFreeQueue.cpp` | an array of free messages, one or two indices | `allocate`, `deallocate` | whoever picks them as the parameter of `MemoryPool`; the tests |
| `AsyncLogger` | pool, MPMC queue, `runFlag_`, the stream | `log`, `LoggerThread`, destructor | every thread of the feed |
| `ITCHTradeReceiver` | two SPSC queues, pool, `nextSequence_`, recovery connection | `run` of receiver and sequencer, `recover`, `stop` | ticker server by UDP and TCP |
| `ITCHTickerServer` | the trade store, client connections | multicast, gap requests, replay | the receiver |
| `HashMap.hpp`, `c++20/HashTables.cpp` | buckets, node pool, or probed table | `insert`, `operator[]`, `find`, `contains`, `erase`, `reHash` | the order book's `orderMap_` |
| `OrderBook.hpp`, `c++20/MockOrderBook*.cpp` | orders by id, quantity per level, best indices | `insert`, `update`, `cancel`, best prices | `HashMap` |
| `Study/weak_ptr_impl.cpp` | control blocks with a strong and a weak count | make, copy, move, assign, `lock`, destroy | |
| `Study/vector.cpp` | memory, size, capacity | construct, copy, move, assign, `push_back`, `pop_back`, `reserve` | |
| `c++20/StockFeedManager*.cpp`, `Twitter.cpp` | events per source, who follows what, kept feeds | publish, subscribe, unsubscribe, read a feed | |
| the rest of `c++20/`, `Study/`, `Leet/`, `OptionPricer/`, `docs/`, `docX/` | | | language exercises, algorithms, a pricing page, documentation of another project |

What is hard here: interleavings of atomic accesses (queues, pools, free list, hash of thread
ids), ABA, rings at their limit, indices and packed words of finite width, memory that is freed
and reused under readers, allocation that fails half-way, wake-ups that go to the wrong thread,
a lossy network with a recovery protocol over a byte stream, ignored results of `enqueue`,
shutdown in the middle of work, and long sequences of legal calls on the sequential structures.
What makes each part correct: the queues deliver each message once and in order and say "full"
and "empty" truthfully; a pool never hands out a buffer twice nor loses one; a buffer or block
has one holder at any time; trades come out in sequence; log lines come out in call order and
are all accounted for; a call that blocks returns once its partner calls; the levels of a book
are the sums of its orders and its best indices the best levels; a map contains what was put in
and not erased; an object is deleted with its last owner and an element with its vector; a service
written twice shows the same twice, the newest of what is followed. `PROJECT.json` lists the
hazards at their lines.

## Modules

`RingQueue`, `BoundedFIFO` and `MessagePool` are abstract specifications, each implemented by a
detailed module and each then used in place of the detailed one by a module that composes it:

    SPSCQueue  implements RingQueue    used by TradeFeed
    MPMCQueue  implements BoundedFIFO  used by AsyncLogger
    TaggedPool implements MessagePool  used by AsyncLogger (TradeFeed has a set of free slots)

The queues and pools of `Queue.hpp` and `MemoryPool.hpp`:

* **SPSCQueue**: `CustomSPSCLockFreeQueue`, one step per access to a shared variable. Indices
  count modulo `IndexMod` (2^64 in the code) and the full test is the unsigned subtraction.
  `dequeue` is two steps, `TakeHead` (`fetch_add`) and `ReadSlot`, because the slot can be
  overwritten in between. So its abstraction **RingQueue** is not a FIFO: an enqueue into the
  last slot of a ring whose consumer has claimed a message may replace that message.
* **MPMCQueue**: `CustomMPMCLockFreeQueue`, one step per access; a compare-exchange may fail
  spuriously (`compare_exchange_weak`). Positions are natural numbers: the code compares them
  by signed difference, which is exact while fewer than 2^63 are between them.
  **BoundedFIFO** is a queue of at most `Capacity` messages and the message each dequeuer has
  in its hands.
* **TaggedPool**: `LockFreeThreadSafePool`. The head word is a record of the two halves that
  `pack` produces, each cut to its width; `nextFree_` entries are `size_t` (`FullMod`). A read
  beyond `nextFree_` ends the behaviour with `fault`. **MessagePool** is a set of free slots.
* **SimplePools**: the pools that keep free messages in an array, chosen at the start:
  `CustomLockedPool`, `CustomLockFreePool` access by access, and the ring of
  `c++20/LockFreeQueue.cpp` with its indices modulo twice the capacity. Which threads allocate
  and which give back are constants.
* **BlockingQueue**: `LockedQueue`, `BoundedBlockingQueue` and the producer and consumer of
  `my_threads.cpp`. What a thread does under the mutex is one step; waiting, notification of one
  waiter, spurious wake-ups and a notification after the unlock are steps of their own.

moodycamel's queue, in the parts that its own code separates:

* **MoodyProducer**: one sub-queue, implicit or explicit. The producer's steps and the consumers'
  steps on `dequeueOptimisticCount`, `dequeueOvercommit`, `headIndex` and `tailIndex`, the block
  index and its growth, the emptied-count of blocks, their return and reuse, bulk calls that run
  out of memory and undo what they did, and the destructor. Element `i` is the number `i`, so
  reading another element's place shows.
* **MoodyFreeList**: `FreeList`, with the reference count and the should-be-on-list bit in one
  word. Its compare-exchanges are the strong ones: they fail only if the value has changed.
* **MoodyHash**: the hash of implicit producers: probing, the resize by one thread while others
  go on in the old table or wait, the chain of older tables, and threads that exit and whose
  producers are taken over.
* **MoodyQueue**: the producer list, `try_dequeue` with its scoring and its full scan, `try_dequeue`
  in list order, bulk calls, and consumer tokens with the global rotation offset. A sub-queue is its
  four counters, and each load or `fetch_add` of one of them is a step: `size_approx` reads the tail
  and then the head, and a dequeue reads the tail, `dequeueOvercommit` and
  `dequeueOptimisticCount`, reserves, reads the tail again, and then claims or gives back.

The components built from them:

* **AsyncLogger**: `log`, `LoggerThread`, the destructor. A line is the pair of its caller and
  the number of the call. A refused `enqueue` loses the line and leaks its message, as in the
  code. An exhausted pool is `crashed`.
* **TradeFeed**: the ticker server, the network, the receiver thread, the sequencer thread with
  its recovery, `stop` from main, and a reader of `sendQ` (which the repository leaves to its
  user; `Consume` reads the trade and gives the buffer back). UDP loses, repeats and reorders.
  `FaultKinds` are the faults of the recovery connection: it closes, a read is partial, or
  `epoll_wait` is interrupted. Exceptions that leave a thread end the program (`dead`).
  The server's answer to a gap request is one step: the trades it reads do not change, and the
  receiver takes them from the stream one by one.
  Buffers are slots with the number of the trade in them; a freed slot keeps its content until
  it is written again, so a buffer used after it was freed is seen.

The sequential structures:

* **HashMap**: the three maps of `HashMap.hpp`, chosen at the start of a behaviour, with the
  real probing, DELETED marks and rehashing; `%` stands for the masks, which are the same for
  the powers of two the maps start with and double to. `model` is what the calls should have stored.
  **HashTables** adds the operations of `c++20/HashTables.cpp` on the same layouts.
* **OrderBook**: `OrderBook<false>` ("hft"), `MockOrderBook.cpp` ("pooled") and
  `MockOrderBook_ZeroCopy.cpp` ("zerocopy"). Prices are ticks; those in `FallsShort` land one
  level below, as a floating-point product that truncates does. An order whose id is taken over
  by a later insert is a ghost. A scan of the zerocopy book that leaves its levels is `wild` and
  ends the book: what it reads there is not defined.
* **RefCounts**: `SharedPtr`, `WeakPtr` and `ControlBlock` of `weak_ptr_impl.cpp`, with control
  blocks that are allocated again after they were deleted.
* **Vector**: `zam::vector`. The constructors, assignments and element operations are composed of
  the same `reallocate`, `reserve` and `emplace_back` as in the code, on a heap that notes when
  memory is used after it was freed or freed with elements in it. `vector(n, val)` does not
  construct: it assigns with `std::fill` to raw memory (`vector.cpp:23`), which is an initialization
  only for an implicit-lifetime element type like the `int` of the tests. `trivial` says whether
  the type is one, and `Fill` on any other notes "raw" and ends the behaviour, since nothing is defined
  from there on.
* **NewsFeeds**: the two `StockFeedManager`s and the two classes of `Twitter.cpp`, with the
  k-way merge, the bounded heap and the kept feed as they are in the code. The two classes of a
  service are given the same calls, one action for a call on both, so that what they show can be compared.

And the theorems: **QueueProofs**, **PoolProofs**, **MPMCQueueProofs**, **OrderBookProofs** and
**HashMapProofs**, each about the components that one MC module hosts, **AsyncLoggerProofs** and
**TradeFeedProofs**, with **NumberFacts** (remainders and laps, the least element of a set of numbers, sums
over finite sets, which they share); and **MC...** (the instances for TLC: model values, symmetry).
An MC module may host several components that ask the same kind of question; its variable `part`
chooses one at the start of a behaviour, and the variables of the others stand still. The
specification of the hosted component is untouched.

A step is an access to shared memory and steps interleave: the sequential consistency that x86
gives these loads, stores and read-modify-writes. Reorderings of weaker hardware are not modelled.

## Runs

| Run | What it shows | Bounds |
|---|---|---|
| `spsc` | the SPSC ring is never over-full across wrap-around, a claimed slot changes only in a full ring, it implements RingQueue; in a moodycamel sub-queue no consumer passes the tail, each reads its own elements, every block has one owner; the free list is exact | ring: capacity 2, indices modulo 8, 3 messages; sub-queue: 2 consumers, 3 blocks of 2, 5 elements, bulk of 2, no call once 2 attempts found their element gone; list: 3 threads, 2 nodes |
| `mpmc` | one owner per cell, no overrun, truthful full and empty, implements BoundedFIFO; when a dequeue of moodycamel's queue returns with less than it wanted, what each sub-queue held as the call began is taken or reserved, but for as many elements as others gave back meanwhile | 3 threads, capacity 2, positions up to 3; 1 plain consumer, 1 with a token, 2 producers, 2 elements, bulk of 2, quota 2, offset modulo 4, no overlapping calls once a reservation was given back |
| `tagged_pool` | the free list holds exactly the free slots in every race; implements MessagePool; the array pools keep each message once | 2 threads, 3 slots, 2-bit index and tag; 1 thread per side, 3 messages |
| `pool_exhausted` (violation) | `allocate` on an empty pool reads out of bounds instead of returning nullptr | one call more than slots |
| `custom_pool` (violation) | two `deallocate` calls of `CustomLockFreePool` lose a message and duplicate another | 2 threads, 3 messages |
| `feed` | in sequence under any UDP behaviour, never ahead of the trades under TCP faults, one holder per buffer | 3 trades, 3 slots, queues of 2 |
| `feed_live` | a trade that is queued is passed, recovery included | the same, without TCP faults |
| `feed_lapped` (violation) | past an overrun of the ring a trade comes out of sequence | 4 slots, ring of 2 |
| `logger` | one holder per message, call order, every line accounted for, queued lines are written; in the blocking queues every call returns | 2 threads, 2 calls each, 3 messages, queue of 2; 2 producers and 2 consumers, 2 calls each, room for 1 |
| `orderbook` | levels are sums, best indices are the top levels, a quote of any book is a level with quantity or the end of the book; objects and control blocks are deleted with the last pointer; vectors account for elements and memory; the two versions of a feed agree | 2 ids, 4 levels, quantities 0..2, 1 ghost, pool of 2; 3 shared and 2 weak pointers, 2 blocks; 2 vectors of up to 4; 2 names, 4 posts, 2 shown |
| `hashmap` | nodes and sizes accounted for, live keys found, exact unless a key is put in twice, the fixed table is a map of queues; no two threads get one moodycamel producer, every probe ends | 4 keys (tables: 3) of which 2 and 2 collide, 4 buckets, one rehash to 8; 3 threads, tables from 2 slots, 1 exit |
| `hashmap_erase` (violation) | a key of the open map can survive its erase | the same keys |

Why the bounds are enough to be interesting: the SPSC ring goes round its slots four times before
its indices wrap; with three threads on two cells of the MPMC queue a thread can be delayed over
a whole lap while two others work on both of its neighbours; a sub-queue fills two blocks, grows
its index, has a block emptied by two consumers and takes it again for the fifth element; three
threads on the free list are one that pushes, one that holds a reference and one that sees the
node between; the hash is replaced twice while threads with colliding ids register; the pool
reaches every interleaving of two calls with pops and pushes of the same slot (with the tag left
out, TLC finds the ABA); the feed has enough trades for a gap of two and a recovery that a late
packet races; the logger can refuse a line, and be destroyed with lines queued; with room for one
element and two threads on either side a notification can find nobody, or wake a thread whose
element is gone; the map fills its table, leaves DELETED slots on probe sequences that wrap around
its end, and rehashes; a book has two levels to choose from below its best.
`NoFullTagCycle` excludes a thread that sleeps through exactly one cycle of the tag, 2^32 calls
in the code. `MaxPos`, `MaxElements`, `MaxSpurious`, `MaxProducers`, `MaxExits`, `MaxCalls`,
`Calls`, `MaxBuckets`, `MaxGhosts`, `MaxCapacity`, `MaxPosts`, `MaxFeed`, `MaxInUse`,
`MaxBulk`, `MaxGivenBack` and `StoreSize` bound the behaviours. With `MaxGivenBack` at 0 the calls of
the two consumers of `mpmc` overlap up to and including the first reservation that is given back; after
it a call begins when no other is under way. The theorem has no such bound.

Deadlock is checked except where the system really ends: `spsc` (the sub-queue is destroyed, or
its elements are used up), `feed` and `feed_live` (all trades are sent and read), `logger` (the
logger is joined, the callers have made their calls) and `orderbook` (a wild scan ends the book).

**Provisos.** `InSequenceWithoutFaults`, `NeverRunsAhead` and `OneHolder` of the feed hold until a
ring is overrun; what happens after is the finding of `feed_lapped`. `BestIsTop` and
`QuoteRests` hold as long as no order has had quantity 0: an update back from 0 refills a
level without looking at the best index. For the c++20 books only `QuoteRests` is claimed: an
index that is not at the end of the book is at a level with quantity. They reset the best index to
the end of the book on updates that do not empty the best level (`MockOrderBook.cpp:160`), whatever
rests above it, and no comment or test of theirs denies it.
`ExactUnlessReinserted` excludes keys put in while present for two maps: the fixed map chains a
second node by design of its `insert`, and the open map stores duplicates behind DELETED slots,
the finding of `hashmap_erase`. `FailingBulk` names the producers whose bulk calls may run out of
memory, in the run only implicit ones: a failed bulk call of an explicit producer leaves blocks in
its ring that the index has no room for, and TLC then finds `ReadsItsOwn` violated. The repository
never makes that call: `Queue.hpp` uses neither producer tokens nor bulk calls. The array pools are
checked with one thread on each side; two are the finding of `custom_pool`.

`NothingOverlooked` is not the claim that a failed `try_dequeue` has seen every sub-queue empty: the
code does not keep that. Its counters are read one after the other, and a reservation that is about
to be given back hides an element from everyone else; the comment on `try_dequeue` promises no more
than that "all producer streams appeared empty at the time they were checked (so, the queue is
likely but not guaranteed to be empty)" (`concurrentqueue.h:1121`). What the property says is how much can be
hidden at most, and so that a call which nobody overlaps finds everything.

`ElementsAccounted` allows three things the vector does: a move assignment frees the memory of its
target without destroying the elements (`vector.cpp:57`), `push_back` of an element of the vector
itself copies from freed memory when the vector is full (`vector.cpp:78`), and `vector(n, val)` of
a type that is not implicit-lifetime assigns to elements that were never constructed, and destroys
them later (`vector.cpp:23`). The last is undefined behaviour; the property says of it only that
the type was such a one. The tests make such vectors of `int` only.

`FeedsAgree` claims the order between stocks only for users who never subscribed to a stock that had
events: `subscribe` puts those in front of newer ones (`StockFeedManager2.cpp:29`), so "Events must
be sorted by descending timestamp" (line 122 of that file) is not kept for the others, nor is a second
subscription left out. "Each stock keeps at most the latest 100 events" (line 129) is implemented in
neither version. Both `main`s note "Expected: [103, 102]" after TSLA had the events 105 and 106
(`StockFeedManager.cpp:135`, `StockFeedManager2.cpp:77`); the user still follows TSLA, lines 120 to
122 ask for the most recent events, and the code shows 106, 105, 103. The model follows the code, and
the note is taken for what the call would show before those two lines were added.

**Fairness.** `feed_live` and `logger` assume weak fairness of the threads that the code runs as
unconditional loops (the sequencer, the server's answers, the logger thread) and of a `log` call
that has claimed its queue position and only has to return: the operating system schedules a
runnable thread eventually. Nothing is assumed of the network, of packets arriving, of callers
starting calls, or of `stop`. The blocking queues assume weak fairness of each thread's next step
(a thread that is not waiting on a condition variable gets the mutex in the end) and that as many
elements are put in as are taken out; a spurious wake-up is possible and never owed.

## Findings

1. `MemoryPool.hpp:154`: `CustomLockFreePool::deallocate` writes its entry before the
   compare-exchange that makes it its own (`custom_pool`).
2. `MemoryPool.hpp:189`: the exhaustion test of the tagged pool cannot hold (`pool_exhausted`).
3. `ITCHTradeReceiver.cpp:160`: the SPSC `dequeue` frees its slot before reading it
   (`Queue.hpp:103`), and with the sizes of the feed this delivers out of sequence and frees a
   buffer that is queued (`feed_lapped`).
4. `HashMap.hpp:290`: the open map duplicates keys and finds an erased one (`hashmap_erase`).

## Proofs

All theorems hold for every value of the constants that satisfies the named assumptions. A
component that an MC module hosts is proved about as it stands there: its theorem is about
`MCSpec`, of which every behaviour in the part concerned is one of the component's own
specification, and its assumption is named in the MC module.

**QueueProofs**

* The SPSC ring (from `NullAssumption` and `CapacityAssumption`): `TypeCorrect`,
  `RingNeverOverfull`, `ClaimSafeUnlessFull`. `NeverOverfull` alone is not inductive: the
  producer acts on a full test made earlier. The invariant adds that between the test and the
  publication there is room for one message as seen from the current `head_` (the consumer can
  only make more), that the consumer past its empty test has a message to take, and that
  `chead` is the position just behind `head_`; then only a message written `Capacity` positions
  later can be in the claimed slot. `RefinesRingQueue` adds `Filled`: the slots from `head_` up to
  `tail_` hold the items in order. Each step is then one of RingQueue or a stutter; the write
  into the last slot of a ring whose consumer is between claim and read is RingQueue's overwrite.
* moodycamel's free list (from `FreeListAssumption`: finitely many threads and nodes, and the bit
  lies above every count they can reach): `FreeListStaysExact`. The invariant has an order of the
  nodes on the list and, for each node, a place: outside, on the list, waiting for its last reader
  to put it there, or in the hands of one thread. Its reference count is the number of threads
  that hold it, plus what the place adds; and what a thread has read of the list is still so while
  it holds the node it read it from. This is why the count is raised before `next` is read.
* The counters of a sub-queue (from `CounterAssumption`): `HeadBehindTail`. A consumer reserves by
  adding itself to `dequeueOptimisticCount`, looks at the tail again and gives the rest back.
  `CountersInv` has that the reservations add up, and a rank of the consumers by when they last
  reserved: each counts from behind everything that was reserved before it. What consumers are
  sure of is then never more than what lies before the tail, in whichever order they look.
* The blocks of an implicit producer, the only kind `Queue.hpp` uses (from `CounterAssumption` and
  `IndexAssumption`: blocks and the first index are not empty, and the null pointer is no block and
  no number): `ClaimedIsRead` and `BlocksGoBackOnce`, for any number of consumers and blocks, any
  block and index size and bulks of any size. `BlocksInv` has three parts, none of which is
  inductive without the others. `IndexOK`: there is a numbering of each header's positions,
  modulo its size, under which every entry that was ever used stands where its key belongs; so a
  consumer finds its block from any mark of any header it has loaded, however often the index
  was rewound, doubled or used again since. `Store`: a block is live as long as an element of it is
  unread or its last consumer has not taken it out of the index; its count of emptied elements is what
  is missing in it; a live block is in nobody else's hands, and every block that is not live is free or
  about to be freed, by one consumer. `Calling`: what the call under way has taken, which it owns
  alone until the tail passes it. A step of the index keeps the positions of the live blocks in
  all headers (`IndexKeeps`), so it misleads no consumer that holds an old one. That a claim never
  passes the tail is `CountersInv`, with which the proof is carried on together.

**MPMCQueueProofs**

* The queue: `TypeCorrect`, and for two cells or more `QueueNeverOverrun`, `CellsOwned`,
  `FullReported`, `EmptyReported` and `QueueIsFIFO`, the refinement of BoundedFIFO. The inductive
  invariant says what the sequence number of each cell means: at every position of the current
  window, `seq` tells whether the position is free, claimed for writing, filled, or claimed for
  reading, and which thread owns it. A capacity of one passes the constructor's check, but
  then "filled" and "released" are the same number, and the invariant is false: this is why the
  theorems assume `Capacity >= 2`.
* moodycamel's scan (from `ScanAssumption`): `NoProducerOverlooked`, for any number of consumers
  with and without a token and of producers. `ScanInv` has that each producer's reservations add up:
  what was reserved has been claimed, was given back or is held by a call. So a tail, an overcommit
  and an optimistic count that were read one after the other still bound what was there from the
  start and nobody has taken, less what others gave back meanwhile. And it says which producers a
  call still owes a look: any with elements due is among those ahead, whether the call counts
  up to three, takes the best, goes through the list, or goes round from a token's producer
  while the list grows in front of it.

**PoolProofs**

* The tagged pool (from `PoolAssumption`): `ListStaysIntact`, `NeverFaults` and
  `RefinesMessagePool`, all under `MaxInUse <= N`: never more messages in use than there are. (With
  one more, `allocate` reads out of bounds: the finding of `pool_exhausted`, so the condition is
  needed.) The invariant has the list of free slots that starts at the index in `head_`, and says
  what a thread between its load of `head_` and its compare-exchange still knows: if the word has
  not changed, neither has the link it read. This is where the tag counts, and where
  `NoFullTagCycle` is used.
* The array pools (from `SimpleAssumption`): `EachMessageHasOneHolder`, for any number of messages
  and under `OneOnEachSide`. (With two threads that give back it fails: the finding of
  `custom_pool`.) The invariant lists the free messages in the order in which the array keeps
  them, as a stack or from one index of the ring to the other, and says how far the index that a
  thread has read may differ from what it is now: in the ring not at all, in the stack by what the
  other side has taken or added, which its compare-exchange sees.

**AsyncLoggerProofs**: `TypeCorrect`, `MessagesHaveOneHolder`, `LinesInCallOrder`,
`EveryLineAccounted`. `OneHolder` is strengthened by `Hands`: which program counters of a caller
and of the logger thread go with a message in hand. `LinesKept` relates the text in a message to
the call that wrote it, and the calls made to the lines that wait, were written or were lost.

**TradeFeedProofs**: `MessagesHeldOnce`, `TradesNotEarly`, `TradesInSequence`, for any trades,
slots and queue sizes and any behaviour of the network. `FeedInv` has two layers: `Places` (the
types, and which program counters go with a message in hand) always holds; `Held` (one holder per
buffer) and `Ordered` (`nextSequence_` counts the trades passed on and queued, each of which fits
its place, as does the one the sequencer is about to forward) hold until a ring is overrun, when
they fail: the finding of `feed_lapped`.

**OrderBookProofs**

* The books (from `BookAssumption`): `LevelsAreSums`, `BestAtTop`, `QuotesRest`.
  A level is compared with a sum over a finite set, which follows a change
  of one element. `LevelsMatchOrders` is inductive with the laws of such sums. `BestIsTop` is not:
  it says nothing of a side without quantity, where an index left high would let a later order
  rest below it unseen. `TopBid` and `TopAsk` say that nothing rests beyond the best index and that
  its level is only empty at the end of the book; `NoneEmpty` that a live order keeps its level
  positive, so that one that is changed rests at the best level or behind it; `QuotedBid` and
  `QuotedAsk` say of every book that the level it quotes holds quantity or is the end of the book.
* The smart pointers (from `PointerAssumption`: no variable is both a `SharedPtr` and a `WeakPtr`,
  there are finitely many, and a control block is neither the null pointer nor the mark of a
  destroyed pointer): `DeletedByLast`. The invariant equates both counts of each block with the
  numbers of pointers to it, and one more weak count for all owners. It is stated for any pointers
  and heap, so that it can be followed through the parts of which an assignment is made.
* The vectors (from `VectorAssumption`: no allocation is the null pointer): `VectorsKeepElements`,
  for any number of vectors, allocations and elements. The invariant says what a vector with given
  members stores in a given memory, that no two share memory and that all memory is some vector's.
  `reallocate`, `reserve` and `emplace_back` each move the elements of one vector from one memory
  to the next and touch no other's (`Moved`), and such moves compose as the calls do. It ends with
  the fill of a type that needs construction, where the behaviour ends too.

**HashMapProofs**

* The thread ids (from `IdAssumption`): `ThreadIdsApart`, for any threads and ids, whatever they
  collide with, however often the table is replaced while others search it, and whoever exits. The
  invariant says of each thread that all tables which name it agree on its producer and are probed
  up to its name without an unused slot before it, that it is named only while it has a producer or
  is removing its name, and that no two have one producer. A step of one thread keeps what the
  others rely on: slots never become unused, and only slots without a thread, or its own, change.
* The maps (from `MapAssumption`): `NothingLost`, `LiveKeysStay`, `MapIsExact`. For the chained
  maps the invariant is that every node is in the chain of its bucket or in the pool; for the open
  one, that every slot of a key's probe sequence before the key is in use or was, and that the
  table has a slot that is not occupied. `reHash` is followed slot by slot (`MovedSoFar`): the new table holds what
  was moved so far.
* The fixed table (from `TableAssumption`): `FixedTableQueues`. The nodes of a key are, in the order
  of the chain, what its calls have put in and not taken out: an increasing map onto their places.

Induction is done by contradiction: `LeastNumber` gives the least number, `MinimalSet` the
smallest set, for which a claim fails. A recursive function (the free list followed from `head_`, a
new table's size, a fold) is known to be what its equation says by exhibiting a solution and
showing by such an induction that there is no other.

Only model-checked:

* liveness (`CatchesUp`, `EventuallyWritten`, `EveryCallReturns`), which the provers do not reach;
* `ReadsItsOwn` and `BlocksOwnedOnce` for explicit producers. `ClaimedIsRead` and
  `BlocksGoBackOnce` are about implicit ones; an explicit producer keeps its blocks in a ring and
  finds them by the distance from one of its index's entries, for which no proof has been written;
* `FeedsAgree`: what the tweets are compared with is sorted by `SetToSortSeq`, a choice among the
  permutations of a set, which the provers cannot look into;
* `ProbesEnd`: that `implicitProducerHashCount` leaves a slot unused is not an invariant of the
  count alone. A thread that is late in an old table may reuse a slot there, give its count back,
  and then copy itself into an unused slot of the current table; an argument has to count such
  copies too.

## Not modelled

* Of moodycamel's queue: `swap` and moves of queues and tokens, elements whose constructor or move
  throws (the repository stores pointers), sub-queues at their size limit, wrap-around of the 64-bit
  indices, debug and statistics code, the platform layer (thread ids, atomics, semaphores).
* Of the feed: socket set-up, connect and accept, `replayAll` (no client asks for it), parsing the
  trade file; of the logger: formatting and truncation; of the book: printing and `OrderBook<true>`
  (its storage is never given a size, so its first insert has nothing to take).
* Wrappers of third-party containers (Boost, Folly, Abseil), DPDK, OptionPricer.
* Of `c++20/`: `RingBuffer` (one array, one index, one caller) and `OrderBook.cpp`, which drops
  whatever it matches at any quantity. Of `Study/`: the language demonstrations, and `my_shared` of
  `smart_ptr.cpp`, whose moves leave the counter behind. `Leet/`: pure functions; its AVL tree
  computes the heights of a left rotation in the wrong order and is not balanced from six
  insertions on, and nothing in the repository says more of it than its name.

Each is listed with its reason in `PROJECT.json`.

## Plan

Done: both ring queues, the pools, moodycamel's queue in four parts, the blocking queues, the
logger, the feed, the maps and tables, the three books, the reference counts, the vector, the news
feeds; the refinements of all three abstract specifications proved, and the safety of all of them
but what is listed under "Only model-checked". Left, in order:

1. `ReadsItsOwn` and `BlocksOwnedOnce` for explicit producers: a ring of blocks beside the index.
2. Composition of MoodyProducer with MoodyFreeList: the sub-queue takes its blocks from a set.
3. The trees and sorts of `Leet/` as operators against reference definitions.
