# A TLA+ model of Nexus-HFT

This directory holds TLA+ specifications of the Nexus-HFT code base, TLC
configurations that model-check them on small instances, and proofs, checked by
TLAPS, of theorems that hold for every value of the constants. Paths below are
relative to the repository root. Every definition is translated from the code,
not from the documentation; where the two disagree there is a finding.

Each module can be parsed with `tlasany M.tla`, a run is
`tlc -workers 2 -config X.cfg M`, a proof is `tlapm M.tla`. `PROJECT.json` lists
components, runs, the definition-to-source map, findings, hazards and theorems.
Operators marked "mistaken" next to a definition are wrong on purpose: each one
is a plausible bug, and the run named with it in `PROJECT.json` must find it.

## 1. Inventory of the system

Nexus-HFT is a C++20 exchange core. The process that runs (`src/main.cpp`) is
one thread that reads commands from a pipe, matches orders and prints trades and
the book; a Node.js bridge drives the pipe and a React page talks to the bridge.
Around it the repository has libraries that the process does not call yet: a
lock-free queue and a TCP gateway in front of it, a risk check, a portfolio, a
write-ahead log, and trading signals. Those are exercised by unit tests and
benchmarks.

| Component | State it keeps | Operations | Talks to |
|---|---|---|---|
| MatchingEngine (`src/engine/matching_engine.cpp`) | an OrderBook; locals of a call | process_limit_order, cancel_order | OrderBook, IntrusiveList; returns trades |
| OrderBook, PriceLevel (`src/engine/order_book.cpp`) | two sorted maps price -> level (list, cached total_volume) | insert_order, cancel_order, reduce_order, get_best_*, check_remove_level | IntrusiveList, PoolAllocator |
| IntrusiveList (`order_book.hpp`, `intrusive_list.hpp`) | head, tail; prev/next inside the order nodes | push_back, remove | nodes owned by MemoryPool |
| MemoryPool (`core/memory_pool.hpp`) | slab, freelist inside the free slots, counter | allocate, deallocate | main |
| Engine process (`src/main.cpp`) | engine, pool, next_id | BUY, SELL, CLEAR, refusals | stdin/stdout/stderr |
| SPSCQueue (`concurrency/spsc_queue.hpp`) | ring, two atomic indices, two cached indices | push (producer thread), pop (consumer thread) | TcpSession, engine thread |
| RiskEngine (`src/risk/risk_engine.cpp`) | limits, global atomic kill switch | check_order, trip, reset, update_limits | any thread |
| MmapWAL (`src/persistence/mmap_wal.cpp`) | mapping, offset, descriptor; the file | open, append_order, close | the operating system, a later process |
| PoolAllocator, ArenaState (`core/pool_allocator.hpp`) | arena freelist | allocate with heap fallback, deallocate | the maps of OrderBook |
| SmallVector (`core/small_vector.hpp`) | inline or heap buffer | emplace_back with growth, move, clear | MatchingEngine, main |
| TcpGateway, TcpSession (`src/network/tcp_gateway.cpp`) | running flag, io thread | start, stop (also from the destructor), on_message_received | SPSCQueue, the engine thread |
| Portfolio (`src/oms/portfolio.cpp`) | net position, average price, profit figures | process_fill, update_market_price | none |
| RollingStats (`quant/rolling_stats.hpp`) | ring of values, count, mean, sum of squares | add, queries | none |
| SignalEngine (`src/quant/micro_price.cpp`) | previous best quotes | micro price, order flow imbalance | none |
| RDTSC calibration (`core/rdtsc.hpp`) | nanoseconds per cycle | calibrate, to_ns_u64 | main |
| Middleware bridge (`web/middleware/server.js`) | pendingTrades, engineRunning | stdout chunks, socket events, close of the engine | engine process, pages |
| Frontend (`web/frontend/src/App.jsx`) | book, trades, latency | event handlers, submit, clear | bridge |
| AvellanedaStoikov, McastPublisher, BinaryProtocol, OrderTracker, affinity | none, or data members only | closed formulas, empty stubs, packed structs, system calls | - |

### What makes each component correct

* Matching engine: price-time priority, trades at the maker's price for the
  smaller of the two quantities, a remainder rests only when nothing crosses any
  more, the book is never crossed; a call ends after a bounded number of steps.
* Order book: every list is a sound doubly-linked list of the orders at one
  price; total_volume is their sum; a level exists exactly while it has orders.
* Pool and process: resting orders only use slots that are allocated; ids are
  unique; printed level volumes and trades balance with what was accepted; every
  accepted command is answered.
* Queue: FIFO, nothing lost, duplicated or torn; no slot accessed by both threads
  at once; neither side waits for ever.
* Risk engine: an order passes only within limits that were in force; a trip
  takes effect.
* Log: what was acknowledged is in the file, through failures and kills; an append
  only writes to mapped bytes of the file.
* Gateway: messages reach the queue in order and once; after stop() no thread is
  left; stop() returns unless nobody drains the queue any more.
* Portfolio: realized profit is the cash made, up to truncation; after a market
  price the total is what closing at that price would leave.
* Signals: mean and variance are those of the window; the imbalance is the change of
  depth between two consecutive ticks; the micro price lies between the quotes.
* Calibration: a printed latency is right up to the error of the clock readings.
* Bridge and page: trades in order and once, with the first latency recognised from
  their own order on; the page is current; the exit of the engine is reported.

### What is hard here

The engine is sequential, but its state is pointers and caches updated in several
places: the loop saves `next` before a node is unlinked, `total_volume` is changed
by four operations, a level is erased by whoever emptied it. Long sequences of
legal calls matter more than single ones. The queue and the risk engine are
concurrent, and with acquire/release and relaxed atomics a thread sees old values.
The log meets crashes and failing system calls. Integers are unsigned 64-bit
words and wrap. The process has a hard limit (one million nodes). The full list,
line by line, is under "hazards" in `PROJECT.json`.

## 2. Plan

Order of work, most important behaviour first. All of it exists.

1. `OrderBook`, `MatchingEngine`, refining `PriceTimePriority`; proofs in
   `MatchingEngineProofs` (types, crossing, empty levels, lists, volumes,
   refinement).
2. `MemoryPool`, and `EngineMain`, which composes `MatchingEngine` with the pool;
   proofs in `EngineMainProofs`.
3. `SPSCQueue`, refining `BoundedFifo`; proofs in `SPSCQueueProofs`.
4. `MmapWAL`; proofs in `MmapWALProofs`.
5. `RiskEngine`; proofs in `RiskEngineProofs`.
6. Runs, mistaken variants and findings for these.
7. `Bridge` (server.js and App.jsx) with an abstract engine process, which may exit.
8. `PoolAllocator` and `SmallVector`: the arena with heap fallback; growth and move.
9. `Gateway`: the threads of TcpGateway and of a session spinning in push, composed
   with `BoundedFifo`: does stop() end? Proofs in `GatewayProofs`.
10. `Portfolio`, `RollingStats`, `Signals`, `Calibration`: state against a reference
    definition over bounded inputs (exact rationals as pairs).
11. Proofs for the components of 8 and 10 and for the freelist, in `ComponentsProofs`.
12. Proofs for `Bridge` (trades in order, their latency, the page after a CLEAR, the
    current book), in `BridgeProofs`.

Abstract specifications worth stating: `PriceTimePriority` (open orders as a set,
trades against the first in price and time), `BoundedFifo`, a durable log.

## 3. The modules

### OrderBook, MatchingEngine, PriceTimePriority

`OrderBook` keeps the memory as the code does: `order`, `qty`, `prev`, `next` are
functions on nodes (pointers), `level[side][price]` is the PriceLevel with `head`,
`tail` and `total_volume`, `keys[side]` the prices that have an entry in the map.
`PushBack`/`Unlink` are the two list operations, `InsertOrder`, `CancelOrder` and
`ReduceOrder` the three book operations, `LevelAfterCheck`/`KeysAfterCheck` are
check_remove_level. Volumes are added and subtracted modulo `QtyMod`, the word.
The body for buys and the body for sells, written twice in the code, is one
definition over the side.

`MatchingEngine` runs process_limit_order one loop iteration per step, with `pc`
telling the loop: `Submit` (entry), `TakeBestLevel` or `StopMatching` (head of the
outer loop), `MatchOne` (one turn of the inner loop), `LeaveLevel` (its end and
check_remove_level), `RestAndReturn` (insert_order of the remainder and return).
`Cancel` and `Reduce` are called between submissions with a node that rests in the
book, which is what the code asks of its caller. Nodes are reused once they have
left the book. `CallsEnd` bounds the call by a measure (`StepsLeft`): every step takes
it down, also when an order reduced to 0 gives the inner loop nothing to trade.

`PriceTimePriority` has no lists, levels or pointers: a set of open orders with
ids in order of arrival, and a taker that trades with the open order that has the
best price and, among those, the smallest id. The refinement reads the open
orders off the linked lists.

### MemoryPool, PoolAllocator, SmallVector, EngineMain

`MemoryPool` is the slab as a function from slots to their first word: the next
free slot, or part of an object. Its client frees what it holds, once (the code
checks only that a pointer lies in the slab).

`PoolAllocator` is the allocator under the maps of one side of the book: the same
kind of freelist in an arena, and the heap beyond it. The state objects are built
first, then the maps, and `InitArena` comes last; a map whose library allocates a
sentinel gets it from the heap, and gives it back to the heap although the arena
is there by then. `held` is what the map has and not freed. owns() compares addresses;
here a block is one of the slots of the arena or a block of the heap (`Owns`), so the
bounds of that comparison are not modelled.

`SmallVector` keeps, for each vector object, the three fields of the code and the
contents of the inline bytes and of the heap buffers. `EmplaceAndGrow` is
emplace_back when it calls grow(). A vector that was moved from is alive and may
be filled again. `expected` is the sequence of elements pushed. No code in the
repository pushes an element of a vector onto the same vector; while growing, the
reference would dangle, and the model does not do it either.

`MCComponents` explores the three, and the four of the section on Portfolio, side
by side: they share no state, so each behaviour is one of them.

`EngineMain` is the loop of `main()`. A BUY or SELL is checked, its decimal price
rounded to ticks (`ToTicks`; prices are integers in thousandths so that
`price * 100 + 0.5` is exact), a slot is allocated, and the slot is the node the
matching engine works on. `Answer` returns from the engine and prints; no action
gives a slot back, as in the code. `Clear` replaces engine and pool.
`accepted` and `reported` record what was taken in and what TRADE lines said.
`BookBalance` reads the cached volumes of all levels, the numbers that print_book
prints (ten levels a side; the limit is layout and left out), and holds in the middle
of a call, too: the volumes, what the order in the engine has left and twice the
quantity of its trades so far are what was accepted less twice what was reported.

### SPSCQueue, BoundedFifo

One action per access to memory that both threads use. The producer loads
`tail_` and the consumer `head_` with acquire ordering, which allows an old value:
`tail_vis` and `head_vis` are what a load returns, and they catch up with the
stores one at a time, in the order of the stores (`HeadBecomesVisible`,
`TailBecomesVisible`). What a thread wrote before a release store is visible to
whoever sees that store, so slots need no second copy as long as no slot is
accessed without that order in between: that is `NoDataRace`. A push that returns
false is repeated with the same item, as its caller in `tcp_gateway.cpp` does.
`ReadSlot` leaves `Moved` behind, as `std::move` does.

### RiskEngine

check_order as a sequence of tests, one read of shared memory each. The kill switch
is loaded relaxed: `kill_vis` is what the checking thread gets. update_limits is a
plain struct assignment that races with the check; it is modelled as the stores
of the fields in any order. Products, sums and differences are taken modulo the
word `Mod`, and `Percent` stands for 100. `is_kill_switch_active` is a read and
changes nothing.

### Gateway

The owner's calls (`Start`, `SpawnThread`, `Stop`, `Join`), the io thread
(`TestRunning`, `Sleep`, `PushMessage`) and the engine thread interleave. The queue
is an instance of `BoundedFifo`, which `SPSCQueue` is proved to implement. The code
that accepts and reads is commented out in the source, and so is
`io_context_->run()`: what is modelled of it is that a complete message of some
session arrives on the io thread (`MessageParsed`). `PushMessage` waits for room, as
the loop in on_message_received does without looking at `running_`. The engine
thread may end at any time, with messages left in the queue. The owner calls
start() only when it is stopped: a second start() would assign to a joinable
std::thread, which ends the process.

### Portfolio, RollingStats, Signals, Calibration

Pure arithmetic with a little state, over exact rationals (`Rational`, reduced
fractions). Where double arithmetic can differ visibly the model says so: once an
average price is no dyadic number, a profit that is exactly whole may be truncated
to the next one (`ToInt64`). `process_fill` is the disjunction of its three branches
(`OpenPosition`, `AddToPosition`, `ReduceOrFlip`); `cash`, `mid` and `truncations`
are history. `RollingStats` has a branch for the filling window and one for the
full one, and `recent` is the window by definition. `Signals` is
update_and_get_ofi called with the book of each tick, one-sided books (price 0)
included. `SignalsSound` says what the imbalance measures without the comparisons of
the code: the change of the depth at the better of the two best bids, less that at
the better of the two best asks. A side without orders has price 0, which compares
as the worst bid but as the best ask, so a bid side that fills or empties counts as
flow and an ask side that does so counts nothing; the property states both. In the
static calculate_micro_price the sum of two volumes is taken
modulo the word in its test for zero, as in the code, and exact in the formula.
`Calibration` is the POSIX branch of calibrate(): time passes between the read of
the clock and that of the counter (`MaxGap`), the spinning thread may look at the
clock late, calibration begins anywhere in a second, and the second counter read
may come from a core that is behind. Then calls of any length are measured.

### MmapWAL

The POSIX branch. In each life of the process one object is constructed on the
same file, with any of the given sizes. open() can fail at each of its three
system calls, with what each leaves behind (`OpenFails`, `TruncateFails`,
`MapFails`); it can be called again, also without a close. `mapped` is whether
mapped_data_ is null, `mapping` how many bytes of the file are mapped there, `length`
the size of the file: the test of append_order reads the first and file_size_, and
`CopiesIntoMapping` is that it answers for the other two. append_order is three
steps (`BeginAppend`, `EndCopy`, `Acknowledge`), so that the process can die during the
memcpy and leave a torn record, or after it and leave a whole one that nobody was
told of. mmap of no bytes fails, so with a size of 0 every open() fails.
The mapping is shared: its contents survive the process. Loss of power before the
operating system wrote a page is left out, since the code promises nothing about
it (there is no msync).

### Bridge

The engine is what `main.cpp` prints for a command: any number of trades, BOOK,
LATENCY; nothing for an order it refuses; BOOK and CLEAR_ACK for CLEAR. Each line
is two halves in `stdout`, and `ReadChunk` hands any prefix to the handler, so a
chunk may end inside a line (the engine flushes line by line, and a reader that
lags behind gets its buffer full in the middle of one). The handler splits each
chunk on its own, so the first half of a cut line is read as a line: it is
recognised, recognised with a wrong number, or dropped (`Fates`), and the second
half is a line of no known kind. `HandleLine` is the loop body of server.js,
`Handled` the loop over the lines of a chunk (`LinesOf`), `HandledBy` the handlers of
App.jsx. Events travel in order and are lost when the
connection drops; a page comes back as it was, or is loaded anew and empty.
Orders are those that pass the checks of page and bridge. A book is named by the
command after which it was printed. The history variables `cut` and `heard` are the
commands whose LATENCY line was damaged or destroyed, and those whose LATENCY line
was recognised; `LatencyIsOwn` says that a trade carries the number of the first one
recognised from its own order on, so that it never waits past one that came through.

The engine may exit at any time (`EngineExits`), in the middle of an answer, too;
the commands it has not read are lost, and what it printed is still read. Node hears
of the exit and destroys the stdin of the child (`NoticeExit`), and emits 'close'
when stdout is drained (`CloseEngine`); GET / reports "stopped" from then on. A page
that submits before node has noticed makes the write fail, and as nobody handles
the 'error' event the middleware ends (`SubmitToBrokenPipe`). Afterwards a write to
the destroyed stream does nothing (Node 14 and later), which is no step: the order
vanishes and the page is not told.

## 4. The runs

| Run | Module, configuration | What it shows |
|---|---|---|
| matching | MCMatchingEngine, MatchingEngine.cfg | lists sound, volumes are sums, book never crossed, no empty level, the refinement of price-time priority, and every step of a call takes it nearer to its return |
| engine_main | MCEngineMain, EngineMain.cfg | memory and ids stay consistent across orders, refusals, exhaustion and CLEAR; the printed level volumes and trades balance with what was accepted; every accepted order is answered |
| components | MCComponents, Components.cfg | freelists are always exactly the free slots; arena and heap take back their own; vectors keep elements and buffers through growth, moves and reuse; profit, moments, imbalance, micro price and latency are what their definitions say |
| gateway | Gateway, Gateway.cfg | messages in order and once through backpressure and restarts; no thread after stop(); stop() returns unless a session spins on a full queue whose consumer has ended |
| spsc | SPSCQueue, SPSCQueue.cfg | no data race, FIFO, no starvation |
| wal | MmapWAL, MmapWAL.cfg | acknowledged records stay in place; appends stay in the mapping and in the file through failed and repeated opens; orderly use leaks no descriptor |
| risk | MCRiskEngine, RiskEngine.cfg | verdicts are justified by limits in force; a trip takes effect |
| bridge | Bridge, Bridge.cfg | the page sees trades in order and once, with the first latency recognised from their own order on, and the current book, up to the lines that a cut destroyed; the exit of the engine is reported |
| filled_nodes | MCEngineMain, FilledNodesReturned.cfg | violated: filled orders never go back to the pool |
| zero_price | MCEngineMain, RestingPricesPositive.cfg | violated: a positive price can rest as price 0 |
| wal_restart | MmapWAL, AckedSurviveRestart.cfg | violated: after a restart the log overwrites its oldest record |
| notional_wrap | MCRiskEngine, PassedNotionalWithin.cfg | violated: price * qty wraps |

The last four state what a comment, a message or the README of the repository
says, and TLC shows what the code does instead; each is a finding.

* filled_nodes: `matching_engine.cpp:53` leaves it to the caller to deallocate a
  filled node, and `main.cpp` never does, nor does it free an incoming order that
  was filled at once. After a million orders every order is refused until CLEAR.
* zero_price: the check `price_input <= 0` comes before rounding, so 0.004 is
  accepted and rests at tick 0.
* wal_restart: `write_offset_` starts at 0 in every object and is not recovered.
* notional_wrap: for example price 2^62 and quantity 4 give notional 0. The same
  unsigned arithmetic makes the seller's bound of the collar wrap when
  `max_price_deviation_pct` is over 100, so that every sell is rejected;
  `VerdictJustified` is stated for calls whose numbers are representable.

### Bounds, and why they are enough

* matching: three nodes, five orders, two prices, quantities 1 and 2 submitted and
  0 to 2 after a reduction, `QtyMod` 3. Three nodes at one price have a first, a
  middle and a last; five orders reuse a node after it was filled or cancelled;
  two prices give a sweep over two levels; two orders of 2 already wrap a volume.
  Nodes are interchangeable, so the run uses their symmetry.
* engine_main: a pool of four slots and at most four orders since the last CLEAR,
  so the pool is exhausted with orders resting and with an empty book; prices that
  round to ticks 0, 1 and 2 and one that is refused.
* components: a pool of five slots, freed in every order; an arena of three slots (a slot
  size that is rounded up, bytes left over) and two heap blocks, so that it runs
  out and both kinds are freed in between; two vectors with two elements inline
  that grow twice, to five elements, and one spare buffer for the growth. Four fills
  of up to three units: an average of thirds, a partial close, a flip. A window of
  three and any number of values. Two volumes whose sum wraps to 0. A second of 12
  and an interval of 5, so that the deadline carries or not; no bound on time.
* gateway: two sessions with two messages each, a queue that holds two, two starts:
  it is full with messages of both while a third waits, and messages cross a restart.
* spsc: four slots, of which three are usable; indices wrap without bound; two
  items tell a lost or repeated item apart. The proofs remove the bound.
* wal: five records, four opens per life, an empty file, one that ends inside its
  second record and one that fits three records exactly. A life with another size than
  the one before truncates or extends the file. The proofs remove the bounds.
* risk: words of four bits and quarters for per cent; two sets of limits ordered
  differently in their fields, replaced twice; a reference whose deviation is
  rounded; a product that is exactly the modulus.

* bridge: three commands, one trade each, two faults (a lost connection, the exit of
  the engine), a page that keeps two trades: the list overflows, a CLEAR falls between two orders, a trade can wait
  for the LATENCY line two orders later.

### Fairness

* engine_main: weak fairness of the steps inside a call (`Process`, `Answer`): the
  process is one thread, and the call does not block. Nothing makes commands come.
* spsc: weak fairness of a push that has begun, with its retries, and of the
  consumer's polling, and stores become visible in finite time. The retry loop is
  in `tcp_gateway.cpp:32`; nothing makes the producer push another item.
* risk: a check that has begun goes on, and a store to the switch becomes visible.

* bridge: weak fairness of reading something of what is in the pipe (`ReadsSome`: some
  prefix goes, fairness does not say which, nor what becomes of a cut line) and of
  node hearing of the exit of its child. Nothing makes users submit, the connection
  stay, or the engine answer.
* gateway: weak fairness of each thread that can go on: the owner inside start() or
  stop(), the io thread, an engine thread that has not ended. Nothing makes
  messages arrive or the owner call stop().

The log, components and matching runs check safety only.

Deadlock is checked in every run but `matching`, which may stop once `MaxOrders`
orders were submitted and the book is empty, `bridge`, where users may stop
submitting, and `gateway`, which has stopped for good after the last stop().

`MainTypeOK` of EngineMain and `TypeOK` of RiskEngine are checked by no run: they
are proved (`MainTypes`, `TypesHold`), and the other proofs use them.

## 5. What is proved

All proofs are checked by TLAPS with SMT, Zenon and, for the temporal steps, LS4.
Every safety property of a passing run has a theorem.

The assumptions are the named ASSUMEs of the modules: widths and sizes are natural
numbers, `Null` is no node, inputs are in range. Those that say more:
`NodeAssumption`, there are finitely many nodes (the slab is finite); `SlotsAreNodes`
and `QtyFits`, the nodes of the process are the slots of its pool, and a positive
quantity read from stdin (a `long long`) fits the 64-bit word; `TickAssumption`, the
marker for "no tick yet" is no book; `DefaultAssumption`, the ratio in use before
calibration (0.31 in the code) is positive.

The induction theorems of the library take an operator as a parameter and cannot be
used. Where a proof needs induction over numbers it takes the least element of a set
of numbers instead (`WFMin`, with the set of those for which the claim fails): this
is the lemma `Induct` of `ComponentsProofs` and `SetInduction` of
`MatchingEngineProofs` and `BridgeProofs`.

* `MatchingEngineProofs`: `TypeCorrect`; `NeverCrossed` (`NoCrossedBook`) and
  `LevelsHaveOrders` (`NoEmptyLevel`). That the book is never crossed is not
  inductive: `RestAndReturn` inserts a level, and nothing in `NoCrossedBook` says
  that the other side does not cross it. The strengthening says that when the call
  has reached `rest` with quantity left, no level of the other side is within the
  limit of the incoming order. `NoEmptyLevel` needs that a level in the map that
  is not being consumed has a head, through unlinking and check_remove_level.
  The second part of the module is about the lists. Its invariant names, for each
  side and price, the sequence of nodes that stands in the list (`Queues`): head and
  tail are its ends, `prev` and `next` its neighbours, each node is in one sequence at
  one place, its order has that side and price, ids ascend, and the cursor of the
  inner loop is at the front. An insert appends to a sequence and an unlink removes
  one element, wherever it is.
  - `ListsAlwaysSound` (`ListsSound`): what following `next` from the head visits is
    the sequence, and what following `prev` visits is its reverse.
  - `VolumesAlwaysSum` (`VolumeIsSum`): the cached volume is the sum over the sequence
    modulo the word. A sum is taken as the number of units, pairs of a node and a
    number up to its quantity, so that it does not depend on the order in which the
    library's fold picks the nodes.
  - `Implements` (`ImplementsPriceTime`): each step of the engine is a step of
    price-time priority or a stutter. It rests on the sequences, on ids ascending in
    them, and on `NoCrossedBook`'s strengthening: the head of the best level is the
    first open order.
  - `CallsAreShort` (`CallsEnd`): each turn of the inner loop unlinks an order or
    fills the taker, and a level that `TakeBestLevel` starts on is not empty, so the
    measure goes down; the number of orders on the book is that of the sequences.
* `SPSCQueueProofs`: `TypeCorrect`, `RaceFree` (`NoDataRace`) and `RingIsFifo`
  (`ImplementsFifo`), for every capacity. The invariant orders the five indices
  around the ring: tail as the producer remembers it, as it sees it, as it is; head
  as the consumer remembers it, as it sees it, as it is. It follows that a slot
  about to be written is outside what the consumer may touch. The refinement then
  has a lemma per step: WriteSlot touches no slot of the contents, PublishHead
  appends, ReleaseTail drops the first, every other step changes nothing.
* `MmapWALProofs`: `TypeCorrect`, `AckedStay` (`AckedInPlace`) and
  `CopiesAreMapped` (`CopiesIntoMapping`), for every record size and file size.
  `AckedInPlace` alone is not inductive: a further open() resizes the file, and
  keeps the records only because the log never reaches beyond file_size.
  `CopiesIntoMapping` is not inductive either: it needs that what is mapped is always
  file_size_ bytes, and so much of the file, when mapped_data_ is not null
  (`MappingFits`), through every way an open() can fail on top of an earlier one.
  `NoLeakInOrderlyUse`: while every open() succeeded and followed a close(), the
  descriptor of the mapping is the only one open; this is inductive with `TypeOK`.
* `EngineMainProofs`: `PoolInv` says that nothing is ever given back, so the pool
  has handed out exactly the slots below some number; with the sequences of
  `MatchingEngineProofs` and `InUse` (what is queued, or being processed, is a slot handed
  out) it follows that the slot of an accepted order is in no list, which is all that
  the engine asks of its caller. `OrdersOwn`, `ListsSoundInMain`, `VolumesSumInMain`,
  `MainTypes`; and `BookBalances`: each step changes the sum of the level volumes, the
  quantity in hand, the trades of the call and the history together, so that the
  balance is kept modulo the word (`Accounted`).
* `RiskEngineProofs`: `TypesHold` and `VerdictsJustified`. The invariant says at each
  program counter which tests some limits in force have passed; the bounds of the
  collar, computed with divisions, are shown to be the percentage of the definition.
* `GatewayProofs`: `ThreadLives`, and `InOrder`: what is received, queued and in hand,
  in this order, numbers the messages of each session from 1 without a gap.
* `ComponentsProofs`, on the product of the seven components of `MCComponents`:
  - `PoolSound` and `ArenaKeepsItsOwn`: a freelist is threaded along a sequence of
    distinct slots (`Threads`), of which an allocation takes the first and a free
    puts one in front; the function in `FreelistSound` that follows the words visits
    that sequence.
  - `VectorsHold` and `BuffersOwned`: the elements are where the vector looks for
    them, heap buffers and heap vectors correspond one to one.
  - `SignalsAreSound`.
  - Rationals are handled through `Is(r, x, D)`, r is x / D for any common
    denominator D, which every operation of `Rational` respects although it reduces.
    `RealizedBalances` and `TotalBalances`: the balance of cash, position and realized
    profit over such a denominator is kept by opening, averaging, reducing and
    flipping, up to one unit per truncation.
  - `LatencyIsMeasured`: the ratio is e / (f * rate) with e and f at most a gap apart,
    and at least an interval long.
  - `MomentsAreOfWindow`: the ring holds the window from the index on; with s and Q
    the sums of its values and of their squares (prefix sums, so that they grow and
    slide with the window), the mean is s / n and the accumulated m2 is
    (nQ - s^2) / n. That m2 is never cut off at 0 by mistake needs
    s^2 <= nQ, proved by induction over the window. The step that slides the window
    is an identity of polynomials over n^2.
  - `TypesAreRight` (`ComponentsTypeOK`).
* `BridgeProofs`: `TradesStayInOrder` (`TradesInOrder`), `LatenciesAreOwn`
  (`LatencyIsOwn`), `ClearEmpties` (`ClearEmptiesPage`) and `PageIsCurrent`
  (`PageBookCurrent`), for any number of commands, trades and faults and any length
  `Shown` of the page's list. None of the four is inductive: they speak of what was
  sent and not of the lines still in the pipe, which the next chunk turns into
  events. `Invariance` proves the invariant `IInv` that does:
  - `Shape`: stdout is pairs of halves, of which the first may have lost its first
    half to an earlier chunk, and its lines are in the order of the engine;
  - `Flows`: a trade is in one place of its way (stdout, `pendingTrades`, the
    network, the page) and in order with the others (`Ordered`); before any line
    that ends an answer comes the LATENCY line of each trade that waits or is still
    to come, unless it was destroyed (`Timed`); a trade behind a CLEAR is of a later
    order, or its LATENCY line was destroyed (`Cleared`);
  - `Answering`: while the engine runs its answers are whole, so that only its exit
    can leave a trade without a LATENCY line;
  - `Past`, `Queue`: nothing is about a command that the engine has not read;
  - `HeardInTime`: what was sent carries the first recognised number, and whatever
    still waits or is unread belongs to a later command than any recognised so far;
  - `BooksOrdered`, `LastBook`, `Apart`: books arrive in order, and the last one
    printed is in the pipe, on its way, on the page, or was missed.

  One step of the handler is a loop over all lines of a chunk. The parts of `IInv` are
  therefore stated of any waiting trades, events and set of unread lines, and hold
  before each turn with the lines not yet handled (the `Loop...` lemmas, one per kind
  of line); `LoopTurns` shows that the recursive function of `Handled` is such a sequence
  of turns, and an induction carries the parts through it. TLC checked `IInv` on the `bridge` instance before it was
  proved.

### Only model-checked

* Liveness (`EveryOrderAnswered`, `PushSucceeds`, `ItemsArePopped`,
  `TripTakesEffect`, `TradesLeavePending`, `ExitReported`, `StopReturns`): the prover has no rules for fairness and ENABLED.
* The refutations (runs that expect a violation) are counterexamples of TLC.

## 6. What is not modelled

* Cancelling an order that no longer rests: the code gives it no meaning (null
  pointers make `remove` clear the level's head); the caller must not do it.
* AvellanedaStoikov is a closed floating-point formula with a logarithm, which
  TLA+ integers do not reach; McastPublisher is empty; BinaryProtocol and
  OrderTracker are data; affinity is a system call; benchmarks and tests drive what
  is modelled.
* Rounding of doubles other than the truncation of profits: the drift of
  RollingStats over long runs, its square root, prices beyond 2^53.
* Sockets, accept and the io_context of the gateway (commented out in the source), a
  second start(), stop() from two threads.
* A spawn of the engine that fails, several pages at once (each gets the same
  events), engine output after the middleware has ended.
* The wording and layout of output.
