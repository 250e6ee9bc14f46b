---------------------------- MODULE EngineMain ----------------------------
(* The process behind the exchange (src/main.cpp): a loop that reads a        *)
(* command, checks it, takes a node from the pool, runs the matching engine   *)
(* on it and prints the trades and the book.  Composes MatchingEngine, whose  *)
(* nodes are the slots of the pool, with MemoryPool.  Decimal prices are      *)
(* integers in thousandths; reading a double is exact here.                   *)
EXTENDS MatchingEngine

CONSTANTS
    PoolCapacity,  \* 1,000,000 in the code
    Object,        \* a slot in use
    PriceInput,    \* the prices a command may name, in thousandths
    QtyInput       \* the quantities a command may name, a long long

VARIABLES freelist_head, word, allocated,
    reply,     \* how the last command was answered; "pending" until it is
    accepted,  \* history: quantity of the orders accepted since the last CLEAR
    reported   \* history: quantity of the TRADE lines printed since then

poolVars == <<freelist_head, word, allocated>>
mainVars == <<vars, poolVars, reply, accepted, reported>>

Pool == INSTANCE MemoryPool WITH Capacity <- PoolCapacity

ASSUME SlotsAreNodes == PoolCapacity \in Nat /\ Node = 1 .. PoolCapacity
                        /\ Null \notin Node /\ Object \notin Node \cup {Null}
ASSUME InputAssumption == PriceInput \subseteq Int /\ QtyInput \subseteq Int
ASSUME QtyFits == {q \in QtyInput : q > 0} \subseteq Quantity  \* a long long in a uint64_t

(* static_cast<Price>(price_input * 100.0 + 0.5)                              *)
ToTicks(m) == (m + 5) \div 10

ASSUME PricesRepresentable == {ToTicks(m) : m \in {i \in PriceInput : i > 0}} \subseteq Price

MainInit ==
    /\ Init /\ Pool!PoolInit
    /\ reply = "none" /\ accepted = 0 /\ reported = 0

next_id == submitted + 1

(* A command that is no CLEAR, BUY or SELL, or whose operands do not parse.   *)
RefuseLine(error) ==
    /\ pc = "idle"
    /\ reply' = error
    /\ UNCHANGED <<vars, poolVars, accepted, reported>>

RefuseNonPositive(m, q) ==
    /\ pc = "idle" /\ (m <= 0 \/ q <= 0)
    /\ reply' = "ERR positive"
    /\ UNCHANGED <<vars, poolVars, accepted, reported>>

RefuseExhausted(m, q) ==
    /\ pc = "idle" /\ m > 0 /\ q > 0
    /\ Pool!Exhausted
    /\ reply' = "ERR exhausted"
    /\ UNCHANGED <<vars, poolVars, accepted, reported>>

(* BUY or SELL: allocate a node, give it the next id, enter the engine.       *)
Accept(s, m, q) ==
    /\ pc = "idle" /\ m > 0 /\ q > 0
    /\ Submit(freelist_head, s, ToTicks(m), q)
    /\ Pool!Allocate
    /\ reply' = "pending"
    /\ accepted' = (accepted + q) % QtyMod
    /\ UNCHANGED reported

(* Inside process_limit_order.                                                *)
Process ==
    /\ TakeBestLevel \/ StopMatching \/ MatchOne \/ LeaveLevel
    /\ UNCHANGED <<poolVars, reply, accepted, reported>>

(* What the trades of the call in progress add up to.                         *)
TradedNow == MapThenSumSet(LAMBDA k : trades[k].qty, DOMAIN trades)

(* process_limit_order returns; TRADE lines, BOOK and LATENCY are printed.    *)
(* Nothing gives the filled nodes back to the pool.                           *)
Answer ==
    /\ RestAndReturn
    /\ reply' = "order"
    /\ reported' = (reported + TradedNow) % QtyMod
    /\ UNCHANGED <<poolVars, accepted>>

(* CLEAR: a new engine, a new pool, ids from 1 again.                         *)
ClearPoolOnly ==   \* mistaken: the old engine keeps its book
    /\ pc = "idle" /\ Pool!PoolReset
    /\ submitted' = 0
    /\ reply' = "clear" /\ accepted' = 0 /\ reported' = 0
    /\ UNCHANGED <<bookVars, pc, incoming, best, resting_order, trades>>
Clear ==
    /\ pc = "idle"
    /\ order' = [n \in Node |-> [id |-> 0, side |-> "Buy", price |-> CHOOSE p \in Price : TRUE]]
    /\ qty'   = [n \in Node |-> 0]
    /\ prev'  = [n \in Node |-> Null]
    /\ next'  = [n \in Node |-> Null]
    /\ keys'  = [s \in Side |-> {}]
    /\ level' = [s \in Side |-> [p \in Price |-> NewLevel]]
    /\ Pool!PoolReset
    /\ submitted' = 0
    /\ reply' = "clear" /\ accepted' = 0 /\ reported' = 0
    /\ UNCHANGED <<pc, incoming, best, resting_order, trades>>

MainNext ==
    \/ \E e \in {"ERR format", "ERR unknown"} : RefuseLine(e)
    \/ \E m \in PriceInput, q \in QtyInput : RefuseNonPositive(m, q) \/ RefuseExhausted(m, q)
    \/ \E s \in Side, m \in PriceInput, q \in QtyInput : Accept(s, m, q)
    \/ Process
    \/ Answer
    \/ Clear

MainSpec     == MainInit /\ [][MainNext]_mainVars
MainFairSpec == MainSpec /\ WF_mainVars(Process \/ Answer)

(* Types, with those of the engine and the pool.                              *)
MainTypeOK ==
    /\ TypeOK /\ Pool!PoolTypeOK
    /\ reply \in {"none", "pending", "order", "clear", "ERR format", "ERR unknown",
                  "ERR positive", "ERR exhausted"}
    /\ accepted \in Quantity /\ reported \in Quantity

(* The book and the call in progress only use slots the pool has handed out   *)
(* and not taken back, so no order rests in memory that the next BUY or SELL  *)
(* may be given; and an id names one order: resting orders have different     *)
(* ids, all of them already given out.  Both also after a CLEAR, which        *)
(* replaces the engine and the pool and restarts the ids.                     *)
NodesAreAllocated ==
    /\ OnBook \subseteq Pool!Live
    /\ pc # "idle" => incoming \in Pool!Live \ OnBook
IdsUnique ==
    /\ \A n \in OnBook : order[n].id \in 1 .. submitted
    /\ \A m, n \in OnBook : order[m].id = order[n].id => m = n
OrdersOwnSlotAndId == NodesAreAllocated /\ IdsUnique

(* What the process prints adds up (as uint64_t), at every step of a call     *)
(* too: the volumes of all the levels in the two maps (what print_book shows, *)
(* ten a side), with what the order in the engine has left, are the quantity  *)
(* accepted less twice the quantity traded, reported or about to be, since    *)
(* every trade takes its quantity from a maker and from a taker.              *)
ListedLevels == {l \in Side \X Price : l[2] \in keys[l[1]]}
LevelVolume  == [l \in ListedLevels |-> level[l[1]][l[2]].total_volume]
ListedVolume == MapThenSumSet(LAMBDA l : LevelVolume[l], ListedLevels)
InHand       == IF pc = "idle" THEN 0 ELSE qty[incoming]
BookBalance  == (ListedVolume + InHand + 2 * TradedNow) % QtyMod
                    = (accepted - 2 * reported) % QtyMod

(* Every accepted order is answered with its BOOK and LATENCY lines.          *)
EveryOrderAnswered == reply = "pending" ~> reply # "pending"

(* "The caller is responsible for deallocating `resting_order` from the       *)
(* MemoryPool" (matching_engine.cpp:53): between commands, the slots in use   *)
(* are those of the resting orders.                                           *)
FilledNodesReturned == pc = "idle" => Pool!Live = OnBook

(* "Price and quantity must be positive" (main.cpp:67): an order that rests   *)
(* in the book has a positive price.                                          *)
RestingPricesPositive == \A n \in OnBook : order[n].price > 0
=============================================================================
