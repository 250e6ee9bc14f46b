-------------------------- MODULE MatchingEngine --------------------------
(* The single-threaded matching engine (src/engine/matching_engine.cpp) over  *)
(* the order book.  process_limit_order() runs as a sequence of steps, one    *)
(* per iteration of its loops, so that the state between them, the saved      *)
(* next pointer and the half-consumed level are there to be checked.          *)
(* cancel_order() and reduce_order() are called between submissions, by a     *)
(* caller that passes a node which rests in the book.                         *)
EXTENDS OrderBook, Sequences

CONSTANTS
    OrderQty,  \* the quantities submitted, positive uint64_t values
    MaxOrders  \* bound: how many orders are submitted

ASSUME OrderQtyAssumption  == OrderQty \subseteq Quantity \ {0}
ASSUME MaxOrdersAssumption == MaxOrders \in Nat

VARIABLES
    submitted,      \* how many orders have been passed to process_limit_order
    pc,             \* where process_limit_order is; "idle" outside of it
    incoming,       \* its incoming_order
    best,           \* the price of best_ask / best_bid in the outer loop
    resting_order,  \* the inner loop's cursor
    trades          \* the vector of trades it returns

engineVars == <<submitted, pc, incoming, best, resting_order, trades>>
vars == <<bookVars, engineVars>>

NoLevel == CHOOSE p \in Price : TRUE   \* best outside of the outer loop

Trade == [maker : OrderId, taker : OrderId, price : Price, qty : Quantity]

Init ==
    /\ BookInit
    /\ submitted = 0
    /\ pc = "idle"
    /\ incoming = Null
    /\ best = NoLevel
    /\ resting_order = Null
    /\ trades = <<>>

TypeOK ==
    /\ BookTypeOK
    /\ submitted \in 0 .. MaxOrders
    /\ pc \in {"idle", "outer", "inner", "rest"}
    /\ incoming \in Node \cup {Null}
    /\ pc # "idle" => incoming \in Node
    /\ best \in Price
    /\ resting_order \in Node \cup {Null}
    /\ trades \in Seq(Trade)

taker_side == order[incoming].side
maker_side == Opposite(taker_side)

(* A level of price p is within the limit of the incoming order.              *)
Crosses(p) == IF taker_side = "Buy" THEN p <= order[incoming].price
                                    ELSE p >= order[incoming].price

(* Entry of process_limit_order with a node that is not in the book, filled   *)
(* in by the caller; ids grow with every submission.                          *)
Submit(n, s, p, q) ==
    /\ pc = "idle"
    /\ n \notin OnBook
    /\ submitted < MaxOrders
    /\ submitted' = submitted + 1
    /\ order'     = [order EXCEPT ![n] = [id |-> submitted + 1, side |-> s, price |-> p]]
    /\ qty'       = [qty EXCEPT ![n] = q]
    /\ incoming'  = n
    /\ prev' = [prev EXCEPT ![n] = Null] /\ next' = [next EXCEPT ![n] = Null]
    /\ pc'        = "outer"
    /\ UNCHANGED <<keys, level, best, resting_order, trades>>

(* Head of the outer loop: the best opposite level crosses, start on its head. *)
TakeBestLevelFromTail ==   \* mistaken: the newest order of the level first
    /\ pc = "outer"
    /\ qty[incoming] > 0
    /\ \E p \in Price :
        /\ IsBest(maker_side, p) /\ Crosses(p)
        /\ best' = p
        /\ resting_order' = level[maker_side][p].tail
    /\ pc' = "inner"
    /\ UNCHANGED <<bookVars, submitted, incoming, trades>>
TakeBestLevel ==
    /\ pc = "outer"
    /\ qty[incoming] > 0
    /\ \E p \in Price :
        /\ IsBest(maker_side, p) /\ Crosses(p)
        /\ best' = p
        /\ resting_order' = level[maker_side][p].head
    /\ pc' = "inner"
    /\ UNCHANGED <<bookVars, submitted, incoming, trades>>

(* Head of the outer loop: filled, or nothing on the other side crosses.      *)
StopMatching ==
    /\ pc = "outer"
    /\ \/ qty[incoming] = 0
       \/ keys[maker_side] = {}
       \/ \E p \in Price : IsBest(maker_side, p) /\ ~Crosses(p)
    /\ pc' = "rest"
    /\ best' = NoLevel /\ resting_order' = Null
    /\ UNCHANGED <<bookVars, submitted, incoming, trades>>

(* One iteration of the inner loop: record the trade, take its quantity from  *)
(* both orders and from the level, remember next, unlink a filled maker.      *)
MatchOneKeepsVolume ==   \* mistaken: the level is not told what was traded
    LET t == IF qty[incoming] < qty[resting_order] THEN qty[incoming]
                                                   ELSE qty[resting_order]
        r == resting_order
    IN  /\ pc = "inner"
        /\ r # Null /\ qty[incoming] > 0
        /\ trades' = Append(trades, [maker |-> order[r].id, taker |-> order[incoming].id,
                                     price |-> best, qty |-> t])
        /\ qty' = [qty EXCEPT ![incoming] = @ - t, ![r] = @ - t]
        /\ resting_order' = next[r]
        /\ IF qty[r] = t
           THEN /\ Unlink(r)
                /\ level' = SetLevel(level, maker_side, best,
                                     UnlinkedLevel(level[maker_side][best], r))
           ELSE UNCHANGED <<prev, next, level>>
        /\ UNCHANGED <<order, keys, submitted, pc, incoming, best>>
MatchOneKeepsZero ==   \* mistaken: only a maker that traded something is unlinked
    LET t  == IF qty[incoming] < qty[resting_order] THEN qty[incoming]
                                                    ELSE qty[resting_order]
        r  == resting_order
        lv == SubVolume(level[maker_side][best], t)
    IN  /\ pc = "inner"
        /\ r # Null /\ qty[incoming] > 0
        /\ trades' = Append(trades, [maker |-> order[r].id, taker |-> order[incoming].id,
                                     price |-> best, qty |-> t])
        /\ qty' = [qty EXCEPT ![incoming] = @ - t, ![r] = @ - t]
        /\ resting_order' = next[r]
        /\ IF qty[r] = t /\ t > 0
           THEN /\ Unlink(r)
                /\ level' = SetLevel(level, maker_side, best, UnlinkedLevel(lv, r))
           ELSE /\ level' = SetLevel(level, maker_side, best, lv)
                /\ UNCHANGED <<prev, next>>
        /\ UNCHANGED <<order, keys, submitted, pc, incoming, best>>
MatchOne ==
    LET t  == IF qty[incoming] < qty[resting_order] THEN qty[incoming]
                                                    ELSE qty[resting_order]
        r  == resting_order
        lv == SubVolume(level[maker_side][best], t)
    IN  /\ pc = "inner"
        /\ r # Null /\ qty[incoming] > 0
        /\ trades' = Append(trades, [maker |-> order[r].id, taker |-> order[incoming].id,
                                     price |-> best, qty |-> t])
        /\ qty' = [qty EXCEPT ![incoming] = @ - t, ![r] = @ - t]
        /\ resting_order' = next[r]
        /\ IF qty[r] = t
           THEN /\ Unlink(r)
                /\ level' = SetLevel(level, maker_side, best, UnlinkedLevel(lv, r))
           ELSE /\ level' = SetLevel(level, maker_side, best, lv)
                /\ UNCHANGED <<prev, next>>
        /\ UNCHANGED <<order, keys, submitted, pc, incoming, best>>

(* The inner loop ends: check_remove_level on the level just worked on.       *)
LeaveLevel ==
    /\ pc = "inner"
    /\ resting_order = Null \/ qty[incoming] = 0
    /\ keys'  = KeysAfterCheck(keys, level, maker_side, best)
    /\ level' = LevelAfterCheck(level, maker_side, best)
    /\ pc' = "outer"
    /\ UNCHANGED <<order, qty, prev, next, submitted, incoming, best, resting_order, trades>>

(* After matching: what is left of the order rests in the book; the call      *)
(* returns and its locals are gone.                                           *)
RestAndReturn ==
    /\ pc = "rest"
    /\ IF qty[incoming] > 0 THEN InsertOrder(incoming) ELSE UNCHANGED bookVars
    /\ pc' = "idle"
    /\ incoming' = Null /\ trades' = <<>>
    /\ UNCHANGED <<submitted, best, resting_order>>

(* The caller cancels or reduces an order that rests in the book.             *)
Cancel(n) == pc = "idle" /\ n \in OnBook /\ CancelOrder(n) /\ UNCHANGED engineVars
Reduce(n, q) == pc = "idle" /\ n \in OnBook /\ ReduceOrder(n, q) /\ UNCHANGED engineVars

Match == TakeBestLevel \/ StopMatching \/ MatchOne \/ LeaveLevel \/ RestAndReturn

Next ==
    \/ \E n \in Node, s \in Side, p \in Price, q \in OrderQty : Submit(n, s, p, q)
    \/ Match
    \/ \E n \in Node : Cancel(n)
    \/ \E n \in Node, q \in Quantity : Reduce(n, q)

Spec == Init /\ [][Next]_vars

(* The book is never crossed, not even between two steps of a call: every bid *)
(* level is below every ask level.                                            *)
NoCrossedBook ==
    \A b \in keys["Buy"], a \in keys["Sell"] : b < a

(* A level in the map holds an order, so the best price the next call reads   *)
(* is a price somebody quotes; only the level being consumed may be empty,    *)
(* until check_remove_level.                                                  *)
NoEmptyLevel ==
    \A s \in Side : \A p \in keys[s] :
        \/ level[s][p].head # Null
        \/ pc = "inner" /\ s = maker_side /\ p = best

(* Every step of a call of process_limit_order takes the call nearer to its   *)
(* return, whatever the book holds: the inner loop ends although an order     *)
(* reduced to 0 gives it nothing to trade, and the outer loop never comes     *)
(* back to a level it has used up.  A call over a book of N orders takes at   *)
(* most 3N + 4 steps.                                                         *)
StepsLeft ==
    LET N == Cardinality(OnBook)
    IN  CASE pc = "idle"  -> 0
          [] pc = "rest"  -> 1
          [] pc = "outer" -> IF qty[incoming] = 0 THEN 2 ELSE 3 * N + 3
          [] pc = "inner" -> IF qty[incoming] = 0 THEN 3
                             ELSE IF resting_order = Null THEN 3 * N + 4 ELSE 3 * N + 2
CallsEnd == [][pc # "idle" => StepsLeft' < StepsLeft]_vars

(* The engine implements price-time priority: with the open orders read from  *)
(* the lists, every step of the loops is a step of PriceTimePriority, or      *)
(* leaves open orders, taker and trades alone.                                *)
OpenOrder(n) == [id |-> order[n].id, side |-> order[n].side,
                  price |-> order[n].price, qty |-> qty[n]]
OpenOrders   == {OpenOrder(n) : n \in OnBook}
Taker        == IF pc = "idle" THEN <<>> ELSE <<OpenOrder(incoming)>>
PTP == INSTANCE PriceTimePriority
         WITH arrived <- submitted, open <- OpenOrders, taker <- Taker
ImplementsPriceTime == PTP!Spec
=============================================================================
