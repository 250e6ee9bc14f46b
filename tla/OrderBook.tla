----------------------------- MODULE OrderBook -----------------------------
(* The limit order book: price levels kept in one ordered map per side, each  *)
(* level an intrusive doubly linked FIFO of order nodes with a cached total   *)
(* volume (include/nexus/core/order_book.hpp, src/engine/order_book.cpp).     *)
(*                                                                            *)
(* Nodes belong to the caller: Node is the memory it has for them, a node may *)
(* be used again for a new order.  A price whose level is not in the map has  *)
(* the value of a freshly constructed PriceLevel, which is what emplace()     *)
(* puts there when it creates the level.                                      *)
EXTENDS Integers, FiniteSetsExt

CONSTANTS
    Node,    \* the caller's OrderNodes
    Null,    \* the null pointer
    Price,   \* limit prices in ticks, a set of naturals
    QtyMod   \* 2^64 in the code: Quantity is a uint64_t and wraps

ASSUME NodeAssumption   == IsFiniteSet(Node)
ASSUME NullAssumption   == Null \notin Node
ASSUME PriceAssumption  == Price \subseteq Nat /\ Price # {}
ASSUME QtyModAssumption == QtyMod \in Nat \ {0}

Side     == {"Buy", "Sell"}
Opposite(s) == IF s = "Buy" THEN "Sell" ELSE "Buy"

OrderId  == Nat
Quantity == 0 .. (QtyMod - 1)

(* uint64_t addition and subtraction, and a sum that does not wrap.           *)
PlusUnbounded(a, b) == a + b
Plus(a, b)  == IF a + b < QtyMod THEN a + b ELSE a + b - QtyMod
Minus(a, b) == IF b <= a THEN a - b ELSE a - b + QtyMod

PriceLevel == [head : Node \cup {Null}, tail : Node \cup {Null}, total_volume : Quantity]
NewLevel   == [head |-> Null, tail |-> Null, total_volume |-> 0]

AddVolume(lv, q) == [lv EXCEPT !.total_volume = Plus(lv.total_volume, q)]
SubVolume(lv, q) == [lv EXCEPT !.total_volume = Minus(lv.total_volume, q)]

(* The levels L with lv in place of the level of side s and price p.          *)
SetLevel(L, s, p, lv) == [L EXCEPT ![s] = [L[s] EXCEPT ![p] = lv]]

VARIABLES
    order,      \* order[n]: the node's id, side and price, filled in by the caller
    qty,        \* qty[n]: the node's open quantity
    prev, next, \* the node's intrusive list pointers
    keys,       \* keys[s]: the prices that have a level in the map of side s
    level       \* level[s][p]: the PriceLevel itself

bookVars == <<order, qty, prev, next, keys, level>>

BookTypeOK ==
    /\ order \in [Node -> [id : OrderId, side : Side, price : Price]]
    /\ qty   \in [Node -> Quantity]
    /\ prev  \in [Node -> Node \cup {Null}]
    /\ next  \in [Node -> Node \cup {Null}]
    /\ keys  \in [Side -> SUBSET Price]
    /\ level \in [Side -> [Price -> PriceLevel]]

BookInit ==
    /\ order = [n \in Node |-> [id |-> 0, side |-> "Buy", price |-> CHOOSE p \in Price : TRUE]]
    /\ qty   = [n \in Node |-> 0]
    /\ prev  = [n \in Node |-> Null]
    /\ next  = [n \in Node |-> Null]
    /\ keys  = [s \in Side |-> {}]
    /\ level = [s \in Side |-> [p \in Price |-> NewLevel]]

(* The order of the two maps: bids descending, asks ascending.  The mistaken  *)
(* one keeps both maps ascending.                                             *)
BetterAscending(s, p, q) == p < q
Better(s, p, q) == IF s = "Buy" THEN p > q ELSE p < q

(* p is the level get_best_bid() / get_best_ask() returns for side s.         *)
IsBest(s, p) == p \in keys[s] /\ \A q \in keys[s] : ~Better(s, q, p)

(* check_remove_level(): erase the level of price p once its list is empty.   *)
(* K and L are the map's keys and levels when it is called.  The mistaken one *)
(* never erases.                                                              *)
KeysNeverErased(K, L, s, p) == K
KeysAfterCheck(K, L, s, p) ==
    IF L[s][p].head = Null THEN [K EXCEPT ![s] = @ \ {p}] ELSE K
LevelAfterCheck(L, s, p) ==
    IF L[s][p].head = Null THEN SetLevel(L, s, p, NewLevel) ELSE L

(* IntrusiveList::push_back of node n on the list of the level lv.            *)
PushBack(lv, n) ==
    /\ prev' = [prev EXCEPT ![n] = IF lv.head = Null THEN Null ELSE lv.tail]
    /\ next' = [m \in Node |-> CASE m = n -> Null
                                 [] m # n /\ lv.head # Null /\ m = lv.tail -> n
                                 [] OTHER -> next[m]]
PushedLevel(lv, n) ==
    [lv EXCEPT !.head = IF @ = Null THEN n ELSE @, !.tail = n]

(* IntrusiveList::remove of node n from the list of the level lv: neighbours  *)
(* are joined, a missing neighbour means n was an end of the list.            *)
Unlink(n) ==
    /\ next' = [m \in Node |-> CASE m = n -> Null
                                 [] m # n /\ m = prev[n] -> next[n]
                                 [] OTHER -> next[m]]
    /\ prev' = [m \in Node |-> CASE m = n -> Null
                                 [] m # n /\ m = next[n] -> prev[n]
                                 [] OTHER -> prev[m]]
UnlinkedLevelHeadOnly(lv, n) ==   \* mistaken: the tail is not moved back
    [lv EXCEPT !.head = IF prev[n] = Null THEN next[n] ELSE @]
UnlinkedLevel(lv, n) ==
    [lv EXCEPT !.head = IF prev[n] = Null THEN next[n] ELSE @,
               !.tail = IF next[n] = Null THEN prev[n] ELSE @]

(* insert_order(): find or create the level, append, add to its volume.       *)
InsertOrder(n) ==
    LET s  == order[n].side
        p  == order[n].price
        lv == level[s][p]
    IN  /\ PushBack(lv, n)
        /\ keys'  = [keys EXCEPT ![s] = @ \cup {p}]
        /\ level' = SetLevel(level, s, p, AddVolume(PushedLevel(lv, n), qty[n]))
        /\ UNCHANGED <<order, qty>>

(* cancel_order(): nothing when the node's price has no level; otherwise      *)
(* unlink, subtract the node's quantity, erase the level if it is now empty.  *)
CancelOrderKeepsLevel(n) ==   \* mistaken: no check_remove_level
    LET s == order[n].side
        p == order[n].price
    IN  IF p \in keys[s]
        THEN /\ Unlink(n)
             /\ level' = SetLevel(level, s, p,
                                  SubVolume(UnlinkedLevel(level[s][p], n), qty[n]))
             /\ UNCHANGED <<order, qty, keys>>
        ELSE UNCHANGED bookVars
CancelOrder(n) ==
    LET s  == order[n].side
        p  == order[n].price
        L  == SetLevel(level, s, p,
                       SubVolume(UnlinkedLevel(level[s][p], n), qty[n]))
    IN  IF p \in keys[s]
        THEN /\ Unlink(n)
             /\ keys'  = KeysAfterCheck(keys, L, s, p)
             /\ level' = LevelAfterCheck(L, s, p)
             /\ UNCHANGED <<order, qty>>
        ELSE UNCHANGED bookVars

(* reduce_order(): only a real reduction does anything; the node keeps its    *)
(* place in the list, at zero too, and the level's volume drops with it.      *)
ReduceOrderKeepsVolume(n, newQty) ==   \* mistaken: the level is not told
    IF newQty < qty[n]
    THEN /\ qty' = [qty EXCEPT ![n] = newQty]
         /\ UNCHANGED <<order, prev, next, keys, level>>
    ELSE UNCHANGED bookVars
ReduceOrder(n, newQty) ==
    LET s == order[n].side
        p == order[n].price
    IN  IF newQty < qty[n]
        THEN /\ qty' = [qty EXCEPT ![n] = newQty]
             /\ level' = IF p \in keys[s]
                         THEN SetLevel(level, s, p,
                                       SubVolume(level[s][p], qty[n] - newQty))
                         ELSE level
             /\ UNCHANGED <<order, prev, next, keys>>
        ELSE UNCHANGED bookVars

(* Reading a list: the k-th node met from the head of a level along next,     *)
(* Null past the end; and the nodes that are met at all.                      *)
Chain(s, p) ==
    LET at[k \in 1 .. Cardinality(Node) + 1] ==
            IF k = 1 THEN level[s][p].head
            ELSE LET n == at[k - 1] IN IF n = Null THEN Null ELSE next[n]
    IN  at
Resting(s, p) == LET c == Chain(s, p) IN {c[k] : k \in DOMAIN c} \ {Null}
OnBook == UNION {Resting(s, p) : s \in Side, p \in Price}

(* The lists are what the pointers claim: from the head of every level in the *)
(* map, next visits nodes of that side and price and ends, prev goes back     *)
(* over the same nodes, tail is the last of them; a price without a level     *)
(* holds no order; and a node off the book has null pointers, as the comment  *)
(* at order_book.hpp:35 says.                                                 *)
ListsSound ==
    /\ \A s \in Side, p \in Price :
        LET c == Chain(s, p) IN
        /\ c[Cardinality(Node) + 1] = Null
        /\ p \notin keys[s] => c[1] = Null
        /\ c[1] = Null => level[s][p].tail = Null
        /\ \A k \in 1 .. Cardinality(Node) : c[k] # Null =>
            /\ order[c[k]].side = s /\ order[c[k]].price = p
            /\ prev[c[k]] = IF k = 1 THEN Null ELSE c[k - 1]
            /\ c[k + 1] = Null => level[s][p].tail = c[k]
    /\ \A n \in Node \ OnBook : prev[n] = Null /\ next[n] = Null

(* The cached total_volume of a level, kept by four different operations, is  *)
(* the sum of the quantities of the orders in its list (as uint64_t), also    *)
(* between two iterations of the matching loop.                               *)
VolumeIsSum ==
    \A s \in Side, p \in Price :
        level[s][p].total_volume =
            MapThenSumSet(LAMBDA n : qty[n], Resting(s, p)) % QtyMod
=============================================================================
