------------------------- MODULE PriceTimePriority -------------------------
(* What a limit order matching engine promises, with no lists, levels or      *)
(* cursors: the open orders are a set, arrival is a number, and an incoming   *)
(* order trades with the best-priced, earliest open order of the other side   *)
(* for as long as one crosses its limit.                                      *)
EXTENDS Integers, Sequences

CONSTANTS Price, QtyMod

Side == {"Buy", "Sell"}
Opposite(s) == IF s = "Buy" THEN "Sell" ELSE "Buy"
Least(a, b) == IF a < b THEN a ELSE b

VARIABLES
    arrived,  \* how many orders have arrived
    open,     \* the resting orders, each [id, side, price, qty]
    taker,    \* <<>> or <<the order being matched>>
    trades    \* the trades of the order being matched, in order

vars == <<arrived, open, taker, trades>>

Init == arrived = 0 /\ open = {} /\ taker = <<>> /\ trades = <<>>

Crosses(t, m) ==
    m.side = Opposite(t.side) /\ IF t.side = "Buy" THEN m.price <= t.price
                                                   ELSE m.price >= t.price

(* m goes before every other order of its side: better price, or same price   *)
(* and earlier arrival.                                                       *)
First(m) ==
    \A o \in open : o.side = m.side /\ o # m =>
        \/ IF m.side = "Buy" THEN m.price > o.price ELSE m.price < o.price
        \/ m.price = o.price /\ m.id < o.id

Arrive(s, p, q) ==
    /\ taker = <<>>
    /\ arrived' = arrived + 1
    /\ taker'   = << [id |-> arrived + 1, side |-> s, price |-> p, qty |-> q] >>
    /\ UNCHANGED <<open, trades>>

Execute(m) ==
    /\ taker # <<>> /\ taker[1].qty > 0
    /\ Crosses(taker[1], m) /\ First(m)
    /\ LET t == taker[1]
           q == Least(t.qty, m.qty)
       IN  /\ trades' = Append(trades, [maker |-> m.id, taker |-> t.id,
                                        price |-> m.price, qty |-> q])
           /\ taker'  = << [t EXCEPT !.qty = @ - q] >>
           /\ open'   = (open \ {m}) \cup
                        (IF m.qty > q THEN {[m EXCEPT !.qty = @ - q]} ELSE {})
    /\ UNCHANGED arrived

Finish ==
    /\ taker # <<>>
    /\ taker[1].qty = 0 \/ \A m \in open : ~Crosses(taker[1], m)
    /\ open'  = open \cup (IF taker[1].qty > 0 THEN {taker[1]} ELSE {})
    /\ taker' = <<>> /\ trades' = <<>>
    /\ UNCHANGED arrived

Cancel(m) ==
    /\ taker = <<>>
    /\ open' = open \ {m}
    /\ UNCHANGED <<arrived, taker, trades>>

Reduce(m, q) ==
    /\ taker = <<>> /\ q < m.qty
    /\ open' = (open \ {m}) \cup {[m EXCEPT !.qty = q]}
    /\ UNCHANGED <<arrived, taker, trades>>

Next ==
    \/ \E s \in Side, p \in Price, q \in 1 .. (QtyMod - 1) : Arrive(s, p, q)
    \/ \E m \in open : Execute(m) \/ Cancel(m)
    \/ \E m \in open, q \in 0 .. (QtyMod - 1) : Reduce(m, q)
    \/ Finish

Spec == Init /\ [][Next]_vars
FairSpec == Spec /\ WF_vars(Finish \/ \E m \in open : Execute(m))
=============================================================================
