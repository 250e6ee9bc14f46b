----------------------------- MODULE Portfolio -----------------------------
(* Position and profit of the trading desk (src/oms/portfolio.cpp).  Doubles  *)
(* are exact rationals, except where the difference shows: once the average   *)
(* price is a number that a double cannot hold, a profit that is exactly a    *)
(* whole number may come out a little less and lose one when it is truncated. *)
(* Prices and quantities are such that the int64_t conversions are exact.     *)
EXTENDS Rational

CONSTANTS
    FillPrice,    \* prices of fills and of the market, naturals
    FillQty,      \* quantities of fills, 0 included: a reduced order may report it
    NotionalMod,  \* 2^64 in the code
    MaxFills,     \* bound: fills in one behaviour
    Unmarked      \* no market price since the last fill

ASSUME PortfolioAssumption ==
    /\ FillPrice \subseteq Nat /\ FillQty \subseteq Nat
    /\ NotionalMod \in Nat \ {0} /\ MaxFills \in Nat /\ Unmarked \notin FillPrice

VARIABLES
    net_position, gross_notional, average_open_price, realized_pnl, unrealized_pnl,
    rounded,      \* the average went through a division that a double rounds
    fills,
    cash,         \* history: paid and received for all fills
    truncations,  \* history: how often a realized profit was truncated or may be off
    mid           \* history: the market price, Unmarked after a fill

portfolioVars == <<net_position, gross_notional, average_open_price, realized_pnl,
                   unrealized_pnl, rounded, fills, cash, truncations, mid>>
averageVars   == <<average_open_price, rounded>>
realizedVars  == <<realized_pnl, truncations>>

PortfolioInit ==
    /\ net_position = 0 /\ gross_notional = 0 /\ average_open_price = Whole(0)
    /\ realized_pnl = 0 /\ unrealized_pnl = 0 /\ rounded = FALSE
    /\ fills = 0 /\ cash = 0 /\ truncations = 0 /\ mid = Unmarked

(* What static_cast<int64_t>(x) may give for a profit x.                      *)
Inexact(x) == rounded \/ x.den # 1
ToInt64(x) ==
    LET t == Truncate(x)
    IN  IF rounded /\ x.den = 1 /\ t # 0 THEN {t, IF t > 0 THEN t - 1 ELSE t + 1} ELSE {t}

(* The profit of closing k units of the position at a price.                  *)
Profit(price, k) ==
    (IF net_position > 0 THEN Whole(price) -- average_open_price
                         ELSE average_open_price -- Whole(price)) ** Whole(k)

OpensPosition == net_position = 0
AddsTo(fill)  == (net_position > 0 /\ fill > 0) \/ (net_position < 0 /\ fill < 0)

OpenPosition(price) ==
    /\ OpensPosition
    /\ average_open_price' = Whole(price) /\ rounded' = FALSE
    /\ UNCHANGED realizedVars

AddToPosition(fill, price) ==
    /\ AddsTo(fill)
    /\ LET total_value == (Whole(Abs(net_position)) ** average_open_price)
                          ++ Whole(Abs(fill) * price)
       IN  average_open_price' = total_value // (Abs(net_position) + Abs(fill))
    /\ rounded' = (rounded \/ ~Dyadic(average_open_price'))
    /\ UNCHANGED realizedVars

ReduceOrFlipKeepsPrice(fill, price) ==   \* mistaken: a flipped position keeps the old price
    /\ ~OpensPosition /\ ~AddsTo(fill)
    /\ LET profit == Profit(price, IF Abs(fill) < Abs(net_position) THEN Abs(fill) ELSE Abs(net_position))
       IN  /\ \E gained \in ToInt64(profit) : realized_pnl' = realized_pnl + gained
           /\ truncations' = IF Inexact(profit) THEN truncations + 1 ELSE truncations
    /\ UNCHANGED averageVars
ReduceOrFlip(fill, price) ==
    /\ ~OpensPosition /\ ~AddsTo(fill)
    /\ LET current_qty == Abs(net_position)
           reduce_qty  == IF Abs(fill) < current_qty THEN Abs(fill) ELSE current_qty
           profit      == Profit(price, reduce_qty)
       IN  /\ \E gained \in ToInt64(profit) : realized_pnl' = realized_pnl + gained
           /\ truncations' = IF Inexact(profit) THEN truncations + 1 ELSE truncations
           /\ average_open_price' = CASE Abs(fill) > current_qty -> Whole(price)
                                      [] Abs(fill) = current_qty -> Whole(0)
                                      [] OTHER -> average_open_price
           /\ rounded' = (rounded /\ Abs(fill) < current_qty)

process_fill(side, price, qty) ==
    LET fill_qty == IF side = "Buy" THEN qty ELSE -qty
    IN  /\ fills < MaxFills /\ fills' = fills + 1
        /\ gross_notional' = (gross_notional + qty * price) % NotionalMod
        /\ \/ OpenPosition(price)
           \/ AddToPosition(fill_qty, price)
           \/ ReduceOrFlip(fill_qty, price)
        /\ net_position' = net_position + fill_qty
        /\ cash' = cash - fill_qty * price
        /\ mid' = Unmarked
        /\ UNCHANGED unrealized_pnl

update_market_price_OpenOnly(price) ==   \* mistaken: nothing is done for a flat position
    /\ IF net_position = 0 THEN UNCHANGED unrealized_pnl
       ELSE unrealized_pnl' \in ToInt64(Profit(price, Abs(net_position)))
    /\ mid' = price
    /\ UNCHANGED <<net_position, gross_notional, averageVars, realizedVars, fills, cash>>
update_market_price(price) ==
    /\ IF net_position = 0 THEN unrealized_pnl' = 0
       ELSE unrealized_pnl' \in ToInt64(Profit(price, Abs(net_position)))
    /\ mid' = price
    /\ UNCHANGED <<net_position, gross_notional, averageVars, realizedVars, fills, cash>>

PortfolioNext ==
    \/ \E side \in {"Buy", "Sell"}, price \in FillPrice, qty \in FillQty :
          process_fill(side, price, qty)
    \/ \E price \in FillPrice : update_market_price(price)

get_total_pnl == realized_pnl + unrealized_pnl

PortfolioTypeOK ==
    /\ {net_position, realized_pnl, unrealized_pnl} \subseteq Int
    /\ gross_notional \in 0 .. NotionalMod - 1
    /\ average_open_price \in [num : Nat, den : Nat \ {0}] /\ rounded \in BOOLEAN

(* Realized profit is money made: what was received less what was paid, plus  *)
(* the open position at its average price, is realized_pnl up to one unit for *)
(* every truncation, through opening, averaging, reducing, flipping, closing  *)
(* and opening again.                                                         *)
RealizedIsCash ==
    LET made  == Whole(cash) ++ (Whole(net_position) ** average_open_price)
        error == made -- Whole(realized_pnl)
    IN  AtMost(error, Whole(truncations)) /\ AtMost(Whole(-truncations), error)

(* After a market price the total is what selling everything at that price    *)
(* would leave, up to the truncations.  After a fill it is so only when the   *)
(* market price has been updated again: unrealized_pnl still counts what the  *)
(* fill has realized.                                                         *)
TotalIsMarkedToMarket ==
    mid # Unmarked => Abs(get_total_pnl - (cash + net_position * mid)) <= truncations + 1
=============================================================================
