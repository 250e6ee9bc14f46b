------------------------------ MODULE Signals ------------------------------
(* The two microstructure signals of a tick (src/quant/micro_price.cpp): the  *)
(* micro price of a book, and the order flow imbalance between it and the     *)
(* book of the tick before, which SignalEngine remembers.                     *)
EXTENDS Rational

CONSTANTS
    QuotePrice,   \* prices of the best quotes, positive
    QuoteVolume,  \* volumes at them, positive
    VolumeMod,    \* 2^64 in the code: the sum of two volumes wraps
    NoTick        \* before the first tick

ASSUME QuoteAssumption ==
    /\ QuotePrice \subseteq Nat \ {0}
    /\ VolumeMod \in Nat \ {0} /\ QuoteVolume \subseteq 1 .. VolumeMod - 1

VARIABLES
    prev_state, has_prev,
    ofi,           \* what update_and_get_ofi returned last
    tick, before   \* history: the books of the last call and of the one before

signalVars == <<prev_state, has_prev, ofi, tick, before>>

BookState(bid, bv, ask, av) ==
    [best_bid |-> bid, bid_volume |-> bv, best_ask |-> ask, ask_volume |-> av]
EmptyBook == BookState(0, 0, 0, 0)

(* The books of an exchange: not crossed; a side without orders has price and *)
(* volume 0.                                                                  *)
TwoSided(b) == b.bid_volume > 0 /\ b.ask_volume > 0
BookQuote == {[price |-> 0, volume |-> 0]} \cup [price : QuotePrice, volume : QuoteVolume]
Books ==
    {b \in {BookState(x.price, x.volume, y.price, y.volume) : x, y \in BookQuote} :
        TwoSided(b) => b.best_bid < b.best_ask}

ASSUME TickAssumption == NoTick \notin Books

SignalInit ==
    /\ prev_state = EmptyBook /\ has_prev = FALSE
    /\ ofi = 0 /\ tick = NoTick /\ before = NoTick

calculate_micro_price_OwnSide(b) ==   \* mistaken: each price weighted with its own volume
    IF (b.bid_volume + b.ask_volume) % VolumeMod = 0 THEN Whole(0)
    ELSE Ratio(b.bid_volume * b.best_bid + b.ask_volume * b.best_ask,
               b.bid_volume + b.ask_volume)
calculate_micro_price(b) ==
    IF (b.bid_volume + b.ask_volume) % VolumeMod = 0 THEN Whole(0)
    ELSE Ratio(b.bid_volume * b.best_ask + b.ask_volume * b.best_bid,
               b.bid_volume + b.ask_volume)

BidFlow(cur, prv) ==
    CASE cur.best_bid > prv.best_bid -> cur.bid_volume
      [] cur.best_bid = prv.best_bid -> cur.bid_volume - prv.bid_volume
      [] cur.best_bid < prv.best_bid -> -prv.bid_volume
AskFlow(cur, prv) ==
    CASE cur.best_ask < prv.best_ask -> -cur.ask_volume
      [] cur.best_ask = prv.best_ask -> prv.ask_volume - cur.ask_volume
      [] cur.best_ask > prv.best_ask -> prv.ask_volume

update_and_get_ofi_OnChange(b) ==   \* mistaken: a tick with the same prices is not remembered
    /\ ofi' = IF has_prev THEN BidFlow(b, prev_state) + AskFlow(b, prev_state) ELSE 0
    /\ prev_state' = IF has_prev /\ b.best_bid = prev_state.best_bid
                                 /\ b.best_ask = prev_state.best_ask THEN prev_state ELSE b
    /\ has_prev' = TRUE
    /\ before' = tick /\ tick' = b
update_and_get_ofi(b) ==
    /\ ofi' = IF has_prev THEN BidFlow(b, prev_state) + AskFlow(b, prev_state) ELSE 0
    /\ prev_state' = b /\ has_prev' = TRUE
    /\ before' = tick /\ tick' = b

SignalNext == \E b \in Books : update_and_get_ofi(b)

SignalTypeOK ==
    /\ prev_state \in Books /\ has_prev \in BOOLEAN
    /\ {tick, before} \subseteq Books \cup {NoTick}

(* The depth quoted at a price, as far as the best quotes tell.               *)
BidsAt(b, p) == IF b.best_bid = p THEN b.bid_volume ELSE 0
AsksAt(b, p) == IF b.best_ask = p THEN b.ask_volume ELSE 0

(* The imbalance by what it measures: how much the depth changed at the       *)
(* better of the two best bids, less how much it changed at the better of the *)
(* two best asks. A bid side that fills or empties changes the depth like any *)
(* other. An ask side that fills or empties counts nothing: its price 0       *)
(* passes for the lower ask, with no volume to add or to lose.                *)
Asks(b) == b.ask_volume > 0
OrderFlow(cur, prv) ==
    LET hi == IF cur.best_bid > prv.best_bid THEN cur.best_bid ELSE prv.best_bid
        lo == IF cur.best_ask < prv.best_ask THEN cur.best_ask ELSE prv.best_ask
    IN  (BidsAt(cur, hi) - BidsAt(prv, hi))
            - IF Asks(cur) /\ Asks(prv) THEN AsksAt(cur, lo) - AsksAt(prv, lo) ELSE 0

(* The micro price lies between the quotes, nearer to the ask when more is    *)
(* bid than offered, as long as the sum of the volumes does not wrap.         *)
MicroPriceLeans(b) ==
    TwoSided(b) /\ b.bid_volume + b.ask_volume < VolumeMod =>
        LET micro == calculate_micro_price(b)
        IN  /\ AtMost(Whole(b.best_bid), micro) /\ AtMost(micro, Whole(b.best_ask))
            /\ b.bid_volume >= b.ask_volume
                   <=> AtMost(Whole(b.best_bid + b.best_ask), micro ** Whole(2))

(* The signals of a tick are about this tick and the one just before it.      *)
SignalsSound ==
    tick # NoTick =>
        /\ ofi = IF before = NoTick THEN 0 ELSE OrderFlow(tick, before)
        /\ MicroPriceLeans(tick)
=============================================================================
