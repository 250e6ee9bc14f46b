---------------------------- MODULE RiskEngine ----------------------------
(* The pre-trade risk check (src/risk/risk_engine.cpp): a trading thread in   *)
(* check_order(), one read of shared memory per step, while other threads     *)
(* trip or reset the global kill switch and replace the limits.  The limits   *)
(* are plain fields, assigned one after the other; the switch is an atomic    *)
(* loaded relaxed, so a thread may go on seeing its old value for a while.    *)
EXTENDS Integers

CONSTANTS
    Mod,      \* 2^64: Price, Quantity and the notional are uint64_t
    Percent,  \* 100
    Prices, Quantities, References,  \* what check_order is called with
    Limits,   \* the RiskLimits the engine is constructed with or updated to
    MaxUpdates  \* bound: how often the limits are replaced

UInt == 0 .. (Mod - 1)

ASSUME WidthAssumption  == Mod \in Nat \ {0} /\ Percent \in Nat \ {0}
ASSUME InputsAssumption == Prices \subseteq UInt /\ Quantities \subseteq UInt
                           /\ References \subseteq UInt
RiskLimits ==
    [max_order_qty : UInt, max_notional : UInt, max_price_deviation_pct : 0 .. 255]

ASSUME LimitsAssumption == Limits \subseteq RiskLimits

ASSUME MaxUpdatesAssumption == MaxUpdates \in Nat

Side == {"Buy", "Sell"}

Field == {"max_order_qty", "max_notional", "max_price_deviation_pct"}
NoUpdate == [f \in {} |-> 0]

VARIABLES
    kill,      \* global_kill_switch_
    kill_vis,  \* the value the trading thread gets when it loads the switch
    limits,    \* limits_
    updating,  \* the fields an update_limits in progress has still to store
    updates,   \* how often update_limits was called
    pc,        \* the next test of check_order; "idle" outside of it
    call,      \* its arguments
    result,    \* the RejectReason of the last call, "" before it has one
    in_force   \* history: the values limits_ had during the call

adminVars == <<kill, limits, updating, updates>>
vars      == <<adminVars, kill_vis, pc, call, result, in_force>>

Calls == [price : Prices, qty : Quantities, side : Side, reference : References]

Init ==
    /\ kill = FALSE /\ kill_vis = FALSE   \* the initial values are seen by every thread
    /\ limits \in Limits /\ updating = NoUpdate /\ updates = 0
    /\ pc = "idle" /\ result = "" /\ call \in Calls
    /\ in_force = {limits}

CheckOrder(c) ==
    /\ pc = "idle"
    /\ call' = c /\ pc' = "kill_switch" /\ result' = ""
    /\ in_force' = {limits}
    /\ UNCHANGED <<adminVars, kill_vis>>

(* One test: return the reason if it fails, go on to the next test if not.    *)
Test(here, fails, reason, after) ==
    /\ pc = here
    /\ IF fails THEN pc' = "idle" /\ result' = reason
                ELSE pc' = after  /\ result' = IF after = "idle" THEN "None" ELSE ""
    /\ UNCHANGED <<adminVars, kill_vis, call, in_force>>

TestKillSwitchNever == Test("kill_switch", FALSE, "KillSwitchActive", "qty")  \* mistaken: skipped
TestKillSwitch == Test("kill_switch", kill_vis, "KillSwitchActive", "qty")

TestQty == Test("qty", call.qty > limits.max_order_qty, "MaxOrderQtyExceeded", "notional")

Notional == (call.price * call.qty) % Mod

TestNotional == Test("notional", Notional > limits.max_notional, "MaxNotionalExceeded", "collar")

(* reference +- (reference * pct) / 100, in uint64_t.                         *)
max_deviation == ((call.reference * limits.max_price_deviation_pct) % Mod) \div Percent

OutsideCollarOneSided ==   \* mistaken: only the buyer's bound
    call.reference > 0 /\ call.price > (call.reference + max_deviation) % Mod
OutsideCollar ==
    /\ call.reference > 0
    /\ IF call.side = "Buy" THEN call.price > (call.reference + max_deviation) % Mod
                            ELSE call.price < (call.reference - max_deviation) % Mod

TestCollar == Test("collar", OutsideCollar, "PriceCollarExceeded", "idle")

(* trip_kill_switch() and reset_kill_switch(), from any thread.               *)
SetKillSwitch(on) ==
    /\ kill' = on
    /\ UNCHANGED <<kill_vis, limits, updating, updates, pc, call, result, in_force>>

KillSwitchBecomesVisible ==
    /\ kill_vis # kill
    /\ kill_vis' = kill
    /\ UNCHANGED <<adminVars, pc, call, result, in_force>>

(* update_limits(): the fields are stored one by one, in an order that is the *)
(* compiler's; check_order does not wait for it.                              *)
UpdateLimits(l) ==
    /\ updating = NoUpdate /\ updates < MaxUpdates
    /\ updating' = l /\ updates' = updates + 1
    /\ UNCHANGED <<kill, limits, kill_vis, pc, call, result, in_force>>

StoreField(f) ==
    /\ f \in DOMAIN updating
    /\ limits' = [limits EXCEPT ![f] = updating[f]]
    /\ updating' = [g \in DOMAIN updating \ {f} |-> updating[g]]
    /\ in_force' = IF pc = "idle" THEN in_force ELSE in_force \cup {limits'}
    /\ UNCHANGED <<kill, updates, kill_vis, pc, call, result>>

Check == TestKillSwitch \/ TestQty \/ TestNotional \/ TestCollar

Next ==
    \/ \E c \in Calls : CheckOrder(c)
    \/ Check
    \/ \E on \in BOOLEAN : SetKillSwitch(on)
    \/ KillSwitchBecomesVisible
    \/ \E l \in Limits : UpdateLimits(l)
    \/ \E f \in Field : StoreField(f)

Spec     == Init /\ [][Next]_vars
FairSpec == Spec /\ WF_vars(Check) /\ WF_vars(KillSwitchBecomesVisible)

TypeOK ==
    /\ {kill, kill_vis} \subseteq BOOLEAN
    /\ limits \in RiskLimits /\ updates \in 0 .. MaxUpdates
    /\ DOMAIN updating \subseteq Field /\ \A f \in DOMAIN updating : updating[f] \in {l[f] : l \in Limits}
    /\ pc \in {"idle", "kill_switch", "qty", "notional", "collar"}
    /\ call \in Calls
    /\ result \in {"", "None", "MaxOrderQtyExceeded", "MaxNotionalExceeded",
                   "PriceCollarExceeded", "KillSwitchActive"}

(* The limits as limits.hpp states them, in integers of any size: the price   *)
(* deviates from the reference by at most the given percentage of it.         *)
QtyWithin(l)      == call.qty <= l.max_order_qty
NotionalWithin(l) == call.price * call.qty <= l.max_notional
CollarWithin(l)   ==
    call.reference > 0 =>
        LET over == IF call.side = "Buy" THEN call.price - call.reference
                                         ELSE call.reference - call.price
        IN  Percent * over <= call.reference * l.max_price_deviation_pct

(* The products and sums of this call are representable, under every limits   *)
(* it may have read.                                                          *)
Representable ==
    /\ call.price * call.qty < Mod
    /\ \A l \in in_force :
         LET d == call.reference * l.max_price_deviation_pct
         IN  d < Mod /\ call.reference + d \div Percent < Mod /\ d \div Percent <= call.reference

(* An order passes only if each test holds under limits that were in force at *)
(* some moment of the call, also while they are being replaced, and is        *)
(* rejected only for a test that does not: the arithmetic of the collar, with *)
(* its rounding, is the percentage it stands for.                             *)
VerdictJustified ==
    Representable =>
        /\ result = "None" => /\ \E l \in in_force : QtyWithin(l)
                              /\ \E l \in in_force : NotionalWithin(l)
                              /\ \E l \in in_force : CollarWithin(l)
        /\ result = "MaxOrderQtyExceeded" => \E l \in in_force : ~QtyWithin(l)
        /\ result = "MaxNotionalExceeded" => \E l \in in_force : ~NotionalWithin(l)
        /\ result = "PriceCollarExceeded" => \E l \in in_force : ~CollarWithin(l)

(* A tripped switch that stays tripped stops the orders: although the load is *)
(* relaxed and a check may be under way, there is a moment from which on no   *)
(* order gets past the first test.                                            *)
TripTakesEffect == <>[]kill => <>[](pc \in {"idle", "kill_switch"})

(* "Maximum allowable notional value (price * qty) for a single order"        *)
(* (limits.hpp:11): an order that passes is within it.                        *)
PassedNotionalWithin == result = "None" => \E l \in in_force : NotionalWithin(l)
=============================================================================
