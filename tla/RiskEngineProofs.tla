-------------------------- MODULE RiskEngineProofs --------------------------
(* The pre-trade risk check for every width of the integers and every limits, *)
(* with any number of replacements of the limits while an order is checked.   *)
EXTENDS RiskEngine, TLAPS

(* Types.                                                                     *)
LEMMA StoredFieldType ==
    ASSUME TypeOK, NEW f \in DOMAIN updating
    PROVE  [limits EXCEPT ![f] = updating[f]] \in RiskLimits
<1>1. limits \in RiskLimits /\ f \in Field
  BY DEF TypeOK
<1>2. PICK l \in RiskLimits : updating[f] = l[f]
  BY LimitsAssumption DEF TypeOK
<1>3. CASE f = "max_order_qty"
  BY <1>1, <1>2, <1>3 DEF RiskLimits
<1>4. CASE f = "max_notional"
  BY <1>1, <1>2, <1>4 DEF RiskLimits
<1>5. CASE f = "max_price_deviation_pct"
  BY <1>1, <1>2, <1>5 DEF RiskLimits
<1> QED BY <1>1, <1>3, <1>4, <1>5 DEF Field

LEMMA InitTypes == Init => TypeOK
<1> SUFFICES ASSUME Init PROVE TypeOK
  OBVIOUS
<1>1. limits \in RiskLimits /\ updates \in 0 .. MaxUpdates
  <2>1. limits \in Limits /\ updates = 0
    BY DEF Init
  <2> QED BY <2>1, LimitsAssumption, MaxUpdatesAssumption
<1> QED BY <1>1 DEF Init, TypeOK, NoUpdate

LEMMA StepTypes == TypeOK /\ [Next]_vars => TypeOK'
<1> SUFFICES ASSUME TypeOK, [Next]_vars PROVE TypeOK'
  OBVIOUS
<1>1. ASSUME NEW c \in Calls, CheckOrder(c) PROVE TypeOK'
  BY <1>1 DEF TypeOK, CheckOrder, adminVars
<1>2. CASE Check
  <2>1. CASE TestKillSwitch
    BY <2>1 DEF TestKillSwitch, Test, TypeOK, adminVars
  <2>2. CASE TestQty
    BY <2>2 DEF TestQty, Test, TypeOK, adminVars
  <2>3. CASE TestNotional
    BY <2>3 DEF TestNotional, Test, TypeOK, adminVars
  <2>4. CASE TestCollar
    BY <2>4 DEF TestCollar, Test, TypeOK, adminVars
  <2> QED BY <1>2, <2>1, <2>2, <2>3, <2>4 DEF Check
<1>3. ASSUME NEW on \in BOOLEAN, SetKillSwitch(on) PROVE TypeOK'
  BY <1>3 DEF TypeOK, SetKillSwitch
<1>4. CASE KillSwitchBecomesVisible
  BY <1>4 DEF TypeOK, KillSwitchBecomesVisible, adminVars
<1>5. ASSUME NEW l \in Limits, UpdateLimits(l) PROVE TypeOK'
  <2>1. DOMAIN l = Field
    BY LimitsAssumption DEF RiskLimits, Field
  <2>2. updates' \in 0 .. MaxUpdates
    <3>1. updates \in 0 .. MaxUpdates
      BY DEF TypeOK
    <3>2. updates < MaxUpdates /\ updates' = updates + 1
      BY <1>5 DEF UpdateLimits
    <3> QED BY <3>1, <3>2, MaxUpdatesAssumption
  <2> QED BY <1>5, <2>1, <2>2 DEF TypeOK, UpdateLimits
<1>6. ASSUME NEW f \in Field, StoreField(f) PROVE TypeOK'
  <2>1. limits' \in RiskLimits
    BY <1>6, StoredFieldType DEF StoreField
  <2>2. DOMAIN updating' \subseteq DOMAIN updating
        /\ \A g \in DOMAIN updating' : updating'[g] = updating[g]
    BY <1>6 DEF StoreField
  <2> QED BY <1>6, <2>1, <2>2 DEF TypeOK, StoreField
<1>7. CASE UNCHANGED vars
  BY <1>7 DEF TypeOK, vars, adminVars
<1> QED BY <1>1, <1>2, <1>3, <1>4, <1>5, <1>6, <1>7 DEF Next

(* Calls, limits, switch and verdict have their types, while the fields of    *)
(* the limits are stored in any order during a check.                         *)
THEOREM TypesHold == Spec => []TypeOK
BY InitTypes, StepTypes, PTL DEF Spec

(* The collar test as the code evaluates it, under the limits l.              *)
Deviation(l) == ((call.reference * l.max_price_deviation_pct) % Mod) \div Percent
Outside(l) ==
    /\ call.reference > 0
    /\ IF call.side = "Buy" THEN call.price > (call.reference + Deviation(l)) % Mod
                            ELSE call.price < (call.reference - Deviation(l)) % Mod

(* What the tests have found so far: each that was passed held, in the        *)
(* arithmetic of the code, under limits of this call, and the one that failed *)
(* did not; no verdict before the end, and the limits that are read next are  *)
(* limits of this call.                                                       *)
QtyPassed      == \E l \in in_force : ~(call.qty > l.max_order_qty)
QtyFailed      == \E l \in in_force : call.qty > l.max_order_qty
NotionalPassed == \E l \in in_force : ~(Notional > l.max_notional)
NotionalFailed == \E l \in in_force : Notional > l.max_notional
CollarPassed   == \E l \in in_force : ~Outside(l)
CollarFailed   == \E l \in in_force : Outside(l)

VerdictInv ==
    /\ TypeOK /\ in_force \subseteq RiskLimits
    /\ pc # "idle" => limits \in in_force /\ result = ""
    /\ pc \in {"notional", "collar"} \/ result = "None" => QtyPassed
    /\ pc = "collar" \/ result = "None" => NotionalPassed
    /\ result = "None" => CollarPassed
    /\ result = "MaxOrderQtyExceeded" => QtyFailed
    /\ result = "MaxNotionalExceeded" => NotionalFailed
    /\ result = "PriceCollarExceeded" => CollarFailed

(* A step that keeps the call, its place and its result, and forgets no limits.*)
LEMMA VerdictKept ==
    ASSUME VerdictInv, TypeOK', pc' = pc, call' = call, result' = result,
           in_force \subseteq in_force', in_force' \subseteq RiskLimits,
           pc # "idle" => limits' \in in_force'
    PROVE  VerdictInv'
<1>1. /\ (QtyPassed => QtyPassed') /\ (QtyFailed => QtyFailed')
      /\ (NotionalPassed => NotionalPassed') /\ (NotionalFailed => NotionalFailed')
  BY DEF QtyPassed, QtyFailed, NotionalPassed, NotionalFailed, Notional
<1>2. \A l : Outside(l)' <=> Outside(l)
  BY DEF Outside, Deviation
<1>3. (CollarPassed => CollarPassed') /\ (CollarFailed => CollarFailed')
  BY <1>2 DEF CollarPassed, CollarFailed
<1> QED BY <1>1, <1>3 DEF VerdictInv

LEMMA VerdictStep == VerdictInv /\ [Next]_vars => VerdictInv'
<1> SUFFICES ASSUME VerdictInv, [Next]_vars PROVE VerdictInv'
  OBVIOUS
<1>1. TypeOK'
  BY StepTypes DEF VerdictInv
<1>2. ASSUME NEW c \in Calls, CheckOrder(c) PROVE VerdictInv'
  BY <1>1, <1>2 DEF VerdictInv, CheckOrder, adminVars, TypeOK
<1>3. CASE Check
  <2>1. /\ call' = call /\ in_force' = in_force /\ limits' = limits
        /\ limits \in in_force /\ result = "" /\ in_force \subseteq RiskLimits
    BY <1>3 DEF Check, TestKillSwitch, TestQty, TestNotional, TestCollar, Test, adminVars,
                VerdictInv
  <2>2. \A l : Outside(l)' <=> Outside(l)
    BY <2>1 DEF Outside, Deviation
  <2>3. /\ (QtyPassed' <=> QtyPassed) /\ (QtyFailed' <=> QtyFailed)
        /\ (NotionalPassed' <=> NotionalPassed) /\ (NotionalFailed' <=> NotionalFailed)
        /\ (CollarPassed' <=> CollarPassed) /\ (CollarFailed' <=> CollarFailed)
    BY <2>1, <2>2 DEF QtyPassed, QtyFailed, NotionalPassed, NotionalFailed, Notional,
                      CollarPassed, CollarFailed
  <2>4. CASE TestKillSwitch
    BY <1>1, <2>1, <2>4 DEF VerdictInv, TestKillSwitch, Test
  <2>5. CASE TestQty
    <3>1. IF call.qty > limits.max_order_qty THEN QtyFailed ELSE QtyPassed
      BY <2>1 DEF QtyFailed, QtyPassed
    <3> QED BY <1>1, <2>1, <2>3, <2>5, <3>1 DEF VerdictInv, TestQty, Test
  <2>6. CASE TestNotional
    <3>1. IF Notional > limits.max_notional THEN NotionalFailed ELSE NotionalPassed
      BY <2>1 DEF NotionalFailed, NotionalPassed
    <3>2. QtyPassed
      BY <2>6 DEF VerdictInv, TestNotional, Test
    <3> QED BY <1>1, <2>1, <2>3, <2>6, <3>1, <3>2 DEF VerdictInv, TestNotional, Test
  <2>7. CASE TestCollar
    <3>1. OutsideCollar <=> Outside(limits)
      BY DEF OutsideCollar, Outside, max_deviation, Deviation
    <3>2. IF OutsideCollar THEN CollarFailed ELSE CollarPassed
      BY <2>1, <3>1 DEF CollarFailed, CollarPassed
    <3>3. QtyPassed /\ NotionalPassed
      BY <2>7 DEF VerdictInv, TestCollar, Test
    <3> QED BY <1>1, <2>1, <2>3, <2>7, <3>2, <3>3 DEF VerdictInv, TestCollar, Test
  <2> QED BY <1>3, <2>4, <2>5, <2>6, <2>7 DEF Check
<1>4. ASSUME NEW on \in BOOLEAN, SetKillSwitch(on) PROVE VerdictInv'
  BY <1>1, <1>4, VerdictKept DEF SetKillSwitch, VerdictInv
<1>5. CASE KillSwitchBecomesVisible
  BY <1>1, <1>5, VerdictKept DEF KillSwitchBecomesVisible, VerdictInv, adminVars
<1>6. ASSUME NEW l \in Limits, UpdateLimits(l) PROVE VerdictInv'
  BY <1>1, <1>6, VerdictKept DEF UpdateLimits, VerdictInv
<1>7. ASSUME NEW f \in Field, StoreField(f) PROVE VerdictInv'
  <2>1. limits' \in RiskLimits
    BY <1>1 DEF TypeOK
  <2>2. /\ in_force' = IF pc = "idle" THEN in_force ELSE in_force \cup {limits'}
        /\ UNCHANGED <<pc, call, result>>
    BY <1>7 DEF StoreField
  <2> QED BY <1>1, <2>1, <2>2, VerdictKept DEF VerdictInv
<1>8. CASE UNCHANGED vars
  BY <1>1, <1>8, VerdictKept DEF vars, adminVars, VerdictInv
<1> QED BY <1>2, <1>3, <1>4, <1>5, <1>6, <1>7, <1>8 DEF Next

LEMMA VerdictInit == Init => VerdictInv
<1> SUFFICES ASSUME Init PROVE VerdictInv
  OBVIOUS
<1>1. TypeOK
  BY InitTypes
<1> QED BY <1>1 DEF Init, VerdictInv, TypeOK


(* The collar test under limits whose products and sums are representable is  *)
(* the percentage it stands for: dividing by Percent first rounds the wrong   *)
(* way for nobody.                                                            *)
LEMMA Scaled ==
    ASSUME NEW d \in Nat, NEW x \in Int
    PROVE  /\ d \div Percent \in Nat
           /\ x <= d \div Percent <=> Percent * x <= d
<1>1. Percent \in Nat /\ Percent > 0
  BY WidthAssumption
<1>2. PICK q \in Int, r \in 0 .. Percent - 1 : d = Percent * q + r /\ q = d \div Percent
  <2>1. d = Percent * (d \div Percent) + (d % Percent) /\ d \div Percent \in Int
        /\ d % Percent \in 0 .. Percent - 1
    BY <1>1
  <2> QED BY <2>1
<1>3. q >= 0
  <2>1. q <= -1 => Percent * q <= Percent * (-1)
    BY <1>1
  <2> QED BY <1>1, <1>2, <2>1
<1>4. x <= q => Percent * x <= Percent * q
  BY <1>1
<1>5. x >= q + 1 => Percent * x >= Percent * (q + 1)
  BY <1>1
<1>6. Percent * (q + 1) = Percent * q + Percent /\ Percent * q \in Int /\ Percent * x \in Int
      /\ Percent * (q + 1) \in Int
  BY <1>1
<1>7. CASE x <= q
  BY <1>1, <1>2, <1>4, <1>6, <1>7
<1>8. CASE x >= q + 1
  <2>1. Percent * x > d /\ ~(x <= q)
    BY <1>1, <1>2, <1>5, <1>6, <1>8
  <2> QED BY <1>1, <1>2, <1>3, <1>6, <2>1
<1> QED BY <1>2, <1>3, <1>7, <1>8

LEMMA SmallRemainder ==
    ASSUME NEW x \in Nat, x < Mod
    PROVE  x % Mod = x
BY WidthAssumption

LEMMA CallTypes ==
    /\ TypeOK => call.price \in Nat /\ call.qty \in Nat /\ call.reference \in Nat
    /\ \A l \in RiskLimits : /\ l.max_order_qty \in Nat /\ l.max_notional \in Nat
                             /\ l.max_price_deviation_pct \in Nat
<1>1. UInt \subseteq Nat /\ 0 .. 255 \subseteq Nat
  BY WidthAssumption DEF UInt
<1>2. \A c \in Calls : c.price \in UInt /\ c.qty \in UInt /\ c.reference \in UInt
  BY InputsAssumption DEF Calls
<1>3. \A l \in RiskLimits : /\ l.max_order_qty \in UInt /\ l.max_notional \in UInt
                            /\ l.max_price_deviation_pct \in 0 .. 255
  BY DEF RiskLimits
<1> QED BY <1>1, <1>2, <1>3 DEF TypeOK

LEMMA CollarIsPercentage ==
    ASSUME TypeOK, Representable, NEW l \in RiskLimits, l \in in_force
    PROVE  CollarWithin(l) <=> ~Outside(l)
<1>1. PICK r \in Nat, p \in Nat, c \in Nat :
          r = call.reference /\ p = call.price /\ c = l.max_price_deviation_pct
  BY CallTypes
<1>2. PICK d \in Nat : d = r * c /\ d < Mod
  <2>1. r * c \in Nat
    OBVIOUS
  <2> QED BY <1>1, <2>1 DEF Representable
<1>3. PICK v \in Nat : v = d \div Percent /\ r + v < Mod /\ v <= r
  <2>1. d \div Percent \in Nat
    BY Scaled
  <2> QED BY <1>1, <1>2, <2>1 DEF Representable
<1>4. Deviation(l) = v
  BY <1>1, <1>2, <1>3, SmallRemainder DEF Deviation
<1>5. (r + v) % Mod = r + v /\ (r - v) % Mod = r - v
  <2>1. r + v \in Nat /\ r - v \in Nat /\ r - v < Mod
    BY <1>3, WidthAssumption
  <2> QED BY <1>3, <2>1, SmallRemainder
<1>6. /\ p - r \in Int /\ r - p \in Int
      /\ p - r <= v <=> Percent * (p - r) <= d
      /\ r - p <= v <=> Percent * (r - p) <= d
  <2>1. p - r \in Int /\ r - p \in Int
    OBVIOUS
  <2> QED BY <1>3, <2>1, Scaled
<1>7. CASE call.side = "Buy"
  <2>1. Outside(l) <=> r > 0 /\ p > r + v
    BY <1>1, <1>4, <1>5, <1>7 DEF Outside
  <2>2. CollarWithin(l) <=> (r > 0 => Percent * (p - r) <= d)
    BY <1>1, <1>2, <1>7 DEF CollarWithin
  <2>3. p > r + v <=> ~(p - r <= v)
    OBVIOUS
  <2> QED BY <1>6, <2>1, <2>2, <2>3
<1>8. CASE call.side # "Buy"
  <2>1. Outside(l) <=> r > 0 /\ p < r - v
    BY <1>1, <1>4, <1>5, <1>8 DEF Outside
  <2>2. CollarWithin(l) <=> (r > 0 => Percent * (r - p) <= d)
    BY <1>1, <1>2, <1>8 DEF CollarWithin
  <2>3. p < r - v <=> ~(r - p <= v)
    OBVIOUS
  <2> QED BY <1>6, <2>1, <2>2, <2>3
<1> QED BY <1>7, <1>8

(* A verdict is justified by limits that were in force during the call: one   *)
(* the order passes for every test it got through, or one it breaks for the   *)
(* test it was rejected for, whatever the limits, prices and widths are, as   *)
(* long as the products fit; also while update_limits is storing fields.      *)
THEOREM VerdictsJustified == Spec => []VerdictJustified
<1>1. VerdictInv => VerdictJustified
  <2> SUFFICES ASSUME VerdictInv, Representable
               PROVE  /\ result = "None" => /\ \E l \in in_force : QtyWithin(l)
                                            /\ \E l \in in_force : NotionalWithin(l)
                                            /\ \E l \in in_force : CollarWithin(l)
                      /\ result = "MaxOrderQtyExceeded" => \E l \in in_force : ~QtyWithin(l)
                      /\ result = "MaxNotionalExceeded" => \E l \in in_force : ~NotionalWithin(l)
                      /\ result = "PriceCollarExceeded" => \E l \in in_force : ~CollarWithin(l)
    BY DEF VerdictJustified
  <2>1. TypeOK /\ in_force \subseteq RiskLimits
    BY DEF VerdictInv
  <2>2. \A l \in in_force : CollarWithin(l) <=> ~Outside(l)
    BY <2>1, CollarIsPercentage
  <2>3. /\ call.price \in Nat /\ call.qty \in Nat
        /\ \A l \in in_force : l.max_order_qty \in Nat /\ l.max_notional \in Nat
    BY <2>1, CallTypes
  <2>4. Notional = call.price * call.qty /\ Notional \in Nat
    <3>1. PICK x \in Nat : x = call.price * call.qty
      BY <2>3
    <3> QED BY <3>1, SmallRemainder DEF Notional, Representable
  <2>5. \A l \in in_force : /\ QtyWithin(l) <=> ~(call.qty > l.max_order_qty)
                            /\ NotionalWithin(l) <=> ~(Notional > l.max_notional)
    BY <2>3, <2>4 DEF QtyWithin, NotionalWithin
  <2> QED BY <2>2, <2>5 DEF VerdictInv, QtyPassed, QtyFailed, NotionalPassed, NotionalFailed,
                            CollarPassed, CollarFailed
<1> QED BY <1>1, VerdictInit, VerdictStep, PTL DEF Spec
=============================================================================
