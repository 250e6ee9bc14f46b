--------------------------- MODULE MCRiskEngine ---------------------------
(* Two sets of limits that differ in every field, the second one stricter in  *)
(* quantity and looser in the other two.                                      *)
EXTENDS RiskEngine

MCLimits == {
    [max_order_qty |-> 3, max_notional |-> 8,  max_price_deviation_pct |-> 1],
    [max_order_qty |-> 2, max_notional |-> 12, max_price_deviation_pct |-> 3]}
=============================================================================
