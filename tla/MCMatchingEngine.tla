------------------------- MODULE MCMatchingEngine -------------------------
(* A small instance of MatchingEngine for TLC.  The caller stops after        *)
(* MaxOrders submissions; the nodes are interchangeable, and no liveness is   *)
(* checked here, so permuting them is a sound symmetry.                       *)
EXTENDS MatchingEngine, TLC

NodeSymmetry == Permutations(Node)
=============================================================================
