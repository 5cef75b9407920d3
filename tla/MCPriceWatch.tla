---------------------------- MODULE MCPriceWatch ----------------------------
(***************************************************************************)
(* Instances of PriceWatch for TLC.                                        *)
(***************************************************************************)
EXTENDS PriceWatch, TLC

Alike == Permutations(Route) \cup Permutations(Worker)
=============================================================================
