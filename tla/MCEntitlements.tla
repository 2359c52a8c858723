--------------------------- MODULE MCEntitlements ---------------------------
(***************************************************************************)
(* Instances of Entitlements for TLC.                                      *)
(***************************************************************************)
EXTENDS EntitlementsHistory, TLC

CONSTANTS product, monthly, larger

MCGrantSlot == [g \in Grants |-> product]
MCGrantQuantity == [g \in Grants |-> 1]
MCIncludedOne == monthly :> 1
MCIncludedTwo == (monthly :> 1) @@ (larger :> 2)
MCOneRow == 1 .. 1
MCTwoRows == 1 .. 2

WorkerSymmetry == Permutations(Workers)
=============================================================================
