--------------------------- MODULE MCCreditLedger ---------------------------
(***************************************************************************)
(* Instances of CreditLedger, with its history, for TLC.                   *)
(***************************************************************************)
EXTENDS CreditLedgerHistory, TLC

CONSTANTS g1, g2, sku, product

MCGrantSlot == (g1 :> product) @@ (g2 :> sku)
MCGrantQuantity == (g1 :> 1) @@ (g2 :> 1)

WorkerSymmetry == Permutations(Workers)
=============================================================================
