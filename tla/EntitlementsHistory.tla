------------------------- MODULE EntitlementsHistory -------------------------
(***************************************************************************)
(* Entitlements with two history variables: what could have paid for a     *)
(* call from its beginning on, which tells a refusal that was due from one *)
(* that a stale read made.                                                 *)
(***************************************************************************)
EXTENDS Entitlements

VARIABLES
    funded,     \* funded[w]: the slots with a credit ever since w's call began
    covered     \* covered[w]: the SKU of the plan that had a unit left all along

\* A consume is charged to the newest active row; no other row pays for it.
PlanOffers ==
    {subs[n].sku : n \in {m \in ActiveRows : /\ m = Newest(ActiveRows)
                                             /\ subs[m].used < subs[m].included}}

HistoryInit ==
    /\ Init
    /\ funded = [w \in Workers |-> {}]
    /\ covered = [w \in Workers |-> {}]

Since(w, begun, kept) ==
    CASE ent'[w].pc = "idle" -> {}
      [] ent[w].pc = "idle" /\ ent'[w].pc # "idle" -> begun
      [] OTHER -> kept

HistoryNext ==
    /\ Next
    /\ funded' = [w \in Workers |->
                     Since(w, Credits!Positive, funded[w] \cap Credits!Positive')]
    /\ covered' = [w \in Workers |-> Since(w, PlanOffers, covered[w] \cap PlanOffers')]

HistorySpec == HistoryInit /\ [][HistoryNext]_<<vars, funded, covered>>

\* A consume is refused only if neither the plan nor any credit balance could
\* have paid for it throughout the call.
NoSpuriousRefusal ==
    \A w \in Workers :
        ent[w].status \in {"exhausted", "not_configured"} =>
            funded[w] = {} /\ covered[w] = {}
=============================================================================
