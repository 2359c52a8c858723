------------------------- MODULE CreditLedgerHistory -------------------------
(***************************************************************************)
(* CreditLedger with a history variable: the balances that could have paid *)
(* for a call from its beginning on, which tell a refusal that was due     *)
(* from one that a stale list of balances made.                            *)
(***************************************************************************)
EXTENDS CreditLedger

VARIABLE funded     \* funded[w]: the slots with a credit ever since w's call began

HistoryInit == Init /\ funded = [w \in Workers |-> {}]

HistoryNext ==
    /\ Next
    /\ funded' = [w \in Workers |->
                     CASE call'[w].pc = "idle" -> {}
                       [] call[w].pc = "idle" /\ call'[w].pc # "idle" -> Positive
                       [] OTHER -> funded[w] \cap Positive']

HistorySpec == HistoryInit /\ [][HistoryNext]_<<vars, funded>>

\* A call is refused only if no balance had a credit for the whole of the call:
\* the list of balances tryConsume read before it spends never hides a credit
\* that was there throughout.
NoSpuriousRefusal ==
    \A w \in Workers :
        call[w].status \in {"exhausted", "not_configured"} => funded[w] = {}
=============================================================================
