------------------------------ MODULE Allowance ------------------------------
(***************************************************************************)
(* What the prepaid ledger promises, with every operation atomic.          *)
(*                                                                         *)
(* Each account holds units.  A unit moves from an account to a resource   *)
(* (a penetration test run, a member's background check) at most once per  *)
(* resource, and a charged resource gives its unit back to the account it  *)
(* came from at most once.  Nothing else changes an account but a grant.   *)
(***************************************************************************)
EXTENDS Integers

CONSTANTS Accounts, Resources, None

VARIABLES
    units,      \* units[a]: what account a has left
    charged,    \* charged[r]: the account r was charged to, or None
    refunded    \* the resources whose unit went back

vars == <<units, charged, refunded>>

Init ==
    /\ units = [a \in Accounts |-> 0]
    /\ charged = [r \in Resources |-> None]
    /\ refunded = {}

Grant(a) ==
    /\ units'[a] > units[a]
    /\ units' = [units EXCEPT ![a] = units'[a]]
    /\ UNCHANGED <<charged, refunded>>

Charge(r, a) ==
    /\ charged[r] = None
    /\ units[a] > 0
    /\ units' = [units EXCEPT ![a] = @ - 1]
    /\ charged' = [charged EXCEPT ![r] = a]
    /\ UNCHANGED refunded

Refund(r, a) ==
    /\ charged[r] = a
    /\ r \notin refunded
    /\ units' = [units EXCEPT ![a] = @ + 1]
    /\ refunded' = refunded \cup {r}
    /\ UNCHANGED charged

Next ==
    \E a \in Accounts :
        \/ Grant(a)
        \/ \E r \in Resources : Charge(r, a) \/ Refund(r, a)

Spec == Init /\ [][Next]_vars
=============================================================================
