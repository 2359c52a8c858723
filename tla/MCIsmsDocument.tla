--------------------------- MODULE MCIsmsDocument ---------------------------
(***************************************************************************)
(* Instances of IsmsDocument for TLC.                                      *)
(***************************************************************************)
EXTENDS IsmsDocument, TLC

Symmetry == Permutations(Requests) \cup Permutations(Members)
              \cup Permutations(RowIds)

\* The content of a management review does not depend on the platform data.
OnePlatformForReviews == type = "review" => platform = 1
=============================================================================
