-------------------------- MODULE MCPolicyVersions --------------------------
(***************************************************************************)
(* Instances of PolicyVersions for TLC.                                    *)
(***************************************************************************)
EXTENDS PolicyVersions, TLC

Symmetry == Permutations(Requests) \cup Permutations(Members)
=============================================================================
