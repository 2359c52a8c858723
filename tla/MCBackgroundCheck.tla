------------------------- MODULE MCBackgroundCheck -------------------------
(***************************************************************************)
(* Instances of BackgroundCheck for TLC.                                   *)
(***************************************************************************)
EXTENDS BackgroundCheck, TLC

\* Calls of a kind are interchangeable; used in the safety runs only.
CallSymmetry == Permutations(Clients) \cup Permutations(Hooks)
=============================================================================
