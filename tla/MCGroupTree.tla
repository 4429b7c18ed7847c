----------------------------- MODULE MCGroupTree -----------------------------
(* Instances of GroupTree for TLC.                                         *)
EXTENDS GroupTree, TLC

Symmetry == Permutations(Groups) \cup Permutations(Calls)
=============================================================================
