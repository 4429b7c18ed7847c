--------------------------- MODULE MCSiteInventory ---------------------------
(* Instances of SiteInventory for TLC.                                     *)
EXTENDS SiteInventory, TLC

Symmetry == Permutations(Macs) \cup Permutations(Pushes)
=============================================================================
