------------------------------ MODULE MCTunnels ------------------------------
(* Instances of Tunnels for TLC.                                           *)
EXTENDS Tunnels, TLC

Symmetry == Permutations(Tunnels) \cup Permutations(Calls) \cup Permutations(Users)
=============================================================================
