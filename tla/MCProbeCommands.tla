--------------------------- MODULE MCProbeCommands ---------------------------
(* Instances of ProbeCommands for TLC.                                     *)
EXTENDS ProbeCommands, TLC

Symmetry == Permutations(Requests) \cup Permutations(Pushes)
=============================================================================
