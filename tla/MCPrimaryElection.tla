-------------------------- MODULE MCPrimaryElection --------------------------
(* Instances of PrimaryElection for TLC.                                   *)
EXTENDS PrimaryElection, TLC

Symmetry == Permutations(Probes) \cup Permutations(Sites)
                \cup Permutations(Pushes) \cup Permutations(Edits)

\* Behaviours that start with probes that are new or approved, assigned or not:
\* a part of those of FairSpec, which the liveness run is content with.
LiveInit == Init /\ \A p \in Probes : probes[p].status \in {"unborn", "approved"}
LiveSpec == LiveInit /\ [][Next]_vars /\ Fairness
=============================================================================
