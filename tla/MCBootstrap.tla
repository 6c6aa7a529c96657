------------------------- MODULE MCBootstrap -------------------------
(* An instance of Bootstrap for TLC. *)
EXTENDS Bootstrap, TLC

CONSTANTS g1, g2, s1, s2, pod1

\* The containers of one Pod, each started again: any guard may meet any sidecar.
OnePod == [p \in {g1, g2, s1, s2} |-> pod1]
Restarts == Permutations({g1, g2}) \cup Permutations({s1, s2})
=============================================================================
