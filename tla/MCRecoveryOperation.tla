------------------------ MODULE MCRecoveryOperation ------------------------
(* Instances of RecoveryOperation for TLC. *)
EXTENDS RecoveryOperation, TLC

CONSTANTS m1, m2, p1, p2

Interchangeable == Permutations({m1, m2}) \cup Permutations({p1, p2})
=============================================================================
