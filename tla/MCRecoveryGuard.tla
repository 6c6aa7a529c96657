------------------------- MODULE MCRecoveryGuard -------------------------
(* An instance of RecoveryGuard for TLC. *)
EXTENDS RecoveryGuard, TLC

CONSTANTS g1, g2, s1, s2, pod1, pod2

\* The Job's first Pod and its retry Pod, each with its own sidecar.
TwoPods == g1 :> pod1 @@ s1 :> pod1 @@ g2 :> pod2 @@ s2 :> pod2
=============================================================================
