------------------------------- MODULE MCGate -------------------------------
(* A small instance of Gate for TLC. *)
EXTENDS Gate, TLC

CONSTANTS r1, l1, g1

OneOperation == r1 :> l1
=============================================================================
