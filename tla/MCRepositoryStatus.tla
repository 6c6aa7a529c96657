------------------------- MODULE MCRepositoryStatus -------------------------
(***************************************************************************)
(* The retention loops of two managers and the status loop of one, over    *)
(* two generations of the spec.                                            *)
(***************************************************************************)
EXTENDS RepositoryStatus
=============================================================================
