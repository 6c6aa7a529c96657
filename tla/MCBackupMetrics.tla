-------------------------- MODULE MCBackupMetrics --------------------------
(* Instances of BackupMetrics for TLC. *)
EXTENDS BackupMetrics

CONSTANTS b1, c1, r1, r2

OneBackup == [b \in {b1} |-> c1]
=============================================================================
