------------------------------ MODULE MCBackup ------------------------------
(***************************************************************************)
(* Two calls for one Backup, an instance sidecar that may restart once,    *)
(* and the WAL archiver.                                                   *)
(***************************************************************************)
EXTENDS Backup

CONSTANTS home

MCPodOf == [s \in Sidecar |-> home]

MCParts == [u \in Upload |-> IF u = 1 THEN 3 ELSE 1]

\* A store that keeps everything, and one that ignores stale ETags.
MCStores == {Features, Features \ {"match"}}
=============================================================================
