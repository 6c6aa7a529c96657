--------------------------- MODULE MCWalArchive ---------------------------
(* Instances of WalArchive for TLC. *)
EXTENDS WalArchive, TLC

CONSTANTS n1,                  \* a WAL file name
          c1, c2,              \* raw bytes
          a1, a2,              \* archive callbacks
          r1, r2,              \* restore callbacks
          g1,                  \* a GC invocation
          x                    \* RECOVERYXLOG

\* Two writers disagree about n1; a restore and a recovery, whose base backup
\* bundles n1, share x.
OneName == [c \in {a1, a2, r1, r2, g1} |-> n1]
TwoContents == a1 :> c1 @@ a2 :> c2
SharedTarget == r1 :> x @@ r2 :> x
BundledName == n1 :> c1
=============================================================================
