--------------------------- MODULE MCRepository ---------------------------
(* Instances of Repository for TLC. *)
EXTENDS Repository, TLC

CONSTANTS b1, b2, d1,          \* two full backups and a differential
          p1, p2, p3, p4,      \* producers
          r1, g1, g2           \* a restore reader and two collectors

\* Two callbacks for one differential; both fulls were published before.
OneDifferential == p1 :> b1 @@ p2 :> b2 @@ p3 :> d1 @@ p4 :> d1

\* A full was published; another one and a differential are on their way.
FullAndDifferential == p1 :> b1 @@ p2 :> b2 @@ p3 :> d1

Starts == [p \in Producer |-> IF p = p1 THEN 1 ELSE 2]

\* Callbacks for the same UID, and collectors, are interchangeable.
CallbackSymmetry == Permutations({p3, p4})
CollectorSymmetry == Permutations({g1, g2})
RaceSymmetry == CallbackSymmetry \cup CollectorSymmetry
=============================================================================
