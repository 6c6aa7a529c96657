------------------------------ MODULE Mutation ------------------------------
(***************************************************************************)
(* What an object-store mutation promises its caller, whatever requests it *)
(* is made of: Error.Ambiguous of internal/s3store/errors.go read as a     *)
(* contract.  A mutation that is answered "ok" has made its object and has *)
(* nothing left in flight.  One answered "definite" has made no object and *)
(* never will.  Of one answered "ambiguous", or of one whose process died, *)
(* nothing is known, and a request of it may still be applied.             *)
(***************************************************************************)
CONSTANT Upload   \* the mutations

VARIABLES answer,  \* what the caller was told, "none" until it was
          open,    \* whether a request may still be applied
          object   \* whether the object is there

mutationVars == <<answer, open, object>>

Answer == {"none", "ok", "definite", "ambiguous"}

MutationInit ==
  /\ answer = [u \in Upload |-> "none"]
  /\ open = [u \in Upload |-> FALSE]
  /\ object = [u \in Upload |-> FALSE]

\* The caller waits; requests are dispatched and answered.
Work(u) ==
  /\ answer[u] = "none"
  /\ \E b \in BOOLEAN : open' = [open EXCEPT ![u] = b]
  /\ UNCHANGED <<answer, object>>

Succeed(u) ==
  /\ answer[u] = "none"
  /\ answer' = [answer EXCEPT ![u] = "ok"]
  /\ open' = [open EXCEPT ![u] = FALSE]
  /\ object' = [object EXCEPT ![u] = TRUE]

FailDefinitely(u) ==
  /\ answer[u] = "none"
  /\ ~object[u]
  /\ answer' = [answer EXCEPT ![u] = "definite"]
  /\ open' = [open EXCEPT ![u] = FALSE]
  /\ UNCHANGED object

FailAmbiguously(u) ==
  /\ answer[u] = "none"
  /\ answer' = [answer EXCEPT ![u] = "ambiguous"]
  /\ \E b \in BOOLEAN : open' = [open EXCEPT ![u] = b]
  /\ \E b \in BOOLEAN : object' = [object EXCEPT ![u] = b]

\* A request nobody waits for is applied, or lost for good.
Land(u) ==
  /\ answer[u] \in {"none", "ambiguous"}
  /\ open[u]
  /\ \E b \in BOOLEAN : open' = [open EXCEPT ![u] = b]
  /\ object' \in {object, [object EXCEPT ![u] = TRUE]}
  /\ UNCHANGED answer

MutationNext ==
  \E u \in Upload :
    Work(u) \/ Succeed(u) \/ FailDefinitely(u) \/ FailAmbiguously(u) \/ Land(u)

MutationSpec == MutationInit /\ [][MutationNext]_mutationVars
=============================================================================
