--------------------------- MODULE AdmissionLock ---------------------------
(***************************************************************************)
(* What the repository gate promises its callers, with the storage, the    *)
(* compare-and-swap rounds and the lost answers left out: any number of    *)
(* shared handles (backups, restore readers, restore lifetimes) or one     *)
(* exclusive handle (a garbage-collection owner), never both.              *)
(*                                                                         *)
(* A token is the durable mark of a handle.  It may appear before the      *)
(* handle is acknowledged, or appear for a handle that never is, and it    *)
(* may outlive its handle: nothing expires.  What may never happen is a    *)
(* handle without its token, or a token that comes back after its handle   *)
(* was given up with a clean answer.                                       *)
(***************************************************************************)
CONSTANTS Shared,     \* handles that may coexist
          Exclusive,  \* handles that exclude every other handle
          NoOwner     \* no exclusive token is present

VARIABLES owner,      \* the exclusive token that is present, or NoOwner
          holders,    \* the shared tokens that are present
          handle      \* the life of each handle

lockVars == <<owner, holders, handle>>

Present(c) == c \in holders \/ c = owner

LockInit ==
  /\ owner = NoOwner
  /\ holders = {}
  /\ handle = [c \in Shared \cup Exclusive |-> "outside"]

\* The token of a handle nobody holds yet appears.
Appear(c) ==
  /\ handle[c] = "outside"
  /\ owner = NoOwner
  /\ \/ c \in Shared /\ holders' = holders \cup {c} /\ owner' = owner
     \/ c \in Exclusive /\ holders = {} /\ owner' = c /\ holders' = holders

\* The handle is acknowledged: from here on its holder relies on the token.
Enter(c) ==
  /\ handle[c] = "outside"
  /\ handle' = [handle EXCEPT ![c] = "inside"]
  /\ \/ Present(c) /\ UNCHANGED <<owner, holders>>
     \/ Appear(c)

\* The holder stops relying on the token and starts to give it up.
StartLeaving(c) ==
  /\ handle[c] = "inside"
  /\ handle' = [handle EXCEPT ![c] = "leaving"]
  /\ UNCHANGED <<owner, holders>>

\* The token of a handle that is being given up disappears.
Disappear(c) ==
  /\ handle[c] = "leaving"
  /\ \/ c \in holders /\ holders' = holders \ {c} /\ owner' = owner
     \/ c = owner /\ owner' = NoOwner /\ holders' = holders

\* Giving up is answered: the token is gone for good.
Leave(c) ==
  /\ handle[c] = "leaving"
  /\ handle' = [handle EXCEPT ![c] = "gone"]
  /\ \/ ~Present(c) /\ UNCHANGED <<owner, holders>>
     \/ Disappear(c)

LockNext ==
  \E c \in Shared \cup Exclusive :
    \/ Appear(c) /\ UNCHANGED handle
    \/ Enter(c)
    \/ StartLeaving(c)
    \/ Disappear(c) /\ UNCHANGED handle
    \/ Leave(c)

LockSpec == LockInit /\ [][LockNext]_lockVars
=============================================================================
