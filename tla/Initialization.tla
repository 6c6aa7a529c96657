--------------------------- MODULE Initialization ---------------------------
(***************************************************************************)
(* Opening a repository for writing, and creating it on first use          *)
(* (OpenSource, Open, Initialize and initialize of internal/repository/    *)
(* repository.go, OpenWriter of writer.go, CheckConditions of              *)
(* internal/s3store/checks.go).                                            *)
(*                                                                         *)
(* An opener is one call by a backup callback or the WAL archiver.  It     *)
(* opens what is there; when nothing is, it probes whether the store keeps *)
(* conditional writes, and creates repository.json and then gate.json with *)
(* If-None-Match.  The openers agree on everything but the creation time   *)
(* in repository.json, so an identity is named by the opener whose time it *)
(* carries.  A PUT with an inconclusive answer may be applied late.        *)
(***************************************************************************)
EXTENDS Naturals, FiniteSets

CONSTANTS Opener,  \* calls of OpenSource and OpenWriter
          Stores,  \* the kinds of object store the repository may meet
          MaxLate  \* bound on the creations that may be applied late

ASSUME LateAssumption == MaxLate \in Nat

VARIABLES features,  \* what the store does of what the protocol needs
          identity,  \* {} or the opener whose repository.json is stored
          gate,      \* whether gate.json is stored
          data,      \* whether anything but those and the probes is stored
          opener,    \* what each opener does next
          stamp,     \* the creation time each opener expects
          opened,    \* the identity each opener returned
          lateInit   \* identities, and {} for a gate, that may still be created

initVars == <<features, identity, gate, data, opener, stamp, opened, lateInit>>

InitializationInit ==
  /\ features \in Stores
  /\ identity = {}
  /\ gate = FALSE
  /\ data = FALSE
  /\ opener = [o \in Opener |-> "idle"]
  /\ stamp = [o \in Opener |-> {}]
  /\ opened = [o \in Opener |-> {}]
  /\ lateInit = {}

-----------------------------------------------------------------------------
(* CheckConditions: a fixed sequence of conditional PUTs on a fresh name *)

\* create:  If-None-Match refuses an object that exists
\* match:   If-Match refuses another ETag
\* missing: If-Match refuses an object that does not exist
\* refuse:  a refused PUT leaves no trace
\* etag:    new contents have a new ETag
\* list:    LIST shows what is stored
Features == {"create", "match", "missing", "refuse", "etag", "list"}

ASSUME StoresAssumption == Stores \subseteq SUBSET Features

\* Contents 1 and 2 are the probe's two bodies, 0 is no object.  A condition
\* is the ETag of If-Match, or 0 for If-None-Match.
ETag(f, v) == IF "etag" \in f THEN v ELSE 1

Accepted(f, old, condition) ==
  CASE condition = 0            -> old = 0 \/ "create" \notin f
    [] condition # 0 /\ old = 0 -> "missing" \notin f
    [] OTHER -> condition = ETag(f, old) \/ "match" \notin f

Stored(f, old, new, condition) ==
  IF Accepted(f, old, condition) \/ "refuse" \notin f THEN new ELSE old

\* Create; create again; overwrite a missing object; overwrite; overwrite with
\* the ETag that is now stale; and read, HEAD and LIST what that leaves.
CheckConditions(f) ==
  LET match == ETag(f, 1)
      second == Stored(f, 1, 2, 0)
      missing == Stored(f, 0, 2, match)
      last == Stored(f, 2, 1, match)
  IN /\ ~Accepted(f, 1, 0)
     /\ second = 1
     /\ ~Accepted(f, 0, match)
     /\ Accepted(f, 1, match) /\ ETag(f, 2) # match
     /\ ~Accepted(f, 2, match)
     /\ last = 2
     /\ missing = 0 /\ "list" \in f

-----------------------------------------------------------------------------
(* The opener.  A request may fail: Initialize then returns its error, and     *)
(* OpenWriter looks for a winner ("reopen").                                   *)

Opens(o, s) == opener' = [opener EXCEPT ![o] = s]

Opened(o, i) ==
  /\ Opens(o, "opened")
  /\ opened' = [opened EXCEPT ![o] = i]

\* OpenSource: repository.json, then an existing gate.
CanOpen == identity # {} /\ gate

\* OpenSource by the caller and, when it finds nothing, once more at the start
\* of OpenWriter: the last read decides.
OpenSource(o) ==
  /\ opener[o] = "source"
  /\ \/ CanOpen /\ Opened(o, identity)
     \/ ~CanOpen /\ Opens(o, "existing") /\ UNCHANGED opened
     \/ Opens(o, "failed") /\ UNCHANGED opened
  /\ UNCHANGED <<features, identity, gate, data, stamp, lateInit>>

\* An interrupted first initialization keeps its creation time.
ReadExisting(o) ==
  /\ opener[o] = "existing"
  /\ \/ /\ stamp' = [stamp EXCEPT ![o] = IF identity # {} THEN identity ELSE {o}]
        /\ Opens(o, "probe")
     \/ Opens(o, "failed") /\ UNCHANGED stamp
  /\ UNCHANGED <<features, identity, gate, data, opened, lateInit>>

\* CheckConditions on a name of its own, then repository.json is read.
Probe(o) ==
  /\ opener[o] = "probe"
  /\ \/ /\ CheckConditions(features)
        /\ Opens(o, IF identity = {} THEN "list" ELSE "create")
     \/ Opens(o, "reopen")
  /\ UNCHANGED <<features, identity, gate, data, stamp, opened, lateInit>>

\* A complete LIST shows nothing but probes.
ListEmpty(o) ==
  /\ opener[o] = "list"
  /\ \/ identity = {} /\ ~gate /\ ~data /\ Opens(o, "create")
     \/ Opens(o, "reopen")
  /\ UNCHANGED <<features, identity, gate, data, stamp, opened, lateInit>>

\* The answer to a creation is lost while the request is under way.
MaybeLater(i) ==
  /\ Cardinality(lateInit) < MaxLate
  /\ lateInit' = lateInit \cup {i}

\* Faulty variant: the PUT carries no condition.
OverwritesIdentity(i) == identity' = i

\* A PUT of repository.json is applied if there is none.
CreatesIdentity(i) ==
  identity' = IF identity = {} THEN i ELSE identity

\* createExact: whatever the PUT answered, the stored bytes must be ours.
CreateIdentity(o) ==
  /\ opener[o] = "create"
  /\ \/ CreatesIdentity(stamp[o]) /\ UNCHANGED lateInit
     \/ UNCHANGED <<identity, lateInit>>
     \/ UNCHANGED identity /\ MaybeLater(stamp[o])
  /\ \/ identity' = stamp[o] /\ Opens(o, "gate")
     \/ Opens(o, "reopen")
  /\ UNCHANGED <<features, gate, data, stamp, opened>>

ReadGate(o) ==
  /\ opener[o] = "gate"
  /\ \/ gate /\ Opens(o, "confirm")
     \/ ~gate /\ Opens(o, "unused")
     \/ Opens(o, "reopen")
  /\ UNCHANGED <<features, identity, gate, data, stamp, opened, lateInit>>

\* A complete LIST shows nothing but repository.json and probes.
ListUnused(o) ==
  /\ opener[o] = "unused"
  /\ \/ ~gate /\ ~data /\ Opens(o, "creategate")
     \/ Opens(o, "reopen")
  /\ UNCHANGED <<features, identity, gate, data, stamp, opened, lateInit>>

\* A gate that exists after the PUT is sufficient, whoever created it.
CreateGate(o) ==
  /\ opener[o] = "creategate"
  /\ \/ gate' = TRUE /\ UNCHANGED lateInit
     \/ UNCHANGED <<gate, lateInit>>
     \/ UNCHANGED gate /\ MaybeLater({})
  /\ \/ gate' /\ Opens(o, "confirm")
     \/ Opens(o, "reopen")
  /\ UNCHANGED <<features, identity, data, stamp, opened>>

\* Open with the exact identity that was created.
Confirm(o) ==
  /\ opener[o] = "confirm"
  /\ \/ identity = stamp[o] /\ gate /\ Opened(o, stamp[o])
     \/ Opens(o, "reopen") /\ UNCHANGED opened
  /\ UNCHANGED <<features, identity, gate, data, stamp, lateInit>>

\* Initialize failed: only a complete repository of a concurrent writer helps.
OpenWinner(o) ==
  /\ opener[o] = "reopen"
  /\ \/ CanOpen /\ Opened(o, identity)
     \/ Opens(o, "failed") /\ UNCHANGED opened
  /\ UNCHANGED <<features, identity, gate, data, stamp, lateInit>>

OpenWriter(o) ==
  \/ OpenSource(o) \/ ReadExisting(o) \/ Probe(o) \/ ListEmpty(o)
  \/ CreateIdentity(o) \/ ReadGate(o) \/ ListUnused(o) \/ CreateGate(o)
  \/ Confirm(o) \/ OpenWinner(o)

StartOpening(o) ==
  /\ opener[o] = "idle"
  /\ Opens(o, "source")
  /\ UNCHANGED <<features, identity, gate, data, stamp, opened, lateInit>>

\* The caller stores its first object.
FirstObject(o) ==
  /\ opener[o] = "opened"
  /\ data' = TRUE
  /\ UNCHANGED <<features, identity, gate, opener, stamp, opened, lateInit>>

\* A late creation is applied, or found its precondition broken or got lost.
LateCreation ==
  /\ \E i \in lateInit :
       /\ lateInit' = lateInit \ {i}
       /\ \/ UNCHANGED <<identity, gate>>
          \/ i = {} /\ gate' = TRUE /\ UNCHANGED identity
          \/ i # {} /\ CreatesIdentity(i) /\ UNCHANGED gate
  /\ UNCHANGED <<features, data, opener, stamp, opened>>

\* Callers return or die, and what they had opened is forgotten.
Leave(O) ==
  /\ opener' = [o \in Opener |-> IF o \in O THEN "idle" ELSE opener[o]]
  /\ stamp' = [o \in Opener |-> IF o \in O THEN {} ELSE stamp[o]]
  /\ opened' = [o \in Opener |-> IF o \in O THEN {} ELSE opened[o]]
  /\ UNCHANGED <<features, identity, gate, data, lateInit>>

InitializationNext ==
  \/ \E o \in Opener : StartOpening(o) \/ OpenWriter(o) \/ FirstObject(o)
  \/ LateCreation
  \/ \E O \in SUBSET Opener : Leave(O)

InitializationSpec == InitializationInit /\ [][InitializationNext]_initVars

-----------------------------------------------------------------------------
(* What the users of an opened repository rely on *)

\* However first writers race, fail and answer late, every caller that got a
\* repository got the one identity the bucket keeps, with its gate, on a
\* store that keeps conditional writes; and nothing is stored before that.
OneRepository ==
  /\ \A o \in Opener : opener[o] = "opened" =>
       /\ opened[o] = identity
       /\ identity \in {{i} : i \in Opener}
       /\ gate
       /\ features = Features
  /\ data => gate
=============================================================================
