---------------------------- MODULE BackupProofs ----------------------------
(***************************************************************************)
(* The safety properties of the Backup callback, for any number of         *)
(* callbacks, sidecars, Pods, part workers and source changes.             *)
(*                                                                         *)
(* The composition keeps the invariants of its parts, because each of its  *)
(* steps is a step of each part or leaves the part alone.  On top of those *)
(* stands what holds of a callback at each of its stages.                  *)
(***************************************************************************)
EXTENDS Backup, TLAPS

\* Most leaves are first-order reasoning; those with arithmetic or records cite SMT.
USE ZenonT(30)
-----------------------------------------------------------------------------
(***************************************************************************)
(* NativeWorkspace keeps WorkspaceOwned for any number of incarnations and *)
(* Pods.  The argument is the lock: whoever is past it, and whoever still  *)
(* has a native process, is the one incarnation whose file description     *)
(* holds it.                                                               *)
(***************************************************************************)

\* The lock is held by the incarnation that boots or serves, and by a dead one
\* for as long as a native process of it lives.
LockHeld ==
  \A s \in Sidecar :
    /\ boot[s] \in Owning => flock = s
    /\ tools[s] # {} => flock = s /\ boot[s] \in {"serving", "dead"}

\* The volume is marked before it is swept, and swept before it is served.
MarkedThenSwept ==
  \A s \in Sidecar :
    /\ boot[s] \in {"owned", "swept", "serving"} => marked = {PodOf[s]}
    /\ boot[s] = "swept" => scratch = {}
    /\ boot[s] = "serving" => scratch \subseteq {s}

WorkspaceInv == WorkspaceTypeOK /\ LockHeld /\ MarkedThenSwept

LEMMA WorkspaceStarts == WorkspaceInit => WorkspaceInv
BY Zenon DEF WorkspaceInit, WorkspaceInv, WorkspaceTypeOK, LockHeld, MarkedThenSwept, Owning

LEMMA AcquireKeeps ==
  ASSUME WorkspaceInv, NEW s \in Sidecar, AcquireWorkspace(s)
  PROVE  WorkspaceInv'
<1> USE PodAssumption, NobodyAssumption DEF WorkspaceInv, Owning
<1>1. CASE TryLock(s)
  BY SMTT(30), <1>1 DEF TryLock, Boot, WorkspaceTypeOK, LockHeld, MarkedThenSwept
<1>2. CASE CheckOwner(s)
  <2>1. boot[s] = "locked" /\ UNCHANGED <<marked, native, scratch, tools>>
    BY <1>2 DEF CheckOwner
  <2>2. marker' \in BOOLEAN
    BY <1>2, Zenon DEF CheckOwner, WorkspaceTypeOK
  <2>3. CASE Boot(s, "marking") /\ UNCHANGED flock
    BY SMTT(30), <2>1, <2>2, <2>3 DEF Boot, WorkspaceTypeOK, LockHeld, MarkedThenSwept
  <2>4. CASE Boot(s, "owned") /\ marked = {PodOf[s]} /\ UNCHANGED flock
    BY SMTT(30), <2>1, <2>2, <2>4 DEF Boot, WorkspaceTypeOK, LockHeld, MarkedThenSwept
  <2>5. CASE Refuse(s)
    BY SMTT(30), <2>1, <2>2, <2>5 DEF Refuse, Boot, WorkspaceTypeOK, LockHeld, MarkedThenSwept
  <2> QED  BY <1>2, <2>3, <2>4, <2>5 DEF CheckOwner
<1>3. CASE WriteOwner(s)
  BY SMTT(30), <1>3 DEF WriteOwner, Boot, WorkspaceTypeOK, LockHeld, MarkedThenSwept
<1>4. CASE Sweep(s)
  <2>1. WorkspaceTypeOK'
    BY <1>4, Zenon DEF Sweep, Boot, WorkspaceTypeOK
  <2>2. LockHeld'
    BY <1>4 DEF Sweep, Boot, WorkspaceTypeOK, LockHeld
  <2>3. MarkedThenSwept'
    BY <1>4 DEF Sweep, Boot, WorkspaceTypeOK, LockHeld, MarkedThenSwept
  <2> QED  BY <2>1, <2>2, <2>3
<1>5. CASE Make(s)
  BY SMTT(30), <1>5 DEF Make, Boot, WorkspaceTypeOK, LockHeld, MarkedThenSwept
<1> QED  BY <1>1, <1>2, <1>3, <1>4, <1>5 DEF AcquireWorkspace

LEMMA ToolsKeep ==
  ASSUME WorkspaceInv, NEW s \in Sidecar,
         StartTool(s) \/ Scribble(s) \/ Reap(s) \/ Die(s) \/ ToolEnds(s)
  PROVE  WorkspaceInv'
<1> USE PodAssumption, NobodyAssumption DEF WorkspaceInv, Owning, Process
<1>1. CASE StartTool(s)
  BY SMTT(30), <1>1 DEF StartTool, WorkspaceTypeOK, LockHeld, MarkedThenSwept
<1>2. CASE Scribble(s)
  BY <1>2 DEF Scribble, WorkspaceTypeOK, LockHeld, MarkedThenSwept
<1>3. CASE Reap(s)
  BY SMTT(30), <1>3 DEF Reap, WorkspaceTypeOK, LockHeld, MarkedThenSwept
<1>4. CASE Die(s)
  BY SMTT(30), <1>4 DEF Die, Survivors, Boot, WorkspaceTypeOK, LockHeld, MarkedThenSwept
<1>5. CASE ToolEnds(s)
  BY SMTT(30), <1>5 DEF ToolEnds, WorkspaceTypeOK, LockHeld, MarkedThenSwept
<1> QED  BY <1>1, <1>2, <1>3, <1>4, <1>5

LEMMA WorkspaceKept ==
  ASSUME WorkspaceInv, [WorkspaceNext]_workspaceVars
  PROVE  WorkspaceInv'
<1>1. CASE UNCHANGED workspaceVars
  BY <1>1 DEF workspaceVars, WorkspaceInv, WorkspaceTypeOK, LockHeld, MarkedThenSwept
<1>2. CASE WorkspaceNext
  BY <1>2, AcquireKeeps, ToolsKeep DEF WorkspaceNext
<1> QED  BY <1>1, <1>2

LEMMA WorkspaceInvOwned == WorkspaceInv => WorkspaceOwned
BY DEF WorkspaceInv, LockHeld, MarkedThenSwept, WorkspaceOwned, Owning

\* A sidecar that serves has the scratch directory to itself, however often its
\* container restarts and whichever native descendants outlive it
\* (AcquireWorkspace and the descriptor every native command inherits).
THEOREM WorkspaceIsOwned == WorkspaceSpec => []WorkspaceOwned
<1>1. WorkspaceInit => WorkspaceInv
  BY WorkspaceStarts
<1>2. WorkspaceInv /\ [WorkspaceNext]_workspaceVars => WorkspaceInv'
  BY WorkspaceKept
<1>3. WorkspaceInv => WorkspaceOwned
  BY WorkspaceInvOwned
<1> QED  BY <1>1, <1>2, <1>3, PTL DEF WorkspaceSpec
-----------------------------------------------------------------------------
(***************************************************************************)
(* UploadFile keeps the contract of one mutation, for any number of        *)
(* uploads, workers and parts.  A step concerns one upload, so it is       *)
(* enough to say what holds of each upload at each step of its caller.     *)
(***************************************************************************)

Gone(u) == \A w \in Worker : phase[u][w] = "gone"

\* While the workers run, an unanswered part is remembered as an ambiguous first
\* error; a conclusive answer is given only when nothing is left.
UploadSound(u) ==
  /\ step[u] \in {"new", "complete"} =>
       /\ Gone(u) /\ late[u] = {} /\ first[u] = "none"
       /\ answer[u] = "none" /\ ~object[u]
  /\ step[u] = "parts" =>
       /\ answer[u] = "none" /\ ~object[u]
       /\ late[u] \subseteq {"part"}
       /\ late[u] # {} => first[u] = "ambiguous"
  /\ step[u] = "done" =>
       /\ Gone(u) /\ answer[u] # "none"
       /\ answer[u] \in {"ok", "definite"} => late[u] = {}
       /\ answer[u] = "definite" => ~object[u]
  /\ step[u] = "dead" => Gone(u) /\ answer[u] = "none"

UploadInv == UploadTypeOK /\ \A u \in Upload : UploadSound(u)

\* Nothing of any other upload changes.
OnlyAt(u) ==
  \A v \in Upload \ {u} :
    /\ step'[v] = step[v] /\ phase'[v] = phase[v] /\ first'[v] = first[v]
    /\ answer'[v] = answer[v] /\ late'[v] = late[v] /\ object'[v] = object[v]

LEMMA UploadStarts == UploadInit => UploadInv
BY SMTT(30) DEF UploadInit, UploadInv, UploadTypeOK, UploadSound, Gone

LEMMA ReturnTypes ==
  ASSUME UploadTypeOK, NEW u \in Upload, NEW s \in {"done", "dead"}, EndCall(u, s)
  PROVE  /\ step' = [step EXCEPT ![u] = s]
         /\ step' \in [Upload -> {"new", "parts", "complete", "done", "dead"}]
         /\ sent' \in [Upload -> Nat] /\ closed' \in SUBSET Upload
         /\ recorded' \in [Upload -> Nat]
         /\ first' \in [Upload -> {"none", "definite", "ambiguous"}]
         /\ \A v \in Upload \ {u} : first'[v] = first[v]
BY DEF UploadTypeOK, EndCall

LEMMA MaybeLateTypes ==
  ASSUME UploadTypeOK, NEW u \in Upload, NEW r \in Request, MaybeLate(u, r)
  PROVE  /\ late' \in [Upload -> SUBSET Request]
         /\ late'[u] \subseteq late[u] \cup {r}
         /\ \A v \in Upload \ {u} : late'[v] = late[v]
BY SMTT(30) DEF UploadTypeOK, MaybeLate

-----------------------------------------------------------------------------
(* The caller *)

LEMMA InitiateKeeps ==
  ASSUME UploadInv, NEW u \in Upload, Initiate(u)
  PROVE  UploadTypeOK' /\ UploadSound(u)' /\ OnlyAt(u)
<1>1. UploadTypeOK /\ UploadSound(u) /\ step[u] = "new" /\ UNCHANGED <<canceled, object>>
  BY DEF UploadInv, Initiate
<1>2. CASE /\ step' = [step EXCEPT ![u] = "parts"]
           /\ phase' = [phase EXCEPT ![u] = [w \in Worker |-> "wait"]]
           /\ UNCHANGED <<sent, closed, recorded, first, answer, late>>
  BY <1>1, <1>2 DEF UploadTypeOK, UploadSound, OnlyAt
<1>3. CASE Return(u, "definite") /\ UNCHANGED <<phase, late>>
  BY SMTT(30), <1>1, <1>3, ReturnTypes DEF Return, UploadTypeOK, UploadSound, OnlyAt, Gone
<1>4. CASE Return(u, "ambiguous") /\ MaybeLate(u, "initiation") /\ UNCHANGED phase
  <2>1. UploadTypeOK' /\ OnlyAt(u)
    BY SMTT(30), <1>1, <1>4, ReturnTypes, MaybeLateTypes DEF Return, UploadTypeOK, OnlyAt, Request
  <2>2. UploadSound(u)'
    BY SMTT(30), <1>1, <1>4, ReturnTypes DEF Return, UploadTypeOK, UploadSound, Gone
  <2> QED  BY <2>1, <2>2
<1> QED  BY <1>2, <1>3, <1>4 DEF Initiate

LEMMA JoinKeeps ==
  ASSUME UploadInv, NEW u \in Upload, Join(u)
  PROVE  UploadTypeOK' /\ UploadSound(u)' /\ OnlyAt(u)
<1>1. /\ UploadTypeOK /\ UploadSound(u) /\ step[u] = "parts" /\ Gone(u)
      /\ UNCHANGED <<phase, canceled, late, object>>
  BY DEF UploadInv, Join, Gone
<1>2. CASE first[u] # "none" /\ Return(u, first[u])
  BY SMTT(30), <1>1, <1>2, ReturnTypes DEF Return, UploadTypeOK, UploadSound, OnlyAt, Gone
<1>3. CASE first[u] = "none" /\ Return(u, "definite")
  BY SMTT(30), <1>1, <1>3, ReturnTypes DEF Return, UploadTypeOK, UploadSound, OnlyAt, Gone
<1>4. CASE /\ first[u] = "none"
           /\ step' = [step EXCEPT ![u] = "complete"]
           /\ UNCHANGED <<sent, closed, recorded, first, answer>>
  BY <1>1, <1>4 DEF UploadTypeOK, UploadSound, OnlyAt, Gone
<1> QED  BY <1>2, <1>3, <1>4 DEF Join, Stopped

LEMMA CompleteKeeps ==
  ASSUME UploadInv, NEW u \in Upload, Complete(u)
  PROVE  UploadTypeOK' /\ UploadSound(u)' /\ OnlyAt(u)
<1>1. UploadTypeOK /\ UploadSound(u) /\ step[u] = "complete" /\ UNCHANGED <<phase, canceled>>
  BY DEF UploadInv, Complete
<1>2. CASE Return(u, "ok") /\ MakesObject(u) /\ UNCHANGED late
  BY SMTT(30), <1>1, <1>2, ReturnTypes DEF Return, MakesObject, UploadTypeOK, UploadSound, OnlyAt, Gone
<1>3. CASE Return(u, "definite") /\ UNCHANGED <<late, object>>
  BY SMTT(30), <1>1, <1>3, ReturnTypes DEF Return, UploadTypeOK, UploadSound, OnlyAt, Gone
<1>4. CASE Return(u, "ambiguous") /\ MakesObject(u) /\ UNCHANGED late
  BY SMTT(30), <1>1, <1>4, ReturnTypes DEF Return, MakesObject, UploadTypeOK, UploadSound, OnlyAt, Gone
<1>5. CASE Return(u, "ambiguous") /\ MaybeLate(u, "completion") /\ UNCHANGED object
  <2>1. UploadTypeOK' /\ OnlyAt(u)
    BY SMTT(30), <1>1, <1>5, ReturnTypes, MaybeLateTypes DEF Return, UploadTypeOK, OnlyAt, Request
  <2>2. UploadSound(u)'
    BY SMTT(30), <1>1, <1>5, ReturnTypes DEF Return, UploadTypeOK, UploadSound, Gone
  <2> QED  BY <2>1, <2>2
<1> QED  BY <1>2, <1>3, <1>4, <1>5 DEF Complete

-----------------------------------------------------------------------------
(* The workers and the requests nobody waits for *)

LEMMA WorkerKeeps ==
  ASSUME UploadInv, NEW u \in Upload, NEW w \in Worker,
         \/ Hand(u, w) \/ DigestFails(u, w) \/ Dispatch(u, w)
         \/ PartStored(u, w) \/ PartFails(u, w) \/ WorkerEnds(u, w)
  PROVE  UploadTypeOK' /\ UploadSound(u)' /\ OnlyAt(u)
<1>1. UploadTypeOK /\ UploadSound(u)
  BY DEF UploadInv
<1>2. phase[u][w] # "gone"
  BY DEF Hand, DigestFails, Dispatch, PartStored, PartFails, WorkerEnds
<1>3. step[u] = "parts"
  BY <1>1, <1>2 DEF UploadTypeOK, UploadSound, Gone
<1>4. CASE Hand(u, w)
  BY SMTT(30), <1>1, <1>3, <1>4 DEF Hand, SetPhase, UploadTypeOK, UploadSound, OnlyAt
<1>5. CASE DigestFails(u, w)
  BY <1>1, <1>3, <1>5 DEF DigestFails, WorkerFails, Merge, SetPhase, UploadTypeOK, UploadSound, OnlyAt
<1>6. CASE Dispatch(u, w)
  BY <1>1, <1>3, <1>6 DEF Dispatch, SetPhase, UploadTypeOK, UploadSound, OnlyAt
<1>7. CASE PartStored(u, w)
  BY SMTT(30), <1>1, <1>3, <1>7 DEF PartStored, SetPhase, UploadTypeOK, UploadSound, OnlyAt
<1>8. CASE PartFails(u, w)
  <2>1. CASE WorkerFails(u, w, "definite") /\ UNCHANGED late
    BY <1>1, <1>3, <2>1 DEF WorkerFails, Merge, SetPhase, UploadTypeOK, UploadSound, OnlyAt
  <2>2. CASE WorkerFails(u, w, "ambiguous") /\ MaybeLate(u, "part")
    <3>1. /\ late' \in [Upload -> SUBSET Request]
          /\ late'[u] \subseteq late[u] \cup {"part"}
          /\ \A v \in Upload \ {u} : late'[v] = late[v]
      BY <1>1, <2>2, MaybeLateTypes DEF Request
    <3> QED  BY <1>1, <1>3, <2>2, <3>1, Zenon
             DEF WorkerFails, Merge, SetPhase, UploadTypeOK, UploadSound, OnlyAt
  <2> QED  BY <1>8, <2>1, <2>2 DEF PartFails
<1>9. CASE WorkerEnds(u, w)
  BY <1>1, <1>3, <1>9 DEF WorkerEnds, SetPhase, UploadTypeOK, UploadSound, OnlyAt
<1> QED  BY <1>4, <1>5, <1>6, <1>7, <1>8, <1>9

LEMMA LateKeeps ==
  ASSUME UploadInv, NEW u \in Upload, LateLands(u)
  PROVE  UploadTypeOK' /\ UploadSound(u)' /\ OnlyAt(u)
<1>1. UploadTypeOK /\ UploadSound(u)
  BY DEF UploadInv
<1>2. PICK r \in late[u] :
        /\ late' = [late EXCEPT ![u] = @ \ {r}]
        /\ object' = object \/ (r = "completion" /\ object' = [object EXCEPT ![u] = TRUE])
  BY Zenon DEF LateLands
<1>3. UNCHANGED <<step, sent, closed, phase, recorded, first, canceled, answer>>
  BY DEF LateLands
<1>4. UploadTypeOK' /\ OnlyAt(u)
  BY <1>1, <1>2, <1>3, Zenon DEF UploadTypeOK, OnlyAt
<1>5. UploadSound(u)'
  BY <1>1, <1>2, <1>3 DEF UploadTypeOK, UploadSound, Gone
<1> QED  BY <1>4, <1>5

LEMMA AbandonKeeps ==
  ASSUME UploadInv, NEW u \in Upload, Abandon(u), canceled' \subseteq canceled
  PROVE  UploadTypeOK' /\ UploadSound(u)' /\ OnlyAt(u)
<1>1. UploadTypeOK /\ UploadSound(u)
  BY DEF UploadInv
<1>2. InFlight(u) \subseteq Request
  BY DEF InFlight, Request
<1>3. UploadTypeOK' /\ OnlyAt(u)
  BY SMTT(30), <1>1, <1>2, ReturnTypes DEF Abandon, UploadTypeOK, OnlyAt
<1>4. UploadSound(u)'
  BY SMTT(30), <1>1, ReturnTypes DEF Abandon, UploadTypeOK, UploadSound, Gone
<1> QED  BY <1>3, <1>4

\* Every step but those that touch only the contexts is a step of one upload.
LEMMA StepKeeps ==
  ASSUME UploadInv, NEW u \in Upload,
         UploadStep(u) \/ LateLands(u) \/ (Abandon(u) /\ canceled' \subseteq canceled)
  PROVE  UploadTypeOK' /\ UploadSound(u)' /\ OnlyAt(u)
<1>1. CASE CloseJobs(u)
  BY SMTT(30), <1>1 DEF CloseJobs, UploadInv, UploadTypeOK, UploadSound, OnlyAt, Gone
<1> QED  BY <1>1, InitiateKeeps, JoinKeeps, CompleteKeeps, WorkerKeeps, LateKeeps, AbandonKeeps
         DEF UploadStep

LEMMA ContextKeeps ==
  ASSUME UploadInv, canceled' \in SUBSET Upload,
         UNCHANGED <<step, sent, closed, phase, recorded, first, answer, late, object>>
  PROVE  UploadInv'
BY DEF UploadInv, UploadTypeOK, UploadSound, Gone

LEMMA UploadKept ==
  ASSUME UploadInv, [UploadNext]_uploadVars
  PROVE  UploadInv'
<1>1. CASE UNCHANGED uploadVars
  BY <1>1, ContextKeeps DEF uploadVars, UploadInv, UploadTypeOK
<1>2. ASSUME NEW u \in Upload, Cancel(u) \/ Forgotten  PROVE UploadInv'
  BY <1>2, ContextKeeps DEF Cancel, Forgotten, UploadInv, UploadTypeOK
<1>3. ASSUME NEW u \in Upload,
             UploadStep(u) \/ LateLands(u) \/ (Abandon(u) /\ canceled' \subseteq canceled)
      PROVE  UploadInv'
  <2>1. UploadTypeOK' /\ UploadSound(u)' /\ OnlyAt(u)
    BY <1>3, StepKeeps
  <2>2. ASSUME NEW v \in Upload \ {u}  PROVE UploadSound(v)'
    <3>1. /\ step'[v] = step[v] /\ first'[v] = first[v] /\ answer'[v] = answer[v]
          /\ late'[v] = late[v] /\ object'[v] = object[v] /\ (Gone(v)' <=> Gone(v))
      BY <2>1 DEF OnlyAt, Gone
    <3>2. UploadSound(v)
      BY DEF UploadInv
    <3> QED  BY <3>1, <3>2 DEF UploadSound
  <2> QED  BY <2>1, <2>2 DEF UploadInv
<1> QED  BY <1>1, <1>2, <1>3 DEF UploadNext

LEMMA UploadInvSettled == UploadInv => Settled
BY DEF UploadInv, UploadTypeOK, UploadSound, Settled, Open, Gone

\* An upload that was answered conclusively has no request left, whatever the
\* interleaving of its workers' failures (the merge of errors in UploadFile).
THEOREM UploadSettled == UploadSpec => []Settled
BY UploadStarts, UploadKept, UploadInvSettled, PTL DEF UploadSpec

-----------------------------------------------------------------------------
(* The contract.  A step of an upload changes only its own entry in the      *)
(* contract's variables, and is one of the contract's steps there.           *)

OpenUploads == [u \in Upload |-> Open(u)]

LEMMA OpenBoolean == \A u \in Upload : Open(u) \in BOOLEAN
BY DEF Open

LEMMA OpenAt ==
  ASSUME NEW u \in Upload, OnlyAt(u)
  PROVE  OpenUploads' = [OpenUploads EXCEPT ![u] = Open(u)']
<1>1. ASSUME NEW v \in Upload \ {u}  PROVE Open(v)' = Open(v)
  BY <1>1 DEF OnlyAt, Open
<1> QED  BY <1>1, Zenon DEF OpenUploads

\* The caller goes on waiting.
LEMMA Works ==
  ASSUME NEW u \in Upload, OnlyAt(u), answer[u] = "none", UNCHANGED <<answer, object>>
  PROVE  Contract!MutationNext
<1>1. OpenUploads' = [OpenUploads EXCEPT ![u] = Open(u)'] /\ Open(u)' \in BOOLEAN
  BY OpenAt, OpenBoolean DEF Open
<1>2. Contract!Work(u)
  BY <1>1, Zenon DEF Contract!Work, OpenUploads
<1> QED  BY <1>2 DEF Contract!MutationNext

\* The caller is answered.
LEMMA Answers ==
  ASSUME UploadTypeOK, NEW u \in Upload, OnlyAt(u), answer[u] = "none",
         NEW a \in {"ok", "definite", "ambiguous"}, answer' = [answer EXCEPT ![u] = a],
         a \in {"ok", "definite"} => ~Open(u)',
         a = "ok" => object' = [object EXCEPT ![u] = TRUE],
         a = "definite" => object' = object /\ ~object[u],
         object' \in {object, [object EXCEPT ![u] = TRUE]}
  PROVE  Contract!MutationNext
<1>1. OpenUploads' = [OpenUploads EXCEPT ![u] = Open(u)'] /\ Open(u)' \in BOOLEAN
  BY OpenAt, OpenBoolean DEF Open
<1>2. CASE a = "ok"
  <2>1. Open(u)' = FALSE
    BY <1>2, <1>1
  <2>2. Contract!Succeed(u)
    BY <1>1, <1>2, <2>1, Zenon DEF Contract!Succeed, OpenUploads
  <2> QED  BY <2>2 DEF Contract!MutationNext
<1>3. CASE a = "definite"
  <2>1. Open(u)' = FALSE
    BY <1>3, <1>1
  <2>2. Contract!FailDefinitely(u)
    BY <1>1, <1>3, <2>1, Zenon DEF Contract!FailDefinitely, OpenUploads
  <2> QED  BY <2>2 DEF Contract!MutationNext
<1>4. CASE a = "ambiguous"
  <2>1. \E b \in BOOLEAN : object' = [object EXCEPT ![u] = b]
    BY Zenon DEF UploadTypeOK
  <2>2. Contract!FailAmbiguously(u)
    BY <1>1, <1>4, <2>1, Zenon DEF Contract!FailAmbiguously, OpenUploads
  <2> QED  BY <2>2 DEF Contract!MutationNext
<1> QED  BY <1>2, <1>3, <1>4

LEMMA CallerContract ==
  ASSUME UploadInv, UploadTypeOK', NEW u \in Upload, OnlyAt(u), UploadSound(u)',
         Initiate(u) \/ Join(u) \/ Complete(u)
  PROVE  Contract!MutationNext
<1>1. UploadTypeOK /\ UploadSound(u) /\ answer[u] = "none" /\ ~object[u]
  BY DEF UploadInv, UploadSound, Initiate, Join, Complete
<1>2. CASE UNCHANGED <<answer, object>>
  BY <1>1, <1>2, Works
<1>3. ASSUME NEW a \in {"ok", "definite", "ambiguous"}, Return(u, a),
             a = "ok" => object' = [object EXCEPT ![u] = TRUE],
             a = "definite" => object' = object,
             object' \in {object, [object EXCEPT ![u] = TRUE]}
      PROVE  Contract!MutationNext
  <2>1. answer' = [answer EXCEPT ![u] = a] /\ step'[u] = "done" /\ answer'[u] = a
    BY <1>1, <1>3 DEF Return, EndCall, UploadTypeOK
  <2>2. a \in {"ok", "definite"} => ~Open(u)'
    BY <2>1 DEF UploadSound, Open, Gone
  <2> QED  BY <1>1, <1>3, <2>1, <2>2, Answers, Zenon
<1>4. CASE Initiate(u)
  BY <1>2, <1>3, <1>4 DEF Initiate
<1>5. CASE Join(u)
  <2>1. first[u] \in {"none", "definite", "ambiguous"}
    BY <1>1 DEF UploadTypeOK
  <2> QED  BY <1>2, <1>3, <1>5, <2>1 DEF Join
<1>6. CASE Complete(u)
  BY <1>2, <1>3, <1>6 DEF Complete, MakesObject
<1> QED  BY <1>4, <1>5, <1>6

LEMMA LateContract ==
  ASSUME UploadInv, NEW u \in Upload, OnlyAt(u), LateLands(u)
  PROVE  Contract!MutationNext
<1>1. /\ answer' = answer /\ late[u] # {}
      /\ object' \in {object, [object EXCEPT ![u] = TRUE]}
  BY DEF LateLands
<1>2. answer[u] \in {"none", "ambiguous"}
  BY <1>1 DEF UploadInv, UploadTypeOK, UploadSound
<1>3. Open(u) /\ Open(u)' \in BOOLEAN
  BY <1>1 DEF Open
<1>4. OpenUploads' = [OpenUploads EXCEPT ![u] = Open(u)']
  BY OpenAt
<1>5. Contract!Land(u)
  BY <1>1, <1>2, <1>3, <1>4, Zenon DEF Contract!Land, OpenUploads
<1> QED  BY <1>5 DEF Contract!MutationNext

LEMMA ContractStep ==
  ASSUME UploadInv, [UploadNext]_uploadVars
  PROVE  [Contract!MutationNext]_(Contract!mutationVars)
<1>1. CASE UNCHANGED <<phase, late, answer, object>>
  BY <1>1 DEF Contract!mutationVars, Open
<1>2. ASSUME NEW u \in Upload,
             UploadStep(u) \/ LateLands(u) \/ (Abandon(u) /\ canceled' \subseteq canceled)
      PROVE  [Contract!MutationNext]_(Contract!mutationVars)
  <2>1. UploadTypeOK' /\ UploadSound(u)' /\ OnlyAt(u)
    BY <1>2, StepKeeps
  <2>2. ASSUME NEW w \in Worker,
               \/ Hand(u, w) \/ DigestFails(u, w) \/ Dispatch(u, w)
               \/ PartStored(u, w) \/ PartFails(u, w) \/ WorkerEnds(u, w)
        PROVE  Contract!MutationNext
    <3>1. phase[u][w] # "gone" /\ UNCHANGED <<answer, object>>
      BY <2>2 DEF Hand, DigestFails, Dispatch, PartStored, PartFails, WorkerEnds, WorkerFails
    <3>2. answer[u] = "none"
      BY SMTT(30), <3>1 DEF UploadInv, UploadTypeOK, UploadSound, Gone
    <3> QED  BY <2>1, <3>1, <3>2, Works
  <2>3. CASE Abandon(u)
    BY <2>1, <2>3, Works DEF Abandon, UploadInv, UploadSound
  <2>4. CASE CloseJobs(u)
    BY <1>1, <2>4 DEF CloseJobs
  <2> QED  BY <1>2, <2>1, <2>2, <2>3, <2>4, CallerContract, LateContract DEF UploadStep
<1> QED  BY <1>1, <1>2 DEF UploadNext, Cancel, Forgotten, uploadVars

LEMMA ContractInitially == UploadInit => Contract!MutationInit
<1> SUFFICES ASSUME UploadInit  PROVE Contract!MutationInit
  OBVIOUS
<1>1. ASSUME NEW u \in Upload  PROVE Open(u) = FALSE
  BY <1>1 DEF UploadInit, Open
<1>2. [u \in Upload |-> Open(u)] = [u \in Upload |-> FALSE]
  BY <1>1, Zenon
<1> QED  BY <1>2, Zenon DEF UploadInit, Contract!MutationInit

\* Seen through its answer, its open requests and its object, the concurrent
\* multipart upload is one mutation: UploadFile refines Mutation.
THEOREM UploadKeepsContract == UploadSpec => UploadIsMutation
BY UploadStarts, UploadKept, ContractInitially, ContractStep, PTL
DEF UploadSpec, UploadIsMutation, Contract!MutationSpec
-----------------------------------------------------------------------------
(***************************************************************************)
(* Initialization keeps OneRepository for any number of openers and late   *)
(* requests, and for every kind of store.  repository.json never changes   *)
(* once it exists, it exists only on a store that passed every probe, and  *)
(* a gate exists only next to it.                                          *)
(***************************************************************************)

\* repository.json: absent, or with the creation time of one opener.
Stamp == {{}} \cup {{o} : o \in Opener}

Creating == {"create", "gate", "unused", "creategate", "confirm"}

InitTypeOK ==
  /\ features \in SUBSET Features
  /\ identity \in Stamp
  /\ gate \in BOOLEAN /\ data \in BOOLEAN
  /\ opener \in [Opener -> {"idle", "source", "existing", "probe", "list", "reopen",
                            "opened", "failed"} \cup Creating]
  /\ stamp \in [Opener -> Stamp]
  /\ opened \in [Opener -> Stamp]
  /\ lateInit \in SUBSET Stamp

\* What is stored, or may still be.
StoreSound ==
  /\ identity # {} => features = Features
  /\ gate => identity # {}
  /\ data => gate
  /\ lateInit # {} => features = Features
  /\ {} \in lateInit => identity # {}

\* What an opener at each of its steps may rely on.
OpenerSound(o) ==
  /\ opener[o] = "list" => features = Features
  /\ opener[o] \in Creating => features = Features
  /\ opener[o] \in {"probe", "list", "create"} => stamp[o] # {}
  /\ opener[o] \in Creating \ {"create"} => identity = stamp[o] /\ stamp[o] # {}
  /\ opener[o] = "confirm" => gate
  /\ opener[o] = "opened" => opened[o] = identity /\ gate

InitializationInv == InitTypeOK /\ StoreSound /\ \A o \in Opener : OpenerSound(o)

\* The probe sequence of CheckConditions accepts only a store that has every
\* property the protocol relies on.
LEMMA ProbesFindAll ==
  ASSUME NEW f \in SUBSET Features, CheckConditions(f)
  PROVE  f = Features
<1>1. "create" \in f
  BY DEF CheckConditions, Accepted
<1>2. "refuse" \in f
  BY <1>1 DEF CheckConditions, Accepted, Stored
<1>3. "etag" \in f
  BY DEF CheckConditions, ETag
<1>4. "missing" \in f
  BY <1>3 DEF CheckConditions, Accepted, ETag
<1>5. "match" \in f
  BY SMTT(30), <1>3 DEF CheckConditions, Accepted, ETag
<1>6. "list" \in f
  BY DEF CheckConditions
<1> QED  BY <1>1, <1>2, <1>3, <1>4, <1>5, <1>6, Zenon DEF Features

LEMMA InitializationStarts == InitializationInit => InitializationInv
BY StoresAssumption, Zenon
DEF InitializationInit, InitializationInv, InitTypeOK, StoreSound, OpenerSound, Stamp, Creating

\* repository.json is created once: what openers rely on stays true when others
\* move on, as long as nothing that exists is changed.
LEMMA OthersSound ==
  ASSUME InitializationInv, NEW o \in Opener,
         features' = features, identity # {} => identity' = identity, gate => gate',
         opener'[o] = opener[o], stamp'[o] = stamp[o], opened'[o] = opened[o]
  PROVE  OpenerSound(o)'
BY DEF InitializationInv, StoreSound, OpenerSound, Creating

LEMMA ReadersKeep ==
  ASSUME InitializationInv, NEW o \in Opener,
         \/ StartOpening(o) \/ OpenSource(o) \/ ReadExisting(o) \/ Probe(o) \/ ListEmpty(o)
         \/ ReadGate(o) \/ ListUnused(o) \/ Confirm(o) \/ OpenWinner(o)
  PROVE  InitializationInv'
<1> USE DEF Creating
<1>1. InitTypeOK /\ StoreSound /\ OpenerSound(o)
  BY DEF InitializationInv
<1>2. UNCHANGED <<features, identity, gate, data, lateInit>>
  BY DEF StartOpening, OpenSource, ReadExisting, Probe, ListEmpty, ReadGate, ListUnused, Confirm, OpenWinner
<1>3. StoreSound'
  BY <1>1, <1>2 DEF StoreSound
<1>4. \A p \in Opener \ {o} : opener'[p] = opener[p] /\ stamp'[p] = stamp[p] /\ opened'[p] = opened[p]
  BY <1>1 DEF InitTypeOK, StartOpening, OpenSource, ReadExisting, Probe, ListEmpty, ReadGate, ListUnused,
              Confirm, OpenWinner, Opens, Opened
<1>5. \A p \in Opener \ {o} : OpenerSound(p)'
  BY <1>2, <1>4, OthersSound
<1>6. InitTypeOK' /\ OpenerSound(o)'
  <2>1. CASE StartOpening(o)
    BY <1>1, <2>1 DEF StartOpening, Opens, InitTypeOK, OpenerSound
  <2>2. CASE OpenSource(o) \/ OpenWinner(o)
    BY <1>1, <2>2 DEF OpenSource, OpenWinner, CanOpen, Opens, Opened, InitTypeOK, OpenerSound
  <2>3. CASE ReadExisting(o)
    <3>1. (IF identity # {} THEN identity ELSE {o}) \in Stamp \ {{}}
      BY <1>1 DEF InitTypeOK, Stamp
    <3> QED  BY SMTT(30), <1>1, <2>3, <3>1 DEF ReadExisting, Opens, InitTypeOK, OpenerSound
  <2>4. CASE Probe(o)
    <3>1. CheckConditions(features) => features = Features
      BY <1>1, ProbesFindAll DEF InitTypeOK
    <3> QED  BY <1>1, <2>4, <3>1 DEF Probe, Opens, InitTypeOK, OpenerSound
  <2>5. CASE ListEmpty(o)
    BY <1>1, <2>5 DEF ListEmpty, Opens, InitTypeOK, OpenerSound
  <2>6. CASE ReadGate(o) \/ ListUnused(o)
    BY <1>1, <2>6 DEF ReadGate, ListUnused, Opens, InitTypeOK, OpenerSound
  <2>7. CASE Confirm(o)
    BY <1>1, <2>7 DEF Confirm, Opens, Opened, InitTypeOK, OpenerSound
  <2> QED  BY <2>1, <2>2, <2>3, <2>4, <2>5, <2>6, <2>7
<1> QED  BY <1>3, <1>5, <1>6 DEF InitializationInv

LEMMA CreateIdentityKeeps ==
  ASSUME InitializationInv, NEW o \in Opener, CreateIdentity(o)
  PROVE  InitializationInv'
<1> USE DEF Creating
<1>1. /\ InitTypeOK /\ StoreSound /\ OpenerSound(o)
      /\ opener[o] = "create" /\ UNCHANGED <<features, gate, data, stamp, opened>>
      /\ features = Features /\ stamp[o] \in Stamp \ {{}}
  BY DEF InitializationInv, CreateIdentity, OpenerSound, InitTypeOK
<1>2. /\ identity' \in {identity, stamp[o]}
      /\ identity # {} => identity' = identity
      /\ lateInit' \in {lateInit, lateInit \cup {stamp[o]}}
  BY DEF CreateIdentity, CreatesIdentity, MaybeLater
<1>3. \/ Opens(o, "reopen")
      \/ Opens(o, "gate") /\ identity' = stamp[o]
  BY DEF CreateIdentity
<1>4. InitTypeOK' /\ StoreSound'
  <2>1. identity' \in Stamp /\ lateInit' \in SUBSET Stamp
    BY <1>1, <1>2 DEF InitTypeOK
  <2>2. InitTypeOK'
    BY <1>1, <1>3, <2>1 DEF InitTypeOK, Opens
  <2>3. StoreSound'
    BY <1>1, <1>2 DEF StoreSound
  <2> QED  BY <2>2, <2>3
<1>5. OpenerSound(o)'
  BY <1>1, <1>2, <1>3 DEF InitTypeOK, OpenerSound, Opens
<1>6. ASSUME NEW p \in Opener \ {o}  PROVE OpenerSound(p)'
  <2>1. opener'[p] = opener[p] /\ stamp'[p] = stamp[p] /\ opened'[p] = opened[p]
    BY <1>1, <1>3 DEF InitTypeOK, Opens
  <2> QED  BY <1>1, <1>2, <2>1, OthersSound
<1> QED  BY <1>4, <1>5, <1>6 DEF InitializationInv

LEMMA CreateGateKeeps ==
  ASSUME InitializationInv, NEW o \in Opener, CreateGate(o)
  PROVE  InitializationInv'
<1> USE DEF Creating
<1>1. /\ InitTypeOK /\ StoreSound /\ OpenerSound(o)
      /\ opener[o] = "creategate" /\ UNCHANGED <<features, identity, data, stamp, opened>>
      /\ features = Features /\ identity # {}
  BY DEF InitializationInv, CreateGate, OpenerSound
<1>2. /\ gate' \in BOOLEAN
      /\ gate => gate'
      /\ lateInit' \in {lateInit, lateInit \cup {{}}}
  BY <1>1, Zenon DEF CreateGate, MaybeLater, InitTypeOK
<1>3. Opens(o, "reopen") \/ (Opens(o, "confirm") /\ gate')
  BY DEF CreateGate
<1>4. InitTypeOK' /\ StoreSound'
  <2>1. lateInit' \in SUBSET Stamp
    BY <1>1, <1>2 DEF InitTypeOK, Stamp
  <2>2. InitTypeOK'
    BY <1>1, <1>2, <1>3, <2>1 DEF InitTypeOK, Opens
  <2>3. StoreSound'
    BY <1>1, <1>2 DEF StoreSound
  <2> QED  BY <2>2, <2>3
<1>5. OpenerSound(o)'
  BY <1>1, <1>2, <1>3 DEF InitTypeOK, OpenerSound, Opens
<1>6. ASSUME NEW p \in Opener \ {o}  PROVE OpenerSound(p)'
  <2>1. opener'[p] = opener[p] /\ stamp'[p] = stamp[p] /\ opened'[p] = opened[p]
    BY <1>1, <1>3 DEF InitTypeOK, Opens
  <2> QED  BY <1>1, <1>2, <2>1, OthersSound
<1> QED  BY <1>4, <1>5, <1>6 DEF InitializationInv

LEMMA LateCreationKeeps ==
  ASSUME InitializationInv, LateCreation
  PROVE  InitializationInv'
<1>1. InitTypeOK /\ StoreSound /\ UNCHANGED <<features, data, opener, stamp, opened>>
  BY DEF InitializationInv, LateCreation
<1>2. PICK i \in lateInit :
        /\ lateInit' = lateInit \ {i}
        /\ \/ UNCHANGED <<identity, gate>>
           \/ i = {} /\ gate' = TRUE /\ UNCHANGED identity
           \/ i # {} /\ CreatesIdentity(i) /\ UNCHANGED gate
  BY DEF LateCreation
<1>3. InitTypeOK' /\ StoreSound'
  <2>1. /\ identity' \in Stamp /\ gate' \in BOOLEAN /\ lateInit' \in SUBSET Stamp
        /\ identity # {} => identity' = identity
        /\ features = Features
    BY <1>1, <1>2, Zenon DEF CreatesIdentity, InitTypeOK, StoreSound
  <2>2. InitTypeOK'
    BY <1>1, <2>1 DEF InitTypeOK
  <2>3. StoreSound'
    BY <1>1, <1>2, <2>1 DEF CreatesIdentity, StoreSound
  <2> QED  BY <2>2, <2>3
<1>4. \A p \in Opener : OpenerSound(p)'
  BY SMTT(30), <1>1, <1>2, OthersSound DEF CreatesIdentity
<1> QED  BY <1>3, <1>4 DEF InitializationInv

LEMMA LeaveKeeps ==
  ASSUME InitializationInv, NEW O, Leave(O)
  PROVE  InitializationInv'
<1>1. InitTypeOK /\ UNCHANGED <<features, identity, gate, data, lateInit>>
  BY DEF InitializationInv, Leave
<1>2. InitTypeOK' /\ StoreSound'
  BY SMTT(30), <1>1 DEF InitializationInv, InitTypeOK, StoreSound, Leave, Stamp
<1>3. ASSUME NEW p \in Opener  PROVE OpenerSound(p)'
  <2>1. CASE p \in O
    BY <1>3, <2>1 DEF Leave, OpenerSound, Creating
  <2>2. CASE p \notin O
    BY SMTT(30), <1>1, <1>3, <2>2, OthersSound DEF Leave
  <2> QED  BY <2>1, <2>2
<1> QED  BY <1>2, <1>3 DEF InitializationInv

LEMMA FirstObjectKeeps ==
  ASSUME InitializationInv, NEW o \in Opener, FirstObject(o)
  PROVE  InitializationInv'
<1>1. InitTypeOK' /\ StoreSound'
  BY DEF InitializationInv, InitTypeOK, StoreSound, OpenerSound, FirstObject
<1>2. \A p \in Opener : OpenerSound(p)'
  BY OthersSound DEF FirstObject
<1> QED  BY <1>1, <1>2 DEF InitializationInv

LEMMA InitializationKept ==
  ASSUME InitializationInv, [InitializationNext]_initVars
  PROVE  InitializationInv'
<1>1. CASE UNCHANGED initVars
  BY <1>1 DEF initVars, InitializationInv, InitTypeOK, StoreSound, OpenerSound
<1> QED  BY <1>1, ReadersKeep, CreateIdentityKeeps, CreateGateKeeps, LateCreationKeeps, LeaveKeeps,
            FirstObjectKeeps
         DEF InitializationNext, OpenWriter

LEMMA InitializationInvOne == InitializationInv => OneRepository
<1> SUFFICES ASSUME InitializationInv  PROVE OneRepository
  OBVIOUS
<1>1. ASSUME NEW o \in Opener, opener[o] = "opened"
      PROVE  /\ opened[o] = identity /\ identity \in {{i} : i \in Opener}
             /\ gate /\ features = Features
  <2>1. opened[o] = identity /\ gate /\ identity # {} /\ features = Features
    BY <1>1 DEF InitializationInv, OpenerSound, StoreSound
  <2>2. identity \in {{i} : i \in Opener}
    BY <2>1 DEF InitializationInv, InitTypeOK, Stamp
  <2> QED  BY <2>1, <2>2
<1> QED  BY <1>1 DEF OneRepository, InitializationInv, StoreSound

\* However first writers race, fail and answer late, all get one repository
\* (OpenSource, OpenWriter, initialize, CheckConditions).
THEOREM InitializationOneRepository == InitializationSpec => []OneRepository
BY InitializationStarts, InitializationKept, InitializationInvOne, PTL DEF InitializationSpec
-----------------------------------------------------------------------------
(* The Backup callback. *)

Early == {"new", "slot", "prepare", "open"}
Capturing == {"tool", "stopped", "final"}
Publishing == {"upload", "verify", "check"}
BeforeUpload ==
  Early \cup {"freeze", "replay", "claim", "control", "state", "claimed"} \cup Capturing
Stages == BeforeUpload \cup Publishing \cup {"commit", "winner", "close", "ended", "dead"}

Server == [postmaster : Nat, settings : Nat, timeline : Nat, primary : BOOLEAN]

\* How often the server changed, with each of its counts starting at 1.
Age(s) == s.postmaster + s.settings + s.timeline

BackupTypeOK ==
  /\ source \in Server /\ source.postmaster > 0
  /\ on \in [Callback -> Sidecar \cup {None}]
  /\ stage \in [Callback -> Stages]
  /\ hold \in [Callback -> {"none", "held", "uncertain", "released"}]
  /\ before \in [Callback -> Server]
  /\ monitor \in [Callback -> {"off", "on", "tripped"}]
  /\ commit \in Callback \cup {None}
  /\ lateCommit \in SUBSET Callback
  /\ result \in [Callback -> Callback \cup {None}]

\* The upload of a callback, and what its answer did to the hold.
HoldSound(c) ==
  /\ stage[c] # "new" => on[c] \in Sidecar
  /\ stage[c] \in Early => hold[c] = "none"
  /\ stage[c] \in BeforeUpload => step[c] = "new"
  /\ stage[c] \in {"verify", "check", "commit", "winner"} => answer[c] = "ok"
  /\ stage[c] \in {"close", "ended"} /\ hold[c] # "uncertain" =>
       step[c] = "new" \/ answer[c] \in {"ok", "definite"}
  /\ hold[c] = "released" => stage[c] = "ended"

\* What a capture has established by each stage.
CaptureSound(c) ==
  /\ stage[c] \in Early => before[c] = Unopened
  /\ stage[c] \in Span =>
       /\ Age(before[c]) <= Age(source)
       /\ source = before[c] => c \in steady
  /\ stage[c] \in Capturing \cup Publishing => Eligible(c)
  /\ stage[c] \in Capturing => monitor[c] # "off"
  /\ stage[c] \in Publishing => monitor[c] = "on"
  /\ stage[c] = "commit" => c \in sound

\* commit.json, those who may still create it, and those who read it.
CommitsSound ==
  /\ commit # None => commit \in sound
  /\ lateCommit \subseteq sound
  /\ \A c \in lateCommit : hold[c] = "uncertain"
  /\ ResultWhole

PartsSound == WorkspaceInv /\ UploadInv /\ InitializationInv

BackupInv ==
  /\ PartsSound
  /\ BackupTypeOK
  /\ \A c \in Callback : HoldSound(c) /\ CaptureSound(c)
  /\ CommitsSound

-----------------------------------------------------------------------------
(* The parts *)

LEMMA WorkspaceSimulated ==
  ASSUME BackupInv, [Next]_vars
  PROVE  [WorkspaceNext]_workspaceVars
<1>1. ASSUME NEW c \in Callback, StartCapture(c) \/ ToolDone(c)
      PROVE  [WorkspaceNext]_workspaceVars
  <2>1. on[c] \in Sidecar
    BY <1>1 DEF StartCapture, ToolDone, BackupInv, HoldSound
  <2> QED  BY <1>1, <2>1 DEF StartCapture, ToolDone, WorkspaceNext
<1>2. ASSUME NEW s \in Sidecar, WorkspaceStep(s) \/ Crash(s)
      PROVE  [WorkspaceNext]_workspaceVars
  BY <1>2 DEF WorkspaceStep, Crash, WorkspaceNext
<1>3. ASSUME NEW c \in Callback, CallbackStep(c), ~StartCapture(c), ~ToolDone(c)
      PROVE  UNCHANGED workspaceVars
  BY <1>3, Zenon DEF CallbackStep, TakeSlot, Prepare, OpenStep, Admit, Freeze, PutRequest, Replay, Claim,
       ReadControl, ReadState, Inspect, EndCapture, Continue, UploadFile, Uploaded,
       VerifyPayload, Check, Commit, ReadWinner, Unwind, parts
<1>4. ASSUME \/ \E c \in Callback : MonitorTrips(c) \/ GiveUp(c) \/ CancelCallback(c)
             \/ \E c \in Callback, s \in Sidecar : Receive(c, s)
             \/ \E a \in Archiver : ArchiverStep(a)
             \/ SourceChanges \/ LateRequest \/ UNCHANGED vars
      PROVE  UNCHANGED workspaceVars
  BY <1>4 DEF MonitorTrips, GiveUp, CancelCallback, Receive, ArchiverStep, SourceChanges, LateRequest,
       vars, parts
<1> QED  BY <1>1, <1>2, <1>3, <1>4 DEF Next

LEMMA UploadSimulated ==
  ASSUME BackupInv, [Next]_vars
  PROVE  [UploadNext]_uploadVars
<1> USE CallbackAssumption
<1>1. ASSUME NEW c \in Callback, UploadFile(c) \/ CancelCallback(c)
      PROVE  [UploadNext]_uploadVars
  BY <1>1 DEF UploadFile, CancelCallback, UploadNext
<1>2. ASSUME NEW c \in Callback, Unwind(c)
      PROVE  [UploadNext]_uploadVars
  BY <1>2 DEF Unwind, Forget, Forgotten, UploadNext
<1>3. ASSUME NEW s \in Sidecar, Crash(s)
      PROVE  [UploadNext]_uploadVars
  <2> DEFINE lost == {c \in Callback : on[c] = s /\ stage[c] # "ended"}
  <2>1. canceled' = canceled \ lost
    BY <1>3 DEF Crash, Forget
  <2>2. CASE \E c \in lost : Abandon(c)
    BY <2>1, <2>2 DEF UploadNext
  <2>3. CASE UNCHANGED <<step, sent, closed, phase, recorded, first, answer, late, object>>
    <3>1. CASE lost = {}
      BY <2>1, <2>3, <3>1 DEF uploadVars
    <3>2. CASE \E c \in lost : TRUE
      BY <2>1, <2>3, <3>2 DEF Forgotten, UploadNext
    <3> QED  BY <3>1, <3>2, Zenon
  <2> QED  BY <1>3, <2>2, <2>3 DEF Crash
<1>4. CASE LateRequest
  BY <1>4 DEF LateRequest, UploadNext
<1>5. ASSUME NEW c \in Callback, CallbackStep(c), ~UploadFile(c), ~Unwind(c)
      PROVE  UNCHANGED uploadVars
  BY <1>5, Zenon DEF CallbackStep, TakeSlot, Prepare, OpenStep, Admit, Freeze, PutRequest, Replay, Claim,
       ReadControl, ReadState, StartCapture, ToolDone, Inspect, EndCapture, Continue, Uploaded,
       VerifyPayload, Check, Commit, ReadWinner, parts
<1>6. ASSUME \/ \E c \in Callback : MonitorTrips(c) \/ GiveUp(c)
             \/ \E c \in Callback, s \in Sidecar : Receive(c, s)
             \/ \E s \in Sidecar : WorkspaceStep(s)
             \/ \E a \in Archiver : ArchiverStep(a)
             \/ SourceChanges \/ UNCHANGED vars
      PROVE  UNCHANGED uploadVars
  BY <1>6 DEF MonitorTrips, GiveUp, Receive, WorkspaceStep, ArchiverStep, SourceChanges, vars, parts
<1> QED  BY <1>1, <1>2, <1>3, <1>4, <1>5, <1>6 DEF Next

LEMMA OpeningSimulated ==
  ASSUME BackupInv, [Next]_vars
  PROVE  [InitializationNext]_initVars
<1> USE CallbackAssumption
<1>1. ASSUME NEW c \in Callback, Prepare(c) \/ OpenStep(c) \/ Freeze(c)
      PROVE  [InitializationNext]_initVars
  BY <1>1, Zenon DEF Prepare, OpenStep, Freeze, PutRequest, InitializationNext
<1>2. ASSUME NEW c \in Callback, Unwind(c)
      PROVE  [InitializationNext]_initVars
  <2>1. Leave({c}) /\ {c} \in SUBSET Opener
    BY <1>2 DEF Unwind, Forget
  <2> QED  BY <2>1 DEF InitializationNext
<1>3. ASSUME NEW s \in Sidecar, Crash(s)
      PROVE  [InitializationNext]_initVars
  <2>1. \E O \in SUBSET Opener : Leave(O)
    BY <1>3 DEF Crash, Forget
  <2> QED  BY <2>1 DEF InitializationNext
<1>4. CASE LateRequest \/ \E a \in Archiver : ArchiverStep(a)
  BY <1>4, Zenon DEF LateRequest, ArchiverStep, InitializationNext
<1>5. ASSUME NEW c \in Callback, CallbackStep(c),
             ~Prepare(c), ~OpenStep(c), ~Freeze(c), ~Unwind(c)
      PROVE  UNCHANGED initVars
  BY <1>5, Zenon DEF CallbackStep, TakeSlot, Admit, Replay, Claim, ReadControl, ReadState,
       StartCapture, ToolDone, Inspect, EndCapture, Continue, UploadFile, Uploaded,
       VerifyPayload, Check, Commit, ReadWinner, parts
<1>6. ASSUME \/ \E c \in Callback : MonitorTrips(c) \/ GiveUp(c) \/ CancelCallback(c)
             \/ \E c \in Callback, s \in Sidecar : Receive(c, s)
             \/ \E s \in Sidecar : WorkspaceStep(s)
             \/ SourceChanges \/ UNCHANGED vars
      PROVE  UNCHANGED initVars
  BY <1>6 DEF MonitorTrips, GiveUp, CancelCallback, Receive, WorkspaceStep, SourceChanges, vars, parts
<1> QED  BY <1>1, <1>2, <1>3, <1>4, <1>5, <1>6 DEF Next

LEMMA PartsKept ==
  ASSUME BackupInv, [Next]_vars
  PROVE  PartsSound'
BY WorkspaceSimulated, UploadSimulated, OpeningSimulated, WorkspaceKept, UploadKept,
   InitializationKept
DEF BackupInv, PartsSound

\* An object that exists stays.
LEMMA ObjectKept ==
  ASSUME UploadInv, [UploadNext]_uploadVars, NEW u \in Upload, object[u]
  PROVE  object'[u]
<1>1. \/ object' = object
      \/ \E v \in Upload : object' = [object EXCEPT ![v] = TRUE]
  <2>1. ASSUME NEW v \in Upload, Initiate(v) \/ CloseJobs(v) \/ Join(v) \/ Complete(v)
        PROVE  object' = object \/ object' = [object EXCEPT ![v] = TRUE]
    BY <2>1, Zenon DEF Initiate, CloseJobs, Join, Complete, MakesObject
  <2>2. ASSUME NEW v \in Upload, NEW w \in Worker,
               \/ Hand(v, w) \/ DigestFails(v, w) \/ Dispatch(v, w)
               \/ PartStored(v, w) \/ PartFails(v, w) \/ WorkerEnds(v, w)
        PROVE  object' = object
    BY <2>2, Zenon DEF Hand, DigestFails, Dispatch, PartStored, PartFails, WorkerEnds, WorkerFails
  <2>3. ASSUME NEW v \in Upload, Cancel(v) \/ LateLands(v) \/ Forgotten \/ Abandon(v)
        PROVE  object' = object \/ object' = [object EXCEPT ![v] = TRUE]
    BY <2>3, Zenon DEF Cancel, LateLands, Forgotten, Abandon
  <2>4. UNCHANGED uploadVars => object' = object
    BY Zenon DEF uploadVars
  <2> QED  BY <2>1, <2>2, <2>3, <2>4, Zenon DEF UploadNext, UploadStep
<1> QED  BY <1>1 DEF UploadInv, UploadTypeOK

-----------------------------------------------------------------------------
(* The initial states *)

LEMMA FirstServer == First \in Server /\ Unopened \in Server /\ First.postmaster = 1
BY DEF First, Unopened, Server

LEMMA BackupStarts == Init => BackupInv
<1> SUFFICES ASSUME Init  PROVE BackupInv
  OBVIOUS
<1> USE CallbackAssumption
<1>1. WorkspaceInv /\ UploadInv
  BY WorkspaceStarts, UploadStarts DEF Init
<1>2. InitializationInv
  <2>1. CASE InitializationInit
    BY <2>1, InitializationStarts
  <2>2. CASE /\ features = Features /\ gate = TRUE /\ data = TRUE
             /\ identity \in {{a} : a \in Archiver}
             /\ opener = [o \in Opener |-> IF o \in identity THEN "opened" ELSE "idle"]
             /\ stamp = [o \in Opener |-> {}]
             /\ opened = [o \in Opener |-> IF o \in identity THEN identity ELSE {}]
             /\ lateInit = {}
    <3>1. identity \in Stamp /\ {} \in Stamp /\ identity # {}
      BY <2>2 DEF Stamp
    <3>2. InitTypeOK
      BY <2>2, <3>1 DEF InitTypeOK, Creating
    <3>3. StoreSound
      BY <2>2, <3>1 DEF StoreSound
    <3>4. ASSUME NEW o \in Opener  PROVE OpenerSound(o)
      BY <2>2 DEF OpenerSound, Creating
    <3> QED  BY <3>2, <3>3, <3>4 DEF InitializationInv
  <2> QED  BY <2>1, <2>2, Zenon DEF Init
<1>3. source \in Server /\ source.postmaster > 0
  <2>1. source = First \/ source = [First EXCEPT !.primary = FALSE]
    BY DEF Init
  <2>2. CASE source = First
    BY SMTT(30), <2>2, FirstServer
  <2>3. CASE source = [First EXCEPT !.primary = FALSE]
    <3>1. source = [postmaster |-> 1, settings |-> 1, timeline |-> 1, primary |-> FALSE]
      BY <2>3, Zenon DEF First
    <3> QED  BY SMTT(30), <3>1 DEF Server
  <2> QED  BY <2>1, <2>2, <2>3
<1>4. BackupTypeOK
  BY <1>3, FirstServer DEF Init, BackupTypeOK, Stages, BeforeUpload, Early
<1>5. ASSUME NEW c \in Callback  PROVE HoldSound(c) /\ CaptureSound(c)
  BY DEF Init, UploadInit, HoldSound, CaptureSound, Span, Capturing, Publishing
<1>6. CommitsSound
  BY DEF Init, CommitsSound, ResultWhole
<1> QED  BY <1>1, <1>2, <1>4, <1>5, <1>6 DEF BackupInv, PartsSound

-----------------------------------------------------------------------------
(* A step of one callback *)

\* Nothing that another callback relies on changes.
Apart(c) ==
  /\ UNCHANGED <<kind, full, source>>
  /\ sound \subseteq sound'
  /\ \A d \in Callback \ {c} :
       /\ on'[d] = on[d] /\ stage'[d] = stage[d] /\ hold'[d] = hold[d]
       /\ before'[d] = before[d] /\ monitor'[d] = monitor[d]
       /\ step'[d] = step[d] /\ answer'[d] = answer[d]
       /\ d \in steady => d \in steady'

LEMMA OthersKept ==
  ASSUME BackupInv, NEW c \in Callback, Apart(c), NEW d \in Callback \ {c}
  PROVE  HoldSound(d)' /\ CaptureSound(d)'
<1>1. HoldSound(d) /\ CaptureSound(d)
  BY DEF BackupInv
<1>2. HoldSound(d)'
  BY <1>1 DEF Apart, HoldSound
<1>3. CaptureSound(d)'
  BY <1>1 DEF Apart, CaptureSound, Age, Eligible, EligibleFull
<1> QED  BY <1>2, <1>3

\* A step that touches no commit and no answer.
LEMMA CommitsKept ==
  ASSUME BackupInv, [Next]_vars, NEW c \in Callback, Apart(c),
         UNCHANGED <<commit, lateCommit, result>>,
         hold[c] = "uncertain" => hold'[c] = "uncertain"
  PROVE  CommitsSound'
<1>1. BackupTypeOK /\ CommitsSound
  BY DEF BackupInv
<1>2. \A d \in lateCommit : hold'[d] = "uncertain"
  BY <1>1 DEF CommitsSound, Apart, BackupTypeOK
<1>3. \A u \in Upload : object[u] => object'[u]
  BY UploadSimulated, ObjectKept, Zenon DEF BackupInv, PartsSound
<1>4. ResultWhole'
  BY <1>1, <1>3, CallbackAssumption DEF CommitsSound, ResultWhole, BackupTypeOK
<1> QED  BY <1>1, <1>2, <1>4 DEF CommitsSound, Apart

LEMMA StepKept ==
  ASSUME BackupInv, [Next]_vars, NEW c \in Callback, Apart(c),
         BackupTypeOK', HoldSound(c)', CaptureSound(c)', CommitsSound'
  PROVE  BackupInv'
BY OthersKept, PartsKept DEF BackupInv

\* The callback goes to stage s, its hold stays or is latched.
Moved(c, s) ==
  /\ Go(c, s)
  /\ UNCHANGED hold \/ Latch(c)
  /\ UNCHANGED <<kind, full, source, on, before, monitor, steady, sound, step, answer, commit,
                 lateCommit>>

LEMMA MovedKept ==
  ASSUME BackupInv, [Next]_vars, NEW c \in Callback, NEW s \in Stages, Moved(c, s),
         UNCHANGED result, HoldSound(c)', CaptureSound(c)'
  PROVE  BackupInv'
<1>1. BackupTypeOK
  BY DEF BackupInv
<1>2. Apart(c)
  BY <1>1, Zenon DEF Apart, Moved, Go, Latch, BackupTypeOK
<1>3. BackupTypeOK'
  BY <1>1 DEF Moved, Go, Latch, BackupTypeOK
<1>4. CommitsSound'
  BY <1>1, <1>2, CommitsKept DEF Moved, Latch, BackupTypeOK
<1> QED  BY <1>2, <1>3, <1>4, StepKept

\* An early return, with or without latching the hold.
LEMMA FailKept ==
  ASSUME BackupInv, [Next]_vars, NEW c \in Callback, Moved(c, "close"), UNCHANGED result,
         stage[c] \notin {"new", "close", "ended", "dead"},
         stage[c] = "upload" => hold'[c] = "uncertain" \/ answer[c] \in {"ok", "definite"}
  PROVE  BackupInv'
<1>1. BackupTypeOK /\ HoldSound(c) /\ CaptureSound(c)
  BY DEF BackupInv
<1>2. stage'[c] = "close" /\ (hold'[c] = hold[c] \/ hold'[c] = "uncertain")
  BY <1>1, Zenon DEF Moved, Go, Latch, BackupTypeOK
<1>3. stage[c] \in BeforeUpload \cup {"upload", "verify", "check", "commit", "winner"}
  BY <1>1, Zenon DEF BackupTypeOK, Stages, Publishing
<1>4. HoldSound(c)'
  BY <1>1, <1>2, <1>3, Zenon DEF HoldSound, Moved, BeforeUpload, Early, Capturing
<1>5. CaptureSound(c)'
  BY <1>2, Zenon DEF CaptureSound, Early, Span, Capturing, Publishing
<1> QED  BY <1>4, <1>5, MovedKept DEF Stages

\* A callback goes on.
LEMMA AdvanceKept ==
  ASSUME BackupInv, [Next]_vars, NEW c \in Callback, NEW s \in Stages, Moved(c, s),
         UNCHANGED result, s \in Early => UNCHANGED hold, s \notin {"close", "ended"},
         stage[c] \notin {"new", "ended", "dead"}, s \in Early => stage[c] \in Early,
         s \in BeforeUpload => stage[c] \in BeforeUpload,
         s \in {"verify", "check", "commit", "winner"} => answer[c] = "ok",
         CaptureSound(c)'
  PROVE  BackupInv'
<1>1. BackupTypeOK /\ HoldSound(c)
  BY Zenon DEF BackupInv
<1>2. stage'[c] = s /\ (hold'[c] = hold[c] \/ hold'[c] = "uncertain")
  BY <1>1 DEF Moved, Go, Latch, BackupTypeOK
<1>3. HoldSound(c)'
  BY <1>1, <1>2, Zenon DEF HoldSound, Moved
<1> QED  BY <1>3, MovedKept, Zenon

\* A callback that holds the repository goes on with what it has established.
LEMMA OnwardKept ==
  ASSUME BackupInv, [Next]_vars, NEW c \in Callback, NEW s \in Stages \ Early, Moved(c, s),
         UNCHANGED result, s \notin {"close", "ended", "commit"},
         stage[c] \notin {"new", "ended", "dead"},
         s \in BeforeUpload => stage[c] \in BeforeUpload,
         s \in {"verify", "check", "winner"} => answer[c] = "ok",
         s \in Span => stage[c] \in Span,
         s \in Capturing \cup Publishing => stage[c] \in Capturing \cup Publishing,
         s \in Capturing => stage[c] \in Capturing,
         s \in Publishing => monitor[c] = "on"
  PROVE  BackupInv'
<1>1. BackupTypeOK /\ CaptureSound(c)
  BY Zenon DEF BackupInv
<1>2. stage'[c] = s
  BY <1>1 DEF Moved, Go, BackupTypeOK
<1>3. CaptureSound(c)'
  BY <1>1, <1>2, Zenon DEF CaptureSound, Moved, Age, Eligible, EligibleFull
<1> QED  BY <1>3, AdvanceKept, Zenon

-----------------------------------------------------------------------------
(* The request, the slot, the repository and the hold *)

LEMMA TakeSlotKept ==
  ASSUME BackupInv, [Next]_vars, NEW c \in Callback, TakeSlot(c)
  PROVE  BackupInv'
<1>1. BackupTypeOK /\ CaptureSound(c) /\ stage[c] = "slot"
  BY Zenon DEF BackupInv, TakeSlot
<1>2. UNCHANGED <<hold, result>> /\ Moved(c, "prepare")
  BY Zenon DEF TakeSlot, Moved, parts, uploadVars, capture, given, bucket
<1>3. CaptureSound(c)'
  BY <1>1, <1>2, Zenon
  DEF CaptureSound, Moved, Go, BackupTypeOK, Early, Span, Capturing, Publishing
<1> QED  BY <1>1, <1>2, <1>3, AdvanceKept, Zenon DEF Stages, BeforeUpload, Early

LEMMA GiveUpKept ==
  ASSUME BackupInv, [Next]_vars, NEW c \in Callback, GiveUp(c)
  PROVE  BackupInv'
<1>1. BackupTypeOK /\ HoldSound(c) /\ stage[c] = "slot"
  BY Zenon DEF BackupInv, GiveUp
<1>2. UNCHANGED <<hold, result>> /\ Moved(c, "ended")
  BY Zenon DEF GiveUp, Moved, parts, uploadVars, capture, given, bucket
<1>3. stage'[c] = "ended" /\ UNCHANGED <<hold, on, step>>
  BY <1>1, <1>2 DEF Moved, Go, BackupTypeOK
<1>4. HoldSound(c)'
  BY <1>1, <1>3, Zenon DEF HoldSound, BeforeUpload, Early, Capturing
<1>5. CaptureSound(c)'
  BY <1>3, Zenon DEF CaptureSound, Early, Span, Capturing, Publishing
<1> QED  BY <1>2, <1>4, <1>5, MovedKept, Zenon DEF Stages

LEMMA PrepareKept ==
  ASSUME BackupInv, [Next]_vars, NEW c \in Callback, Prepare(c) \/ OpenStep(c)
  PROVE  BackupInv'
<1>1. /\ BackupTypeOK /\ HoldSound(c) /\ CaptureSound(c) /\ stage[c] \in {"prepare", "open"}
  BY Zenon DEF BackupInv, Prepare, OpenStep
<1>2. /\ UNCHANGED <<hold, result, kind, full, source, on, before, monitor, steady, sound, step,
                     answer, commit, lateCommit>>
      /\ Go(c, "open") \/ Go(c, "close") \/ UNCHANGED stage
  BY Zenon DEF Prepare, OpenStep, Fail, uploadVars, capture, given, bucket
<1>3. CASE Go(c, "close")
  BY <1>1, <1>2, <1>3, FailKept, Zenon DEF Moved
<1>4. CASE Go(c, "open")
  <2>1. CaptureSound(c)'
    BY <1>1, <1>2, <1>4, Zenon
    DEF CaptureSound, Go, BackupTypeOK, Early, Span, Capturing, Publishing
  <2> QED  BY <1>1, <1>2, <1>4, <2>1, AdvanceKept, Zenon DEF Moved, Stages, BeforeUpload, Early
<1>5. CASE UNCHANGED stage
  <2>1. Apart(c) /\ BackupTypeOK'
    BY <1>1, <1>2, <1>5, Zenon DEF Apart, BackupTypeOK
  <2>2. HoldSound(c)' /\ CaptureSound(c)'
    BY <1>1, <1>2, <1>5, Zenon DEF HoldSound, CaptureSound, Eligible, EligibleFull, Age
  <2> QED  BY <1>2, <2>1, <2>2, CommitsKept, StepKept
<1> QED  BY <1>2, <1>3, <1>4, <1>5

LEMMA AdmitKept ==
  ASSUME BackupInv, [Next]_vars, NEW c \in Callback, Admit(c)
  PROVE  BackupInv'
<1>1. /\ BackupTypeOK /\ HoldSound(c) /\ CaptureSound(c) /\ stage[c] = "open"
      /\ hold[c] = "none" /\ before[c] = Unopened
  BY Zenon DEF BackupInv, Admit, HoldSound, CaptureSound, Early
<1>2. UNCHANGED <<result, kind, full, source, on, before, monitor, steady, sound, step, answer,
                  commit, lateCommit>>
  BY Zenon DEF Admit, parts, uploadVars, capture, given, bucket
<1>3. CASE Go(c, "close") /\ UNCHANGED hold
  BY <1>1, <1>2, <1>3, FailKept, Zenon DEF Moved
<1>4. CASE Go(c, "freeze") /\ hold' = [hold EXCEPT ![c] = "held"]
  <2>1. Apart(c)
    BY <1>1, <1>2, <1>4, Zenon DEF Apart, BackupTypeOK, Go
  <2>2. BackupTypeOK'
    BY <1>1, <1>2, <1>4 DEF BackupTypeOK, Go, Stages, BeforeUpload
  <2>3. stage'[c] = "freeze" /\ hold'[c] = "held"
    BY <1>1, <1>4 DEF Go, BackupTypeOK
  <2>4. HoldSound(c)'
    BY <1>1, <1>2, <2>3, Zenon DEF HoldSound, BeforeUpload, Early
  <2>5. Age(Unopened) <= Age(source) /\ source # Unopened
    BY SMTT(30), <1>1 DEF Age, Unopened, BackupTypeOK, Server
  <2>6. before'[c] = Unopened /\ Age(before'[c]) <= Age(source') /\ source' # before'[c]
    BY <1>1, <1>2, <2>5, Zenon
  <2>7. CaptureSound(c)'
    BY <2>3, <2>6, Zenon DEF CaptureSound, Early, Capturing, Publishing
  <2> QED  BY <1>1, <1>2, <2>1, <2>2, <2>4, <2>7, CommitsKept, StepKept, Zenon
<1> QED  BY <1>3, <1>4, Zenon DEF Admit, Fail

-----------------------------------------------------------------------------
(* Begin and BeginDifferential *)

LEMMA FreezeKept ==
  ASSUME BackupInv, [Next]_vars, NEW c \in Callback, Freeze(c)
  PROVE  BackupInv'
<1>1. stage[c] = "freeze" /\ UNCHANGED result
  BY Zenon DEF Freeze, PutRequest
<1>2. Moved(c, "control") \/ Moved(c, "replay") \/ Moved(c, "close")
  BY Zenon DEF Freeze, PutRequest, PutFails, Fail, Moved, uploadVars, capture, given
<1>3. CASE Moved(c, "control") \/ Moved(c, "replay")
  BY <1>1, <1>3, OnwardKept, Zenon DEF Stages, BeforeUpload, Early, Span, Capturing, Publishing
<1> QED  BY <1>1, <1>2, <1>3, FailKept, Zenon

\* A verified winner is the answer.
LEMMA AnswerKept ==
  ASSUME BackupInv, [Next]_vars, NEW c \in Callback, Moved(c, "close"), UNCHANGED hold,
         stage[c] \in {"replay", "winner"}, WinnerVerified,
         result' = [result EXCEPT ![c] = commit]
  PROVE  BackupInv'
<1>1. BackupTypeOK /\ HoldSound(c) /\ CommitsSound
  BY DEF BackupInv
<1>2. Apart(c)
  BY <1>1, Zenon DEF Apart, Moved, Go, BackupTypeOK
<1>3. BackupTypeOK'
  BY <1>1 DEF Moved, Go, BackupTypeOK, Stages
<1>4. stage'[c] = "close"
  BY <1>1 DEF Moved, Go, BackupTypeOK
<1>5. HoldSound(c)'
  BY <1>1, <1>4, Zenon DEF HoldSound, Moved, BeforeUpload, Early, Capturing
<1>6. CaptureSound(c)'
  BY <1>4, Zenon DEF CaptureSound, Early, Span, Capturing, Publishing
<1>7. object[commit] => object'[commit]
  BY <1>1, UploadSimulated, ObjectKept, CallbackAssumption, Zenon
  DEF BackupInv, PartsSound, BackupTypeOK, WinnerVerified
<1>8. ResultWhole'
  BY <1>1, <1>7, Zenon DEF CommitsSound, ResultWhole, WinnerVerified, Moved, BackupTypeOK
<1>9. CommitsSound'
  BY <1>1, <1>8 DEF CommitsSound, Moved
<1> QED  BY <1>2, <1>3, <1>5, <1>6, <1>9, StepKept

LEMMA ReplayKept ==
  ASSUME BackupInv, [Next]_vars, NEW c \in Callback, Replay(c) \/ ReadWinner(c)
  PROVE  BackupInv'
<1>1. stage[c] \in {"replay", "winner"} /\ UNCHANGED hold
  BY Zenon DEF Replay, ReadWinner
<1>2. \/ Moved(c, "close") /\ WinnerVerified /\ result' = [result EXCEPT ![c] = commit]
      \/ stage[c] = "replay" /\ Moved(c, "claim") /\ UNCHANGED result
      \/ Moved(c, "close") /\ UNCHANGED result
  BY Zenon DEF Replay, ReadWinner, Fail, Moved, parts, uploadVars, capture, given, bucket
<1>3. CASE stage[c] = "replay" /\ Moved(c, "claim") /\ UNCHANGED result
  BY <1>3, OnwardKept, Zenon DEF Stages, BeforeUpload, Early, Span, Capturing, Publishing
<1> QED  BY <1>1, <1>2, <1>3, AnswerKept, FailKept, Zenon

LEMMA ClaimKept ==
  ASSUME BackupInv, [Next]_vars, NEW c \in Callback, Claim(c)
  PROVE  BackupInv'
<1>1. stage[c] = "claim" /\ UNCHANGED result
  BY DEF Claim
<1>2. Moved(c, "control") \/ Moved(c, "claimed") \/ Moved(c, "close")
  BY Zenon DEF Claim, PutFails, Fail, Moved, parts, uploadVars, given, bucket
<1>3. CASE Moved(c, "control") \/ Moved(c, "claimed")
  BY <1>1, <1>3, OnwardKept, Zenon DEF Stages, BeforeUpload, Early, Span, Capturing, Publishing
<1> QED  BY <1>1, <1>2, <1>3, FailKept, Zenon

-----------------------------------------------------------------------------
(* OpenCapture and capture *)

LEMMA ReadControlKept ==
  ASSUME BackupInv, [Next]_vars, NEW c \in Callback, ReadControl(c)
  PROVE  BackupInv'
<1>1. BackupTypeOK /\ HoldSound(c) /\ stage[c] = "control"
  BY DEF BackupInv, ReadControl
<1>2. UNCHANGED <<hold, result, kind, full, source, on, monitor, steady, sound, step, answer,
                  commit, lateCommit>>
  BY DEF ReadControl, parts, uploadVars, given, bucket
<1>3. CASE Go(c, "close") /\ UNCHANGED before
  BY <1>1, <1>2, <1>3, FailKept, Zenon DEF Moved
<1>4. CASE before' = [before EXCEPT ![c].timeline = source.timeline] /\ Go(c, "state")
  <2>1. Apart(c)
    BY <1>1, <1>2, <1>4 DEF Apart, BackupTypeOK, Go
  <2>2. before' \in [Callback -> Server]
    <3>1. source.timeline \in Nat /\ before[c] \in Server
      BY <1>1 DEF BackupTypeOK, Server
    <3>2. [before[c] EXCEPT !.timeline = source.timeline] \in Server
      BY <3>1 DEF Server
    <3> QED  BY <1>1, <1>4, <3>2 DEF BackupTypeOK
  <2>3. BackupTypeOK'
    BY <1>1, <1>2, <1>4, <2>2 DEF BackupTypeOK, Go, Stages, BeforeUpload
  <2>4. stage'[c] = "state"
    BY <1>1, <1>4 DEF Go, BackupTypeOK
  <2>5. HoldSound(c)'
    BY <1>1, <1>2, <2>4, Zenon DEF HoldSound, BeforeUpload, Early
  <2>6. CaptureSound(c)'
    BY <2>4, Zenon DEF CaptureSound, Early, Span, Capturing, Publishing
  <2> QED  BY <1>2, <2>1, <2>3, <2>5, <2>6, CommitsKept, StepKept
<1> QED  BY <1>3, <1>4 DEF ReadControl, Fail

LEMMA ReadStateKept ==
  ASSUME BackupInv, [Next]_vars, NEW c \in Callback, ReadState(c)
  PROVE  BackupInv'
<1>1. BackupTypeOK /\ HoldSound(c) /\ stage[c] = "state"
  BY DEF BackupInv, ReadState
<1>2. UNCHANGED <<hold, result, kind, full, source, on, monitor, sound, step, answer, commit,
                  lateCommit>>
  BY Zenon DEF ReadState, parts, uploadVars, given, bucket
<1>3. CASE Go(c, "close") /\ UNCHANGED <<before, steady>>
  BY <1>1, <1>2, <1>3, FailKept, Zenon DEF Moved
<1>4. ASSUME NEW s \in {"claimed", "freeze"}, before' = [before EXCEPT ![c] = source],
             steady' = steady \cup {c}, Go(c, s)
      PROVE  BackupInv'
  <2>1. Apart(c)
    BY <1>1, <1>2, <1>4, Zenon DEF Apart, BackupTypeOK, Go
  <2>2. BackupTypeOK'
    BY <1>1, <1>2, <1>4, Zenon DEF BackupTypeOK, Go, Stages, BeforeUpload
  <2>3. stage'[c] = s /\ before'[c] = source /\ c \in steady' /\ Age(source) \in Nat
    BY SMTT(30), <1>1, <1>4 DEF Go, BackupTypeOK, Age, Server
  <2>4. HoldSound(c)'
    BY <1>1, <1>2, <2>3, Zenon DEF HoldSound, BeforeUpload, Early
  <2>5. Age(before'[c]) <= Age(source')
    <3>1. before'[c] = source' /\ Age(source') = Age(source)
      BY <1>2, <2>3, Zenon
    <3>2. Age(before'[c]) = Age(source)
      BY <2>3, Zenon
    <3> QED  BY SMTT(30), <2>3, <3>1, <3>2
  <2>6. CaptureSound(c)'
    BY <2>3, <2>5, Zenon DEF CaptureSound, Early, Capturing, Publishing
  <2> QED  BY <1>2, <2>1, <2>2, <2>4, <2>6, CommitsKept, StepKept
<1> QED  BY <1>3, <1>4, Zenon DEF ReadState, Fail

LEMMA StartCaptureKept ==
  ASSUME BackupInv, [Next]_vars, NEW c \in Callback, StartCapture(c)
  PROVE  BackupInv'
<1>1. BackupTypeOK /\ HoldSound(c) /\ CaptureSound(c) /\ stage[c] = "claimed"
  BY Zenon DEF BackupInv, StartCapture
<1>2. UNCHANGED <<hold, result, kind, full, source, on, before, steady, sound, step, answer,
                  commit, lateCommit>>
  BY Zenon DEF StartCapture, uploadVars, given, bucket
<1>3. CASE Go(c, "close") /\ UNCHANGED monitor
  BY <1>1, <1>2, <1>3, FailKept, Zenon DEF Moved
<1>4. CASE /\ Eligible(c)
           /\ monitor' = [monitor EXCEPT ![c] = "on"]
           /\ Go(c, "tool")
  <2>1. Apart(c)
    BY <1>1, <1>2, <1>4, Zenon DEF Apart, BackupTypeOK, Go
  <2>2. BackupTypeOK'
    BY <1>1, <1>2, <1>4, Zenon DEF BackupTypeOK, Go, Stages, BeforeUpload, Capturing
  <2>3. stage'[c] = "tool" /\ monitor'[c] = "on"
    BY <1>1, <1>4 DEF Go, BackupTypeOK
  <2>4. HoldSound(c)'
    BY <1>1, <1>2, <2>3, Zenon DEF HoldSound, BeforeUpload, Early
  <2>5. Eligible(c)'
    BY <1>2, <1>4, Zenon DEF Eligible, EligibleFull
  <2>6. CaptureSound(c)'
    BY <1>1, <1>2, <2>3, <2>5, Zenon DEF CaptureSound, Span, Early, Publishing
  <2> QED  BY <1>2, <2>1, <2>2, <2>4, <2>6, CommitsKept, StepKept
<1> QED  BY <1>3, <1>4, Zenon DEF StartCapture, Fail

LEMMA CaptureKept ==
  ASSUME BackupInv, [Next]_vars, NEW c \in Callback, ToolDone(c) \/ Inspect(c) \/ EndCapture(c)
  PROVE  BackupInv'
<1>1. BackupTypeOK /\ CaptureSound(c)
  BY DEF BackupInv
<1>2. stage[c] \in Capturing /\ UNCHANGED result
  BY Zenon DEF ToolDone, Inspect, EndCapture, Continue, Capturing
<1>3. \/ Moved(c, "stopped") \/ Moved(c, "final") \/ Moved(c, "close")
      \/ Moved(c, "upload") /\ (monitor[c] = "tripped" => Go(c, "close"))
  BY Zenon DEF ToolDone, Inspect, EndCapture, Continue, Fail, Moved, parts, uploadVars, capture,
         given, bucket
<1>4. CASE Moved(c, "stopped") \/ Moved(c, "final")
  BY <1>2, <1>4, OnwardKept, Zenon DEF Stages, BeforeUpload, Early, Span, Capturing, Publishing
<1>5. CASE Moved(c, "upload") /\ (monitor[c] = "tripped" => Go(c, "close"))
  <2>1. monitor[c] # "tripped"
    BY <1>1, <1>5 DEF Moved, Go, BackupTypeOK
  <2>2. monitor[c] = "on"
    BY <1>1, <1>2, <2>1 DEF BackupTypeOK, CaptureSound
  <2> QED  BY <1>2, <1>5, <2>2, OnwardKept, Zenon
           DEF Stages, BeforeUpload, Early, Span, Capturing, Publishing
<1>6. CASE Moved(c, "close")
  BY <1>2, <1>6, FailKept, Zenon DEF Capturing
<1> QED  BY <1>3, <1>4, <1>5, <1>6

LEMMA MonitorKept ==
  ASSUME BackupInv, [Next]_vars, NEW c \in Callback, MonitorTrips(c)
  PROVE  BackupInv'
<1>1. BackupTypeOK /\ HoldSound(c) /\ CaptureSound(c) /\ stage[c] \in Capturing
  BY DEF BackupInv, MonitorTrips, Capturing
<1>2. /\ UNCHANGED <<stage, hold, result, kind, full, source, on, before, steady, sound, step,
                     answer, commit, lateCommit>>
      /\ monitor' = [monitor EXCEPT ![c] = "tripped"]
  BY DEF MonitorTrips, parts, uploadVars, given, bucket
<1>3. Apart(c) /\ BackupTypeOK'
  BY <1>1, <1>2, Zenon DEF Apart, BackupTypeOK
<1>4. HoldSound(c)'
  BY <1>1, <1>2, Zenon DEF HoldSound
<1>5. monitor'[c] = "tripped"
  BY <1>1, <1>2 DEF BackupTypeOK
<1>6. CaptureSound(c)'
  BY <1>1, <1>2, <1>5, Zenon DEF CaptureSound, Eligible, EligibleFull, Age, Capturing, Publishing
<1> QED  BY <1>2, <1>3, <1>4, <1>6, CommitsKept, StepKept

-----------------------------------------------------------------------------
(* publish *)

LEMMA UploadFileKept ==
  ASSUME BackupInv, [Next]_vars, NEW c \in Callback, UploadFile(c)
  PROVE  BackupInv'
<1>1. BackupTypeOK /\ HoldSound(c) /\ CaptureSound(c) /\ stage[c] = "upload"
  BY DEF BackupInv, UploadFile
<1>2. UNCHANGED <<stage, hold, result, kind, full, source, on, before, monitor, steady, sound,
                  commit, lateCommit>>
  BY DEF UploadFile, capture, given, bucket
<1>3. OnlyAt(c)
  BY StepKeeps, CallbackAssumption DEF UploadFile, BackupInv, PartsSound
<1>4. Apart(c) /\ BackupTypeOK'
  BY <1>1, <1>2, <1>3, CallbackAssumption, Zenon DEF Apart, OnlyAt, BackupTypeOK
<1>5. HoldSound(c)'
  BY <1>1, <1>2, Zenon DEF HoldSound, BeforeUpload, Early, Capturing
<1>6. CaptureSound(c)'
  BY <1>1, <1>2, Zenon DEF CaptureSound, Eligible, EligibleFull, Age
<1> QED  BY <1>2, <1>4, <1>5, <1>6, CommitsKept, StepKept

LEMMA UploadedKept ==
  ASSUME BackupInv, [Next]_vars, NEW c \in Callback, Uploaded(c) \/ VerifyPayload(c)
  PROVE  BackupInv'
<1>1. BackupTypeOK /\ HoldSound(c) /\ CaptureSound(c) /\ stage[c] \in {"upload", "verify"}
  BY Zenon DEF BackupInv, Uploaded, VerifyPayload
<1>2. monitor[c] = "on" /\ UNCHANGED result
  BY <1>1, Zenon DEF CaptureSound, Publishing, Uploaded, VerifyPayload
<1>3. CASE Moved(c, "verify") /\ answer[c] = "ok"
  BY <1>1, <1>2, <1>3, OnwardKept, Zenon
  DEF Stages, BeforeUpload, Early, Span, Capturing, Publishing
<1>4. CASE Moved(c, "check") /\ stage[c] = "verify"
  <2>1. answer[c] = "ok"
    BY <1>1, <1>4, Zenon DEF HoldSound
  <2> QED  BY <1>2, <1>4, <2>1, OnwardKept, Zenon
           DEF Stages, BeforeUpload, Early, Span, Capturing, Publishing
<1>5. CASE /\ Moved(c, "close")
           /\ stage[c] = "upload" => hold'[c] = "uncertain" \/ answer[c] = "definite"
  BY <1>1, <1>2, <1>5, FailKept, Zenon
<1>6. CASE Uploaded(c)
  <2>1. \/ answer[c] = "ok" /\ Moved(c, "verify")
        \/ answer[c] = "definite" /\ Moved(c, "close")
        \/ Latch(c) /\ Moved(c, "close")
    BY <1>6, Zenon DEF Uploaded, Fail, Moved, parts, uploadVars, capture, given, bucket
  <2>2. Latch(c) => hold'[c] = "uncertain"
    BY <1>1 DEF Latch, BackupTypeOK
  <2> QED  BY <1>3, <1>5, <2>1, <2>2, Zenon
<1>7. CASE VerifyPayload(c)
  <2>1. stage[c] = "verify" /\ (Moved(c, "check") \/ Moved(c, "close"))
    BY <1>7, Zenon DEF VerifyPayload, Fail, Moved, parts, uploadVars, capture, given, bucket
  <2> QED  BY <1>4, <1>5, <2>1, Zenon
<1> QED  BY <1>6, <1>7

\* The last check: nothing changed since the capture was opened, or the server
\* would be older than the change.
LEMMA CheckKept ==
  ASSUME BackupInv, [Next]_vars, NEW c \in Callback, Check(c)
  PROVE  BackupInv'
<1>1. BackupTypeOK /\ HoldSound(c) /\ CaptureSound(c) /\ stage[c] = "check"
  BY DEF BackupInv, Check
<1>2. UNCHANGED <<hold, result, kind, full, source, on, before, monitor, steady, step, answer,
                  commit, lateCommit>>
  BY DEF Check, parts, uploadVars, given, bucket
<1>3. CASE Go(c, "close") /\ UNCHANGED sound
  BY <1>1, <1>2, <1>3, FailKept, Zenon DEF Moved
<1>4. CASE Postflight(c) /\ Go(c, "commit") /\ Judge(c)
  <2>1. c \in steady /\ monitor[c] = "on" /\ Eligible(c)
    BY <1>1, <1>4, Zenon DEF CaptureSound, Postflight, Span, Publishing
  <2>2. sound' = sound \cup {c}
    BY <1>4, <2>1 DEF Judge
  <2>3. Apart(c)
    BY <1>1, <1>2, <1>4, <2>2, Zenon DEF Apart, BackupTypeOK, Go
  <2>4. BackupTypeOK'
    BY <1>1, <1>2, <1>4, Zenon DEF BackupTypeOK, Go, Stages
  <2>5. stage'[c] = "commit"
    BY <1>1, <1>4 DEF Go, BackupTypeOK
  <2>6. HoldSound(c)'
    BY <1>1, <1>2, <2>5, Zenon DEF HoldSound, BeforeUpload, Early, Capturing
  <2>7. CaptureSound(c)'
    BY <2>2, <2>5, Zenon DEF CaptureSound, Span, Early, Capturing, Publishing
  <2> QED  BY <1>2, <2>3, <2>4, <2>6, <2>7, CommitsKept, StepKept
<1> QED  BY <1>3, <1>4 DEF Check, Fail

\* commit.json is created at most once, by an attempt that passed its check.
LEMMA CommitOnce ==
  ASSUME BackupInv, NEW c \in Callback, c \in sound, Commits(c) \/ UNCHANGED commit,
         UNCHANGED <<result, object, sound>>
  PROVE  /\ commit' \in Callback \cup {None}
         /\ commit' # None => commit' \in sound'
         /\ ResultWhole'
<1>1. BackupTypeOK /\ CommitsSound
  BY DEF BackupInv
<1>2. commit' \in Callback \cup {None} /\ (commit' # None => commit' \in sound')
  BY <1>1 DEF Commits, BackupTypeOK, CommitsSound
<1>3. commit # None => commit' = commit
  BY DEF Commits
<1>4. ResultWhole'
  BY <1>1, <1>3, Zenon DEF CommitsSound, ResultWhole
<1> QED  BY <1>2, <1>4

LEMMA CommitKept ==
  ASSUME BackupInv, [Next]_vars, NEW c \in Callback, Commit(c)
  PROVE  BackupInv'
<1>1. /\ BackupTypeOK /\ HoldSound(c) /\ CommitsSound /\ stage[c] = "commit" /\ c \in sound
      /\ hold[c] # "released" /\ answer[c] = "ok"
  BY Zenon DEF BackupInv, Commit, HoldSound, CaptureSound
<1>2. /\ UNCHANGED <<result, kind, full, source, on, before, monitor, steady, sound, step, answer,
                     object>>
      /\ Go(c, "winner")
  BY DEF Commit, parts, uploadVars, capture, given
<1>3. UNCHANGED hold \/ Latch(c)
  BY DEF Commit
<1>4. lateCommit' = lateCommit \/ (Latch(c) /\ lateCommit' = lateCommit \cup {c})
  BY DEF Commit
<1>5. Commits(c) \/ UNCHANGED commit
  BY DEF Commit
<1>6. /\ commit' \in Callback \cup {None}
      /\ commit' # None => commit' \in sound'
      /\ ResultWhole'
  BY <1>1, <1>2, <1>5, CommitOnce, Zenon
<1>7. Apart(c)
  BY <1>1, <1>2, <1>3, Zenon DEF Apart, BackupTypeOK, Go, Latch
<1>8. BackupTypeOK'
  BY <1>1, <1>2, <1>3, <1>4, <1>6, Zenon DEF BackupTypeOK, Go, Latch, Stages
<1>9. stage'[c] = "winner" /\ (hold'[c] = hold[c] \/ hold'[c] = "uncertain")
  BY <1>1, <1>2, <1>3, Zenon DEF Go, Latch, BackupTypeOK
<1>10. HoldSound(c)'
  BY <1>1, <1>2, <1>9, Zenon DEF HoldSound, BeforeUpload, Early, Capturing
<1>11. CaptureSound(c)'
  BY <1>9, Zenon DEF CaptureSound, Span, Early, Capturing, Publishing
<1>12. \A d \in lateCommit' : hold'[d] = "uncertain"
  BY SMTT(30), <1>1, <1>3, <1>4 DEF CommitsSound, BackupTypeOK, Latch
<1>13. CommitsSound'
  BY <1>1, <1>2, <1>4, <1>6, <1>12, Zenon DEF CommitsSound
<1> QED  BY <1>7, <1>8, <1>10, <1>11, <1>13, StepKept

LEMMA UnwindKept ==
  ASSUME BackupInv, [Next]_vars, NEW c \in Callback, Unwind(c)
  PROVE  BackupInv'
<1>1. BackupTypeOK /\ HoldSound(c) /\ stage[c] = "close"
  BY Zenon DEF BackupInv, Unwind
<1>2. /\ UNCHANGED <<result, kind, full, source, on, sound, step, answer, commit, lateCommit>>
      /\ Go(c, "ended") /\ Forget({c})
  BY Zenon DEF Unwind, given, bucket
<1>3. \/ hold[c] = "held" /\ hold' = [hold EXCEPT ![c] = "released"]
      \/ hold[c] # "none" /\ hold' = [hold EXCEPT ![c] = "uncertain"]
      \/ hold[c] = "none" /\ UNCHANGED hold
  BY Zenon DEF Unwind, Latch
<1>4. Apart(c)
  BY <1>1, <1>2, <1>3, Zenon DEF Apart, Forget, Go, BackupTypeOK
<1>5. BackupTypeOK'
  BY <1>1, <1>2, <1>3, FirstServer, Zenon DEF BackupTypeOK, Forget, Go, Stages
<1>6. stage'[c] = "ended"
  BY <1>1, <1>2 DEF Go, BackupTypeOK
<1>7. hold[c] = "uncertain" => hold'[c] = "uncertain"
  BY <1>1, <1>3 DEF BackupTypeOK
<1>8. HoldSound(c)'
  BY <1>1, <1>2, <1>6, <1>7, Zenon DEF HoldSound, BeforeUpload, Early, Capturing
<1>9. CaptureSound(c)'
  BY <1>6, Zenon DEF CaptureSound, Span, Early, Capturing, Publishing
<1> QED  BY <1>2, <1>4, <1>5, <1>7, <1>8, <1>9, CommitsKept, StepKept, Zenon

-----------------------------------------------------------------------------
(* The environment *)

\* Whatever else changes, callbacks and commits rely on nothing but these.
LEMMA UntouchedKept ==
  ASSUME BackupInv, [Next]_vars,
         UNCHANGED <<stage, hold, result, kind, full, source, on, before, monitor, steady, sound,
                     step, answer, commit, lateCommit>>
  PROVE  BackupInv'
<1>1. BackupTypeOK'
  BY Zenon DEF BackupInv, BackupTypeOK
<1>2. ASSUME NEW c \in Callback  PROVE HoldSound(c)' /\ CaptureSound(c)'
  BY Zenon DEF BackupInv, HoldSound, CaptureSound, Eligible, EligibleFull, Age
<1>3. \A u \in Upload : object[u] => object'[u]
  BY UploadSimulated, ObjectKept, Zenon DEF BackupInv, PartsSound
<1>4. CommitsSound'
  BY <1>3, CallbackAssumption, Zenon DEF BackupInv, BackupTypeOK, CommitsSound, ResultWhole
<1> QED  BY <1>1, <1>2, <1>4, PartsKept DEF BackupInv

LEMMA ReceiveKept ==
  ASSUME BackupInv, [Next]_vars, NEW c \in Callback, NEW s \in Sidecar, Receive(c, s)
  PROVE  BackupInv'
<1>1. BackupTypeOK /\ HoldSound(c) /\ CaptureSound(c) /\ stage[c] = "new"
  BY DEF BackupInv, Receive
<1>2. /\ UNCHANGED <<hold, result, kind, full, source, before, monitor, steady, sound, step,
                     answer, commit, lateCommit>>
      /\ Go(c, "slot") /\ on' = [on EXCEPT ![c] = s]
  BY Zenon DEF Receive, parts, uploadVars, capture, given, bucket
<1>3. Apart(c)
  BY <1>1, <1>2, Zenon DEF Apart, Go, BackupTypeOK
<1>4. BackupTypeOK'
  BY <1>1, <1>2, Zenon DEF Go, BackupTypeOK, Stages, BeforeUpload, Early
<1>5. stage'[c] = "slot" /\ on'[c] \in Sidecar
  BY <1>1, <1>2, Zenon DEF Go, BackupTypeOK
<1>6. HoldSound(c)'
  BY <1>1, <1>2, <1>5, Zenon DEF HoldSound, BeforeUpload, Early
<1>7. CaptureSound(c)'
  BY <1>1, <1>2, <1>5, Zenon DEF CaptureSound, Span, Early, Capturing, Publishing
<1> QED  BY <1>2, <1>3, <1>4, <1>6, <1>7, CommitsKept, StepKept, Zenon

\* The server is older than every open capture has seen it.
LEMMA SourceKept ==
  ASSUME BackupInv, [Next]_vars, SourceChanges
  PROVE  BackupInv'
<1>1. BackupTypeOK /\ CommitsSound
  BY DEF BackupInv
<1>2. /\ UNCHANGED <<stage, hold, result, kind, full, on, before, monitor, sound, step, answer,
                     object, commit, lateCommit>>
      /\ steady' = {c \in steady : stage[c] \notin Span}
  BY DEF SourceChanges, parts, uploadVars, bucket
<1>3. source' \in Server /\ source'.postmaster > 0 /\ Age(source') > Age(source)
  <2>1. source \in Server /\ source.postmaster > 0
    BY <1>1 DEF BackupTypeOK
  <2>2. CASE source' = [source EXCEPT !.postmaster = @ + 1]
    BY SMTT(30), <2>1, <2>2 DEF Server, Age
  <2>3. CASE source' = [source EXCEPT !.settings = @ + 1]
    BY SMTT(30), <2>1, <2>3 DEF Server, Age
  <2>4. CASE source' = [source EXCEPT !.timeline = @ + 1, !.primary = TRUE]
    <3>1. source' = [postmaster |-> source.postmaster, settings |-> source.settings,
                     timeline |-> source.timeline + 1, primary |-> TRUE]
      BY <2>1, <2>4, Zenon DEF Server
    <3> QED  BY SMTT(30), <2>1, <3>1 DEF Server, Age
  <2> QED  BY <2>2, <2>3, <2>4 DEF SourceChanges
<1>4. BackupTypeOK'
  BY <1>1, <1>2, <1>3, Zenon DEF BackupTypeOK
<1>5. ASSUME NEW c \in Callback  PROVE HoldSound(c)' /\ CaptureSound(c)'
  <2>1. HoldSound(c) /\ CaptureSound(c)
    BY DEF BackupInv
  <2>2. HoldSound(c)'
    BY <1>2, <2>1, Zenon DEF HoldSound
  <2>3. /\ Age(source) \in Nat /\ Age(source') \in Nat /\ Age(before[c]) \in Nat
    BY SMTT(30), <1>1, <1>3 DEF BackupTypeOK, Server, Age
  <2>4. stage[c] \in Span => Age(before[c]) <= Age(source') /\ source' # before[c]
    <3>1. stage[c] \in Span => Age(before[c]) <= Age(source)
      BY <2>1, Zenon DEF CaptureSound
    <3>2. Age(before[c]) <= Age(source) => Age(before[c]) < Age(source')
      BY SMTT(30), <1>3, <2>3
    <3>3. Age(before[c]) < Age(source') => Age(before[c]) <= Age(source') /\ source' # before[c]
      BY SMTT(30), <2>3
    <3> QED  BY <3>1, <3>2, <3>3, Zenon
  <2>5. Eligible(c)' <=> Eligible(c)
    BY <1>2, Zenon DEF Eligible, EligibleFull
  <2>6. CaptureSound(c)'
    BY <1>2, <2>1, <2>4, <2>5, Zenon DEF CaptureSound, Age
  <2> QED  BY <2>2, <2>6
<1>6. CommitsSound'
  BY <1>1, <1>2, Zenon DEF CommitsSound, ResultWhole
<1> QED  BY <1>4, <1>5, <1>6, PartsKept DEF BackupInv

\* Lost callbacks are dead, the others do not notice.
LEMMA CrashKept ==
  ASSUME BackupInv, [Next]_vars, NEW s \in Sidecar, Crash(s)
  PROVE  BackupInv'
<1> DEFINE lost == {c \in Callback : on[c] = s /\ stage[c] # "ended"}
<1>1. BackupTypeOK /\ CommitsSound
  BY DEF BackupInv
<1>2. /\ UNCHANGED <<hold, result, kind, full, source, on, sound, commit, lateCommit>>
      /\ stage' = [c \in Callback |-> IF c \in lost THEN "dead" ELSE stage[c]]
      /\ before' = [c \in Callback |-> IF c \in lost THEN Unopened ELSE before[c]]
      /\ monitor' = [c \in Callback |-> IF c \in lost THEN "off" ELSE monitor[c]]
      /\ steady' = steady \ lost
  BY Zenon DEF Crash, Forget, given, bucket
<1>3. /\ UNCHANGED <<answer, object>>
      /\ \A c \in Callback \ lost : step'[c] = step[c]
  <2>1. CASE UNCHANGED <<step, sent, closed, phase, recorded, first, answer, late, object>>
    BY <2>1, Zenon
  <2>2. CASE \E c \in lost : Abandon(c)
    BY <2>2, CallbackAssumption, Zenon
    DEF Abandon, EndCall, BackupInv, PartsSound, UploadInv, UploadTypeOK
  <2> QED  BY <2>1, <2>2, Zenon DEF Crash
<1>4. BackupTypeOK'
  BY <1>1, <1>2, FirstServer, Zenon DEF BackupTypeOK, Stages
<1>5. ASSUME NEW c \in Callback  PROVE HoldSound(c)' /\ CaptureSound(c)'
  <2>1. HoldSound(c) /\ CaptureSound(c)
    BY DEF BackupInv
  <2>2. CASE c \in lost
    <3>1. stage'[c] = "dead" /\ on'[c] \in Sidecar /\ hold'[c] # "released"
      BY <1>2, <2>1, <2>2, Zenon DEF HoldSound
    <3>2. HoldSound(c)'
      BY <3>1, Zenon DEF HoldSound, BeforeUpload, Early, Capturing
    <3>3. CaptureSound(c)'
      BY <3>1, Zenon DEF CaptureSound, Span, Early, Capturing, Publishing
    <3> QED  BY <3>2, <3>3
  <2>3. CASE c \notin lost
    <3>1. /\ stage'[c] = stage[c] /\ before'[c] = before[c] /\ monitor'[c] = monitor[c]
          /\ step'[c] = step[c] /\ answer'[c] = answer[c] /\ (c \in steady => c \in steady')
      BY <1>2, <1>3, <2>3, Zenon
    <3>2. HoldSound(c)'
      BY <1>2, <2>1, <3>1, Zenon DEF HoldSound
    <3>3. CaptureSound(c)'
      BY <1>2, <2>1, <3>1, Zenon DEF CaptureSound, Age, Eligible, EligibleFull
    <3> QED  BY <3>2, <3>3
  <2> QED  BY <2>2, <2>3, Zenon
<1>6. CommitsSound'
  BY <1>1, <1>2, <1>3, Zenon DEF CommitsSound, ResultWhole
<1> QED  BY <1>4, <1>5, <1>6, PartsKept DEF BackupInv

LEMMA LateRequestKept ==
  ASSUME BackupInv, [Next]_vars, LateRequest
  PROVE  BackupInv'
<1>1. UNCHANGED <<stage, hold, result, kind, full, source, on, before, monitor, steady, sound>>
  BY DEF LateRequest, given, capture
<1>2. CASE (\E c \in Callback : LateLands(c)) /\ UNCHANGED <<commit, lateCommit>>
  BY <1>1, <1>2, UntouchedKept, Zenon DEF LateLands
<1>3. CASE UNCHANGED uploadVars /\ UNCHANGED <<commit, lateCommit>>
  BY <1>1, <1>3, UntouchedKept, Zenon DEF uploadVars
<1>4. CASE /\ UNCHANGED uploadVars
           /\ \E c \in lateCommit :
                /\ Commits(c) \/ UNCHANGED commit
                /\ lateCommit' = lateCommit \ {c}
  <2>1. BackupTypeOK /\ CommitsSound /\ UNCHANGED <<step, answer, object>>
    BY <1>4 DEF BackupInv, uploadVars
  <2>2. PICK c \in lateCommit : /\ Commits(c) \/ UNCHANGED commit
                                /\ lateCommit' = lateCommit \ {c}
    BY <1>4
  <2>3. c \in Callback /\ c \in sound
    BY <2>1, <2>2 DEF BackupTypeOK, CommitsSound
  <2>4. /\ commit' \in Callback \cup {None}
        /\ commit' # None => commit' \in sound'
        /\ ResultWhole'
    BY <1>1, <2>1, <2>2, <2>3, CommitOnce
  <2>5. BackupTypeOK'
    BY <1>1, <2>1, <2>2, <2>4, Zenon DEF BackupTypeOK
  <2>6. ASSUME NEW d \in Callback  PROVE HoldSound(d)' /\ CaptureSound(d)'
    BY <1>1, <2>1, Zenon DEF BackupInv, HoldSound, CaptureSound, Eligible, EligibleFull, Age
  <2>7. CommitsSound'
    BY <1>1, <2>1, <2>2, <2>4 DEF CommitsSound
  <2> QED  BY <2>5, <2>6, <2>7, PartsKept DEF BackupInv
<1> QED  BY <1>2, <1>3, <1>4, Zenon DEF LateRequest

-----------------------------------------------------------------------------

LEMMA BackupKept ==
  ASSUME BackupInv, [Next]_vars
  PROVE  BackupInv'
<1>1. ASSUME NEW c \in Callback, CallbackStep(c)  PROVE BackupInv'
  BY <1>1, TakeSlotKept, PrepareKept, AdmitKept, FreezeKept, ReplayKept, ClaimKept,
     ReadControlKept, ReadStateKept, StartCaptureKept, CaptureKept, UploadFileKept, UploadedKept,
     CheckKept, CommitKept, UnwindKept, Zenon
  DEF CallbackStep
<1>2. ASSUME NEW c \in Callback, CancelCallback(c)  PROVE BackupInv'
  BY <1>2, UntouchedKept, Zenon DEF CancelCallback, Cancel, capture, given, bucket
<1>3. ASSUME NEW s \in Sidecar, WorkspaceStep(s)  PROVE BackupInv'
  BY <1>3, UntouchedKept, Zenon DEF WorkspaceStep, uploadVars, capture, given, bucket
<1>4. ASSUME NEW a \in Archiver, ArchiverStep(a)  PROVE BackupInv'
  BY <1>4, UntouchedKept, Zenon DEF ArchiverStep, uploadVars, capture, given, bucket
<1>5. CASE UNCHANGED vars
  BY <1>5, UntouchedKept, Zenon DEF vars, parts, uploadVars, capture, given, bucket
<1> QED  BY <1>1, <1>2, <1>3, <1>4, <1>5, MonitorKept, GiveUpKept, ReceiveKept, CrashKept, SourceKept,
            LateRequestKept, Zenon
         DEF Next

\* BackupInv holds throughout.
LEMMA BackupAlways == Spec => []BackupInv
BY BackupStarts, BackupKept, PTL DEF Spec

\* However callbacks, sidecars and their native descendants interleave, a
\* serving sidecar has its scratch directory to itself (AcquireWorkspace).
THEOREM BackupWorkspaceOwned == Spec => []WorkspaceOwned
<1>1. BackupInv => WorkspaceOwned
  BY WorkspaceInvOwned DEF BackupInv, PartsSound
<1> QED  BY <1>1, BackupAlways, PTL

\* All callbacks and the archiver work in the one repository that is stored,
\* whoever created it (OpenWriter, Initialize).
THEOREM BackupOneRepository == Spec => []OneRepository
<1>1. BackupInv => OneRepository
  BY InitializationInvOne DEF BackupInv, PartsSound
<1> QED  BY <1>1, BackupAlways, PTL

\* A hold that was given up leaves no request of its callback behind: publish
\* latches the hold before Hold.Close whenever an answer is missing.
THEOREM BackupReleasedSettled == Spec => []ReleasedSettled
<1>1. BackupInv => ReleasedSettled
  <2> SUFFICES ASSUME BackupInv, NEW c \in Callback, hold[c] = "released"
               PROVE  ~Open(c) /\ c \notin lateCommit
    BY DEF ReleasedSettled
  <2>1. HoldSound(c) /\ CommitsSound /\ c \in Upload /\ UploadSound(c) /\ UploadTypeOK
    BY CallbackAssumption DEF BackupInv, PartsSound, UploadInv
  <2>2. step[c] = "new" \/ answer[c] \in {"ok", "definite"}
    BY <2>1, Zenon DEF HoldSound
  <2>3. Gone(c) /\ late[c] = {}
    BY <2>1, <2>2, Zenon DEF UploadSound, UploadTypeOK
  <2> QED  BY <2>1, <2>3, Zenon DEF Open, Gone, CommitsSound
<1> QED  BY <1>1, BackupAlways, PTL

\* A committed capture saw one unchanged primary, whose full it matches, from
\* OpenCapture to the check that precedes commit.json (Postflight, Publish).
THEOREM BackupCommitSound == Spec => []CommitSound
<1>1. BackupInv => CommitSound
  BY DEF BackupInv, CommitsSound, CommitSound
<1> QED  BY <1>1, BackupAlways, PTL

\* Every successful answer names the one committed attempt, whose payload is
\* whole (replay, verifyWinner).
THEOREM BackupResultWhole == Spec => []ResultWhole
<1>1. BackupInv => ResultWhole
  BY DEF BackupInv, CommitsSound
<1> QED  BY <1>1, BackupAlways, PTL

\* In the callback too, the multipart upload keeps the contract of a single
\* mutation (UploadFile).
THEOREM BackupUploadIsMutation == Spec => UploadIsMutation
<1>1. Init => Contract!MutationInit
  BY ContractInitially DEF Init
<1>2. BackupInv /\ [Next]_vars => [Contract!MutationNext]_(Contract!mutationVars)
  BY UploadSimulated, ContractStep DEF BackupInv, PartsSound
<1> QED  BY <1>1, <1>2, BackupAlways, PTL DEF Spec, UploadIsMutation, Contract!MutationSpec
=============================================================================
