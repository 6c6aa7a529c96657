# Verification of cnpg_backup

TLA+ models of the concurrent and failure-prone parts of cnpg_backup, the TLC
configurations that check them on small instances, and TLAPS proofs of their
safety properties for instances of any size.
`PROJECT.json` maps every definition to the lines it models and lists runs,
mutants, findings, hazards and theorems.

## 1. The system

cnpg_backup is a CloudNativePG plugin. A *manager* serves lifecycle hooks and
runs background loops; a *sidecar* in each PostgreSQL Pod serves the Backup and
WAL callbacks, in a recovery Pod the Restore callback; a *recovery guard* is
process 1 of a recovery container. They share an S3 bucket prefix, the
*repository*, and communicate through it, through Kubernetes objects and
through locks and marker files on the volumes. No database or lease service
exists: all coordination is by conditional PUTs, resource versions and flocks.

| Part | State | Operations | Interacts with |
|---|---|---|---|
| Gate (`repository/gate.go`) | `gate.json`: generation, holders, owner; handles in memory with an `uncertain` latch | admit, check, close; establish and release a lifetime; acquire and close GC | every process that uses the repository |
| Publication (`publication.go`, `differential.go`) | request, claim, payload objects, commit of a Backup UID | begin, begin differential, publish, replay of the winner | gate, GC |
| GC (`gc.go`, `retention_inventory.go`) | plan object, retirements, deletions, aborted uploads, WAL tombstones | inventory, cleanup discovery, execute, close | gate, publication, WAL |
| WAL (`wal/wal.go`, `cnpgi/wal.go`, `recovery_wal.go`) | one object per name; one shared restore directory | archive, retrieve, restore | GC tombstones; no gate |
| Recovery guard (`recoveryguard`) and restore callback (`cnpgi/restore.go`) | flock and marker per volume, session, admission of tasks, source hold | acquire, begin, run, drain, release; restore, fetch | gate (reader holder), sidecar |
| Recovery operation (`cnpgi/recovery_operation.go`, `recovery_reconcile.go`) | ConfigMap, lifetime holder, in-memory monitors | hook, observe, close, release, reconcile | Kubernetes, gate (lifetime holder) |
| Recovery plan (`cnpgi/recovery_plan.go`) and materialisation (`postgres/restore*.go`) | `recovery.json` on the target volume; the targets | select, save, read again, write, verify, sync | guard, catalog |
| Backup callback (`cnpgi/backup.go`) and capture (`postgres/capture.go`) | capture slot, hold, recorded server state, capacity monitor | take the slot, open, admit, replay, capture, publish, unwind | gate, publication, PostgreSQL, workspace |
| Native workspace (`postgres/workspace.go`, `command.go`) | `native.lock`, `native.owner`, scratch directory | acquire, run a tool, reap | native descendants across restarts |
| Repository initialisation (`repository.go`, `writer.go`, `s3store/checks.go`) | `repository.json`, the first `gate.json`, probes | open, probe, create, reopen | backup and WAL callbacks |
| Repository status (`cnpgi/status.go`, `retention.go`) | the status subresource under its resourceVersion | check and report, run retention and record, warn | Kubernetes, retention |
| Retention (`retention`) and target resolution (`repository/recovery.go`, `plan.go`, `coverage.go`) | the catalog and the WAL names | plan, run a batch; resolve, select, classify absence | GC, restore |
| Backup failure metrics (`cnpgi/backup_*.go`) | observed Backups, work queue, series | observe, process, count; list, prune | Kubernetes |
| Object store client (`s3store`) | none of its own | conditional PUT, multipart upload, delete, classify | all of the above |

What makes it hard: a mutation whose answer is lost may be applied at any later
time; a process may die between any two requests; holders never expire; two
managers, callbacks or guards may overlap during a restart; watches repeat,
merge and lose events; batches stop anywhere. The `hazards` of `PROJECT.json`
place each of these at its line, with the property that covers it or a note.


## 2. Modules

    AdmissionLock   what the gate promises: an atomic shared/exclusive lock
      Gate          the compare-and-swap protocol that implements it
        GateProofs  its invariant, the steps that keep it, the theorems
      Repository    publication, restore reads and GC on top of the lock
        RepositoryProofs
    WalArchive      archive, restore and retire of WAL files
      WalProofs
    RecoveryGuard   ownership of target volumes, sidecar sessions
      Bootstrap     RecoveryGuard with the plan file and the materialisation
        GuardProofs the theorems about both
    RecoveryOperation  the manager's durable protection of a recovery
      OperationProofs
    BackupMetrics   failure counter and pruning pass
      MetricsProofs
    RepositoryStatus   the two writers of a Repository's status: when retention runs
    Retention       planner and batches, what it may take, against what a restore needs
      RetentionProofs  the theorems about both
    Mutation        what one object-store mutation promises its caller
      Multipart     the parallel upload that implements it
    NativeWorkspace the scratch volume across sidecar incarnations
    Initialization  opening and first creation of a repository
      Backup        the Backup callback, composed of the last three
        BackupProofs  the theorems about the three parts and the whole

`MC*` modules only define the functions their configurations need.

**Conventions.** A client (or producer, guard, manager incarnation) is one
process or one call with fresh identifiers; a retry or a restart is another
one. Code between two requests to a shared service runs as part of the next
step. A mutation is dispatched once and is applied, rejected, or *ambiguous*:
then it was applied, is in the variable `late` and may be applied at any later
step, or is lost. A crash is an action, or the client simply takes no further
step (`Repository`, where nothing forces a step). Definitions introduced as
"Faulty variant" are plausible bugs; they are never used by a specification and
exist so that each property can be seen to fail.

### Gate and AdmissionLock
`gate` is the content of `gate.json`; `If-Match` is equality with the content
read, since the ETag is a digest of it. `call[c]` is the frame of `changeGate`:
the round, the barrier flag and the PUT on its way. `Read` runs the closure
(`AlreadyDone`, `Refused`, `Edit`), `PutApplied`, `PutRejected`, `PutAmbiguous`
and `PutFails` are the branches after the PUT. `Ask` and `Close` begin
admission and release; `LatchUncertain` stands for a mutation of the handle's
owner that had no answer. `HoldCheck` and `OwnerCheck` are `Hold.check` and
`GCOwner.check`. The random nonce of a holder is not modelled: identifiers are
already distinct. A reader of a restore asks only after the manager established
the lifetime of its operation, which is the order RecoveryOperation enforces.

The generation alone makes every content unique, so a late PUT is dead once
anything else was applied; the no-op barrier is not needed for these safety
properties, it only shortens the time an earlier PUT can stay alive.

### Repository
The bucket is one record `store`. A producer goes through `choose` (the root of
a differential), `request`, `claim`, its `Parts`, `verify`, `commit`, `winner`;
every stage is one request of `begin` or `publish` with its early returns and
latches. A collector inventories, decides (`Decide`: expired backups in planner
order, conclusive garbage, then WAL below the floor, cut to `MaxVictims`),
persists its plan, and destroys victim by victim in the order `Due`. `Execute`
validates the whole plan once, before it is persisted (`ValidPlan`, with
`validateVictim` for each victim): defence in depth, no plan of `Decide` fails
it. `Destroy` does not look again; the gate is what keeps the answer true. The
wall-clock and request
budgets are a batch that stops after any victim. The gate is `AdmissionLock`,
which `Gate` is shown to implement. Which backups a policy expires is left
open here (any set closed under `Keeps`); Retention models the policy. Each
attempt has its own start in the WAL (`StartOf`). The capture runs after the
admission and the position of a cluster's WAL only grows, so an attempt does not
start before a backup that was committed when it was admitted (`StartsLast`).

### WalArchive
One object per name: nothing, bytes, or a tombstone. An archive callback PUTs
with `If-None-Match`, whatever the answer, reads back and compares. A restore
callback takes the directory lock, recreates the one temporary name, downloads
into its inode, renames. A recovery callback falls back to the bundled file or
to "absent" as `restoreSourceWAL` does. `Head` and `Confirm` are the two
requests behind absence. Compression and page checks are
one comparison of bytes. An archiver that offers a retired name again fails for
ever (`ErrExpired`), as in the code.

### RecoveryGuard
A guard locks, checks and marks its volumes one at a time in UID order,
connects, begins, runs its child, reaps descendants, drains, unlinks. A sidecar
has one session, an `Admission` (closed flag, tasks, the drained channel), one
bootstrap attempt and the source hold. `Torn` is a marker that was created and
not completely written. Locks vanish with the process, markers do not. Drain
checks that the Admission is open and closes it in two critical sections
(`AcceptDrain`, `CloseForDrain`); the deferred Close of a bootstrap that fails
may run before, between or after them, and only before them does it refuse the
Drain.

### Bootstrap
The steps of RecoveryGuard, with `bootstrap` in full. `plan` is `recovery.json`
as a process reads it and `durable` what a crash of the node would leave of it;
they differ between the rename and the directory sync of `saveRecovery`, which
are steps of their own for both plans; a crash in between may keep either file.
`Select` takes the chain of an existing file and resolves only without one.
`target` is what the target roots hold, by whom, of which chain, and whether it
is partial, whole or synced, and `disk` what of it is synced; `WriteTargets`
requires them empty (`emptyRestoreRoot`). A failure after the boundary is
RecoveryGuard's `RestoreFails`, with its closed Admission. `MainClears` is
external: before it calls Restore, CNPG's main command renames or removes a
PGDATA and a WAL directory that it finds (`docs/design.md:60`,
`docs/research/cnpg.md:39`), completely or with tablespaces left over, and does
not sync that. So a retry may find the targets empty again, fill them and
succeed. `NodeCrash` takes every process and leaves of what is not synced,
written or removed, any part or nothing. Markers are synced when they are
written (`Torn` otherwise), so a crash keeps them. The copy of the plan for the
helper is on the Pod's own volume and has no state here; replay on top of the
base backup is not modelled.

### Mutation and Multipart
`Mutation` is the contract behind `Error.Ambiguous`: "ok" has made its object
and left nothing behind, "definite" has made and will make none, "ambiguous"
promises nothing. `Multipart` is `UploadFile`: the sender on the unbuffered
channel, the workers, the error kept under the mutex (`Merge`), the join and the
completion. The parts are a count, since every part has its own worker step and
any missing part makes the completion fail. `UploadIsMutation` is the
refinement: an upload is open when a request is late or a worker has one on its
way.

### NativeWorkspace
A sidecar is one incarnation of the container's process 1. The flock belongs to
the open file description, which the native tools inherit, so `Die` frees it
only when no descendant is left. `runNative` kills and reaps the process group;
a descendant that left the group is `detached` and is noticed only once the
sidecar is dead. The owner file is created and written in two steps, and a death
in between leaves an empty marker that no Pod matches.

### Initialization
An opener is one call of `OpenSource` and, if that finds nothing, `OpenWriter`.
The openers differ only in the creation time, which names the identity.
`CheckConditions` is the fixed sequence of probes evaluated against a store that
has some of the six `Features` the protocol needs; `OneRepository` then says
that a repository is only ever opened on a store that has them all. Creations
may be applied late.

### Backup
The Backup callback from request to deferred functions. It uses the actions of
NativeWorkspace (`StartTool`, `Reap`), Initialization (`OpenWriter`) and
Multipart (`UploadStep`) as its own steps. `source` is what Postflight compares:
postmaster, settings, timeline, role. `before` is what `OpenCapture` recorded,
first from the control file and then from the server. `monitor` is the capacity
monitor of the capture, whose verdict the deferred receive reads last. All
callbacks have the same UID; the hold of each is its own handle, and who may be
admitted is the gate's business (module Gate). A payload is one artifact.
Replay, claim, commit and winner are those of Repository, from the callback's
side: what Repository takes as given (the ambiguity of a whole upload, a capture
that is sound) is established here. `steady` and `sound` are history variables.

### RepositoryStatus
A pass reads the object, works, and PATCHes the whole status under the
resourceVersion it read, so a write ends every other pass that has read: the API
server can only refuse it. The pages of a continued LIST are of its first
moment: the checker has its object from `Snapshot` and takes it up, with the
time of that moment, in `List`. It reads the spec apart from the object
whose version guards its PATCH; retention decodes its configuration first and
compares it with the object. A hash is the generation it was computed from. The
wording of conditions, the counters of a batch and events' contents are left
out; the batch itself is Retention and Repository.

### RecoveryOperation
`cm` is the ConfigMap with a version; an update needs the version it read and
may be late. The hook, the observer and the reconciler of each manager are
separate processes. The GET before an update is its own step exactly when
something happens in between; a GET immediately followed by its update is one
step. Pod events are delivered late and in order; `alive` are the processes that
may still read, whatever the API says of their Pods. The Job is created once.
The source configuration is assumed not to change during the recovery
(otherwise the reconciler refuses to release, `recovery_reconcile.go:85`).

### Retention
A PostgreSQL cluster writes WAL, archives complete segments in order, takes
full and differential backups and is promoted at any LSN, inside a segment too.
`Keep`, `Expire`, `WalFloor` and `Plannable` are `retention.Plan`; `Retain` is a
batch of `Run` that stops anywhere. `Resolved`, `Eligible`, `AbsentSegment` are
`Resolve`, `Select` and `Coverage`/`optionalFuture`. LSNs are counted in units
with `SegmentBytes` = 2, so that there is a middle of a segment. Left out:
`FirstRequired` (the manager never sets it), the immediate and LSN targets, the
start LSN next to the redo point (`start` is the lower of both). The planner's
anchor is completed at or before the cutoff while a time target needs a backup
that stopped strictly before it: the window promise is for times after the
cutoff. Its definitions carry the component's name (`RetentionSpec`,
`retentionVars`) because one proof module extends it and RepositoryStatus.

### BackupMetrics
Informer events, `observe`, `deleted`, the two critical sections of `process`
with the API request between them, the series, and the pass of
`runBackupHistory` (one page per tick, pruning after the last). `configure` and
`failure` are one step (no reader in between can tell). Freshness and warning
events are left out. UIDs do not influence each other, so
one Backup is checked; the proof is for any number.

## 3. Runs

| Run | Shows | Instance |
|---|---|---|
| `gate` | handles stay valid, uncertain ones block, released ones never return, and the protocol implements `AdmissionLock` | a lifetime, a reader, a collection; 5 generations, 3 rounds, 1 late PUT; the generation limit and the end of the rounds are reached |
| `repository_race` | live backups and their parents are complete, all callbacks of a UID report the same winner, released handles have nothing in flight | 2 published fulls, 2 callbacks for one differential that may choose different roots, 2 collections with 2 victims a batch, one object per attempt |
| `repository_restore` | a selection survives, WAL outlives its backups | a published full, a full and a differential being published, two objects per attempt, a reader, a collection with 2 victims a batch |
| `wal_race` | acknowledged WAL is durable, absence is authentic, published files are whole | 2 archivers with different bytes, 2 restores, a retirement, one name |
| `guard_restarts` | a writer's volumes are marked, poisoned targets stay so, the hold spans the tasks; the plan is frozen before anything is written, and targets that are reported ready, or called restored by the durable plan, hold one whole, durable chain of one attempt | module Bootstrap: 2 guards, 2 sidecars, 2 volumes, 2 tasks, 2 chains, 1 crash of the node |
| `guard_native` | finding A | RecoveryGuard alone, two Pods |
| `operation_observe` | readers are protected, closed operations stay closed, no observation starts late | 2 managers, a Pod and its retry, 1 crash, 2 faults |
| `operation_release` | a completed recovery is released | one Pod; fairness |
| `retention` | chains, the window and the plan survive any batch; absence is classified | 3 backups, 2 timelines, LSN and time up to 3 |
| `metrics_count` | a failure is counted exactly once | one Backup, 2 Repositories, 2 starts, 2 faults; fairness |
| `backup` | the workspace has one owner, openers agree on one repository, a released hold has no request open, commits are of sound captures, answers name the one whole attempt, an upload is one mutation, callbacks return | 2 calls for one UID, a sidecar and its restart, the WAL archiver, 2 part workers, 3 parts and 1, one change of the source, a store that has all features or one that ignores `If-Match`; fairness |
| `status` | each part of the status describes the generation it names, recorded runs and warnings are spaced across managers, edits are reported once nothing disturbs the passes | the retention loops of 2 managers, one status loop, 2 generations, 3 ticks; fairness |

**Bounds.** Each bound is a constant and is large enough for the case it is
about: 5 generations are admission, barrier, release and two foreign changes
around one late PUT; one late PUT at a time is what the protocol must survive
(the theorems drop all of these bounds); two victims a batch force truncation
between any two kinds of victims; two managers with one crash are a restart;
LSN 3 with segments of 2 has a fork before, at, inside and after a segment (the
same instance with LSN 4 passes too, in four minutes). Three parts for two
workers make one worker take a second part while the other fails; the second
call's single part is the smallest upload. Two sidecars are a restart, two
chains a backup published between two attempts. The `backup` run has one Pod,
and a prefix nobody has used meets only a differential, which finds no full and
stores no object. Both are covered by theorems: `WorkspaceIsOwned` is about any
number of Pods, and `InitializationOneRepository` about first objects that
follow any creation. Values the code fixes
(10 rounds, 1024 holders, 128 victims, 4 tasks) are constants. Deadlock is
not checked, since every instance ends when its processes have ended. Symmetry
is used only between interchangeable processes and only for safety.

**Reductions.** In Backup a cancelled context is recorded only while part
workers run, where it changes what they do; everywhere else each step may fail
anyway, which is all a cancelled context does, and the slot's `select` has its
own action `GiveUp`. A change of the source is taken only when some capture is
open or about to look. In RepositoryStatus a pass that can only be refused ends
at once; the batch such a pass may still carry out is Repository's matter, and
nothing of it reaches the status. None of these hides a state from a property:
what is dropped differs only in variables nobody reads.

**Fairness.** `operation_release`: weak fairness of each manager's reconciler
while it runs (`runRecoveryOperations` is a ticker loop), with finitely many
faults and with one manager that survives. `metrics_count`: weak fairness of
informer delivery and of the worker's steps, strong fairness of taking a UID
from the work queue (client-go's queue is FIFO and the limiter's delay bounded).
`backup`: weak fairness of each running callback, because `Backup` puts a
deadline on every request and every native tool it waits for; nothing is assumed
of the store, the source or a restart. `status`: weak fairness of each status
loop (a five-second ticker, thirty seconds for a pass) and nothing more.
Retention may write every second while it has work (`cnpgi/retention.go:129`),
a page may be stale, a PATCH may be refused each time: the code drops the error
and promises nothing then. `ConfigurationReported` therefore assumes that these
disturbances (`Disturbs`) end at some time and claims that the status then comes
to report the spec, from whatever state they left.
Nothing else is assumed fair. That a failed admission may leave a holder that
blocks collection for ever is accepted by the design, so no liveness of
collections is claimed.

## 4. Findings and observations

- **A** (`guard_native`, `cnpgi/restore.go:313`). `docs/design.md:66` says that
  an uncertain native failure leaves the markers. Once Drain has found the
  Admission open (`recoveryguard/session.go:144`), the Close of a failing
  materialisation no longer refuses it, whether it runs before Drain's own Close
  or after: the session drains, and the guard removes the markers of a partial
  base backup. `PoisonedStaysMarked` is what does hold: a failure before the
  session accepted a Drain keeps them. And `TargetsWhole` holds all the same:
  a later attempt fails on targets that are not empty, or CNPG has cleared them
  and it writes them anew, of the chain of the plan.

Three more were seen while modelling and have no run of their own:

- `cnpgi/recovery_operation.go:115`: a hook that read the operation as active
  can re-establish the lifetime holder after it was released; the metric then
  reports that nothing is pending while the source stays protected. Safe, but
  never undone.
- `cnpgi/backup_history.go:129`: the end of a pass deletes the series, and the
  failures in it, of a Cluster configured after the pass began.
  `docs/backup-monitoring.md` also says that resets have ordinary Prometheus
  semantics, so this is a divergence of wording, not data loss.
- `cnpgi/retention.go:25`: `operationID` has `omitempty` and the status is sent
  as a merge PATCH, so the operation of an earlier batch stays in the status
  when the new one has none.

## 5. Proofs

All theorems hold for any sets of processes and any bounds.

**Gate** (`GateProofs`). From `ClientAssumption`
(the kinds of clients are disjoint, readers have a lifetime) and
`BoundAssumption` (bounds are natural numbers): `GateHandleBacked`,
`GateStuckBlocks`, `GateNoGhost`, `GateFenced`, and `GateImplementsLock`, the
refinement of `AdmissionLock`. None of the properties is inductive: they say
nothing of PUTs on their way. The inductive invariant `IInv` adds
`OwnerExcludes` (owner or holders, never both), `PutsSound` (every PUT on its
way was computed from the current or from an older generation; if it can still
be applied, it is a barrier, the admission of a client that still asks, or the
removal of one that is giving up), `SentByStage`, `Idle`, `Acknowledged`,
`LifetimeSpans`, and which clients can be uncertain or in a lifetime. There is
one lemma per action; `Applied` and `AppliedMarks` say once what applying a PUT
does, whoever waits for it. `LockStep` maps each step to a step of the lock or
to a stutter.

**Parts of the callback** (`BackupProofs`). `WorkspaceIsOwned`: the invariant says that only the
holder of the flock has got past it, that native processes keep it locked, and
which Pod the marker names at each step of the acquisition. `UploadSettled` and
`UploadKeepsContract`: the invariant ties the kept error to what may be late (a
late request means an ambiguous error, an ambiguous answer or a dead call) and
allows no worker after the join. `InitializationOneRepository`: the identity
never changes once it is stored, an opener that got past `createExact` expects
the stored one, and got past `CheckConditions` only on a store with all
features.

**Backup** (`BackupProofs`). `WorkspaceSimulated`, `UploadSimulated` and
`OpeningSimulated` show that every step of Backup is a step or a stutter of each
part, so that the parts' invariants and the refinement carry over
(`BackupWorkspaceOwned`, `BackupOneRepository`, `BackupUploadIsMutation`). On
top of them the invariant `BackupInv` adds `HoldSound` (a hold that is still
certain has nothing late: its upload's answer and its commit were conclusive),
`CaptureSound` (a capture past its opening recorded a primary, and if it is no
longer steady then the server differs from the record) and `CommitsSound` (what
is or may still become the commit is a judged attempt with its object). From it
follow `BackupReleasedSettled`, `BackupCommitSound` and `BackupResultWhole`.

**RepositoryStatus** (`RetentionProofs`, last part). The invariant says of each pass that has
read the object that the status it carries is the current one or one it computed
from it, and that its generation is the current one; `StatusIsCoherent`,
`RunsAreSpaced` and `WarningsAreApart` follow.

**Retention** (`RetentionProofs`). From `PolicyAssumption` (the sizes are natural
numbers, a segment is not empty, the minimum is at least one):
`ChainsStayWhole`, `RetentionWindowKept`, `RetentionPlanStable`,
`RestoreAbsenceClassified`, and two facts that no run checks:
`RetentionRootsKept` (a batch leaves the minimum of full roots on every path, or
all it had) and `RetentionBatchesOrdered` (the batches have the form that
Repository's collectors take).

The state invariant `RetentionInv` is small: a path ends with its own timeline
and names none twice, archived segments lie below `MaxLSN`, a parent is a full,
and `ChainsWhole`. The work is in the planner's operators. `NewestIs`,
`OldestIs`, `MaxIs`, `MinIs` and `ExpireIs` show that each `CHOOSE` finds what it
is meant to; they rest on `FirstExists` and `SortExists`, which replace induction
on the size of a set by a minimal counterexample (`MinimalMember`: strict
inclusion is well-founded on finite sets). `KeepOnStays` is the core: over any set
between what a path kept and what there was, the path keeps the same. The
newest and the oldest stay the newest and the oldest, and for the minimum of
roots (`RootsStay`) a full that was left out had enough newer ones, all still
there. `FloorIsLow` covers the WAL: the current timeline ends every path it is
on, so replay enters it at the floor or above. `SelectedIsKept` ties the planner
to Select: the newest backup that stopped before a time after the cutoff is
inside the window or is the anchor. `AbsenceIs` is arithmetic on one path.

**WalArchive** (`WalProofs`). `WalAckedDurable`, `WalAbsenceAuthentic` and
`WalPublishedVerified`, from `CallbackAssumption` (archivers, restorers and
victims are different callbacks; the markers `None` and `Retired` are no
contents) and `PlanAssumption`. The properties say nothing of requests on their
way or of the temporary file, so `WalInv` adds: every PUT on its way is a
creation or a retirement, hence a name only goes from nothing to bytes to a
tombstone; what HEAD announced is still there or retired; one restorer is past
the directory lock, the temporary name is its own inode until the rename, and an
inode under a final name has no writer.

**RecoveryGuard and Bootstrap** (`GuardProofs`). Theorems about `BootSpec`,
which contains the guard's steps. `GuardInv` says which markers a guard has at
each stage, that children run only below a marked guard, and that a guard which
removes its markers has a sidecar whose Admission is closed, whose tasks are
done and whose hold is not held. It does not mention the locks: the markers alone
carry the argument, the locks make a second guard fail early. So all active
tasks belong to one session (`ActiveMarked`), and one attempt at a time touches
the plan and the targets. `BootInv` adds what that attempt has established at
each step (`AttemptSound`), that both plans name the chain on the targets and
`disk` (`PlansSound`), and that an attempt which is ready, or called restored by
a plan, left synced targets of its own as long as no other guard was given them
(`ClaimSound`). The last must speak of the plan that is not synced yet as well,
since a crash may keep it. `GuardWriterMarked`, `GuardPoisonedStaysMarked`,
`GuardReaderSpansTasks`, `BootPlanFrozen` and `BootTargetsWhole` follow.

**Repository** (`RepositoryProofs`). Every mutation that is applied, at once or
late, either grows the bucket under a producer's hold (`Grow`) or shrinks it
under a collector's ownership (`Shrink`); the lock keeps the two apart, and
`LateSound` says that whoever has a mutation under way is uncertain and still
inside. So what a producer has verified is true when its commit arrives
(`Ready`), and each victim of a collector is harmless when it goes: no live
backup names it (`CollectorSound`, `Harmless`). For the WAL the invariant keeps
that a missing segment is below the start of some commit (`FloorSound`), and
`StartsLast` makes later attempts start above it. From `RepInv` follow
`RepositoryLiveBackupIntact`, `RepositoryResultIsCommit`,
`RepositorySelectionHeld`, `RepositoryCleanlyDrained` and `RepositoryWalKept`,
for any batch limit. The lock's steps enter as those of `AdmissionLock`, which
`GateImplementsLock` justifies.

**RecoveryOperation** (`OperationProofs`). `OperationReadersProtected`,
`OperationClosedStays` and `OperationObservationFromStart`; the last two are
action properties. `OpInv` joins three arguments. An update on its way was
computed from one version of the ConfigMap and is a legal change of it, or is
dead. Only the recorded observer gets past the hook's first read, and while the
operation is active it remembers that it let the Job go, so no watch starts
later. And who writes "completed" has seen every Pod there ever was: no Pod is
created after one that succeeded, and the watch has caught up with that one.

**BackupMetrics** (`MetricsProofs`). `MetricsCountedOnce` and
`MetricsStartupNotCounted`. The observation is the only memory of what was
counted, and a deletion erases it; `MetInv` therefore follows the informer's
order: a deletion is followed by nothing but deletions, a Backup that was or is
being counted is `Settled` or `Finished`, and of a Backup that had failed at
startup the first event still unread says so.

Each of these invariants was checked by TLC on the component's instance before
it was proved. Assumptions on constants say that kinds of processes are
disjoint, that `None` is not one of them, and that bounds are natural numbers;
TLC evaluates them in every run.

**Only model-checked.** All liveness (`CompletedReleased`, `FailureCounted`,
`CallbackReturns`, `ConfigurationReported`): fairness and ENABLED are out of the
prover's reach. Every safety property that a passing run checks is also a
theorem. The models avoid RECURSIVE operators, and where a proof needs induction
over data it uses a minimal counterexample, as in Retention.

## 6. Not modelled

- Configuration, placement, byte budgets, schema and strict decoding, native
  byte formats (manifest, tar, label, control data): sequential functions of
  their input, covered by ordinary tests; a model would repeat them.
- Transport, TLS, listing and the bucket's policy checks: protocol plumbing. A
  list is an atomic read of the keys.
- Catalog readers: read-only; the models start from what they accept.
- What `pg_basebackup`, `pg_combinebackup` and `pg_verifybackup` do: external. A
  capture or a materialisation succeeds or fails.
- Gauges of recovery and retention metrics: computed from state that is
  modelled, without state of their own.
- The immediate and LSN targets of a restore and the freshness gauge.
- The composition of RecoveryOperation and RecoveryGuard with the gate: each
  takes the hold as a handle, and Gate shows what a handle is worth.
