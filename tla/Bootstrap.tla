----------------------------- MODULE Bootstrap -----------------------------
(***************************************************************************)
(* The protected restore inside a guarded session (bootstrap of            *)
(* internal/cnpgi/restore.go, saveRecovery and readRecovery of             *)
(* recovery_plan.go, RestoreFull of internal/postgres), composed with the  *)
(* guards and sidecars of RecoveryGuard.                                   *)
(*                                                                         *)
(* An attempt freezes the chain it restores in a plan file on the target   *)
(* volume before it writes anything else there.  A later attempt of the    *)
(* same operation (the Job's retry Pod, or containers that restarted)      *)
(* takes the chain of the file, however many backups were published in the *)
(* meantime.  A rename, a removal and what is written to the targets are   *)
(* sure to survive a crash of the node only when they were synced.         *)
(*                                                                         *)
(* The target records the base backup an attempt puts there; what          *)
(* PostgreSQL replays on top of it is not modelled.                        *)
(***************************************************************************)
EXTENDS RecoveryGuard

CONSTANTS MaxBackups,   \* chains that get published
          MaxCrashes    \* crashes of the node

ASSUME BootstrapAssumption == MaxBackups \in Nat \ {0} /\ MaxCrashes \in Nat

VARIABLES newest,    \* the chain that Resolve would choose now
          plan,      \* recovery.json of the operation, as a process sees it
          durable,   \* the same after a crash of the node
          target,    \* PGDATA, the WAL directory and the tablespaces
          disk,      \* what of them is synced
          step,      \* where each attempt is in bootstrap
          choice,    \* the chain it restores
          crashes

files == <<newest, plan, durable, target, disk, crashes>>
attempts == <<step, choice>>
bootVars == <<vars, files, attempts>>

\* The chain, the sidecar of RecoveryPlan.Tuple, and whether it has restored.
NoPlan == [chain |-> 0, by |-> None, materialized |-> FALSE]
Plan(c, s, m) == [chain |-> c, by |-> s, materialized |-> m]
EmptyTarget == [by |-> {}, chain |-> 0, state |-> "empty"]

BootInit ==
  /\ Init
  /\ newest = 1
  /\ plan = NoPlan /\ durable = NoPlan
  /\ target = EmptyTarget /\ disk = EmptyTarget
  /\ step = [s \in Sidecar |-> "none"]
  /\ choice = [s \in Sidecar |-> 0]
  /\ crashes = 0

\* The attempt of s goes from step a to step b, in restore state r.
Stage(s, r, a, b) ==
  /\ restore[s] = r /\ control[s] # "dead" /\ step[s] = a
  /\ step' = [step EXCEPT ![s] = b]
-----------------------------------------------------------------------------
(* protected-selection and durable-plan *)

\* Faulty variant: every attempt resolves its target again.
SelectNewest(s) ==
  /\ Stage(s, "held", "none", "selected")
  /\ choice' = [choice EXCEPT ![s] = newest]
  /\ UNCHANGED <<vars, files>>

\* readRecovery: the chain of an earlier attempt is validated and kept; Resolve
\* chooses only when there is no file.
Select(s) ==
  /\ Stage(s, "held", "none", "selected")
  /\ choice' = [choice EXCEPT ![s] = IF plan = NoPlan THEN newest ELSE plan.chain]
  /\ UNCHANGED <<vars, files>>

\* saveRecovery up to the rename of the synced temporary file.
Rename(s, m) ==
  /\ plan' = Plan(choice[s], s, m)
  /\ UNCHANGED <<vars, newest, durable, target, disk, choice, crashes>>

\* The sync of its directory; the copy for the helper follows on its own volume.
SyncRename ==
  /\ durable' = plan
  /\ UNCHANGED <<vars, newest, plan, target, disk, choice, crashes>>

RenamePlan(s) == Stage(s, "held", "selected", "renamed") /\ Rename(s, FALSE)
SyncPlan(s) == Stage(s, "held", "renamed", "saved") /\ SyncRename
-----------------------------------------------------------------------------
(* native-materialization: RestoreFull *)

\* The boundary after which a failure closes the Admission.  The inputs are
\* downloaded and verified in the workspace first.
BeginMaterialize(s) ==
  /\ Stage(s, "held", "saved", "input")
  /\ Materialize(s)
  /\ UNCHANGED <<files, choice>>

\* Faulty variant: the first write does not look at what is there.
WriteOver(s) ==
  /\ Stage(s, "native", "input", "writing")
  /\ target' = [by |-> target.by \cup {s}, chain |-> choice[s], state |-> "partial"]
  /\ UNCHANGED <<vars, newest, plan, durable, disk, choice, crashes>>

\* extractOriginal or combineOriginals, once emptyRestoreRoot has found every
\* target root empty; otherwise the attempt can only fail.
WriteTargets(s) ==
  /\ Stage(s, "native", "input", "writing")
  /\ target = EmptyTarget
  /\ target' = [by |-> {s}, chain |-> choice[s], state |-> "partial"]
  /\ UNCHANGED <<vars, newest, plan, durable, disk, choice, crashes>>

\* pg_verifybackup and pg_waldump accept the output.
Verified(s) ==
  /\ Stage(s, "native", "writing", "verified")
  /\ target' = [target EXCEPT !.state = "whole"]
  /\ UNCHANGED <<vars, newest, plan, durable, disk, choice, crashes>>

\* finish: syncRestoreTree on every target and on the directory that holds it.
Finish(s) ==
  /\ Stage(s, "native", "verified", "finished")
  /\ target' = [target EXCEPT !.state = "synced"] /\ disk' = target'
  /\ UNCHANGED <<vars, newest, plan, durable, choice, crashes>>

\* materialized-plan: saveRecovery once more, first for the targets, then the
\* helper's copy, with which the attempt is complete.
RenameMaterialized(s) == Stage(s, "native", "finished", "reported") /\ Rename(s, TRUE)
SyncMaterialized(s) == Stage(s, "native", "reported", "recorded") /\ SyncRename

Complete(s) ==
  /\ Stage(s, "native", "recorded", "none")
  /\ Materialized(s)
  /\ choice' = [choice EXCEPT ![s] = 0]
  /\ UNCHANGED files

BootstrapFails(s) ==
  /\ RestoreFails(s)
  /\ step' = [step EXCEPT ![s] = "none"]
  /\ choice' = [choice EXCEPT ![s] = 0]
  /\ UNCHANGED files
-----------------------------------------------------------------------------
(* The surroundings *)

\* A backup of the source cluster commits.
Publish ==
  /\ newest < MaxBackups
  /\ newest' = newest + 1
  /\ UNCHANGED <<vars, plan, durable, target, disk, attempts, crashes>>

\* A guard that has taken a lock, a sidecar that has met a guard.
GuardRuns(g) == stage[g] \notin Ended /\ \E v \in Volume : flock[v] = g
SidecarRuns(s) == session[s] # None \/ \E g \in Guard : link[g] = s

\* CNPG's EnsureTargetDirectoriesDoNotExist: before it calls Restore, the main
\* command renames or removes a PGDATA and a WAL directory that it finds.
\* Tablespaces may be left.
MainClears(g) ==
  /\ "main" \in children[g] /\ restore[link[g]] = "new"
  /\ target # EmptyTarget
  /\ target' \in {EmptyTarget, [target EXCEPT !.state = "partial"]}
  /\ UNCHANGED <<vars, newest, plan, durable, disk, attempts, crashes>>

\* What is not synced, a removal or what was written, may be there in part or
\* not at all.
AfterCrash ==
  IF target = disk THEN {disk}
  ELSE {disk, EmptyTarget} \cup {[t EXCEPT !.state = "partial"] : t \in {target, disk} \ {EmptyTarget}}

\* The node goes down with every process on it.
NodeCrash ==
  /\ crashes < MaxCrashes
  /\ crashes' = crashes + 1
  /\ flock' = [v \in Volume |-> None]
  /\ stage' = [g \in Guard |-> IF GuardRuns(g) THEN "failed" ELSE stage[g]]
  /\ children' = [g \in Guard |-> {}]
  /\ control' = [s \in Sidecar |-> IF SidecarRuns(s) THEN "dead" ELSE control[s]]
  /\ restore' = [s \in Sidecar |-> IF restore[s] \in InRestore THEN Failed(s) ELSE restore[s]]
  /\ fetches' = [s \in Sidecar |-> 0]
  /\ step' = [s \in Sidecar |-> "none"]
  /\ choice' = [s \in Sidecar |-> 0]
  /\ plan' \in {plan, durable} /\ durable' = plan'
  /\ target' \in AfterCrash /\ disk' = target'
  /\ UNCHANGED <<marker, next, uncertain, link, session, closed, reader, dirty, newest>>

GuardStep(g) ==
  /\ \/ Lock(g) \/ Check(g) \/ Mark(g) \/ StartChild(g) \/ Fork(g) \/ LatchUncertain(g)
     \/ Reaped(g) \/ Drained(g) \/ Unlink(g) \/ Fail(g)
     \/ \E c \in children[g] : ChildEnds(g, c)
     \/ \E s \in Sidecar : Connect(g, s) \/ Begin(s, g)
  /\ UNCHANGED <<files, attempts>>

SidecarStep(s) ==
  /\ \/ AcceptDrain(s) \/ CloseForDrain(s) \/ Drain(s) \/ SessionEnds(s) \/ SidecarDies(s)
     \/ Fetch(s) \/ FetchDone(s) \/ Restore(s) \/ HoldSource(s)
  /\ UNCHANGED <<files, attempts>>

BootNext ==
  \/ \E g \in Guard : GuardStep(g) \/ MainClears(g)
  \/ \E s \in Sidecar :
       \/ SidecarStep(s)
       \/ Select(s) \/ RenamePlan(s) \/ SyncPlan(s)
       \/ BeginMaterialize(s) \/ WriteTargets(s) \/ Verified(s) \/ Finish(s)
       \/ RenameMaterialized(s) \/ SyncMaterialized(s) \/ Complete(s) \/ BootstrapFails(s)
  \/ Publish \/ NodeCrash

BootSpec == BootInit /\ [][BootNext]_bootVars
-----------------------------------------------------------------------------
(* Properties *)

\* What is on the targets belongs to the chain of the plan that a crash leaves
\* behind: no attempt writes before its plan is durable, and none replaces the
\* plan by another chain once something is written (readRecovery, saveRecovery).
PlanFrozen == target.state # "empty" => durable.chain = target.chain /\ plan.chain = target.chain

\* The targets of g are still its own, or were not given to another guard since
\* it began.
Kept(g) == (\E v \in Volume : marker[v] = g) \/ \A h \in Guard \ {g} : link[h] = None

\* The attempt of s was reported ready, or the durable plan says it is restored.
Restored(s) == restore[s] = "ready" \/ (durable.by = s /\ durable.materialized)

\* The targets of an attempt that has restored hold the whole of one chain,
\* written by that attempt alone, and the durable plan says so, whatever earlier
\* attempts left and whatever crashed since, until another guard gets them
\* (emptyRestoreRoot, finish, saveRecovery).
TargetsWhole ==
  \A s \in Sidecar : Restored(s) /\ Kept(session[s]) =>
    /\ target = [by |-> {s}, chain |-> durable.chain, state |-> "synced"]
    /\ durable.by = s /\ durable.materialized
=============================================================================
