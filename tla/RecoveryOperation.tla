------------------------- MODULE RecoveryOperation -------------------------
(***************************************************************************)
(* The manager's part of a recovery (cnpgi/recovery_operation.go and       *)
(* recovery_reconcile.go): a ConfigMap that records the operation, a       *)
(* lifetime holder on the source repository, and one observer that alone   *)
(* may certify that every recovery Pod has terminated.                     *)
(*                                                                         *)
(* A manager incarnation runs three loops: the lifecycle hook              *)
(* (ensureRecovery), which precedes the creation of the recovery Job; the  *)
(* observer it starts; and the reconciler.  Hook and observer share the    *)
(* coordinator's mutex.  Kubernetes stores the ConfigMap, the Job and the  *)
(* Pods; Pod events reach an observer late but in their order.  A Pod's    *)
(* process may outlive what the API says of it when its node is lost or    *)
(* the Pod is deleted by force.                                            *)
(***************************************************************************)
EXTENDS Naturals, Sequences, FiniteSets

CONSTANTS Manager,     \* incarnations of the manager process
          Pod,         \* Pods the Job may create
          MaxCrashes,  \* incarnations that die
          MaxFaults,   \* API calls and gate calls that fail
          None

ASSUME ManagerAssumption ==
  /\ None \notin Manager
  /\ MaxCrashes \in Nat /\ MaxFaults \in Nat

VARIABLES cm,        \* the ConfigMap with its resourceVersion
          late,      \* updates of it whose sender has given up
          lifetime,  \* the lifetime holder is in the source's gate
          up,        \* incarnations that run
          monitor,   \* coordinator.monitors
          hook,      \* where ensureRecovery is, and the ConfigMap it read
          observer,  \* where observeRecovery is, and the ConfigMap it read
          cursor,    \* how many Pod events the observer was given
          reconciler,\* where reconcileRecoveryOperation is, and the ConfigMap it read
          admitted,  \* a hook returned the Job creation patch
          job,       \* the recovery Job
          failures,  \* its status.failed
          pod,       \* what the API says of each Pod
          alive,     \* Pods with a process that may read the source
          events,    \* all Pod events: the Pods they are about, in order
          faults     \* failures so far

vars == <<cm, late, lifetime, up, monitor, hook, observer, cursor, reconciler,
          admitted, job, failures, pod, alive, events, faults>>
record == <<cm, late>>
managers == <<up, monitor, hook, observer, cursor, reconciler>>
kubernetes == <<job, failures, pod, alive, events>>

Absent == [state |-> "absent", observer |-> None, released |-> FALSE, version |-> 0]
Idle == [at |-> "idle", saw |-> Absent]

Init ==
  /\ cm = Absent
  /\ late = {}
  /\ lifetime = FALSE
  /\ up = Manager
  /\ monitor = [m \in Manager |-> "none"]
  /\ hook = [m \in Manager |-> Idle]
  /\ observer = [m \in Manager |-> Idle]
  /\ cursor = [m \in Manager |-> 0]
  /\ reconciler = [m \in Manager |-> Idle]
  /\ admitted = FALSE
  /\ job = "none"
  /\ failures = 0
  /\ pod = [p \in Pod |-> "none"]
  /\ alive = {}
  /\ events = <<>>
  /\ faults = 0

Hook(m, at, saw) == hook' = [hook EXCEPT ![m] = [at |-> at, saw |-> saw]]
Observer(m, at, saw) == observer' = [observer EXCEPT ![m] = [at |-> at, saw |-> saw]]
Reconciler(m, at, saw) == reconciler' = [reconciler EXCEPT ![m] = [at |-> at, saw |-> saw]]

Fault == faults < MaxFaults /\ faults' = faults + 1
NoFault == UNCHANGED faults

\* Faulty variant: the update carries no resourceVersion.
AcceptedBlindly(saw) == TRUE

\* The API server refuses an update of any but the current version.
Accepted(saw) == cm.version = saw.version

\* writeOperation: stored, refused as a conflict, or failed with the update lost
\* or still on its way.
Written(saw, new) ==
  /\ Accepted(saw)
  /\ cm' = [new EXCEPT !.version = cm.version + 1]
  /\ UNCHANGED late /\ NoFault
NotWritten(saw, new) ==
  \/ ~Accepted(saw) /\ UNCHANGED record /\ NoFault
  \/ Fault /\ UNCHANGED record
  \/ Fault /\ late' = late \cup {[saw |-> saw, new |-> new]} /\ UNCHANGED cm

LateArrives(w) ==
  /\ late' = late \ {w}
  /\ cm' = IF Accepted(w.saw) THEN [w.new EXCEPT !.version = cm.version + 1] ELSE cm
  /\ UNCHANGED <<lifetime, managers, admitted, kubernetes, faults>>

\* changeRecoveryLifetime fails, with or without effect on the gate.
LifetimeFails(value) == Fault /\ lifetime' \in {lifetime, value}
-----------------------------------------------------------------------------
(* ensureRecovery *)

\* Get or Create.  Only an active operation of this very process goes on; one of
\* another process becomes uncertain.
EnsureRead(m) ==
  /\ m \in up /\ hook[m].at = "idle"
  /\ \/ /\ cm.state = "absent"
        /\ LET new == [state |-> "active", observer |-> m, released |-> FALSE, version |-> 1] IN
           \/ cm' = new /\ Hook(m, "establish", new) /\ UNCHANGED late /\ NoFault
           \/ Fault /\ cm' \in {cm, new} /\ UNCHANGED <<late, hook>>
     \/ /\ cm.state = "active" /\ cm.observer = m
        /\ Hook(m, "establish", cm)
        /\ UNCHANGED record /\ NoFault
     \/ /\ cm.state = "active" /\ cm.observer # m
        /\ LET new == [cm EXCEPT !.state = "uncertain"] IN Written(cm, new) \/ NotWritten(cm, new)
        /\ UNCHANGED hook
  /\ UNCHANGED <<lifetime, up, monitor, observer, cursor, reconciler, admitted, kubernetes>>

\* changeRecoveryLifetime, and what there is of a monitor already.
EnsureEstablish(m) ==
  /\ m \in up /\ hook[m].at = "establish"
  /\ lifetime' = TRUE
  /\ Hook(m, IF monitor[m] = "none" THEN "watch" ELSE "idle", Absent)
  /\ admitted' = (admitted \/ monitor[m] = "running")
  /\ UNCHANGED <<record, up, monitor, observer, cursor, reconciler, kubernetes, faults>>

\* The gate is out of reach: LastWarningAt is updated, which takes a new version.
EnsureBlocked(m) ==
  /\ m \in up /\ hook[m].at = "establish"
  /\ LifetimeFails(TRUE)
  /\ \/ UNCHANGED cm
     \/ Accepted(hook[m].saw) /\ cm' = [cm EXCEPT !.version = @ + 1]
  /\ Hook(m, "idle", Absent)
  /\ UNCHANGED <<late, up, monitor, observer, cursor, reconciler, admitted, kubernetes>>

\* LIST and WATCH from its version; a Pod that is there already is not adopted.
EnsureWatch(m) ==
  /\ m \in up /\ hook[m].at = "watch"
  /\ Hook(m, "idle", Absent)
  /\ IF \A p \in Pod : pod[p] \in {"none", "deleted"}
     THEN /\ monitor' = [monitor EXCEPT ![m] = "running"]
          /\ cursor' = [cursor EXCEPT ![m] = Len(events)]
          /\ Observer(m, "watch", Absent)
          /\ admitted' = TRUE
     ELSE UNCHANGED <<monitor, cursor, observer, admitted>>
  /\ UNCHANGED <<record, lifetime, up, reconciler, kubernetes, faults>>

EnsureWatchFails(m) ==
  /\ m \in up /\ hook[m].at = "watch"
  /\ Fault
  /\ Hook(m, "idle", Absent)
  /\ UNCHANGED <<record, lifetime, up, monitor, observer, cursor, reconciler, admitted, kubernetes>>
-----------------------------------------------------------------------------
(* observeRecovery *)

\* The Pods the observer has seen (its watch precedes the first event), and those
\* whose events it has not all seen.
Observed(m) == {events[i] : i \in 1..cursor[m]}
Behind(m) == {events[i] : i \in (cursor[m] + 1)..Len(events)}

\* The next Pod event: a deletion ends the observation.
Deliver(m) ==
  LET i == cursor[m] + 1 IN
  /\ m \in up /\ observer[m].at = "watch"
  /\ i <= Len(events)
  /\ cursor' = [cursor EXCEPT ![m] = i]
  /\ IF pod[events[i]] = "deleted" /\ ~ \E j \in (i + 1)..Len(events) : events[j] = events[i]
     THEN Observer(m, "unsure", Absent)
     ELSE UNCHANGED observer
  /\ UNCHANGED <<record, lifetime, up, monitor, hook, reconciler, admitted, kubernetes, faults>>

\* The watch breaks, an API call of a pass fails, or the manager is told to stop.
ObserverFails(m) ==
  /\ m \in up /\ observer[m].at \in {"watch", "pods", "close"}
  /\ Fault
  /\ Observer(m, "unsure", Absent)
  /\ UNCHANGED <<record, lifetime, up, monitor, hook, cursor, reconciler, admitted, kubernetes>>

\* recoveryTermination, the Job.
ObserveJob(m) ==
  /\ m \in up /\ observer[m].at = "watch"
  /\ \/ job = "complete" /\ Observer(m, "pods", Absent)
     \/ /\ job = "failed" \/ (job \in {"none", "deleted"} /\ Observed(m) # {})
        /\ Observer(m, "unsure", Absent)
  /\ UNCHANGED <<record, lifetime, up, monitor, hook, cursor, reconciler, admitted, kubernetes, faults>>

Listed == {p \in Pod : pod[p] \notin {"none", "deleted"}}

Phase(phase) == Cardinality({p \in Pod : pod[p] = phase})

\* Faulty variant: Pods that are no longer listed are not missed.
AllTerminatedListed(m) ==
  /\ \A p \in Listed : pod[p] \in {"succeeded", "failed"}
  /\ Phase("succeeded") = 1

\* Every Pod ever observed is listed and has reliably terminated (terminatedPod),
\* one of them with success, and the Job counts the same failures.
AllTerminated(m) ==
  /\ \A p \in Listed : pod[p] \in {"succeeded", "failed"}
  /\ Listed = Observed(m)
  /\ Phase("succeeded") = 1 /\ Phase("failed") = failures

\* recoveryTermination, the Pods: wait until the watch has caught up.
ObservePods(m) ==
  /\ m \in up /\ observer[m].at = "pods"
  /\ Observer(m, IF Listed \cap Behind(m) # {} THEN "watch"
                 ELSE IF AllTerminated(m) THEN "close" ELSE "unsure", Absent)
  /\ UNCHANGED <<record, lifetime, up, monitor, hook, cursor, reconciler, admitted, kubernetes, faults>>

\* The durable close.
ObserverCloses(m) ==
  LET new == [cm EXCEPT !.state = "completed"] IN
  /\ m \in up /\ observer[m].at = "close"
  /\ \/ /\ cm.state = "active" /\ cm.observer = m
        /\ \/ Written(cm, new) /\ Observer(m, "release", Absent)
           \/ NotWritten(cm, new) /\ Observer(m, "unsure", Absent)
     \/ /\ cm.state # "active" \/ cm.observer # m
        /\ Observer(m, "unsure", Absent)
        /\ UNCHANGED record /\ NoFault
  /\ UNCHANGED <<lifetime, up, monitor, hook, cursor, reconciler, admitted, kubernetes>>

\* uncertain(): a closed operation lets the monitor go, anything else keeps it.
ObserverUnsure(m) ==
  LET new == [cm EXCEPT !.state = "uncertain"] IN
  /\ m \in up /\ observer[m].at = "unsure"
  /\ \/ /\ cm.state \in {"uncertain", "completed"}
        /\ Observer(m, "closed", Absent)
        /\ UNCHANGED record /\ NoFault
     \/ /\ cm.state = "active"
        /\ \/ Written(cm, new) /\ Observer(m, "closed", Absent)
           \/ NotWritten(cm, new) /\ Observer(m, "open", Absent)
  /\ UNCHANGED <<lifetime, up, monitor, hook, cursor, reconciler, admitted, kubernetes>>

\* Faulty variant: a monitor that ends is always forgotten.
ObserverForgets(m) ==
  /\ m \in up /\ observer[m].at \in {"closed", "open"}
  /\ hook[m].at = "idle"
  /\ monitor' = [monitor EXCEPT ![m] = "none"]
  /\ Observer(m, "idle", Absent)
  /\ UNCHANGED <<record, lifetime, up, hook, cursor, reconciler, admitted, kubernetes, faults>>

\* The deferred end of observeRecovery, under the coordinator's mutex.
ObserverExits(m) ==
  /\ m \in up /\ observer[m].at \in {"closed", "open"}
  /\ hook[m].at = "idle"
  /\ monitor' = [monitor EXCEPT ![m] = IF observer[m].at = "closed" THEN "none" ELSE "done"]
  /\ Observer(m, "idle", Absent)
  /\ UNCHANGED <<record, lifetime, up, hook, cursor, reconciler, admitted, kubernetes, faults>>
-----------------------------------------------------------------------------
(* releaseCompletedRecovery and reconcileRecoveryOperation *)

Pending == cm.state = "completed" /\ ~cm.released

\* The release loop of the observer: Get.
ReleaseRead(m) ==
  /\ m \in up /\ observer[m].at = "release"
  /\ Observer(m, IF Pending THEN "drop" ELSE "closed", cm)
  /\ UNCHANGED <<record, lifetime, up, monitor, hook, cursor, reconciler, admitted, kubernetes, faults>>

ReleaseDrop(m) ==
  /\ m \in up /\ observer[m].at = "drop"
  /\ \/ lifetime' = FALSE /\ Observer(m, "record", observer[m].saw) /\ NoFault
     \/ LifetimeFails(FALSE) /\ Observer(m, "release", Absent)
  /\ UNCHANGED <<record, up, monitor, hook, cursor, reconciler, admitted, kubernetes>>

ReleaseRecord(m) ==
  LET saw == observer[m].saw
      new == [saw EXCEPT !.released = TRUE] IN
  /\ m \in up /\ observer[m].at = "record"
  /\ \/ Written(saw, new) /\ Observer(m, "closed", Absent)
     \/ NotWritten(saw, new) /\ Observer(m, "release", Absent)
  /\ UNCHANGED <<lifetime, up, monitor, hook, cursor, reconciler, admitted, kubernetes>>

\* Faulty variant: only the manager that observed the end resumes the release.
ReconcileOwn(m) ==
  /\ m \in up /\ reconciler[m].at = "idle"
  /\ Pending /\ cm.observer = m
  /\ Reconciler(m, "drop", cm)
  /\ UNCHANGED <<record, lifetime, up, monitor, hook, observer, cursor, admitted, kubernetes, faults>>

\* Another process's active operation becomes uncertain, a completed one's
\* release is resumed.
ReconcileRead(m) ==
  LET new == [cm EXCEPT !.state = "uncertain"] IN
  /\ m \in up /\ reconciler[m].at = "idle"
  /\ \/ /\ cm.state = "active" /\ cm.observer # m
        /\ Written(cm, new) \/ NotWritten(cm, new)
        /\ UNCHANGED reconciler
     \/ Pending /\ Reconciler(m, "drop", cm) /\ UNCHANGED record /\ NoFault
  /\ UNCHANGED <<lifetime, up, monitor, hook, observer, cursor, admitted, kubernetes>>

ReconcileDrop(m) ==
  /\ m \in up /\ reconciler[m].at = "drop"
  /\ \/ lifetime' = FALSE /\ Reconciler(m, "record", reconciler[m].saw) /\ NoFault
     \/ LifetimeFails(FALSE) /\ Reconciler(m, "idle", Absent)
  /\ UNCHANGED <<record, up, monitor, hook, observer, cursor, admitted, kubernetes>>

ReconcileRecord(m) ==
  LET saw == reconciler[m].saw
      new == [saw EXCEPT !.released = TRUE] IN
  /\ m \in up /\ reconciler[m].at = "record"
  /\ Written(saw, new) \/ NotWritten(saw, new)
  /\ Reconciler(m, "idle", Absent)
  /\ UNCHANGED <<lifetime, up, monitor, hook, observer, cursor, admitted, kubernetes>>

Crash(m) ==
  /\ m \in up
  /\ Cardinality(Manager \ up) < MaxCrashes
  /\ up' = up \ {m}
  /\ UNCHANGED <<record, lifetime, monitor, hook, observer, cursor, reconciler, admitted, kubernetes, faults>>
-----------------------------------------------------------------------------
(* Kubernetes and the operator *)

Unchanged == UNCHANGED <<record, lifetime, managers, admitted, faults>>

\* The operator creates the one bootstrap Job after a hook let it.
CreateJob ==
  /\ admitted /\ job = "none"
  /\ job' = "active"
  /\ UNCHANGED <<failures, pod, alive, events>> /\ Unchanged

\* The Job controller replaces a Pod that it takes for finished.
CreatePod(p) ==
  /\ job = "active"
  /\ pod[p] = "none"
  /\ \A q \in Pod : pod[q] \notin {"running", "succeeded"}
  /\ pod' = [pod EXCEPT ![p] = "running"]
  /\ alive' = alive \cup {p}
  /\ events' = Append(events, p)
  /\ UNCHANGED <<job, failures>> /\ Unchanged

\* The kubelet reports that every container has terminated.
Terminate(p, phase) ==
  /\ pod[p] = "running" /\ phase \in {"succeeded", "failed"}
  /\ pod' = [pod EXCEPT ![p] = phase]
  /\ alive' = alive \ {p}
  /\ events' = Append(events, p)
  /\ UNCHANGED <<job, failures>> /\ Unchanged

\* Failed with a reason that says nothing of the containers (NodeLost, Evicted).
LosePod(p) ==
  /\ pod[p] = "running"
  /\ pod' = [pod EXCEPT ![p] = "lost"]
  /\ events' = Append(events, p)
  /\ UNCHANGED <<job, failures, alive>> /\ Unchanged

\* By force: the object goes, the process may stay.
DeletePod(p) ==
  /\ pod[p] \notin {"none", "deleted"}
  /\ pod' = [pod EXCEPT ![p] = "deleted"]
  /\ events' = Append(events, p)
  /\ UNCHANGED <<job, failures, alive>> /\ Unchanged

ProcessEnds(p) ==
  /\ p \in alive
  /\ alive' = alive \ {p}
  /\ UNCHANGED <<job, failures, pod, events>> /\ Unchanged

\* The Job completes when a Pod succeeded, or it fails or is deleted.  Whether a
\* deleted Pod counts as a failure depends on when the controller saw it.
EndJob(state) ==
  /\ job = "active"
  /\ state = "complete" => \E p \in Pod : pod[p] = "succeeded"
  /\ job' = state
  /\ \E deleted \in 0..Phase("deleted") :
       failures' = Phase("failed") + Phase("lost") + deleted
  /\ UNCHANGED <<pod, alive, events>> /\ Unchanged

Observe(m) ==
  \/ Deliver(m) \/ ObserverFails(m) \/ ObserveJob(m) \/ ObservePods(m)
  \/ ObserverCloses(m) \/ ObserverUnsure(m) \/ ObserverExits(m)
  \/ ReleaseRead(m) \/ ReleaseDrop(m) \/ ReleaseRecord(m)
Ensure(m) ==
  EnsureRead(m) \/ EnsureEstablish(m) \/ EnsureBlocked(m) \/ EnsureWatch(m) \/ EnsureWatchFails(m)
Reconcile(m) == ReconcileRead(m) \/ ReconcileDrop(m) \/ ReconcileRecord(m)

Next ==
  \/ \E m \in Manager : Ensure(m) \/ Observe(m) \/ Reconcile(m) \/ Crash(m)
  \/ \E w \in late : LateArrives(w)
  \/ CreateJob
  \/ \E s \in {"complete", "failed", "deleted"} : EndJob(s)
  \/ \E p \in Pod : CreatePod(p) \/ LosePod(p) \/ DeletePod(p) \/ ProcessEnds(p)
  \/ \E p \in Pod, phase \in {"succeeded", "failed"} : Terminate(p, phase)

Spec == Init /\ [][Next]_vars

\* The ticker of the reconciler comes back while its process runs.
Fairness == \A m \in Manager : WF_vars(Reconcile(m))
FairSpec == Spec /\ Fairness
-----------------------------------------------------------------------------
(* Properties *)

\* As long as a process of a recovery Pod may read the source, lost or deleted
\* by force as its Pod may be, the lifetime holder is in the gate.
ReadersProtected == alive # {} => lifetime

\* A closed operation stays as it was closed, and an operation never changes its
\* observer, whichever processes update the ConfigMap and however late.
ClosedStays ==
  [][/\ cm.state \in {"uncertain", "completed"} => cm'.state = cm.state
     /\ cm.state # "absent" => cm'.observer = cm.observer
     /\ cm.released => cm'.released]_vars

\* An observation that starts has missed nothing: no Pod of the operation was
\* ever created before, not even one that is deleted by now (no LIST shows that).
ObservationFromStart ==
  [][\A m \in Manager : observer[m].at = "idle" /\ observer'[m].at # "idle" => events = <<>>]_vars

\* The holder of a completed restore is released in the end, whichever process
\* recorded the completion and died, provided some manager goes on running.
CompletedReleased == cm.state = "completed" ~> cm.released
=============================================================================
