--------------------------- MODULE BackupMetrics ---------------------------
(***************************************************************************)
(* The failure counter of the manager (internal/cnpgi/backup_observer.go,  *)
(* backup_metrics.go) and the pass over the Clusters that prunes its       *)
(* series (backup_history.go).                                             *)
(*                                                                         *)
(* An informer delivers the Backup objects to observe and deleted; failed  *)
(* ones go through a work queue to one worker, which asks the API server   *)
(* for the configuration before it counts.  All of it is memory of one     *)
(* manager process, which may die and be started again.  One namespace.    *)
(***************************************************************************)
EXTENDS Naturals, Sequences, FiniteSets

CONSTANTS Backup,       \* Backup UIDs
          Cluster,      \* Cluster names
          ClusterOf,    \* the Cluster a Backup names
          Repository,   \* repository identifiers
          None,
          MaxStarts,    \* starts of the manager
          MaxConfigs,   \* changes of a Cluster's configuration
          MaxFaults     \* requests that fail, and watches that break

\* backupObservation: the type of the Backup, SeenFailure and Pending.
Observation == [type : {"full", ""}, seenFailure : BOOLEAN, pending : BOOLEAN]

ASSUME ClusterAssumption ==
  ClusterOf \in [Backup -> Cluster] /\ None \notin Repository \cup Observation
ASSUME BoundAssumption == {MaxStarts, MaxConfigs, MaxFaults} \subseteq Nat

VARIABLES up,        \* is the manager running?
          config,    \* Cluster -> the Repository its plugin names, or None
          object,    \* the Backup objects of the API server
          events,    \* Backup -> what the informer has still to deliver
          observed,  \* Backup -> backupObservation, or None
          queue,     \* UIDs in the work queue
          worker,    \* what process is at
          series,    \* label -> Failures
          pass,      \* the pages that are left of a list of Clusters, or None
          seen,      \* the labels that this pass met
          baseline,  \* Backups that had failed when the manager listed them
          tally,     \* Backup -> the labels and types it was counted under
          starts, configs, faults

cluster == <<config, object, configs>>
informer == <<events, baseline>>
observer == <<observed, queue, worker>>
history == <<pass, seen>>
bounds == <<starts, faults>>
vars == <<up, cluster, informer, observer, series, history, tally, bounds>>

Idle == [stage |-> "idle", uid |-> None, type |-> None, label |-> None]
Empty == [l \in {} |-> 0]

Init ==
  /\ up = FALSE
  /\ config = [c \in Cluster |-> None]
  /\ object = [b \in Backup |-> [phase |-> "none", type |-> "full"]]
  /\ events = [b \in Backup |-> <<>>]
  /\ observed = [b \in Backup |-> None]
  /\ queue = {} /\ worker = Idle
  /\ series = Empty
  /\ pass = None /\ seen = {}
  /\ baseline = {}
  /\ tally = [b \in Backup |-> <<>>]
  /\ starts = 0 /\ configs = 0 /\ faults = 0

Exists(b) == object[b].phase \in {"running", "failed"}
-----------------------------------------------------------------------------
(* The cluster and the API server *)

Change(b, o) ==
  /\ object' = [object EXCEPT ![b] = o]
  /\ events' = IF up THEN [events EXCEPT ![b] = Append(@, [new |-> o, initial |-> FALSE])] ELSE events
  /\ UNCHANGED <<up, config, configs, baseline, observer, series, history, tally, bounds>>

\* A Backup is created, fails, and is deleted; its type may be edited.
Create(b) == object[b].phase = "none" /\ Change(b, [object[b] EXCEPT !.phase = "running"])
FailBackup(b) == object[b].phase = "running" /\ Change(b, [object[b] EXCEPT !.phase = "failed"])
EditType(b) == Exists(b) /\ object[b].type = "full" /\ Change(b, [object[b] EXCEPT !.type = ""])
DeleteBackup(b) == Exists(b) /\ Change(b, [object[b] EXCEPT !.phase = "gone"])

\* A Cluster is created with the plugin, moved to another Repository, or removed.
Configure(c, r) ==
  /\ configs < MaxConfigs /\ config[c] # r
  /\ config' = [config EXCEPT ![c] = r]
  /\ configs' = configs + 1
  /\ UNCHANGED <<up, object, informer, observer, series, history, tally, bounds>>

\* The watch breaks: what was not delivered is replaced by a list.  The object of
\* the first list stays what it was, the first one of its Backup.
Relist ==
  /\ up /\ faults < MaxFaults
  /\ faults' = faults + 1
  /\ events' = [b \in Backup |->
       LET first == IF events[b] # <<>> /\ Head(events[b]).initial THEN <<Head(events[b])>> ELSE <<>>
       IN IF object[b].phase = "none" THEN <<>>
          ELSE Append(first, [new |-> object[b], initial |-> FALSE])]
  /\ UNCHANGED <<up, cluster, baseline, observer, series, history, tally, starts>>

\* newBackupObserver, newBackupMetrics, and the first list of the informer.
Start ==
  /\ ~up /\ starts < MaxStarts
  /\ up' = TRUE
  /\ starts' = starts + 1
  /\ events' = [b \in Backup |-> IF Exists(b) THEN <<[new |-> object[b], initial |-> TRUE]>> ELSE <<>>]
  /\ baseline' = {b \in Backup : object[b].phase = "failed"}
  /\ UNCHANGED <<cluster, observer, series, history, tally, faults>>

Crash ==
  /\ up
  /\ up' = FALSE
  /\ events' = [b \in Backup |-> <<>>]
  /\ observed' = [b \in Backup |-> None]
  /\ queue' = {} /\ worker' = Idle
  /\ series' = Empty
  /\ pass' = None /\ seen' = {}
  /\ baseline' = {}
  /\ tally' = [b \in Backup |-> <<>>]
  /\ UNCHANGED <<cluster, bounds>>
-----------------------------------------------------------------------------
(* The observer *)

Unobserved == [type |-> None, seenFailure |-> FALSE, pending |-> FALSE]

\* Faulty variant: the cached object is always replaced.
ObserveLatest(b, o, initial) ==
  LET state == IF observed[b] = None THEN Unobserved ELSE observed[b]
      first == o.phase = "failed" /\ ~state.seenFailure
      notify == first /\ ~initial /\ o.type # ""
  IN /\ observed' = [observed EXCEPT ![b] =
          [type |-> o.type,
           seenFailure |-> state.seenFailure \/ first, pending |-> state.pending \/ notify]]
     /\ queue' = IF notify THEN queue \cup {b} ELSE queue

\* Faulty variant: failures of the first list are notified as well.
ObserveInitial(b, o, initial) ==
  LET state == IF observed[b] = None THEN Unobserved ELSE observed[b]
      first == o.phase = "failed" /\ ~state.seenFailure
      notify == first /\ o.type # ""
  IN /\ observed' = [observed EXCEPT ![b] =
          [type |-> IF state.seenFailure THEN state.type ELSE o.type,
           seenFailure |-> state.seenFailure \/ first, pending |-> state.pending \/ notify]]
     /\ queue' = IF notify THEN queue \cup {b} ELSE queue

\* observe: the type is the one of the first failure.
Observe(b, o, initial) ==
  LET state == IF observed[b] = None THEN Unobserved ELSE observed[b]
      first == o.phase = "failed" /\ ~state.seenFailure
      notify == first /\ ~initial /\ o.type # ""
  IN /\ observed' = [observed EXCEPT ![b] =
          [type |-> IF state.seenFailure THEN state.type ELSE o.type,
           seenFailure |-> state.seenFailure \/ first, pending |-> state.pending \/ notify]]
     /\ queue' = IF notify THEN queue \cup {b} ELSE queue

\* deleted
Deleted(b) == observed' = [observed EXCEPT ![b] = None] /\ UNCHANGED queue

Deliver(b) ==
  /\ events[b] # <<>>
  /\ LET e == Head(events[b]) IN
     IF e.new.phase = "gone" THEN Deleted(b) ELSE Observe(b, e.new, e.initial)
  /\ events' = [events EXCEPT ![b] = Tail(@)]
  /\ UNCHANGED <<up, cluster, baseline, worker, series, history, tally, bounds>>

IsPending(b) == observed[b] # None /\ observed[b].pending

\* next and the first half of process: the state is read under the lock.
Take(b) ==
  /\ worker = Idle /\ b \in queue
  /\ queue' = queue \ {b}
  /\ worker' = IF IsPending(b)
               THEN [Idle EXCEPT !.stage = "ask", !.uid = b, !.type = observed[b].type] ELSE Idle
  /\ UNCHANGED <<up, cluster, informer, observed, series, history, tally, bounds>>

\* Faulty variant: a failed request is not tried again.
AskFailsForget ==
  /\ worker.stage = "ask"
  /\ \/ config[ClusterOf[worker.uid]] = None /\ UNCHANGED faults
     \/ faults < MaxFaults /\ faults' = faults + 1
  /\ worker' = Idle
  /\ UNCHANGED <<up, cluster, informer, observed, queue, series, history, tally, starts>>

\* The Cluster or the Repository cannot be read, or names no Repository: later.
AskFails ==
  /\ worker.stage = "ask"
  /\ \/ config[ClusterOf[worker.uid]] = None /\ UNCHANGED faults
     \/ faults < MaxFaults /\ faults' = faults + 1
  /\ queue' = queue \cup {worker.uid}
  /\ worker' = Idle
  /\ UNCHANGED <<up, cluster, informer, observed, series, history, tally, starts>>

\* backupConfiguration, without any lock.
Ask ==
  LET c == ClusterOf[worker.uid] IN
  /\ worker.stage = "ask"
  /\ config[c] # None
  /\ worker' = [worker EXCEPT !.stage = "settle", !.label = <<c, config[c]>>]
  /\ UNCHANGED <<up, cluster, informer, observed, queue, series, history, tally, bounds>>

\* The second look under the lock: the Backup may be gone meanwhile.
Settle ==
  LET b == worker.uid IN
  /\ worker.stage = "settle"
  /\ IF IsPending(b)
     THEN /\ observed' = [observed EXCEPT ![b].pending = FALSE]
          /\ worker' = [worker EXCEPT !.stage = "count"]
     ELSE worker' = Idle /\ UNCHANGED observed
  /\ UNCHANGED <<up, cluster, informer, queue, series, history, tally, bounds>>

Failures(l) == IF l \in DOMAIN series THEN series[l] ELSE 0
WithSeries(l, n) == [k \in DOMAIN series \cup {l} |-> IF k = l THEN n ELSE series[k]]

\* configure and failure.
Count ==
  LET l == worker.label IN
  /\ worker.stage = "count"
  /\ series' = WithSeries(l, Failures(l) + 1)
  /\ tally' = [tally EXCEPT ![worker.uid] = Append(@, [label |-> l, type |-> worker.type])]
  /\ worker' = Idle
  /\ UNCHANGED <<up, cluster, informer, observed, queue, history, bounds>>
-----------------------------------------------------------------------------
(* runBackupHistory *)

\* The first page.  The pages of one list show the Clusters of one moment.
List ==
  /\ up /\ pass = None
  /\ pass' = {<<c, config[c]>> : c \in {k \in Cluster : config[k] # None}}
  /\ seen' = {}
  /\ UNCHANGED <<up, cluster, informer, observer, series, tally, bounds>>

\* A list request fails: the rest of the list is dropped, and nothing is pruned.
ListFails ==
  /\ pass # None /\ pass # {} /\ faults < MaxFaults
  /\ faults' = faults + 1
  /\ pass' = None /\ seen' = {}
  /\ UNCHANGED <<up, cluster, informer, observer, series, tally, starts>>

\* reconcileBackupHistory of one Cluster: configure, and the history if it can be
\* read.
Page(l) ==
  /\ pass # None /\ l \in pass
  /\ pass' = pass \ {l}
  /\ series' = WithSeries(l, Failures(l))
  /\ seen' = seen \cup {l}
  /\ UNCHANGED <<up, cluster, informer, observer, tally, bounds>>

\* The Repository cannot be read: the series of the Cluster stay.
PageFails(l) ==
  /\ pass # None /\ l \in pass /\ faults < MaxFaults
  /\ faults' = faults + 1
  /\ pass' = pass \ {l}
  /\ seen' = seen \cup {k \in DOMAIN series : k[1] = l[1]}
  /\ UNCHANGED <<up, cluster, informer, observer, series, tally, starts>>

\* After the last page: the series that this pass did not meet.
Prune ==
  /\ pass = {}
  /\ series' = [l \in DOMAIN series \cap seen |-> series[l]]
  /\ pass' = None /\ seen' = {}
  /\ UNCHANGED <<up, cluster, informer, observer, tally, bounds>>
-----------------------------------------------------------------------------
Next ==
  \/ \E b \in Backup : Create(b) \/ FailBackup(b) \/ EditType(b) \/ DeleteBackup(b) \/ Deliver(b) \/ Take(b)
  \/ \E c \in Cluster, r \in Repository \cup {None} : Configure(c, r)
  \/ Relist \/ Start \/ Crash
  \/ AskFails \/ Ask \/ Settle \/ Count
  \/ List \/ ListFails \/ Prune
  \/ \E l \in Cluster \X Repository : Page(l) \/ PageFails(l)

Spec == Init /\ [][Next]_vars

\* The informer delivers, and the worker's loop goes on while the manager runs.
Fairness ==
  /\ \A b \in Backup : WF_vars(Deliver(b)) /\ SF_vars(Take(b))
  /\ WF_vars(Ask) /\ WF_vars(Settle) /\ WF_vars(Count)

FairSpec == Spec /\ Fairness
-----------------------------------------------------------------------------
(* Properties *)

\* A Backup is counted at most once between two starts of the manager, whatever
\* the informer replays and however often the configuration could not be read
\* (SeenFailure and Pending under two locks), and under the type it failed with.
CountedOnce == \A b \in Backup : Len(tally[b]) <= 1 /\ \A i \in DOMAIN tally[b] : tally[b][i].type = "full"

\* A failure that was there at startup is never counted, not even after a list
\* that replaces a broken watch ("excluding failures already present at startup").
StartupNotCounted == \A b \in baseline : tally[b] = <<>>

\* A Backup that fails while the manager runs is counted, unless it is deleted
\* or edited first, its Cluster has no configuration, or the manager dies.
FailureCounted ==
  \A b \in Backup :
    (up /\ object[b].phase = "failed" /\ b \notin baseline) ~>
      \/ tally[b] # <<>>
      \/ ~up \/ object[b] # [phase |-> "failed", type |-> "full"] \/ config[ClusterOf[b]] = None
=============================================================================
