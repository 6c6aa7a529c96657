-------------------------- MODULE OperationProofs --------------------------
(***************************************************************************)
(* A recovery operation protects its readers for any number of managers,   *)
(* Pods, crashes and faults.                                               *)
(*                                                                         *)
(* Three arguments meet in OpInv.  Every update of the ConfigMap that is   *)
(* still on its way was computed from one version of it, so it is dead     *)
(* once the version moved.  One manager, the recorded observer, gets past  *)
(* the hook's first read, and its monitor is forgotten only when the       *)
(* operation is closed, so that a watch starts before the first Job or not *)
(* at all.  And whoever writes "completed" has seen every Pod that ever    *)
(* was: no Pod is created after one that succeeded, and the watch has      *)
(* caught up with that one.                                                *)
(***************************************************************************)
EXTENDS RecoveryOperation, FiniteSetTheorems, TLAPS

\* Most leaves are first-order reasoning; those with arithmetic or records cite SMT.
USE ZenonT(30)

RecordType == [state : {"absent", "active", "uncertain", "completed"},
               observer : Manager \cup {None}, released : BOOLEAN, version : Nat]

HookType == [at : {"idle", "establish", "watch"}, saw : RecordType]
ObserverType == [at : {"idle", "watch", "pods", "close", "unsure", "release", "drop", "record", "closed", "open"},
                 saw : RecordType]
ReconcilerType == [at : {"idle", "drop", "record"}, saw : RecordType]

OpTypeOK ==
  /\ cm \in RecordType
  /\ lifetime \in BOOLEAN /\ admitted \in BOOLEAN
  /\ monitor \in [Manager -> {"none", "running", "done"}]
  /\ hook \in [Manager -> HookType]
  /\ observer \in [Manager -> ObserverType]
  /\ cursor \in [Manager -> Nat]
  /\ reconciler \in [Manager -> ReconcilerType]
  /\ job \in {"none", "active", "complete", "failed", "deleted"}
  /\ pod \in [Pod -> {"none", "running", "succeeded", "failed", "lost", "deleted"}]
  /\ alive \subseteq Pod
  /\ events \in Seq(Pod)

\* No process of the operation runs, and none will.
Over == alive = {} /\ job \notin {"none", "active"}

\* An update was computed from the current version or from an older one.
Versioned(saw) ==
  /\ saw \in RecordType
  /\ saw.version <= cm.version
  /\ saw.version = cm.version => saw = cm
  /\ saw.state # "absent" /\ saw.version # 0

Wanted(saw, new) ==
  \/ saw.state = "active" /\ new = [saw EXCEPT !.state = "uncertain"]
  \/ saw.state = "active" /\ new = [saw EXCEPT !.state = "completed"] /\ Over
  \/ saw.state = "completed" /\ new = [saw EXCEPT !.released = TRUE]

LateSound == \A w \in late : Versioned(w.saw) /\ Wanted(w.saw, w.new)

RecordSound ==
  /\ cm.state = "absent" => cm = Absent
  /\ cm.state # "absent" => cm.observer \in Manager /\ cm.version # 0
  /\ cm.state = "completed" => Over

\* The lifetime goes only after the end.
LifetimeSound == admitted /\ cm.state # "completed" => lifetime

\* Only the recorded observer gets past the hook's read, and if it has no monitor
\* then no Job was let go.
HookSound(m) ==
  /\ hook[m].at # "idle" => cm.state # "absent" /\ cm.observer = m /\ (monitor[m] = "none" => ~admitted)
  /\ hook[m].at = "watch" => monitor[m] = "none" /\ (cm.state # "completed" => lifetime)

WatchSound(m) ==
  /\ observer[m].at # "idle" => cm.state # "absent" /\ cm.observer = m
  /\ observer[m].at \in {"pods", "close"} => job = "complete"
  /\ observer[m].at = "close" => Over
  /\ observer[m].at \in {"release", "drop", "record"} => cm.state = "completed"
  /\ observer[m].at = "closed" => cm.state \in {"uncertain", "completed"}
  /\ observer[m].at \in {"drop", "record"} => Versioned(observer[m].saw) /\ observer[m].saw.state = "completed"
  /\ cursor[m] <= Len(events)

ReconcileSound(m) ==
  reconciler[m].at \in {"drop", "record"} =>
    /\ cm.state = "completed"
    /\ Versioned(reconciler[m].saw) /\ reconciler[m].saw.state = "completed"

ManagerSound(m) == HookSound(m) /\ WatchSound(m) /\ ReconcileSound(m)

\* While the operation is active its observer remembers that it let the Job go.
AdmittedSound ==
  /\ admitted => cm.state # "absent"
  /\ admitted /\ cm.state = "active" => monitor[cm.observer] # "none"
  /\ job # "none" => admitted
  /\ events # <<>> => job # "none"

\* Every Pod has an event, and no Pod is created after one that succeeded.
Seen(p, n) == \E k \in 1..n : events[k] = p

PodsSound ==
  /\ \A p \in Pod : pod[p] # "none" => Seen(p, Len(events))
  /\ \A p \in alive : pod[p] \in {"running", "lost", "deleted"}
  /\ \A q \in Pod : pod[q] = "succeeded" =>
       \E i \in 1..Len(events) : events[i] = q /\ \A p \in Pod : pod[p] # "none" => Seen(p, i)

OpInv ==
  /\ OpTypeOK /\ LateSound /\ RecordSound /\ LifetimeSound /\ AdmittedSound /\ PodsSound
  /\ \A m \in Manager : ManagerSound(m)
-----------------------------------------------------------------------------
(* Steps *)

\* What a step may do to the ConfigMap and to the updates on their way.
CmMoves ==
  \/ cm' = cm
  \/ /\ cm.state = "absent" /\ cm'.state = "active"
     /\ cm' \in RecordType /\ cm'.observer \in Manager /\ cm'.version = 1
  \/ /\ cm.state # "absent"
     /\ cm' \in RecordType /\ cm'.observer = cm.observer /\ cm'.version = cm.version + 1
     /\ cm.released => cm'.released
     /\ \/ cm'.state = cm.state
        \/ cm.state = "active" /\ cm'.state = "uncertain"
        \/ cm.state = "active" /\ cm'.state = "completed" /\ Over

LateMoves == \A w \in late' : w \in late \/ (Versioned(w.saw) /\ Wanted(w.saw, w.new))

RecordStep == CmMoves /\ LateMoves

\* What a step may not do to the rest: revive what is over, take the lifetime from
\* an operation that is not completed, or take back an event.
Progress ==
  /\ Over => Over'
  /\ lifetime' \in BOOLEAN
  /\ cm.state # "completed" /\ lifetime => lifetime'
  /\ job = "complete" => job' = "complete"
  /\ Len(events) <= Len(events')

\* An update that is stored is a legal move.
LEMMA UpdateStored ==
  ASSUME OpInv, NEW saw, NEW new, Versioned(saw), Wanted(saw, new), Accepted(saw),
         cm' = [new EXCEPT !.version = cm.version + 1]
  PROVE  CmMoves
<1>0. /\ cm \in RecordType /\ saw = cm /\ saw.state # "absent"
      /\ cm' = [new EXCEPT !.version = cm.version + 1]
  BY DEF OpInv, OpTypeOK, Versioned, Accepted
<1>1. CASE saw.state = "active" /\ new = [saw EXCEPT !.state = "uncertain"]
  <2>1. /\ new \in RecordType
        /\ new.state = "uncertain" /\ new.observer = cm.observer /\ new.released = cm.released
    BY <1>0, <1>1 DEF RecordType
  <2>2. /\ cm' \in RecordType
        /\ cm'.state = "uncertain" /\ cm'.observer = cm.observer
        /\ cm'.released = cm.released /\ cm'.version = cm.version + 1
    BY SMTT(30), <1>0, <2>1 DEF RecordType
  <2> QED
    BY <1>0, <1>1, <2>2 DEF CmMoves
<1>2. CASE saw.state = "active" /\ new = [saw EXCEPT !.state = "completed"] /\ Over
  <2>1. /\ new \in RecordType
        /\ new.state = "completed" /\ new.observer = cm.observer /\ new.released = cm.released
    BY <1>0, <1>2 DEF RecordType
  <2>2. /\ cm' \in RecordType
        /\ cm'.state = "completed" /\ cm'.observer = cm.observer
        /\ cm'.released = cm.released /\ cm'.version = cm.version + 1
    BY SMTT(30), <1>0, <2>1 DEF RecordType
  <2> QED
    BY <1>0, <1>2, <2>2 DEF CmMoves
<1>3. CASE saw.state = "completed" /\ new = [saw EXCEPT !.released = TRUE]
  <2>1. /\ new \in RecordType
        /\ new.state = cm.state /\ new.observer = cm.observer /\ new.released = TRUE
    BY <1>0, <1>3 DEF RecordType
  <2>2. /\ cm' \in RecordType
        /\ cm'.state = cm.state /\ cm'.observer = cm.observer
        /\ cm'.released = TRUE /\ cm'.version = cm.version + 1
    BY SMTT(30), <1>0, <2>1 DEF RecordType
  <2> QED
    BY <1>0, <1>3, <2>2 DEF CmMoves
<1> QED
  BY <1>1, <1>2, <1>3 DEF Wanted

\* An update computed from the current version, or a completed one's release, is
\* a legal move, whether it is stored, refused, lost or delayed.
LEMMA UpdateMoves ==
  ASSUME OpInv, NEW saw, NEW new, Versioned(saw), Wanted(saw, new),
         Written(saw, new) \/ NotWritten(saw, new)
  PROVE  RecordStep
<1>1. CASE Written(saw, new)
  BY <1>1, UpdateStored DEF Written, RecordStep, LateMoves
<1>2. CASE NotWritten(saw, new)
  <2>1. cm' = cm /\ \A w \in late' : w \in late \/ w = [saw |-> saw, new |-> new]
    BY <1>2 DEF NotWritten, record
  <2> QED
    BY SMTT(30), <2>1 DEF RecordStep, CmMoves, LateMoves
<1> QED
  BY <1>1, <1>2

\* The current version is one an update may be computed from.
LEMMA CurrentVersioned ==
  ASSUME OpInv, cm.state # "absent"
  PROVE  Versioned(cm)
BY SMTT(30) DEF OpInv, OpTypeOK, RecordSound, Versioned, RecordType

\* What was computed from some version still is after any legal move.
LEMMA VersionedKept ==
  ASSUME OpInv, CmMoves, NEW saw, Versioned(saw)
  PROVE  Versioned(saw)'
<1>0. /\ cm \in RecordType /\ saw \in RecordType
      /\ saw.version <= cm.version /\ (saw.version = cm.version => saw = cm)
      /\ saw.state # "absent" /\ saw.version # 0
  BY DEF OpInv, OpTypeOK, Versioned
<1>1. saw.version \in Nat /\ cm.version \in Nat
  BY <1>0 DEF RecordType
<1>2. cm.state = "absent" => cm.version = 0
  BY SMTT(30) DEF OpInv, RecordSound, Absent
<1>3. cm' = cm \/ cm'.version = cm.version + 1
  BY SMTT(30), <1>0, <1>1, <1>2 DEF CmMoves
<1> QED
  BY SMTT(30), <1>0, <1>1, <1>3 DEF Versioned

LEMMA RecordKept ==
  ASSUME OpInv, RecordStep, Over => Over'
  PROVE  /\ cm' \in RecordType
         /\ LateSound' /\ RecordSound'
         /\ cm.state \in {"uncertain", "completed"} => cm'.state = cm.state
         /\ cm.state # "absent" => cm'.observer = cm.observer /\ cm'.state # "absent"
         /\ cm.released => cm'.released
<1>0. CmMoves /\ LateMoves /\ cm \in RecordType /\ LateSound /\ RecordSound
  BY DEF RecordStep, OpInv, OpTypeOK
<1>1. cm' \in RecordType
  BY <1>0 DEF CmMoves
<1>2. LateSound'
  <2> SUFFICES ASSUME NEW w \in late' PROVE Versioned(w.saw)' /\ Wanted(w.saw, w.new)'
    BY DEF LateSound
  <2>1. Versioned(w.saw) /\ Wanted(w.saw, w.new)
    BY <1>0 DEF LateMoves, LateSound
  <2>2. Versioned(w.saw)'
    BY <1>0, <2>1, VersionedKept
  <2>3. Wanted(w.saw, w.new)'
    BY <2>1 DEF Wanted
  <2> QED
    BY <2>2, <2>3
<1>3. RecordSound'
  BY SMTT(30), <1>0 DEF CmMoves, RecordSound, RecordType, Absent
<1>4. /\ cm.state \in {"uncertain", "completed"} => cm'.state = cm.state
      /\ cm.state # "absent" => cm'.observer = cm.observer /\ cm'.state # "absent"
      /\ cm.released => cm'.released
  BY SMTT(30), <1>0 DEF CmMoves, RecordSound, RecordType, Absent
<1> QED
  BY <1>1, <1>2, <1>3, <1>4

LEMMA LifetimeKept ==
  ASSUME OpInv, RecordStep, Progress, admitted' = admitted
  PROVE  LifetimeSound'
<1>1. cm.state = "completed" => cm'.state = "completed"
  BY RecordKept DEF Progress
<1> QED
  BY <1>1 DEF OpInv, LifetimeSound, Progress

\* A loop that takes no part in a step keeps what it relies on.
LEMMA HookKept ==
  ASSUME OpInv, RecordStep, Progress, NEW n \in Manager,
         hook'[n] = hook[n], monitor'[n] = monitor[n],
         admitted' # admitted => hook[n].at = "idle"
  PROVE  HookSound(n)'
<1>1. HookSound(n)
  BY DEF OpInv, ManagerSound
<1>2. /\ cm.state \in {"uncertain", "completed"} => cm'.state = cm.state
      /\ cm.state # "absent" => cm'.observer = cm.observer /\ cm'.state # "absent"
  BY RecordKept DEF Progress
<1> QED
  BY SMTT(30), <1>1, <1>2 DEF HookSound, Progress

LEMMA WatchKept ==
  ASSUME OpInv, RecordStep, Progress, NEW n \in Manager,
         observer'[n] = observer[n], cursor'[n] = cursor[n]
  PROVE  WatchSound(n)'
<1>0. WatchSound(n) /\ cursor[n] \in Nat /\ Len(events) \in Nat /\ Len(events)' >= Len(events)
  BY SMTT(30) DEF OpInv, OpTypeOK, ManagerSound, Progress
<1>1. /\ cm.state \in {"uncertain", "completed"} => cm'.state = cm.state
      /\ cm.state # "absent" => cm'.observer = cm.observer /\ cm'.state # "absent"
  BY RecordKept DEF Progress
<1>2. observer'[n].at \in {"drop", "record"} =>
        Versioned(observer[n].saw)' /\ observer'[n].saw.state = "completed"
  <2>1. \A saw : Versioned(saw) => Versioned(saw)'
    BY VersionedKept DEF RecordStep
  <2> QED
    BY <1>0, <2>1 DEF WatchSound, Versioned
<1> QED
  BY SMTT(30), <1>0, <1>1, <1>2 DEF WatchSound, Progress

LEMMA ReconcileKept ==
  ASSUME OpInv, RecordStep, Progress, NEW n \in Manager, reconciler'[n] = reconciler[n]
  PROVE  ReconcileSound(n)'
<1>0. ReconcileSound(n)
  BY DEF OpInv, ManagerSound
<1>1. cm.state \in {"uncertain", "completed"} => cm'.state = cm.state
  BY RecordKept DEF Progress
<1>2. \A saw : Versioned(saw) => Versioned(saw)'
  BY VersionedKept DEF RecordStep
<1> QED
  BY <1>0, <1>1, <1>2 DEF ReconcileSound, Versioned

\* What every step of a manager m has in common.
Loops == /\ hook' \in [Manager -> HookType] /\ observer' \in [Manager -> ObserverType]
         /\ reconciler' \in [Manager -> ReconcilerType]
         /\ cursor' \in [Manager -> Nat]
         /\ monitor' \in [Manager -> {"none", "running", "done"}]

Aside(n) ==
  /\ hook'[n] = hook[n] /\ observer'[n] = observer[n] /\ reconciler'[n] = reconciler[n]
  /\ monitor'[n] = monitor[n] /\ cursor'[n] = cursor[n]

StepOf(m) ==
  /\ RecordStep /\ Progress /\ Loops /\ UNCHANGED kubernetes
  /\ \A n \in Manager \ {m} : Aside(n)

\* A step of m: the other managers and Kubernetes keep what they rely on.  Only m
\* can be past its hook's read when it admits the Job.
LEMMA StepKept ==
  ASSUME OpInv, NEW m \in Manager, StepOf(m), admitted' \in BOOLEAN,
         admitted' # admitted => hook[m].at # "idle",
         ManagerSound(m)', LifetimeSound', AdmittedSound'
  PROVE  OpInv'
<1>0. /\ RecordStep /\ Progress /\ Loops /\ UNCHANGED <<job, failures, pod, alive, events>>
      /\ \A n \in Manager \ {m} : Aside(n)
  BY DEF StepOf, kubernetes
<1>1. LateSound' /\ RecordSound' /\ cm' \in RecordType
  BY <1>0, RecordKept DEF Progress
<1>2. OpTypeOK'
  BY <1>0, <1>1 DEF OpInv, OpTypeOK, Loops, Progress
<1>3. PodsSound'
  BY SMTT(30), <1>0 DEF OpInv, PodsSound, Seen
<1>4. ASSUME NEW n \in Manager, n # m PROVE ManagerSound(n)'
  <2>1. Aside(n)
    BY <1>0, <1>4
  <2>2. hook[m].at # "idle" => hook[n].at = "idle"
    BY <1>4 DEF OpInv, ManagerSound, HookSound
  <2>3. HookSound(n)'
    BY <1>0, <2>1, <2>2, HookKept DEF Aside
  <2>4. WatchSound(n)'
    BY <1>0, <2>1, WatchKept DEF Aside
  <2>5. ReconcileSound(n)'
    BY <1>0, <2>1, ReconcileKept DEF Aside
  <2> QED
    BY <2>3, <2>4, <2>5 DEF ManagerSound
<1> QED
  BY <1>1, <1>2, <1>3, <1>4 DEF OpInv

LEMMA AdmittedKept ==
  ASSUME OpInv, RecordStep, Progress,
         UNCHANGED <<job, events>>, admitted' = admitted, monitor' = monitor
  PROVE  AdmittedSound'
<1>1. /\ cm.state \in {"uncertain", "completed"} => cm'.state = cm.state
      /\ cm.state # "absent" => cm'.observer = cm.observer /\ cm'.state # "absent"
  BY RecordKept DEF Progress
<1>2. cm'.state = "active" /\ cm.state # "absent" => cm.state = "active"
  BY <1>1 DEF OpInv, OpTypeOK, RecordType
<1> QED
  BY <1>1, <1>2 DEF OpInv, AdmittedSound

\* A step of m that admits no Job and keeps the monitors has only m to prove.
LEMMA QuietKept ==
  ASSUME OpInv, NEW m \in Manager, StepOf(m),
         admitted' = admitted, monitor' = monitor, ManagerSound(m)'
  PROVE  OpInv'
<1>0. RecordStep /\ Progress /\ UNCHANGED <<job, events>> /\ admitted' \in BOOLEAN
  BY DEF StepOf, kubernetes, OpInv, OpTypeOK
<1>1. LifetimeSound' /\ AdmittedSound'
  BY <1>0, LifetimeKept, AdmittedKept
<1> QED
  BY <1>0, <1>1, StepKept
-----------------------------------------------------------------------------
(* The lifecycle hook *)

LEMMA RecordStill ==
  ASSUME UNCHANGED record
  PROVE  RecordStep
BY DEF record, RecordStep, CmMoves, LateMoves

LEMMA KubernetesStill ==
  ASSUME OpInv, UNCHANGED kubernetes, lifetime' \in BOOLEAN,
         cm.state # "completed" /\ lifetime => lifetime'
  PROVE  Progress
BY SMTT(30) DEF OpInv, OpTypeOK, kubernetes, Progress, Over

\* An active operation may be marked uncertain by anyone, at any time.
LEMMA UncertainMoves ==
  ASSUME OpInv, cm.state = "active",
         LET new == [cm EXCEPT !.state = "uncertain"] IN Written(cm, new) \/ NotWritten(cm, new)
  PROVE  RecordStep
<1>1. Versioned(cm)
  BY CurrentVersioned
<1>2. Wanted(cm, [cm EXCEPT !.state = "uncertain"])
  BY DEF Wanted
<1> QED
  BY <1>1, <1>2, UpdateMoves

\* The updates of the hook, of the close and of the release.
LEMMA EnsureReadMoves ==
  ASSUME OpInv, NEW m \in Manager, EnsureRead(m)
  PROVE  RecordStep
<1> DEFINE new == [state |-> "active", observer |-> m, released |-> FALSE, version |-> 1]
<1>1. new \in RecordType /\ new.state = "active" /\ new.observer = m /\ new.version = 1
  BY DEF RecordType
<1> HIDE DEF new
<1>2. CASE cm.state = "absent" /\ cm' \in {cm, new} /\ UNCHANGED late
  BY <1>1, <1>2 DEF RecordStep, CmMoves, LateMoves
<1>3. CASE UNCHANGED record
  BY <1>3, RecordStill
<1>4. CASE /\ cm.state = "active"
           /\ LET change == [cm EXCEPT !.state = "uncertain"] IN Written(cm, change) \/ NotWritten(cm, change)
  BY <1>4, UncertainMoves
<1> QED
  BY <1>2, <1>3, <1>4 DEF EnsureRead, new

LEMMA EnsureBlockedMoves ==
  ASSUME OpInv, NEW m \in Manager, EnsureBlocked(m)
  PROVE  RecordStep
<1>1. cm.state # "absent" /\ cm \in RecordType
  BY DEF OpInv, OpTypeOK, ManagerSound, HookSound, EnsureBlocked
<1>2. late' = late /\ (cm' = cm \/ cm' = [cm EXCEPT !.version = @ + 1])
  BY DEF EnsureBlocked
<1>3. CmMoves
  BY SMTT(30), <1>1, <1>2 DEF CmMoves, RecordType
<1> QED
  BY <1>2, <1>3 DEF RecordStep, LateMoves

LEMMA ObserverClosesMoves ==
  ASSUME OpInv, NEW m \in Manager, ObserverCloses(m)
  PROVE  RecordStep
<1> DEFINE new == [cm EXCEPT !.state = "completed"]
<1>1. Over
  BY DEF ObserverCloses, OpInv, ManagerSound, WatchSound
<1>2. CASE UNCHANGED record
  BY <1>2, RecordStill
<1>3. CASE cm.state = "active" /\ (Written(cm, new) \/ NotWritten(cm, new))
  <2>1. Versioned(cm)
    BY <1>3, CurrentVersioned
  <2>2. Wanted(cm, new)
    BY <1>1, <1>3 DEF Wanted
  <2> QED
    BY <1>3, <2>1, <2>2, UpdateMoves
<1> QED
  BY <1>2, <1>3 DEF ObserverCloses

LEMMA ReleaseMoves ==
  ASSUME OpInv, NEW m \in Manager, ReleaseRecord(m) \/ ReconcileRecord(m)
  PROVE  RecordStep
<1>1. \E saw : /\ Versioned(saw) /\ saw.state = "completed"
               /\ LET new == [saw EXCEPT !.released = TRUE] IN Written(saw, new) \/ NotWritten(saw, new)
  BY DEF ReleaseRecord, ReconcileRecord, OpInv, ManagerSound, WatchSound, ReconcileSound
<1>2. PICK saw : /\ Versioned(saw) /\ saw.state = "completed"
                 /\ LET new == [saw EXCEPT !.released = TRUE] IN Written(saw, new) \/ NotWritten(saw, new)
  BY <1>1
<1>3. Wanted(saw, [saw EXCEPT !.released = TRUE])
  BY <1>2 DEF Wanted
<1> QED
  BY <1>2, <1>3, UpdateMoves

LEMMA EnsureReadKept ==
  ASSUME OpInv, NEW m \in Manager, EnsureRead(m)
  PROVE  OpInv'
<1>0. /\ UNCHANGED <<lifetime, monitor, observer, cursor, reconciler, admitted>> /\ UNCHANGED kubernetes
      /\ cm \in RecordType /\ lifetime \in BOOLEAN /\ hook \in [Manager -> HookType]
  BY DEF EnsureRead, OpInv, OpTypeOK
<1>1. RecordStep /\ Progress
  BY <1>0, EnsureReadMoves, KubernetesStill
<1>2. /\ hook' \in [Manager -> HookType] /\ HookSound(m)'
      /\ \A n \in Manager \ {m} : hook'[n] = hook[n]
  <2>1. CASE UNCHANGED hook
    BY <1>0, <1>1, <2>1, HookKept
  <2>2. ASSUME NEW saw \in RecordType, Hook(m, "establish", saw),
               cm'.state # "absent", cm'.observer = m, monitor[m] = "none" => ~admitted
        PROVE  /\ hook' \in [Manager -> HookType] /\ HookSound(m)'
               /\ \A n \in Manager \ {m} : hook'[n] = hook[n]
    BY <1>0, <2>2 DEF Hook, HookType, HookSound
  <2>3. CASE cm.state = "absent"
    <3> DEFINE new == [state |-> "active", observer |-> m, released |-> FALSE, version |-> 1]
    <3>1. ~admitted
      BY <2>3 DEF OpInv, AdmittedSound
    <3>2. new \in RecordType
      BY DEF RecordType
    <3>3. CASE cm' = new /\ Hook(m, "establish", new)
      BY <2>2, <3>1, <3>2, <3>3
    <3> QED
      BY <2>1, <2>3, <3>3 DEF EnsureRead
  <2>4. CASE cm.state = "active" /\ cm.observer = m /\ Hook(m, "establish", cm) /\ UNCHANGED record
    <3>1. admitted => monitor[m] # "none"
      BY <2>4 DEF OpInv, AdmittedSound
    <3> QED
      BY <1>0, <2>2, <2>4, <3>1 DEF record
  <2> QED
    BY <2>1, <2>3, <2>4 DEF EnsureRead
<1>3. StepOf(m)
  BY <1>0, <1>1, <1>2 DEF StepOf, Loops, Aside, OpInv, OpTypeOK
<1>4. WatchSound(m)' /\ ReconcileSound(m)'
  BY <1>0, <1>1, WatchKept, ReconcileKept
<1> QED
  BY <1>0, <1>2, <1>3, <1>4, QuietKept DEF ManagerSound

\* The hook of m returns to idle without a Job.
LEMMA HookEnds ==
  ASSUME OpInv, NEW m \in Manager, NEW saw \in RecordType, Hook(m, "idle", saw)
  PROVE  /\ hook' \in [Manager -> HookType] /\ HookSound(m)'
         /\ \A n \in Manager \ {m} : hook'[n] = hook[n]
BY DEF OpInv, OpTypeOK, Hook, HookType, HookSound

LEMMA AbsentTyped == Absent \in RecordType
BY DEF Absent, RecordType

LEMMA EnsureBlockedKept ==
  ASSUME OpInv, NEW m \in Manager, EnsureBlocked(m) \/ EnsureWatchFails(m)
  PROVE  OpInv'
<1>0. /\ UNCHANGED <<late, monitor, observer, cursor, reconciler, admitted>> /\ UNCHANGED kubernetes
      /\ lifetime' \in {lifetime, TRUE} /\ Hook(m, "idle", Absent)
      /\ cm \in RecordType /\ lifetime \in BOOLEAN
  BY DEF EnsureBlocked, EnsureWatchFails, LifetimeFails, record, OpInv, OpTypeOK
<1>1. Progress
  <2>1. CASE lifetime' = lifetime
    BY <1>0, <2>1, KubernetesStill
  <2>2. CASE lifetime' = TRUE
    BY <1>0, <2>2, KubernetesStill
  <2> QED
    BY <1>0, <2>1, <2>2
<1>2. RecordStep
  BY EnsureBlockedMoves, RecordStill DEF EnsureWatchFails
<1>3. /\ hook' \in [Manager -> HookType] /\ HookSound(m)'
      /\ \A n \in Manager \ {m} : hook'[n] = hook[n]
  BY <1>0, AbsentTyped, HookEnds
<1>4. StepOf(m)
  BY <1>0, <1>1, <1>2, <1>3 DEF StepOf, Loops, Aside, OpInv, OpTypeOK
<1>5. WatchSound(m)' /\ ReconcileSound(m)'
  BY <1>0, <1>1, <1>2, WatchKept, ReconcileKept
<1> QED
  BY <1>0, <1>3, <1>4, <1>5, QuietKept DEF ManagerSound

LEMMA EnsureEstablishKept ==
  ASSUME OpInv, NEW m \in Manager, EnsureEstablish(m)
  PROVE  OpInv'
<1>0. /\ UNCHANGED <<monitor, observer, cursor, reconciler>> /\ UNCHANGED kubernetes /\ UNCHANGED record
      /\ lifetime' = TRUE /\ hook[m].at = "establish"
      /\ Hook(m, IF monitor[m] = "none" THEN "watch" ELSE "idle", Absent)
      /\ admitted' = (admitted \/ monitor[m] = "running")
  BY DEF EnsureEstablish
<1>1. cm' = cm /\ job' = job /\ events' = events
  BY <1>0 DEF record, kubernetes
<1>2. RecordStep /\ Progress
  BY <1>0, RecordStill, KubernetesStill
<1>3. cm.state # "absent" /\ cm.observer = m /\ (monitor[m] = "none" => ~admitted)
  BY <1>0 DEF OpInv, ManagerSound, HookSound
<1>4. /\ hook' \in [Manager -> HookType] /\ \A n \in Manager \ {m} : hook'[n] = hook[n]
      /\ hook'[m].at = IF monitor[m] = "none" THEN "watch" ELSE "idle"
  BY <1>0, AbsentTyped DEF OpInv, OpTypeOK, Hook, HookType
<1>5. admitted' \in BOOLEAN /\ (admitted => admitted') /\ (admitted' => admitted \/ monitor[m] # "none")
  BY <1>0 DEF OpInv, OpTypeOK
<1>6. HookSound(m)'
  BY <1>0, <1>1, <1>3, <1>4, <1>5 DEF HookSound
<1>7. WatchSound(m)' /\ ReconcileSound(m)'
  BY <1>0, <1>2, WatchKept, ReconcileKept
<1>8. LifetimeSound'
  BY <1>0 DEF LifetimeSound
<1>9. AdmittedSound'
  BY <1>0, <1>1, <1>3, <1>5 DEF AdmittedSound, OpInv
<1>10. StepOf(m)
  BY <1>0, <1>2, <1>4 DEF StepOf, Loops, Aside, OpInv, OpTypeOK
<1> QED
  BY <1>0, <1>5, <1>6, <1>7, <1>8, <1>9, <1>10, StepKept DEF ManagerSound

LEMMA EnsureWatchKept ==
  ASSUME OpInv, NEW m \in Manager, EnsureWatch(m)
  PROVE  OpInv'
<1>0. /\ UNCHANGED <<lifetime, reconciler>> /\ UNCHANGED kubernetes /\ UNCHANGED record
      /\ hook[m].at = "watch" /\ Hook(m, "idle", Absent) /\ lifetime \in BOOLEAN
  BY DEF EnsureWatch, OpInv, OpTypeOK
<1>1. cm' = cm /\ UNCHANGED <<job, events>>
  BY <1>0 DEF record, kubernetes
<1>2. RecordStep /\ Progress
  BY <1>0, RecordStill, KubernetesStill
<1>3. /\ cm.state # "absent" /\ cm.observer = m
      /\ monitor[m] = "none" /\ (cm.state # "completed" => lifetime)
  BY <1>0 DEF OpInv, ManagerSound, HookSound
<1>4. /\ hook' \in [Manager -> HookType] /\ HookSound(m)'
      /\ \A n \in Manager \ {m} : hook'[n] = hook[n]
  BY <1>0, AbsentTyped, HookEnds
<1>5. ReconcileSound(m)'
  BY <1>0, <1>2, ReconcileKept
<1>6. CASE UNCHANGED <<monitor, cursor, observer, admitted>>
  <2>1. WatchSound(m)'
    BY <1>2, <1>6, WatchKept
  <2>2. StepOf(m)
    BY <1>0, <1>2, <1>4, <1>6 DEF StepOf, Loops, Aside, OpInv, OpTypeOK
  <2> QED
    BY <1>4, <1>5, <1>6, <2>1, <2>2, QuietKept DEF ManagerSound
<1>7. CASE /\ monitor' = [monitor EXCEPT ![m] = "running"]
           /\ cursor' = [cursor EXCEPT ![m] = Len(events)]
           /\ Observer(m, "watch", Absent)
           /\ admitted' = TRUE
  <2>1. /\ observer' \in [Manager -> ObserverType] /\ observer'[m].at = "watch"
        /\ \A n \in Manager \ {m} : observer'[n] = observer[n]
    BY <1>7, AbsentTyped DEF OpInv, OpTypeOK, Observer, ObserverType
  <2>2. /\ monitor' \in [Manager -> {"none", "running", "done"}] /\ monitor'[m] = "running"
        /\ \A n \in Manager \ {m} : monitor'[n] = monitor[n]
    BY <1>7 DEF OpInv, OpTypeOK
  <2>3. /\ cursor' \in [Manager -> Nat] /\ cursor'[m] = Len(events)
        /\ \A n \in Manager \ {m} : cursor'[n] = cursor[n]
    BY SMTT(30), <1>7 DEF OpInv, OpTypeOK
  <2>4. WatchSound(m)'
    BY SMTT(30), <1>1, <1>3, <2>1, <2>3 DEF WatchSound, OpInv, OpTypeOK
  <2>5. StepOf(m)
    BY <1>0, <1>2, <1>4, <2>1, <2>2, <2>3 DEF StepOf, Loops, Aside, OpInv, OpTypeOK
  <2>6. LifetimeSound' /\ AdmittedSound'
    BY <1>0, <1>1, <1>3, <1>7, <2>2 DEF LifetimeSound, AdmittedSound, OpInv
  <2> QED
    BY <1>0, <1>4, <1>5, <1>7, <2>4, <2>5, <2>6, StepKept DEF ManagerSound
<1> QED
  BY <1>6, <1>7 DEF EnsureWatch
-----------------------------------------------------------------------------
(* The observer *)

\* A step of m's observer that leaves everything else of m alone.
LEMMA ObserverKept ==
  ASSUME OpInv, NEW m \in Manager, RecordStep, Progress, UNCHANGED kubernetes,
         UNCHANGED <<monitor, hook, reconciler, admitted>>,
         observer' \in [Manager -> ObserverType], cursor' \in [Manager -> Nat],
         \A n \in Manager \ {m} : observer'[n] = observer[n] /\ cursor'[n] = cursor[n],
         WatchSound(m)'
  PROVE  OpInv'
<1>1. HookSound(m)' /\ ReconcileSound(m)'
  BY HookKept, ReconcileKept
<1>2. StepOf(m)
  BY DEF StepOf, Loops, Aside, OpInv, OpTypeOK
<1> QED
  BY <1>1, <1>2, QuietKept DEF ManagerSound

\* Where the observer of m goes without having read the ConfigMap again.
LEMMA ObserverMoves ==
  ASSUME OpInv, NEW m \in Manager, observer[m].at # "idle", RecordStep, Progress, UNCHANGED kubernetes,
         UNCHANGED <<monitor, hook, reconciler, admitted, cursor>>,
         NEW at, Observer(m, at, Absent),
         \/ at \in {"watch", "unsure", "open"}
         \/ at = "pods" /\ job = "complete"
         \/ at = "close" /\ job = "complete" /\ Over
         \/ at = "release" /\ cm'.state = "completed"
         \/ at = "closed" /\ cm'.state \in {"uncertain", "completed"}
  PROVE  OpInv'
<1>1. /\ observer' \in [Manager -> ObserverType] /\ observer'[m].at = at
      /\ \A n \in Manager \ {m} : observer'[n] = observer[n]
  BY AbsentTyped DEF OpInv, OpTypeOK, Observer, ObserverType
<1>2. cm'.state # "absent" /\ cm'.observer = m
  <2>1. cm.state # "absent" /\ cm.observer = m
    BY DEF OpInv, ManagerSound, WatchSound
  <2> QED
    BY <2>1, RecordKept DEF Progress
<1>3. cursor[m] <= Len(events) /\ events' = events /\ job' = job /\ (Over => Over')
  BY DEF OpInv, ManagerSound, WatchSound, kubernetes, Progress
<1>4. WatchSound(m)'
  BY <1>1, <1>2, <1>3 DEF WatchSound
<1> QED
  BY <1>1, <1>4, ObserverKept DEF OpInv, OpTypeOK

LEMMA DeliverKept ==
  ASSUME OpInv, NEW m \in Manager, Deliver(m)
  PROVE  OpInv'
<1>0. /\ UNCHANGED <<lifetime, monitor, hook, reconciler, admitted>> /\ UNCHANGED kubernetes /\ UNCHANGED record
      /\ observer[m].at = "watch" /\ cursor[m] + 1 <= Len(events)
      /\ cursor' = [cursor EXCEPT ![m] = cursor[m] + 1]
      /\ observer' = observer \/ Observer(m, "unsure", Absent)
      /\ lifetime \in BOOLEAN
  BY DEF Deliver, OpInv, OpTypeOK
<1>1. RecordStep /\ Progress
  BY <1>0, RecordStill, KubernetesStill
<1>2. /\ cursor' \in [Manager -> Nat] /\ cursor'[m] = cursor[m] + 1
      /\ \A n \in Manager \ {m} : cursor'[n] = cursor[n]
  BY SMTT(30), <1>0 DEF OpInv, OpTypeOK
<1>3. /\ observer' \in [Manager -> ObserverType] /\ observer'[m].at \in {"watch", "unsure"}
      /\ \A n \in Manager \ {m} : observer'[n] = observer[n]
  <2>1. CASE observer' = observer
    BY <1>0, <2>1 DEF OpInv, OpTypeOK
  <2>2. CASE Observer(m, "unsure", Absent)
    BY <2>2, AbsentTyped DEF OpInv, OpTypeOK, Observer, ObserverType
  <2> QED
    BY <1>0, <2>1, <2>2
<1>4. WatchSound(m)'
  BY <1>0, <1>2, <1>3 DEF OpInv, ManagerSound, WatchSound, kubernetes, record
<1> QED
  BY <1>0, <1>1, <1>2, <1>3, <1>4, ObserverKept

\* What the observer learns from the Job and the Pods.
LEMMA ObserveKept ==
  ASSUME OpInv, NEW m \in Manager, ObserverFails(m) \/ ObserveJob(m)
  PROVE  OpInv'
<1>0. /\ UNCHANGED <<lifetime, monitor, hook, reconciler, admitted, cursor>> /\ UNCHANGED kubernetes
      /\ UNCHANGED record /\ observer[m].at # "idle" /\ lifetime \in BOOLEAN
  BY DEF ObserverFails, ObserveJob, OpInv, OpTypeOK
<1>1. RecordStep /\ Progress
  BY <1>0, RecordStill, KubernetesStill
<1>2. CASE Observer(m, "unsure", Absent)
  BY <1>0, <1>1, <1>2, ObserverMoves
<1>3. CASE job = "complete" /\ Observer(m, "pods", Absent)
  BY <1>0, <1>1, <1>3, ObserverMoves
<1> QED
  BY <1>2, <1>3 DEF ObserverFails, ObserveJob

\* A watch that has caught up with the Pods that are listed, all of them terminated
\* and one of them with success, has seen every Pod: no process is left.
LEMMA TerminatedAll ==
  ASSUME OpInv, NEW m \in Manager, Listed \cap Behind(m) = {}, AllTerminated(m)
  PROVE  alive = {}
<1>1. PICK q \in Pod : pod[q] = "succeeded"
  <2>1. Phase("succeeded") = 1
    BY DEF AllTerminated
  <2>2. {p \in Pod : pod[p] = "succeeded"} # {}
    BY SMTT(30), <2>1, FS_EmptySet DEF Phase
  <2> QED
    BY <2>2
<1>2. PICK i \in 1..Len(events) :
        events[i] = q /\ \A p \in Pod : pod[p] # "none" => Seen(p, i)
  BY <1>1 DEF OpInv, PodsSound
<1>3. cursor[m] \in Nat /\ Len(events) \in Nat /\ i \in Nat /\ i >= 1 /\ i <= Len(events)
  BY SMTT(30), <1>2 DEF OpInv, OpTypeOK
<1>4. i <= cursor[m]
  <2>1. q \in Listed
    BY <1>1 DEF Listed
  <2>2. q \notin Behind(m)
    BY <2>1
  <2>3. i \notin (cursor[m] + 1)..Len(events)
    BY <1>2, <2>2 DEF Behind
  <2> QED
    BY SMTT(30), <1>3, <2>3
<1> SUFFICES ASSUME NEW p \in alive PROVE FALSE
  OBVIOUS
<1>5. p \in Pod /\ pod[p] \in {"running", "lost", "deleted"}
  BY DEF OpInv, OpTypeOK, PodsSound
<1>6. PICK k \in 1..i : events[k] = p
  BY <1>2, <1>5 DEF Seen
<1>7. k \in 1..cursor[m]
  BY SMTT(30), <1>3, <1>4, <1>6
<1>8. p \in Observed(m)
  BY <1>6, <1>7 DEF Observed
<1> QED
  BY <1>5, <1>8 DEF AllTerminated

LEMMA ObservePodsKept ==
  ASSUME OpInv, NEW m \in Manager, ObservePods(m)
  PROVE  OpInv'
<1>0. /\ UNCHANGED <<lifetime, monitor, hook, reconciler, admitted, cursor>> /\ UNCHANGED kubernetes
      /\ UNCHANGED record /\ observer[m].at = "pods" /\ lifetime \in BOOLEAN
  BY DEF ObservePods, OpInv, OpTypeOK
<1>1. RecordStep /\ Progress
  BY <1>0, RecordStill, KubernetesStill
<1>2. job = "complete"
  BY <1>0 DEF OpInv, ManagerSound, WatchSound
<1>3. CASE Observer(m, "watch", Absent) \/ Observer(m, "unsure", Absent)
  BY <1>0, <1>1, <1>3, ObserverMoves
<1>4. CASE Listed \cap Behind(m) = {} /\ AllTerminated(m) /\ Observer(m, "close", Absent)
  <2>1. Over
    BY <1>2, <1>4, TerminatedAll DEF Over
  <2> QED
    BY <1>0, <1>1, <1>2, <1>4, <2>1, ObserverMoves
<1> QED
  BY <1>3, <1>4 DEF ObservePods

LEMMA ObserverClosesKept ==
  ASSUME OpInv, NEW m \in Manager, ObserverCloses(m)
  PROVE  OpInv'
<1> DEFINE new == [cm EXCEPT !.state = "completed"]
<1>0. /\ UNCHANGED <<lifetime, monitor, hook, reconciler, admitted, cursor>> /\ UNCHANGED kubernetes
      /\ observer[m].at = "close" /\ lifetime \in BOOLEAN /\ cm \in RecordType
  BY DEF ObserverCloses, OpInv, OpTypeOK
<1>1. Progress
  BY <1>0, KubernetesStill
<1>2. RecordStep
  BY ObserverClosesMoves
<1>3. CASE cm.state = "active" /\ Written(cm, new) /\ Observer(m, "release", Absent)
  <2>1. cm'.state = "completed"
    BY <1>0, <1>3 DEF Written, RecordType
  <2> QED
    BY <1>0, <1>1, <1>2, <1>3, <2>1, ObserverMoves
<1>4. CASE Observer(m, "unsure", Absent)
  BY <1>0, <1>1, <1>2, <1>4, ObserverMoves
<1> QED
  BY <1>3, <1>4 DEF ObserverCloses

LEMMA ObserverUnsureKept ==
  ASSUME OpInv, NEW m \in Manager, ObserverUnsure(m)
  PROVE  OpInv'
<1> DEFINE new == [cm EXCEPT !.state = "uncertain"]
<1>0. /\ UNCHANGED <<lifetime, monitor, hook, reconciler, admitted, cursor>> /\ UNCHANGED kubernetes
      /\ observer[m].at = "unsure" /\ lifetime \in BOOLEAN /\ cm \in RecordType
  BY DEF ObserverUnsure, OpInv, OpTypeOK
<1>1. Progress
  BY <1>0, KubernetesStill
<1>2. CASE cm.state \in {"uncertain", "completed"} /\ UNCHANGED record /\ Observer(m, "closed", Absent)
  <2>1. cm'.state \in {"uncertain", "completed"}
    BY <1>2 DEF record
  <2> QED
    BY <1>0, <1>1, <1>2, <2>1, RecordStill, ObserverMoves
<1>3. CASE cm.state = "active" /\ Written(cm, new) /\ Observer(m, "closed", Absent)
  <2>1. cm'.state = "uncertain"
    BY <1>0, <1>3 DEF Written, RecordType
  <2>2. RecordStep
    BY <1>3, UncertainMoves
  <2> QED
    BY <1>0, <1>1, <1>3, <2>1, <2>2, ObserverMoves
<1>4. CASE cm.state = "active" /\ NotWritten(cm, new) /\ Observer(m, "open", Absent)
  <2>1. RecordStep
    BY <1>4, UncertainMoves
  <2> QED
    BY <1>0, <1>1, <1>4, <2>1, ObserverMoves
<1> QED
  BY <1>2, <1>3, <1>4 DEF ObserverUnsure

\* A monitor is forgotten only when its operation is closed.
LEMMA ObserverExitsKept ==
  ASSUME OpInv, NEW m \in Manager, ObserverExits(m)
  PROVE  OpInv'
<1>0. /\ UNCHANGED <<lifetime, hook, cursor, reconciler, admitted>> /\ UNCHANGED kubernetes /\ UNCHANGED record
      /\ observer[m].at \in {"closed", "open"} /\ hook[m].at = "idle"
      /\ monitor' = [monitor EXCEPT ![m] = IF observer[m].at = "closed" THEN "none" ELSE "done"]
      /\ Observer(m, "idle", Absent)
      /\ lifetime \in BOOLEAN
  BY DEF ObserverExits, OpInv, OpTypeOK
<1>1. RecordStep /\ Progress
  BY <1>0, RecordStill, KubernetesStill
<1>2. /\ monitor' \in [Manager -> {"none", "running", "done"}]
      /\ monitor'[m] = IF observer[m].at = "closed" THEN "none" ELSE "done"
      /\ \A n \in Manager \ {m} : monitor'[n] = monitor[n]
  BY <1>0 DEF OpInv, OpTypeOK
<1>3. /\ observer' \in [Manager -> ObserverType] /\ observer'[m].at = "idle"
      /\ \A n \in Manager \ {m} : observer'[n] = observer[n]
  BY <1>0, AbsentTyped DEF OpInv, OpTypeOK, Observer, ObserverType
<1>4. HookSound(m)' /\ WatchSound(m)'
  BY <1>0, <1>3 DEF HookSound, WatchSound, OpInv, ManagerSound, kubernetes
<1>5. ReconcileSound(m)'
  BY <1>0, <1>1, ReconcileKept
<1>6. cm.observer = m /\ (observer[m].at = "closed" => cm.state # "active")
  BY <1>0 DEF OpInv, ManagerSound, WatchSound
<1>7. LifetimeSound' /\ AdmittedSound'
  BY <1>0, <1>2, <1>6 DEF OpInv, LifetimeSound, AdmittedSound, kubernetes, record
<1>8. StepOf(m)
  BY <1>0, <1>1, <1>2, <1>3 DEF StepOf, Loops, Aside, OpInv, OpTypeOK
<1> QED
  BY <1>0, <1>4, <1>5, <1>7, <1>8, StepKept DEF ManagerSound, OpInv, OpTypeOK
-----------------------------------------------------------------------------
(* The release *)

LEMMA ReleaseReadKept ==
  ASSUME OpInv, NEW m \in Manager, ReleaseRead(m)
  PROVE  OpInv'
<1>0. /\ UNCHANGED <<lifetime, monitor, hook, reconciler, admitted, cursor>> /\ UNCHANGED kubernetes
      /\ UNCHANGED record /\ observer[m].at = "release" /\ lifetime \in BOOLEAN /\ cm \in RecordType
      /\ Observer(m, IF Pending THEN "drop" ELSE "closed", cm)
  BY DEF ReleaseRead, OpInv, OpTypeOK
<1>1. RecordStep /\ Progress
  BY <1>0, RecordStill, KubernetesStill
<1>2. /\ observer' \in [Manager -> ObserverType] /\ observer'[m].saw = cm
      /\ observer'[m].at \in {"drop", "closed"}
      /\ \A n \in Manager \ {m} : observer'[n] = observer[n]
  BY <1>0 DEF OpInv, OpTypeOK, Observer, ObserverType
<1>3. cm' = cm /\ events' = events /\ cm.state = "completed" /\ cm.observer = m /\ cursor[m] <= Len(events)
  BY <1>0 DEF OpInv, ManagerSound, WatchSound, record, kubernetes
<1>4. Versioned(cm)
  BY <1>3, CurrentVersioned
<1>5. WatchSound(m)'
  BY <1>0, <1>2, <1>3, <1>4 DEF WatchSound, Versioned
<1> QED
  BY <1>0, <1>1, <1>2, <1>5, ObserverKept DEF OpInv, OpTypeOK

\* Only a completed operation loses its lifetime.
LEMMA DropProgress ==
  ASSUME OpInv, UNCHANGED kubernetes, cm.state = "completed",
         lifetime' = FALSE \/ LifetimeFails(FALSE)
  PROVE  Progress
<1>1. lifetime' = FALSE \/ lifetime' = lifetime
  BY DEF LifetimeFails
<1>2. CASE lifetime' = FALSE
  BY <1>2, KubernetesStill
<1>3. CASE lifetime' = lifetime
  BY <1>3, KubernetesStill DEF OpInv, OpTypeOK
<1> QED
  BY <1>1, <1>2, <1>3

LEMMA ReleaseDropKept ==
  ASSUME OpInv, NEW m \in Manager, ReleaseDrop(m)
  PROVE  OpInv'
<1>0. /\ UNCHANGED <<monitor, hook, reconciler, admitted, cursor>> /\ UNCHANGED kubernetes
      /\ UNCHANGED record /\ observer[m].at = "drop"
      /\ lifetime' = FALSE \/ LifetimeFails(FALSE)
  BY DEF ReleaseDrop
<1>1. /\ cm' = cm /\ events' = events /\ cm.state = "completed" /\ cm.observer = m
      /\ cursor[m] <= Len(events) /\ Versioned(observer[m].saw) /\ observer[m].saw.state = "completed"
  BY <1>0 DEF OpInv, ManagerSound, WatchSound, record, kubernetes
<1>2. RecordStep /\ Progress
  BY <1>0, <1>1, RecordStill, DropProgress
<1>3. CASE Observer(m, "record", observer[m].saw)
  <2>1. /\ observer' \in [Manager -> ObserverType] /\ observer'[m].saw = observer[m].saw
        /\ observer'[m].at = "record"
        /\ \A n \in Manager \ {m} : observer'[n] = observer[n]
    BY <1>3 DEF OpInv, OpTypeOK, Observer, ObserverType
  <2>2. WatchSound(m)'
    BY <1>0, <1>1, <2>1 DEF WatchSound, Versioned
  <2> QED
    BY <1>0, <1>2, <2>1, <2>2, ObserverKept DEF OpInv, OpTypeOK
<1>4. CASE Observer(m, "release", Absent)
  BY <1>0, <1>1, <1>2, <1>4, ObserverMoves
<1> QED
  BY <1>3, <1>4 DEF ReleaseDrop

LEMMA ReleaseRecordKept ==
  ASSUME OpInv, NEW m \in Manager, ReleaseRecord(m)
  PROVE  OpInv'
<1>0. /\ UNCHANGED <<lifetime, monitor, hook, reconciler, admitted, cursor>> /\ UNCHANGED kubernetes
      /\ observer[m].at = "record" /\ lifetime \in BOOLEAN
  BY DEF ReleaseRecord, OpInv, OpTypeOK
<1>1. RecordStep /\ Progress
  BY <1>0, ReleaseMoves, KubernetesStill
<1>2. cm.state = "completed"
  BY <1>0 DEF OpInv, ManagerSound, WatchSound
<1>3. cm'.state = "completed"
  BY <1>1, <1>2, RecordKept DEF Progress
<1>4. CASE Observer(m, "closed", Absent)
  BY <1>0, <1>1, <1>3, <1>4, ObserverMoves
<1>5. CASE Observer(m, "release", Absent)
  BY <1>0, <1>1, <1>3, <1>5, ObserverMoves
<1> QED
  BY <1>4, <1>5 DEF ReleaseRecord
-----------------------------------------------------------------------------
(* The reconciler, crashes and late updates *)

LEMMA ReconcilerKept ==
  ASSUME OpInv, NEW m \in Manager, RecordStep, Progress, UNCHANGED kubernetes,
         UNCHANGED <<monitor, hook, observer, cursor, admitted>>,
         reconciler' \in [Manager -> ReconcilerType],
         \A n \in Manager \ {m} : reconciler'[n] = reconciler[n],
         ReconcileSound(m)'
  PROVE  OpInv'
<1>1. HookSound(m)' /\ WatchSound(m)'
  BY HookKept, WatchKept
<1>2. StepOf(m)
  BY DEF StepOf, Loops, Aside, OpInv, OpTypeOK
<1> QED
  BY <1>1, <1>2, QuietKept DEF ManagerSound

LEMMA ReconcileReadKept ==
  ASSUME OpInv, NEW m \in Manager, ReconcileRead(m)
  PROVE  OpInv'
<1> DEFINE new == [cm EXCEPT !.state = "uncertain"]
<1>0. /\ UNCHANGED <<lifetime, monitor, hook, observer, cursor, admitted>> /\ UNCHANGED kubernetes
      /\ lifetime \in BOOLEAN /\ cm \in RecordType
  BY DEF ReconcileRead, OpInv, OpTypeOK
<1>1. Progress
  BY <1>0, KubernetesStill
<1>2. CASE cm.state = "active" /\ (Written(cm, new) \/ NotWritten(cm, new)) /\ UNCHANGED reconciler
  <2>1. RecordStep
    BY <1>2, UncertainMoves
  <2>2. ReconcileSound(m)'
    BY <1>1, <1>2, <2>1, ReconcileKept
  <2> QED
    BY <1>0, <1>1, <1>2, <2>1, <2>2, ReconcilerKept DEF OpInv, OpTypeOK
<1>3. CASE Pending /\ Reconciler(m, "drop", cm) /\ UNCHANGED record
  <2>1. /\ reconciler' \in [Manager -> ReconcilerType] /\ reconciler'[m].saw = cm
        /\ \A n \in Manager \ {m} : reconciler'[n] = reconciler[n]
    BY <1>0, <1>3 DEF OpInv, OpTypeOK, Reconciler, ReconcilerType
  <2>2. cm.state = "completed" /\ cm' = cm
    BY <1>3 DEF Pending, record
  <2>3. Versioned(cm)
    BY <2>2, CurrentVersioned
  <2>4. ReconcileSound(m)'
    BY <2>1, <2>2, <2>3 DEF ReconcileSound, Versioned
  <2> QED
    BY <1>0, <1>1, <1>3, <2>1, <2>4, RecordStill, ReconcilerKept
<1> QED
  BY <1>2, <1>3 DEF ReconcileRead

\* The reconciler of m gives up or is done.
LEMMA ReconcilerEnds ==
  ASSUME OpInv, NEW m \in Manager, Reconciler(m, "idle", Absent)
  PROVE  /\ reconciler' \in [Manager -> ReconcilerType] /\ ReconcileSound(m)'
         /\ \A n \in Manager \ {m} : reconciler'[n] = reconciler[n]
BY AbsentTyped DEF OpInv, OpTypeOK, Reconciler, ReconcilerType, ReconcileSound

LEMMA ReconcileDropKept ==
  ASSUME OpInv, NEW m \in Manager, ReconcileDrop(m)
  PROVE  OpInv'
<1>0. /\ UNCHANGED <<monitor, hook, observer, cursor, admitted>> /\ UNCHANGED kubernetes
      /\ UNCHANGED record /\ reconciler[m].at = "drop"
      /\ lifetime' = FALSE \/ LifetimeFails(FALSE)
  BY DEF ReconcileDrop
<1>1. /\ cm' = cm /\ cm.state = "completed"
      /\ Versioned(reconciler[m].saw) /\ reconciler[m].saw.state = "completed"
  BY <1>0 DEF OpInv, ManagerSound, ReconcileSound, record
<1>2. RecordStep /\ Progress
  BY <1>0, <1>1, RecordStill, DropProgress
<1>3. CASE Reconciler(m, "record", reconciler[m].saw)
  <2>1. /\ reconciler' \in [Manager -> ReconcilerType] /\ reconciler'[m].saw = reconciler[m].saw
        /\ \A n \in Manager \ {m} : reconciler'[n] = reconciler[n]
    BY <1>3 DEF OpInv, OpTypeOK, Reconciler, ReconcilerType
  <2>2. ReconcileSound(m)'
    BY <1>1, <2>1 DEF ReconcileSound, Versioned
  <2> QED
    BY <1>0, <1>2, <2>1, <2>2, ReconcilerKept
<1>4. CASE Reconciler(m, "idle", Absent)
  BY <1>0, <1>2, <1>4, ReconcilerEnds, ReconcilerKept
<1> QED
  BY <1>3, <1>4 DEF ReconcileDrop

LEMMA ReconcileRecordKept ==
  ASSUME OpInv, NEW m \in Manager, ReconcileRecord(m)
  PROVE  OpInv'
<1>0. /\ UNCHANGED <<lifetime, monitor, hook, observer, cursor, admitted>> /\ UNCHANGED kubernetes
      /\ Reconciler(m, "idle", Absent) /\ lifetime \in BOOLEAN
  BY DEF ReconcileRecord, OpInv, OpTypeOK
<1>1. RecordStep /\ Progress
  BY <1>0, ReleaseMoves, KubernetesStill
<1> QED
  BY <1>0, <1>1, ReconcilerEnds, ReconcilerKept

\* A step that no loop of any manager notices: a crash, a late update.
LEMMA OutsideKept ==
  ASSUME OpInv, RecordStep, UNCHANGED <<lifetime, monitor, hook, observer, cursor, reconciler, admitted>>,
         UNCHANGED kubernetes
  PROVE  OpInv'
<1>0. Progress /\ UNCHANGED <<job, failures, pod, alive, events>>
  BY KubernetesStill DEF OpInv, OpTypeOK, kubernetes
<1>1. LateSound' /\ RecordSound' /\ cm' \in RecordType
  BY <1>0, RecordKept DEF Progress
<1>2. OpTypeOK'
  BY <1>0, <1>1 DEF OpInv, OpTypeOK
<1>3. PodsSound'
  BY SMTT(30), <1>0 DEF OpInv, PodsSound, Seen
<1>4. LifetimeSound' /\ AdmittedSound'
  BY <1>0, LifetimeKept, AdmittedKept
<1>5. ASSUME NEW n \in Manager PROVE ManagerSound(n)'
  BY <1>0, HookKept, WatchKept, ReconcileKept DEF ManagerSound
<1> QED
  BY <1>1, <1>2, <1>3, <1>4, <1>5 DEF OpInv

LEMMA LateArrivesKept ==
  ASSUME OpInv, NEW w \in late, LateArrives(w)
  PROVE  OpInv'
<1>0. /\ UNCHANGED <<lifetime, monitor, hook, observer, cursor, reconciler, admitted>> /\ UNCHANGED kubernetes
      /\ late' = late \ {w}
      /\ cm' = IF Accepted(w.saw) THEN [w.new EXCEPT !.version = cm.version + 1] ELSE cm
  BY DEF LateArrives, managers
<1>1. LateMoves
  BY <1>0 DEF LateMoves
<1>2. CASE ~Accepted(w.saw)
  BY <1>0, <1>1, <1>2, OutsideKept DEF RecordStep, CmMoves
<1>3. CASE Accepted(w.saw)
  <2>1. Versioned(w.saw) /\ Wanted(w.saw, w.new)
    BY DEF OpInv, LateSound
  <2>2. CmMoves
    BY <1>0, <1>3, <2>1, UpdateStored
  <2> QED
    BY <1>0, <1>1, <2>2, OutsideKept DEF RecordStep
<1> QED
  BY <1>2, <1>3

LEMMA CrashKept ==
  ASSUME OpInv, NEW m \in Manager, Crash(m)
  PROVE  OpInv'
BY RecordStill, OutsideKept DEF Crash
-----------------------------------------------------------------------------
(* Kubernetes *)

LEMMA WorldKept ==
  ASSUME OpInv, Unchanged, Progress,
         job' \in {"none", "active", "complete", "failed", "deleted"},
         pod' \in [Pod -> {"none", "running", "succeeded", "failed", "lost", "deleted"}],
         alive' \subseteq Pod, events' \in Seq(Pod), PodsSound',
         (job' # "none" => admitted) /\ (events' # <<>> => job' # "none")
  PROVE  OpInv'
<1>0. UNCHANGED <<cm, late, lifetime, monitor, hook, observer, cursor, reconciler, admitted>> /\ RecordStep
  BY RecordStill DEF Unchanged, record, managers
<1>1. LateSound' /\ RecordSound' /\ LifetimeSound'
  BY <1>0, RecordKept, LifetimeKept DEF Progress
<1>2. OpTypeOK'
  BY <1>0 DEF OpInv, OpTypeOK
<1>3. AdmittedSound'
  BY <1>0 DEF OpInv, AdmittedSound
<1>4. ASSUME NEW n \in Manager PROVE ManagerSound(n)'
  BY <1>0, HookKept, WatchKept, ReconcileKept DEF ManagerSound
<1> QED
  BY <1>1, <1>2, <1>3, <1>4 DEF OpInv

LEMMA JobKept ==
  ASSUME OpInv, CreateJob \/ \E s \in {"complete", "failed", "deleted"} : EndJob(s)
  PROVE  OpInv'
<1>0. /\ UNCHANGED <<pod, alive, events>> /\ Unchanged /\ job' \in {"active", "complete", "failed", "deleted"}
      /\ admitted /\ (job = "none" \/ job = "active")
  BY DEF CreateJob, EndJob, OpInv, AdmittedSound
<1>1. Progress
  BY SMTT(30), <1>0 DEF Progress, Over, Unchanged, OpInv, OpTypeOK
<1>2. PodsSound'
  BY SMTT(30), <1>0 DEF OpInv, PodsSound, Seen
<1> QED
  BY <1>0, <1>1, <1>2, WorldKept DEF OpInv, OpTypeOK

\* A Pod event: what was seen stays seen, and p is seen last.
LEMMA EventSeen ==
  ASSUME OpInv, NEW p \in Pod, events' = Append(events, p)
  PROVE  /\ events' \in Seq(Pod) /\ Len(events') = Len(events) + 1 /\ events' # <<>>
         /\ \A q \in Pod, i \in 1..Len(events) : events'[i] = events[i] /\ (Seen(q, i) => Seen(q, i)')
         /\ \A q \in Pod : Seen(q, Len(events)) => \E k \in 1..Len(events') : events'[k] = q
         /\ events'[Len(events')] = p
<1>0. events \in Seq(Pod) /\ Len(events) \in Nat
  BY SMTT(30) DEF OpInv, OpTypeOK
<1>1. /\ events' \in Seq(Pod) /\ Len(events') = Len(events) + 1 /\ events'[Len(events')] = p
      /\ \A i \in 1..Len(events) : events'[i] = events[i]
  BY SMTT(30), <1>0
<1>2. events' # <<>>
  BY SMTT(30), <1>0, <1>1
<1> QED
  BY SMTT(30), <1>0, <1>1, <1>2 DEF Seen

\* What the step of a Pod that exists leaves to prove.
LEMMA PodKept ==
  ASSUME OpInv, NEW p \in Pod, NEW phase \in {"succeeded", "failed", "lost", "deleted"},
         pod[p] # "none", pod' = [pod EXCEPT ![p] = phase],
         events' = Append(events, p), UNCHANGED <<job, failures>>, Unchanged,
         alive' \subseteq alive, phase \in {"succeeded", "failed"} => p \notin alive'
  PROVE  OpInv'
<1>0. /\ events' \in Seq(Pod) /\ Len(events') = Len(events) + 1 /\ events' # <<>>
      /\ \A q \in Pod, i \in 1..Len(events) : events'[i] = events[i] /\ (Seen(q, i) => Seen(q, i)')
      /\ \A q \in Pod : Seen(q, Len(events)) => \E k \in 1..Len(events') : events'[k] = q
      /\ events'[Len(events')] = p
  BY EventSeen
<1>1. /\ Len(events) \in Nat /\ PodsSound /\ pod'[p] = phase /\ \A q \in Pod \ {p} : pod'[q] = pod[q]
      /\ pod' \in [Pod -> {"none", "running", "succeeded", "failed", "lost", "deleted"}]
      /\ alive \subseteq Pod
  BY SMTT(30) DEF OpInv, OpTypeOK
<1>2. events # <<>>
  <2>1. Seen(p, Len(events))
    BY <1>1 DEF PodsSound
  <2> QED
    BY SMTT(30), <2>1 DEF Seen
<1>3. job # "none" /\ admitted
  BY <1>2 DEF OpInv, AdmittedSound
<1>4. Progress
  BY SMTT(30), <1>0, <1>1 DEF Progress, Over, Unchanged, OpInv, OpTypeOK
<1>5. PodsSound'
  <2>1. \A q \in Pod : pod'[q] # "none" => \E k \in 1..Len(events') : events'[k] = q
    BY <1>0, <1>1 DEF PodsSound
  <2>2. \A q \in alive' : pod'[q] \in {"running", "lost", "deleted"}
    BY <1>1 DEF PodsSound
  <2>3. ASSUME NEW q \in Pod, pod'[q] = "succeeded"
        PROVE  \E i \in 1..Len(events') : events'[i] = q /\ \A r \in Pod : pod'[r] # "none" => Seen(r, i)'
    <3>1. CASE q = p
      <4>1. Len(events') \in 1..Len(events')
        BY SMTT(30), <1>0, <1>1
      <4> QED
        BY <1>0, <2>1, <3>1, <4>1 DEF Seen
    <3>2. CASE q # p
      <4>1. PICK i \in 1..Len(events) : events[i] = q /\ \A r \in Pod : pod[r] # "none" => Seen(r, i)
        BY <1>1, <2>3, <3>2 DEF PodsSound
      <4>2. i \in 1..Len(events')
        BY SMTT(30), <1>0, <1>1, <4>1
      <4> QED
        BY <1>0, <1>1, <4>1, <4>2
    <3> QED
      BY <3>1, <3>2
  <2> QED
    BY <2>1, <2>2, <2>3 DEF PodsSound, Seen
<1> QED
  BY <1>0, <1>1, <1>3, <1>4, <1>5, WorldKept DEF OpInv, OpTypeOK

\* No Pod is created after one that succeeded.
LEMMA CreatePodKept ==
  ASSUME OpInv, NEW p \in Pod, CreatePod(p)
  PROVE  OpInv'
<1>0. /\ events' \in Seq(Pod) /\ Len(events') = Len(events) + 1 /\ events' # <<>>
      /\ \A q \in Pod : Seen(q, Len(events)) => \E k \in 1..Len(events') : events'[k] = q
      /\ events'[Len(events')] = p
  BY EventSeen DEF CreatePod
<1>1. /\ job = "active" /\ \A q \in Pod : pod[q] # "succeeded"
      /\ pod' = [pod EXCEPT ![p] = "running"] /\ alive' = alive \cup {p}
      /\ UNCHANGED <<job, failures>> /\ Unchanged
  BY DEF CreatePod
<1>2. /\ Len(events) \in Nat /\ PodsSound /\ pod'[p] = "running" /\ \A q \in Pod \ {p} : pod'[q] = pod[q]
      /\ pod' \in [Pod -> {"none", "running", "succeeded", "failed", "lost", "deleted"}]
      /\ alive \subseteq Pod
  BY SMTT(30), <1>1 DEF OpInv, OpTypeOK
<1>3. Progress
  BY SMTT(30), <1>0, <1>1, <1>2 DEF Progress, Over, Unchanged, OpInv, OpTypeOK
<1>4. PodsSound'
  <2>1. \A q \in Pod : pod'[q] # "none" => \E k \in 1..Len(events') : events'[k] = q
    BY SMTT(30), <1>0, <1>2 DEF PodsSound
  <2>2. \A q \in alive' : pod'[q] \in {"running", "lost", "deleted"}
    BY <1>1, <1>2 DEF PodsSound
  <2>3. \A q \in Pod : pod'[q] # "succeeded"
    BY <1>1, <1>2
  <2> QED
    BY <2>1, <2>2, <2>3 DEF PodsSound, Seen
<1>5. admitted
  BY <1>1 DEF OpInv, AdmittedSound
<1> QED
  BY <1>0, <1>1, <1>2, <1>3, <1>4, <1>5, WorldKept DEF OpInv, OpTypeOK

LEMMA PodsKept ==
  ASSUME OpInv, NEW p \in Pod,
         \/ CreatePod(p) \/ LosePod(p) \/ DeletePod(p) \/ ProcessEnds(p)
         \/ \E phase \in {"succeeded", "failed"} : Terminate(p, phase)
  PROVE  OpInv'
<1>1. CASE CreatePod(p)
  BY <1>1, CreatePodKept
<1>2. CASE LosePod(p)
  BY <1>2, PodKept DEF LosePod
<1>3. CASE DeletePod(p)
  BY <1>3, PodKept DEF DeletePod
<1>4. CASE \E phase \in {"succeeded", "failed"} : Terminate(p, phase)
  BY <1>4, PodKept DEF Terminate
<1>5. CASE ProcessEnds(p)
  <2>1. Progress
    BY SMTT(30), <1>5 DEF ProcessEnds, Progress, Over, Unchanged, OpInv, OpTypeOK
  <2>2. PodsSound'
    BY SMTT(30), <1>5 DEF ProcessEnds, OpInv, PodsSound, Seen
  <2> QED
    BY <1>5, <2>1, <2>2, WorldKept DEF ProcessEnds, OpInv, OpTypeOK, AdmittedSound
<1> QED
  BY <1>1, <1>2, <1>3, <1>4, <1>5
-----------------------------------------------------------------------------
(* The theorems *)

LEMMA OpStarts == Init => OpInv
<1> SUFFICES ASSUME Init PROVE OpInv
  OBVIOUS
<1>1. OpTypeOK
  <2>1. Idle \in HookType /\ Idle \in ObserverType /\ Idle \in ReconcilerType
    BY AbsentTyped DEF Idle, HookType, ObserverType, ReconcilerType
  <2>2. <<>> \in Seq(Pod)
    BY SMTT(30)
  <2> QED
    BY <2>1, <2>2, AbsentTyped DEF Init, OpTypeOK
<1>2. LateSound /\ RecordSound /\ LifetimeSound /\ AdmittedSound
  BY DEF Init, LateSound, RecordSound, LifetimeSound, AdmittedSound, Absent
<1>3. PodsSound
  BY DEF Init, PodsSound, Seen
<1>4. \A m \in Manager : ManagerSound(m)
  BY SMTT(30) DEF Init, ManagerSound, HookSound, WatchSound, ReconcileSound, Idle
<1> QED
  BY <1>1, <1>2, <1>3, <1>4 DEF OpInv

LEMMA ManagersKept ==
  ASSUME OpInv, NEW m \in Manager, Ensure(m) \/ Observe(m) \/ Reconcile(m) \/ Crash(m)
  PROVE  OpInv'
<1>1. CASE Ensure(m)
  BY <1>1, EnsureReadKept, EnsureEstablishKept, EnsureBlockedKept, EnsureWatchKept DEF Ensure
<1>2. CASE Observe(m)
  BY <1>2, DeliverKept, ObserveKept, ObservePodsKept, ObserverClosesKept, ObserverUnsureKept,
     ObserverExitsKept, ReleaseReadKept, ReleaseDropKept, ReleaseRecordKept DEF Observe
<1>3. CASE Reconcile(m)
  BY <1>3, ReconcileReadKept, ReconcileDropKept, ReconcileRecordKept DEF Reconcile
<1>4. CASE Crash(m)
  BY <1>4, CrashKept
<1> QED
  BY <1>1, <1>2, <1>3, <1>4

LEMMA OpKept == OpInv /\ [Next]_vars => OpInv'
<1> SUFFICES ASSUME OpInv, [Next]_vars PROVE OpInv'
  OBVIOUS
<1>1. CASE UNCHANGED vars
  <2>1. UNCHANGED <<lifetime, monitor, hook, observer, cursor, reconciler, admitted>>
    BY <1>1 DEF vars
  <2>2. UNCHANGED kubernetes /\ UNCHANGED record
    BY <1>1 DEF vars, kubernetes, record
  <2> QED
    BY <2>1, <2>2, RecordStill, OutsideKept
<1>2. CASE \E m \in Manager : Ensure(m) \/ Observe(m) \/ Reconcile(m) \/ Crash(m)
  BY <1>2, ManagersKept
<1>3. CASE \E w \in late : LateArrives(w)
  BY <1>3, LateArrivesKept
<1>4. CASE CreateJob \/ \E s \in {"complete", "failed", "deleted"} : EndJob(s)
  BY <1>4, JobKept
<1>5. CASE \E p \in Pod : CreatePod(p) \/ LosePod(p) \/ DeletePod(p) \/ ProcessEnds(p)
  BY <1>5, PodsKept
<1>6. CASE \E p \in Pod, phase \in {"succeeded", "failed"} : Terminate(p, phase)
  BY <1>6, PodsKept
<1> QED
  BY <1>1, <1>2, <1>3, <1>4, <1>5, <1>6 DEF Next

LEMMA OpAlways == Spec => []OpInv
BY OpStarts, OpKept, PTL DEF Spec

\* As long as a process of a recovery Pod may read the source, its node lost or
\* its Pod deleted by force, the lifetime holder is in the source's gate: for any
\* number of managers, Pods, crashes, conflicts and updates that arrive late.
THEOREM OperationReadersProtected == Spec => []ReadersProtected
<1>1. OpInv => ReadersProtected
  <2> SUFFICES ASSUME OpInv, NEW p \in alive PROVE lifetime
    BY DEF ReadersProtected
  <2>1. p \in Pod /\ pod[p] # "none"
    BY DEF OpInv, OpTypeOK, PodsSound
  <2>2. Seen(p, Len(events))
    BY <2>1 DEF OpInv, PodsSound
  <2>3. events # <<>>
    BY SMTT(30), <2>2 DEF Seen
  <2>4. admitted
    BY <2>3 DEF OpInv, AdmittedSound
  <2>5. cm.state # "completed"
    BY DEF OpInv, RecordSound, Over
  <2> QED
    BY <2>4, <2>5 DEF OpInv, LifetimeSound
<1> QED
  BY <1>1, OpAlways, PTL

\* The record of a step of any manager.
LEMMA NextMoves ==
  ASSUME OpInv, Next
  PROVE  RecordStep
<1>1. ASSUME UNCHANGED record PROVE RecordStep
  BY <1>1, RecordStill
<1>2. CASE \E w \in late : LateArrives(w)
  <2>1. PICK w \in late : LateArrives(w)
    BY <1>2
  <2>2. LateMoves
    BY <2>1 DEF LateArrives, LateMoves
  <2>3. Versioned(w.saw) /\ Wanted(w.saw, w.new)
    BY DEF OpInv, LateSound
  <2>4. CmMoves
    BY <2>1, <2>3, UpdateStored DEF LateArrives, CmMoves
  <2> QED
    BY <2>2, <2>4 DEF RecordStep
<1>3. CASE CreateJob \/ \E s \in {"complete", "failed", "deleted"} : EndJob(s)
  BY <1>1, <1>3 DEF CreateJob, EndJob, Unchanged
<1>4. CASE \/ \E p \in Pod : CreatePod(p) \/ LosePod(p) \/ DeletePod(p) \/ ProcessEnds(p)
           \/ \E p \in Pod, phase \in {"succeeded", "failed"} : Terminate(p, phase)
  BY <1>1, <1>4 DEF CreatePod, LosePod, DeletePod, ProcessEnds, Terminate, Unchanged
<1>5. ASSUME NEW m \in Manager, Ensure(m) \/ Observe(m) \/ Reconcile(m) \/ Crash(m)
      PROVE  RecordStep
  <2>1. CASE EnsureRead(m)
    BY <2>1, EnsureReadMoves
  <2>2. CASE EnsureBlocked(m)
    BY <2>2, EnsureBlockedMoves
  <2>3. CASE ObserverCloses(m)
    BY <2>3, ObserverClosesMoves
  <2>4. CASE ObserverUnsure(m) \/ ReconcileRead(m)
    BY <1>1, <2>4, UncertainMoves DEF ObserverUnsure, ReconcileRead
  <2>5. CASE ReleaseRecord(m) \/ ReconcileRecord(m)
    BY <2>5, ReleaseMoves
  <2>6. CASE EnsureEstablish(m) \/ EnsureWatch(m) \/ EnsureWatchFails(m)
    BY <1>1, <2>6 DEF EnsureEstablish, EnsureWatch, EnsureWatchFails
  <2>7. CASE Deliver(m) \/ ObserverFails(m) \/ ObserveJob(m) \/ ObservePods(m) \/ ObserverExits(m)
    BY <1>1, <2>7 DEF Deliver, ObserverFails, ObserveJob, ObservePods, ObserverExits
  <2>8. CASE ReleaseRead(m) \/ ReleaseDrop(m) \/ ReconcileDrop(m) \/ Crash(m)
    BY <1>1, <2>8 DEF ReleaseRead, ReleaseDrop, ReconcileDrop, Crash
  <2> QED
    BY <1>5, <2>1, <2>2, <2>3, <2>4, <2>5, <2>6, <2>7, <2>8 DEF Ensure, Observe, Reconcile
<1> QED
  BY <1>2, <1>3, <1>4, <1>5 DEF Next

\* A closed operation stays as it was closed, its observer and its release are
\* never taken back, whichever manager updates the ConfigMap and however late.
THEOREM OperationClosedStays == Spec => ClosedStays
<1>1. ASSUME OpInv, Next
      PROVE  /\ cm.state \in {"uncertain", "completed"} => cm'.state = cm.state
             /\ cm.state # "absent" => cm'.observer = cm.observer
             /\ cm.released => cm'.released
  BY SMTT(30), <1>1, NextMoves DEF RecordStep, CmMoves, OpInv, RecordSound, Absent
<1>2. OpInv /\ [Next]_vars =>
        [/\ cm.state \in {"uncertain", "completed"} => cm'.state = cm.state
         /\ cm.state # "absent" => cm'.observer = cm.observer
         /\ cm.released => cm'.released]_vars
  BY <1>1
<1> QED
  BY <1>2, OpAlways, PTL DEF Spec, ClosedStays

\* An observation starts before the first Pod is created, or not at all: neither a
\* second process, nor a second hook of the first one after its monitor ended,
\* adopts Pods whose events it did not see.
THEOREM OperationObservationFromStart == Spec => ObservationFromStart
<1>1. ASSUME OpInv, Next, NEW m \in Manager, observer[m].at = "idle", observer'[m].at # "idle"
      PROVE  events = <<>>
  <2>1. EnsureWatch(m)
    <3>1. observer' # observer
      BY <1>1
    <3>2. PICK n \in Manager : Ensure(n) \/ Observe(n)
      BY <1>1, <3>1 DEF Next, LateArrives, CreateJob, EndJob, CreatePod, LosePod, DeletePod, ProcessEnds,
         Terminate, Unchanged, managers, Reconcile, ReconcileRead, ReconcileDrop, ReconcileRecord, Crash
    <3>3. \E at, saw : Observer(n, at, saw)
      BY <3>1, <3>2 DEF Ensure, Observe, EnsureRead, EnsureEstablish, EnsureBlocked, EnsureWatch,
         EnsureWatchFails, Deliver, ObserverFails, ObserveJob, ObservePods, ObserverCloses,
         ObserverUnsure, ObserverExits, ReleaseRead, ReleaseDrop, ReleaseRecord
    <3>4. n = m
      BY <1>1, <3>3 DEF Observer, OpInv, OpTypeOK
    <3>5. ~Observe(m)
      BY <1>1 DEF Observe, Deliver, ObserverFails, ObserveJob, ObservePods, ObserverCloses,
         ObserverUnsure, ObserverExits, ReleaseRead, ReleaseDrop, ReleaseRecord
    <3> QED
      BY <3>1, <3>2, <3>4, <3>5 DEF Ensure, EnsureRead, EnsureEstablish, EnsureBlocked, EnsureWatchFails
  <2>2. hook[m].at = "watch"
    BY <2>1 DEF EnsureWatch
  <2>3. ~admitted
    BY <1>1, <2>2 DEF OpInv, ManagerSound, HookSound
  <2> QED
    BY <1>1, <2>3 DEF OpInv, AdmittedSound
<1>2. OpInv /\ [Next]_vars =>
        [\A m \in Manager : observer[m].at = "idle" /\ observer'[m].at # "idle" => events = <<>>]_vars
  BY <1>1
<1> QED
  BY <1>2, OpAlways, PTL DEF Spec, ObservationFromStart
=============================================================================
