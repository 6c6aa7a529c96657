--------------------------- MODULE RecoveryGuard ---------------------------
(***************************************************************************)
(* Exclusive ownership of the target volumes of a recovery                 *)
(* (internal/recoveryguard, and RecoveryService of internal/cnpgi).        *)
(*                                                                         *)
(* A guard is process 1 of a recovery container.  It locks every target    *)
(* volume, leaves a durable marker on each, opens one session with the     *)
(* sidecar of its Pod, runs PostgreSQL's instance manager as its child,    *)
(* and removes the markers only when every descendant is reaped and that   *)
(* same sidecar process has drained.  The kernel drops the locks of a dead *)
(* process; nothing drops its markers.                                     *)
(*                                                                         *)
(* A sidecar admits tasks for its one session: the restore, which writes   *)
(* the base backup into the targets, and WAL fetches.  What is left of a   *)
(* dead process (descendants, tasks) ends some time after it.              *)
(***************************************************************************)
EXTENDS Naturals, FiniteSets

CONSTANTS Guard,        \* incarnations of process 1
          Sidecar,      \* incarnations of sidecar processes
          PodOf,        \* the Pod of each
          Volumes,      \* number of target volumes, in the order of their UIDs
          MaxTasks,     \* 4 in the code
          None, Torn    \* no marker or lock or session, an incomplete marker

Volume == 1..Volumes

ASSUME GuardAssumption ==
  /\ Volumes \in Nat \ {0} /\ MaxTasks \in Nat \ {0}
  /\ {None, Torn} \cap Guard = {} /\ None \notin Sidecar

VARIABLES flock,      \* who holds the lock of each volume
          marker,     \* the owner in each volume's owner.json
          stage,      \* where each guard is in Run
          next,       \* the volume it gets to next
          children,   \* the processes below a guard that are not reaped
          uncertain,  \* guards whose loop saw a signal or the end of the session
          link,       \* the sidecar at the other end of a guard's session
          session,    \* the guard a sidecar began with
          control,    \* where the sidecar's session handler is
          closed,     \* Admission.closed
          fetches,    \* WAL tasks of an Admission that are not done
          restore,    \* RecoveryService: the one bootstrap attempt
          reader,     \* the source hold of the sidecar process
          dirty       \* guards whose targets hold a base backup begun and not completed

vars == <<flock, marker, stage, next, children, uncertain, link, session, control,
          closed, fetches, restore, reader, dirty>>
volumes == <<flock, marker>>
guards == <<stage, next, children, uncertain, link>>
sidecars == <<session, control, closed, fetches, restore, reader>>

Init ==
  /\ flock = [v \in Volume |-> None]
  /\ marker = [v \in Volume |-> None]
  /\ stage = [g \in Guard |-> "lock"]
  /\ next = [g \in Guard |-> 1]
  /\ children = [g \in Guard |-> {}]
  /\ uncertain = {}
  /\ link = [g \in Guard |-> None]
  /\ session = [s \in Sidecar |-> None]
  /\ control = [s \in Sidecar |-> "waiting"]
  /\ closed = [s \in Sidecar |-> FALSE]
  /\ fetches = [s \in Sidecar |-> 0]
  /\ restore = [s \in Sidecar |-> "new"]
  /\ reader = [s \in Sidecar |-> "none"]
  /\ dirty = {}

Goto(g, s) == stage' = [stage EXCEPT ![g] = s]

\* Step through the volumes in their order, then go to stage s.
Onwards(g, s) ==
  IF next[g] < Volumes
  THEN next' = [next EXCEPT ![g] = @ + 1] /\ UNCHANGED stage
  ELSE next' = [next EXCEPT ![g] = 1] /\ Goto(g, s)

Ended == {"failed", "exited"}

\* The locks of g go when its process ends: held.close, or the kernel.
Unlocked(g) == [v \in Volume |-> IF flock[v] = g THEN None ELSE flock[v]]
-----------------------------------------------------------------------------
(* acquire *)

Lock(g) ==
  /\ stage[g] = "lock"
  /\ flock[next[g]] = None
  /\ flock' = [flock EXCEPT ![next[g]] = g]
  /\ Onwards(g, "check")
  /\ UNCHANGED <<marker, children, uncertain, link, sidecars, dirty>>

\* The whole set is checked before any fresh marker is created.
Check(g) ==
  /\ stage[g] = "check"
  /\ \A v \in Volume : marker[v] = None
  /\ Goto(g, "mark")
  /\ UNCHANGED <<volumes, next, children, uncertain, link, sidecars, dirty>>

\* O_EXCL; a failed write or sync, or death in the middle, may leave anything.
Mark(g) ==
  /\ stage[g] = "mark"
  /\ marker[next[g]] = None
  /\ \/ marker' = [marker EXCEPT ![next[g]] = g] /\ Onwards(g, "begin") /\ UNCHANGED flock
     \/ /\ marker' = [marker EXCEPT ![next[g]] = Torn]
        /\ flock' = Unlocked(g)
        /\ Goto(g, "failed") /\ UNCHANGED next
  /\ UNCHANGED <<children, uncertain, link, sidecars, dirty>>
-----------------------------------------------------------------------------
(* The session *)

\* Begin: the stream to the sidecar that listens on the Pod's socket.
Connect(g, s) ==
  /\ stage[g] = "begin"
  /\ link[g] = None
  /\ PodOf[g] = PodOf[s] /\ control[s] # "dead"
  /\ link' = [link EXCEPT ![g] = s]
  /\ UNCHANGED <<volumes, stage, next, children, uncertain, sidecars, dirty>>

\* verifyOwner: every marker is this guard's, and every lock is held.
OwnerVerified(g) == \A v \in Volume : marker[v] = g /\ flock[v] # None

\* Admission.begin: an Admission serves one session, ever.
Begin(s, g) ==
  /\ link[g] = s
  /\ control[s] = "waiting" /\ ~closed[s]
  /\ OwnerVerified(g)
  /\ session' = [session EXCEPT ![s] = g]
  /\ control' = [control EXCEPT ![s] = "begun"]
  /\ UNCHANGED <<volumes, guards, closed, fetches, restore, reader, dirty>>

\* The acknowledgment of Begin arrives and the instance manager is started.
StartChild(g) ==
  /\ stage[g] = "begin"
  /\ link[g] # None
  /\ session[link[g]] = g /\ control[link[g]] # "waiting"
  /\ Goto(g, "run")
  /\ children' = [children EXCEPT ![g] = {"main"}]
  /\ UNCHANGED <<volumes, next, uncertain, link, sidecars, dirty>>

\* Tasks that are not done.
InRestore == {"admitted", "held", "native"}
Active(s) == fetches[s] + IF restore[s] \in InRestore THEN 1 ELSE 0

\* Admission.Close.
CloseAdmission(s) == closed' = [closed EXCEPT ![s] = TRUE]

\* Faulty variant: drain does not wait for the tasks.
DrainAtOnce(s) ==
  /\ control[s] = "draining"
  /\ reader' = [reader EXCEPT ![s] = IF @ = "held" THEN "closed" ELSE @]
  /\ control' = [control EXCEPT ![s] = "drained"]
  /\ UNCHANGED <<volumes, guards, session, closed, fetches, restore, dirty>>

\* The Drain message arrives, and drain looks once whether the session is open;
\* it gives up the mutex before it goes on.
AcceptDrain(s) ==
  LET g == session[s] IN
  /\ control[s] = "begun"
  /\ stage[g] = "drain" /\ link[g] = s
  /\ ~closed[s]
  /\ control' = [control EXCEPT ![s] = "accepted"]
  /\ UNCHANGED <<volumes, guards, session, closed, fetches, restore, reader, dirty>>

\* drain closes the Admission, whether or not somebody else did in between.
CloseForDrain(s) ==
  /\ control[s] = "accepted"
  /\ control' = [control EXCEPT ![s] = "draining"]
  /\ CloseAdmission(s)
  /\ UNCHANGED <<volumes, guards, session, fetches, restore, reader, dirty>>

\* Every task is done: RecoveryService.drain closes the source hold, and only
\* then is the Drain acknowledged.
Drain(s) ==
  /\ control[s] = "draining"
  /\ Active(s) = 0
  /\ reader' = [reader EXCEPT ![s] = IF @ = "held" THEN "closed" ELSE @]
  /\ control' = [control EXCEPT ![s] = "drained"]
  /\ UNCHANGED <<volumes, guards, session, closed, fetches, restore, dirty>>

\* The handler ends early: the stream broke, Drain met a closed Admission, the
\* drain timed out or the source hold could not be closed.
SessionEnds(s) ==
  /\ control[s] \in {"begun", "draining"}
  /\ control' = [control EXCEPT ![s] = "closed"]
  /\ CloseAdmission(s)
  /\ UNCHANGED <<volumes, guards, session, fetches, restore, reader, dirty>>

SidecarDies(s) ==
  /\ control[s] # "dead"
  /\ control' = [control EXCEPT ![s] = "dead"]
  /\ UNCHANGED <<volumes, guards, session, closed, fetches, restore, reader, dirty>>
-----------------------------------------------------------------------------
(* Tasks *)

\* Admit: a session that has begun and not closed, with room for a task.
Admits(s) ==
  /\ session[s] # None /\ ~closed[s] /\ control[s] # "dead"
  /\ Active(s) < MaxTasks

Fetch(s) ==
  /\ Admits(s)
  /\ fetches' = [fetches EXCEPT ![s] = @ + 1]
  /\ UNCHANGED <<volumes, guards, session, control, closed, restore, reader, dirty>>

FetchDone(s) ==
  /\ fetches[s] > 0
  /\ fetches' = [fetches EXCEPT ![s] = @ - 1]
  /\ UNCHANGED <<volumes, guards, session, control, closed, restore, reader, dirty>>

\* RecoveryService.Restore: one attempt per process.
Restore(s) ==
  /\ Admits(s)
  /\ restore[s] = "new"
  /\ restore' = [restore EXCEPT ![s] = "admitted"]
  /\ UNCHANGED <<volumes, guards, session, control, closed, fetches, reader, dirty>>

\* AdmitRestore returned the source hold.
HoldSource(s) ==
  /\ restore[s] = "admitted"
  /\ restore' = [restore EXCEPT ![s] = "held"]
  /\ reader' = [reader EXCEPT ![s] = "held"]
  /\ UNCHANGED <<volumes, guards, session, control, closed, fetches, dirty>>

\* postgres.RestoreFull begins to write.
Materialize(s) ==
  /\ restore[s] = "held"
  /\ restore' = [restore EXCEPT ![s] = "native"]
  /\ dirty' = dirty \cup {session[s]}
  /\ UNCHANGED <<volumes, guards, session, control, closed, fetches, reader>>

Materialized(s) ==
  /\ restore[s] = "native"
  /\ restore' = [restore EXCEPT ![s] = "ready"]
  /\ dirty' = dirty \ {session[s]}
  /\ UNCHANGED <<volumes, guards, session, control, closed, fetches, reader>>

\* What is left of the attempt: a failure after the writing began poisons the
\* session, unless it has accepted a Drain by then.
Failed(s) ==
  IF restore[s] = "native" /\ control[s] \notin {"accepted", "draining"} THEN "poisoned" ELSE "failed"

\* Faulty variant: a failed materialization leaves the Admission open.
RestoreFailsOpen(s) ==
  /\ restore[s] \in InRestore
  /\ restore' = [restore EXCEPT ![s] = Failed(s)]
  /\ UNCHANGED <<volumes, guards, session, control, closed, fetches, reader, dirty>>

\* bootstrap fails; once it may have written, it closes the Admission first, so
\* that this session cannot accept a Drain any more.  A Drain that was accepted
\* before goes on.
RestoreFails(s) ==
  /\ restore[s] \in InRestore
  /\ restore' = [restore EXCEPT ![s] = Failed(s)]
  /\ closed' = [closed EXCEPT ![s] = @ \/ restore[s] = "native"]
  /\ UNCHANGED <<volumes, guards, session, control, fetches, reader, dirty>>
-----------------------------------------------------------------------------
(* The loop of Run *)

\* The instance manager starts PostgreSQL, or a descendant that leaves its group.
Fork(g) ==
  /\ stage[g] = "run" /\ "main" \in children[g]
  /\ children' = [children EXCEPT ![g] = @ \cup {"descendant"}]
  /\ UNCHANGED <<volumes, stage, next, uncertain, link, sidecars, dirty>>

\* A process ends, by itself or by the signals of terminate; after the guard's
\* death the kernel kills what is left.
ChildEnds(g, c) ==
  /\ c \in children[g]
  /\ children' = [children EXCEPT ![g] = @ \ {c}]
  /\ UNCHANGED <<volumes, stage, next, uncertain, link, sidecars, dirty>>

\* SIGTERM to the guard, or the session is over before Drain.
LatchUncertain(g) ==
  /\ stage[g] = "run"
  /\ uncertain' = uncertain \cup {g}
  /\ UNCHANGED <<volumes, stage, next, children, link, sidecars, dirty>>

\* Faulty variant: the exit of the main process is enough.
ReapMain(g) ==
  /\ stage[g] = "run"
  /\ "main" \notin children[g]
  /\ g \notin uncertain
  /\ Goto(g, "drain")
  /\ UNCHANGED <<volumes, next, children, uncertain, link, sidecars, dirty>>

\* wait4 says ECHILD: everything is reaped, and Drain is sent.
Reaped(g) ==
  /\ stage[g] = "run"
  /\ children[g] = {}
  /\ g \notin uncertain
  /\ Goto(g, "drain")
  /\ UNCHANGED <<volumes, next, children, uncertain, link, sidecars, dirty>>

\* The acknowledgment of Drain; release first looks at every marker.
Drained(g) ==
  /\ stage[g] = "drain"
  /\ control[link[g]] = "drained" /\ session[link[g]] = g
  /\ \A v \in Volume : marker[v] = g
  /\ Goto(g, "unlink")
  /\ UNCHANGED <<volumes, next, children, uncertain, link, sidecars, dirty>>

\* release, one volume after the other, and at the end Run returns.
Unlink(g) ==
  /\ stage[g] = "unlink"
  /\ marker' = [marker EXCEPT ![next[g]] = None]
  /\ Onwards(g, "exited")
  /\ flock' = IF next[g] = Volumes THEN Unlocked(g) ELSE flock
  /\ UNCHANGED <<children, uncertain, link, sidecars, dirty>>

\* Run returns an error (ErrBusy, ErrUncertain, a timeout), or the process dies.
Fail(g) ==
  /\ stage[g] \notin Ended
  /\ flock' = Unlocked(g)
  /\ Goto(g, "failed")
  /\ UNCHANGED <<marker, next, children, uncertain, link, sidecars, dirty>>

Next ==
  \/ \E g \in Guard :
       \/ Lock(g) \/ Check(g) \/ Mark(g) \/ StartChild(g) \/ Fork(g) \/ LatchUncertain(g)
       \/ Reaped(g) \/ Drained(g) \/ Unlink(g) \/ Fail(g)
       \/ \E c \in children[g] : ChildEnds(g, c)
       \/ \E s \in Sidecar : Connect(g, s) \/ Begin(s, g)
  \/ \E s \in Sidecar :
       \/ AcceptDrain(s) \/ CloseForDrain(s) \/ Drain(s) \/ SessionEnds(s) \/ SidecarDies(s)
       \/ Fetch(s) \/ FetchDone(s)
       \/ Restore(s) \/ HoldSource(s) \/ Materialize(s) \/ Materialized(s) \/ RestoreFails(s)

Spec == Init /\ [][Next]_vars
-----------------------------------------------------------------------------
(* Properties *)

\* Something of guard g may still write to the targets: a descendant, or a task
\* its sidecar admitted.
Writes(g) == children[g] # {} \/ \E s \in Sidecar : session[s] = g /\ Active(s) > 0

\* Whoever may still write has its marker on every target, whatever died in the
\* meantime; so nobody else can have acquired any of them (acquire, release).
WriterMarked == \A g \in Guard : Writes(g) => \A v \in Volume : marker[v] = g

\* A materialization that fails, or is cut off, before its session has accepted a
\* Drain keeps the targets marked for ever: the session cannot drain any more,
\* nor can another take its place (bootstrap's deferred Close, drain's check).
PoisonedStaysMarked ==
  \A s \in Sidecar : restore[s] = "poisoned" => \A v \in Volume : marker[v] = session[s]

\* The design document: "uncertain native failure leaves markers".  The targets
\* of a base backup that was begun and not completed are never handed on.
NativeFailureLeavesMarkers == \A g \in dirty : \A v \in Volume : marker[v] = g

\* The source hold outlives every task that reads the source, and Drain is
\* acknowledged, and Run succeeds, only when it is closed (RecoveryService.drain).
ReaderSpansTasks ==
  /\ \A s \in Sidecar : reader[s] = "closed" => Active(s) = 0
  /\ \A g \in Guard : stage[g] \in {"unlink", "exited"} => reader[link[g]] # "held"
=============================================================================
