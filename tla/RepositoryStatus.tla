-------------------------- MODULE RepositoryStatus --------------------------
(***************************************************************************)
(* The status of a Repository resource and its two writers                 *)
(* (ReconcileRepositoryStatus of internal/cnpgi/status.go and              *)
(* reconcileRetention of internal/cnpgi/retention.go).                     *)
(*                                                                         *)
(* Every manager runs one loop of each kind; there is no leader election,  *)
(* so a rollout or a partition may leave two managers at work.  A pass     *)
(* reads the object, works, and sends a merge PATCH of the whole status    *)
(* under the resourceVersion it read; then it may create a Warning event.  *)
(* A write therefore dooms every pass that has read the object: the model  *)
(* ends it at once, since all it can still do is to be refused.  Passes    *)
(* are also cut short by deadlines, failures and the manager's death.      *)
(*                                                                         *)
(* Every edit of the spec has its own hash, so a hash is a generation; 0   *)
(* is no hash.  Times are ticks of one clock.                              *)
(***************************************************************************)
EXTENDS Integers

CONSTANTS Checker,     \* loops of RunRepositoryStatus
          Retainer,    \* loops of runRetention
          Throttle,    \* the five minutes between two warnings
          Interval,    \* spec.retention.interval
          MaxClock,    \* bound on the time
          MaxEdits     \* bound on the edits of the spec

ASSUME LoopAssumption == Checker \cap Retainer = {}
ASSUME TimeAssumption ==
  /\ Throttle \in Nat /\ Interval \in Nat \ {0}
  /\ MaxClock \in Nat /\ MaxEdits \in Nat

Loop == Checker \cup Retainer

VARIABLES clock,
          generation,  \* of the spec
          status,      \* the status subresource
          pass         \* what each loop is doing

vars == <<clock, generation, status, pass>>

Never == -Throttle   \* no warning yet

\* The checker writes observed, hash and warned, retention the rest; `about' is
\* the generation its conditions observed.
NoStatus ==
  [observed |-> 0, hash |-> 0, warned |-> Never,
   about |-> 0, checked |-> -1, nextRun |-> 0, runHash |-> 0, runWarned |-> Never]

\* A pass: its next step, the time it took, the hash it decoded, the generation
\* it read, and the status it read or means to write.
Idle == [at |-> "idle", now |-> 0, found |-> 0, generation |-> 0,
         status |-> NoStatus, warn |-> FALSE]

Init ==
  /\ clock = 0
  /\ generation = 1
  /\ status = NoStatus
  /\ pass = [l \in Loop |-> Idle]

-----------------------------------------------------------------------------
(* Parts of the steps *)

EndPass(l) == pass' = [pass EXCEPT ![l] = Idle]

\* The object is read, status and all.
ReadObject(l, next, now) ==
  pass' = [pass EXCEPT ![l].at = next, ![l].now = now,
                       ![l].generation = generation, ![l].status = status]

\* The PATCH is due; warn says whether a warning follows it.
Compute(l, s, warn) ==
  pass' = [pass EXCEPT ![l].at = "patch", ![l].status = s, ![l].warn = warn]

Due(l, last) == pass[l].now >= last + Throttle

HasRead(l) == pass[l].at \in {"page", "validate", "run", "patch"}

\* Faulty variant: the PATCH carries no resourceVersion.
DoomsNobody(l) == FALSE

\* After a write the API server refuses the PATCH of a pass that read before.
Dooms(l) == HasRead(l)

\* The PATCH is applied, and a warning follows if one is due and the answer
\* arrived; or it is lost.
Patch(l) ==
  /\ pass[l].at = "patch"
  /\ \/ /\ status' = pass[l].status
        /\ \E at \in {"idle"} \cup (IF pass[l].warn THEN {"event"} ELSE {}) :
             pass' = [k \in Loop |-> IF k = l THEN [Idle EXCEPT !.at = at]
                                     ELSE IF Dooms(k) THEN Idle ELSE pass[k]]
     \/ EndPass(l) /\ UNCHANGED status
  /\ UNCHANGED <<clock, generation>>

\* The Warning event is created, or its creation fails.
Warn(l) ==
  /\ pass[l].at = "event"
  /\ EndPass(l)
  /\ UNCHANGED <<clock, generation, status>>

-----------------------------------------------------------------------------
(* ReconcileRepositoryStatus *)

\* The first page of a sweep over the namespace fixes what its pages will hold.
Snapshot(l) ==
  /\ pass[l].at = "idle"
  /\ ReadObject(l, "page", 0)
  /\ UNCHANGED <<clock, generation, status>>

\* The sweep gets to the page with this object, some ticks later; time.Now().
List(l) ==
  /\ pass[l].at = "page"
  /\ pass' = [pass EXCEPT ![l].at = "validate", ![l].now = clock]
  /\ UNCHANGED <<clock, generation, status>>

Configured(l, hash) ==
  [pass[l].status EXCEPT !.observed = pass[l].generation, !.hash = hash]

\* Faulty variant: a status with the hash that is reported already is left.
KeepSameHash(l, hash) ==
  IF hash = pass[l].status.hash THEN EndPass(l)
  ELSE Compute(l, Configured(l, hash), FALSE)

\* The conditions and the throttled warning; an unchanged status is not written.
Report(l, hash) ==
  LET s == Configured(l, hash)
      warn == hash = 0 /\ Due(l, s.warned)
      next == IF warn THEN [s EXCEPT !.warned = pass[l].now] ELSE s
  IN IF next = pass[l].status THEN EndPass(l) ELSE Compute(l, next, warn)

\* The spec is read again, with the Secrets and the trust it refers to, which
\* may be missing.
Validate(l) ==
  /\ pass[l].at = "validate"
  /\ \E hash \in {0, generation} : Report(l, hash)
  /\ UNCHANGED <<clock, generation, status>>

-----------------------------------------------------------------------------
(* reconcileRetention *)

\* time.Now(), then backupConfiguration.
Configure(l) ==
  /\ pass[l].at = "idle"
  /\ pass' = [pass EXCEPT ![l].at = "get", ![l].now = clock, ![l].found = generation]
  /\ UNCHANGED <<clock, generation, status>>

\* Faulty variant: the time is taken again.
RestsByClock(l) == status.runHash = pass[l].found /\ clock < status.nextRun

\* The recorded run is of this configuration, and the next one not due.
Rests(l) == status.runHash = pass[l].found /\ pass[l].now < status.nextRun

\* The object is read; its spec must be the one that was decoded.
GetObject(l) ==
  /\ pass[l].at = "get"
  /\ IF generation = pass[l].found /\ ~Rests(l)
     THEN ReadObject(l, "run", pass[l].now)
     ELSE EndPass(l)
  /\ UNCHANGED <<clock, generation, status>>

\* The batch is done: blocked, complete, or with more work for a run soon after
\* it; or retention is disabled.
Run(l) ==
  LET p == pass[l] IN
  /\ p.at = "run"
  /\ \E blocked \in BOOLEAN, after \in {p.now + Interval, clock + 1} :
       LET warn == blocked /\ Due(l, p.status.runWarned) IN
       /\ blocked => after = p.now + Interval
       /\ Compute(l, [p.status EXCEPT !.about = p.generation,
                                      !.checked = p.now,
                                      !.nextRun = after,
                                      !.runHash = p.found,
                                      !.runWarned = IF warn THEN p.now ELSE @],
                  warn)
  /\ UNCHANGED <<clock, generation, status>>

-----------------------------------------------------------------------------
(* The environment *)

\* A deadline, a failed read or the death of the manager ends a pass.
CutShort(l) ==
  /\ pass[l].at # "idle"
  /\ EndPass(l)
  /\ UNCHANGED <<clock, generation, status>>

Edit ==
  /\ generation <= MaxEdits
  /\ generation' = generation + 1
  /\ pass' = [l \in Loop |-> IF Dooms(l) THEN Idle ELSE pass[l]]
  /\ UNCHANGED <<clock, status>>

Tick ==
  /\ clock < MaxClock
  /\ clock' = clock + 1
  /\ UNCHANGED <<generation, status, pass>>

CheckerStep(l) == Snapshot(l) \/ List(l) \/ Validate(l) \/ Patch(l) \/ Warn(l)

RetainerStep(l) ==
  Configure(l) \/ GetObject(l) \/ Run(l) \/ Patch(l) \/ Warn(l)

Next ==
  \/ \E l \in Checker : CheckerStep(l)
  \/ \E l \in Retainer : RetainerStep(l)
  \/ \E l \in Loop : CutShort(l)
  \/ Edit
  \/ Tick

\* A status loop goes on from tick to tick and from page to page; how a pass ends
\* is not its to choose.
Fairness == \A l \in Checker : WF_vars(CheckerStep(l))

Spec == Init /\ [][Next]_vars /\ Fairness

-----------------------------------------------------------------------------
(* Properties *)

\* Each part of the status describes the generation it names, although the spec
\* is read apart from the object whose version guards the PATCH.
StatusCoherent ==
  /\ status.hash \in {0, status.observed}
  /\ status.runHash = status.about

\* A recorded retention run is replaced only by one that was due, or of another
\* configuration: no manager puts an older result, or one it computed from an
\* older status, in place of what another recorded.
RunsSpaced ==
  [][ status'.checked # status.checked =>
        status'.runHash # status.runHash \/ status'.checked >= status.nextRun ]_vars

\* A pass goes on to warn only Throttle after the last warning of its kind that
\* any manager recorded, before or after a restart.
WarningsApart ==
  [][ \A l \in Loop : pass[l].at = "patch" /\ pass'[l].at = "event" =>
        LET last == IF l \in Checker THEN status.warned ELSE status.runWarned
        IN pass[l].now >= last + Throttle ]_vars

\* The spec is edited, retention writes the status, or the pass of a status loop
\* is cut short or its PATCH lost.  A pass that finds nothing to write is none of
\* these.
Disturbs ==
  \/ Edit
  \/ \E l \in Retainer : Patch(l) /\ status' # status
  \/ \E l \in Checker : CutShort(l) /\ ~Validate(l) /\ ~Warn(l)

\* Once the disturbances stop, the status comes to report the spec as it is and
\* keeps doing so, whatever they left behind: no pass takes a status for up to
\* date that is not.  (While retention writes without end, as it may every second,
\* or the PATCH fails every time, the code promises nothing: RunRepositoryStatus
\* drops the error and goes on.)
ConfigurationReported == <>[][~Disturbs]_vars => <>[](status.observed = generation)
=============================================================================
