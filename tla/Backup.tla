------------------------------- MODULE Backup -------------------------------
(***************************************************************************)
(* The Backup callback of an instance sidecar, from the request to its     *)
(* answer (internal/cnpgi/backup.go), with the native capture it takes     *)
(* (internal/postgres/capture.go, differential.go) and the publication     *)
(* steps it waits for (internal/repository/publication.go).                *)
(*                                                                         *)
(* It composes NativeWorkspace (the sidecar and its native tools),         *)
(* Initialization (opening the repository) and Multipart (the upload).     *)
(* The hold is the callback's own handle on the gate: what matters here is *)
(* when it is given up.  The payload of an attempt is one artifact.        *)
(*                                                                         *)
(* All callbacks ask for the same Backup UID, as the operator's retries    *)
(* do: a later one may find a winner, or the late requests of one whose    *)
(* sidecar died.  The PostgreSQL server restarts, reloads its settings or  *)
(* is promoted at any time.                                                *)
(***************************************************************************)
EXTENDS NativeWorkspace, Multipart, Initialization

CONSTANTS Callback,    \* Backup calls, numbered as they arrive
          Archiver,    \* WAL archive calls that open the repository too
          Home,        \* the Pod of the instance CNPG selected
          MaxChanges   \* bound on the changes of the source

ASSUME CallbackAssumption ==
  /\ Upload = Callback
  /\ Opener = Callback \cup Archiver
  /\ Callback \subseteq Nat /\ None \notin Callback
ASSUME ChangesAssumption == MaxChanges \in Nat

VARIABLES kind,      \* the requested backup type
          full,      \* whether a full backup of the instance is committed
          source,    \* the PostgreSQL server
          on,        \* the sidecar that serves a callback
          stage,     \* what a callback does next
          slot,      \* captureSlot of each sidecar process
          hold,      \* the hold of a callback
          before,    \* what OpenCapture recorded of the server
          monitor,   \* the capacity monitor of a capture
          frozen,    \* whether request.json is stored
          attempt,   \* the callbacks that claimed an attempt
          commit,    \* the attempt commit.json names
          lateCommit,\* commit PUTs that may still be applied
          result,    \* what a callback returned
          steady,    \* history: captures since whose opening nothing changed
          sound      \* history: attempts that met the conditions of a commit

parts == <<workspaceVars, uploadVars, initVars>>
bucket == <<frozen, commit, lateCommit>>
given == <<kind, full, source>>
capture == <<attempt, before, monitor, steady, sound>>
vars == <<parts, bucket, given, on, stage, slot, hold, capture, result>>

Unopened == [postmaster |-> 0, settings |-> 0, timeline |-> 0, primary |-> FALSE]
First == [postmaster |-> 1, settings |-> 1, timeline |-> 1, primary |-> TRUE]

\* The instance is a primary, or a standby that may be promoted.  A differential
\* may meet a full, taken under the first postmaster and timeline, or a prefix
\* nobody has used; once a repository is open, who created it makes no
\* difference, so a full meets one the archiver has opened.
Init ==
  /\ WorkspaceInit
  /\ UploadInit
  /\ \/ /\ kind = "differential" /\ full = FALSE
        /\ InitializationInit
        /\ source = First
     \/ /\ kind \in {"full", "differential"} /\ full = (kind = "differential")
        /\ features = Features /\ gate = TRUE /\ data = TRUE
        /\ identity \in {{a} : a \in Archiver}
        /\ opener = [o \in Opener |-> IF o \in identity THEN "opened" ELSE "idle"]
        /\ stamp = [o \in Opener |-> {}]
        /\ opened = [o \in Opener |-> IF o \in identity THEN identity ELSE {}]
        /\ lateInit = {}
        /\ source \in {First, [First EXCEPT !.primary = FALSE]}
  /\ on = [c \in Callback |-> None]
  /\ stage = [c \in Callback |-> "new"]
  /\ slot = [s \in Sidecar |-> None]
  /\ hold = [c \in Callback |-> "none"]
  /\ before = [c \in Callback |-> Unopened]
  /\ monitor = [c \in Callback |-> "off"]
  /\ frozen = FALSE
  /\ attempt = {}
  /\ commit = None
  /\ lateCommit = {}
  /\ result = [c \in Callback |-> None]
  /\ steady = {}
  /\ sound = {}

-----------------------------------------------------------------------------
(* Parts of the steps *)

Go(c, s) == stage' = [stage EXCEPT ![c] = s]

\* An early return: the deferred functions come next.
Fail(c) == Go(c, "close")

Latch(c) == hold' = [hold EXCEPT ![c] = "uncertain"]

\* A PUT fails; the hold is latched if its outcome is unknown.
PutFails(c) == Fail(c) /\ (UNCHANGED hold \/ Latch(c))

\* Postflight: server state and control file are what OpenCapture saw.
Postflight(c) == source = before[c]

\* EligibleFull of the full there is, against the state OpenCapture recorded.
EligibleFull(c) ==
  /\ full
  /\ before[c].postmaster = First.postmaster
  /\ before[c].timeline = First.timeline

Eligible(c) == kind = "differential" => EligibleFull(c)

\* verifyWinner: every object of the winning attempt is there.
WinnerVerified == commit # None /\ object[commit]

\* A step of a capture, which may fail, that goes on only if the server is
\* still what it was.
Continue(c, from, to) ==
  /\ stage[c] = from
  /\ \/ Postflight(c) /\ Go(c, to)
     \/ Fail(c)
  /\ UNCHANGED <<parts, bucket, given, on, slot, hold, capture, result>>

-----------------------------------------------------------------------------
(* Backup: the request, the slot, the repository and the hold *)

\* A request CNPG sends to an instance sidecar that serves.
Receive(c, s) ==
  /\ stage[c] = "new"
  /\ \A d \in Callback : d < c => stage[d] # "new"
  /\ boot[s] = "serving"
  /\ on' = [on EXCEPT ![c] = s]
  /\ Go(c, "slot")
  /\ UNCHANGED <<parts, bucket, given, slot, hold, capture, result>>

\* A channel serves its senders in the order they came.
TakeSlot(c) ==
  /\ stage[c] = "slot"
  /\ slot[on[c]] = None
  /\ \A d \in Callback : d < c /\ on[d] = on[c] => stage[d] # "slot"
  /\ slot' = [slot EXCEPT ![on[c]] = c]
  /\ Go(c, "prepare")
  /\ UNCHANGED <<parts, bucket, given, on, hold, capture, result>>

\* The context is done first: the select takes its other case.
GiveUp(c) ==
  /\ stage[c] = "slot"
  /\ Go(c, "ended")
  /\ UNCHANGED <<parts, bucket, given, on, slot, hold, capture, result>>

\* Projection, placement, local instance, store, bucket safety, capacity.
Prepare(c) ==
  /\ stage[c] = "prepare"
  /\ \/ PodOf[on[c]] = Home /\ Go(c, "open") /\ StartOpening(c)
     \/ Fail(c) /\ UNCHANGED initVars
  /\ UNCHANGED <<workspaceVars, uploadVars, bucket, given, on, slot, hold,
                 capture, result>>

OpenStep(c) ==
  /\ stage[c] = "open"
  /\ OpenWriter(c)
  /\ UNCHANGED <<workspaceVars, uploadVars, bucket, given, on, stage, slot, hold,
                 capture, result>>

\* AdmitBackup; an admission with an inconclusive answer leaves no handle.
Admit(c) ==
  /\ stage[c] = "open"
  /\ \/ /\ opener[c] = "opened"
        /\ Go(c, "freeze")
        /\ hold' = [hold EXCEPT ![c] = "held"]
     \/ opener[c] \in {"opened", "failed"} /\ Fail(c) /\ UNCHANGED hold
  /\ UNCHANGED <<parts, bucket, given, on, slot, capture, result>>

-----------------------------------------------------------------------------
(* Begin and BeginDifferential *)

\* request.json is created, or found with the same contents; an inconclusive PUT
\* that is found latches the hold and goes on.  One that is not found may be
\* stored all the same: whose it is makes no difference, since every callback of
\* the UID freezes the same contents.
PutRequest(c) ==
  /\ frozen' = TRUE
  /\ FirstObject(c)
  /\ \/ Go(c, "replay") /\ UNCHANGED hold
     \/ (Go(c, "replay") \/ Fail(c)) /\ Latch(c)

\* A differential whose request is not frozen yet opens the capture to select
\* its full, and freezes it in the request.
Freeze(c) ==
  /\ stage[c] = "freeze"
  /\ \/ /\ kind = "differential" /\ full /\ ~frozen /\ before[c] = Unopened
        /\ Go(c, "control")
        /\ UNCHANGED <<initVars, frozen, hold>>
     \/ /\ kind = "full" \/ frozen \/ EligibleFull(c)
        /\ PutRequest(c)
     \/ PutFails(c) /\ UNCHANGED <<initVars, frozen>>
  /\ UNCHANGED <<workspaceVars, uploadVars, commit, lateCommit, given, on, slot,
                 capture, result>>

\* A verified winner is the answer, unless the context is done; without one an
\* uncertain hold goes no further.
Replay(c) ==
  /\ stage[c] = "replay"
  /\ \/ /\ WinnerVerified
        /\ c \notin canceled
        /\ result' = [result EXCEPT ![c] = commit]
        /\ Go(c, "close")
     \/ commit = None /\ hold[c] = "held" /\ Go(c, "claim") /\ UNCHANGED result
     \/ Fail(c) /\ UNCHANGED result
  /\ UNCHANGED <<parts, bucket, given, on, slot, hold, capture>>

Claim(c) ==
  /\ stage[c] = "claim"
  /\ \/ /\ attempt' = attempt \cup {c}
        /\ Go(c, IF before[c] = Unopened THEN "control" ELSE "claimed")
        /\ UNCHANGED hold
     \/ PutFails(c) /\ UNCHANGED attempt
  /\ UNCHANGED <<parts, bucket, given, on, slot, before, monitor, steady, sound,
                 result>>

-----------------------------------------------------------------------------
(* OpenCapture and capture *)

\* The first read of the control file is local only.
ReadControl(c) ==
  /\ stage[c] = "control"
  /\ \/ before' = [before EXCEPT ![c].timeline = source.timeline] /\ Go(c, "state")
     \/ Fail(c) /\ UNCHANGED before
  /\ UNCHANGED <<parts, bucket, given, on, slot, hold, attempt, monitor, steady,
                 sound, result>>

\* The server's state must be a primary's, and the control file unchanged.
ReadState(c) ==
  /\ stage[c] = "state"
  /\ \/ /\ source.primary
        /\ source.timeline = before[c].timeline
        /\ before' = [before EXCEPT ![c] = source]
        /\ steady' = steady \cup {c}
        /\ Go(c, IF c \in attempt THEN "claimed" ELSE "freeze")
     \/ Fail(c) /\ UNCHANGED <<before, steady>>
  /\ UNCHANGED <<parts, bucket, given, on, slot, hold, attempt, monitor, sound,
                 result>>

\* Eligibility again; the monitor; a first Postflight; pg_basebackup starts.
StartCapture(c) ==
  /\ stage[c] = "claimed"
  /\ \/ /\ Postflight(c) /\ Eligible(c)
        /\ monitor' = [monitor EXCEPT ![c] = "on"]
        /\ Go(c, "tool")
        /\ StartTool(on[c])
     \/ Fail(c) /\ UNCHANGED <<monitor, workspaceVars>>
  /\ UNCHANGED <<uploadVars, initVars, bucket, given, on, slot, hold, attempt,
                 before, steady, sound, result>>

\* runNative returns once the process group is reaped.
ToolDone(c) ==
  /\ stage[c] = "tool"
  /\ Reap(on[c])
  /\ Go(c, "stopped") \/ Fail(c)
  /\ UNCHANGED <<uploadVars, initVars, bucket, given, on, slot, hold, capture,
                 result>>

\* Postflight, then manifest, archives, label, control file, pg_verifybackup,
\* WAL and the compressed spools.
Inspect(c) == Continue(c, "stopped", "final")

\* The last Postflight, then the deferred receive of the monitor's verdict.
EndCapture(c) ==
  /\ Continue(c, "final", "upload")
  /\ monitor[c] = "tripped" => Fail(c)

\* A tick of the monitor finds a limit exceeded, and cancels the capture.
MonitorTrips(c) ==
  /\ stage[c] \in {"tool", "stopped", "final"}
  /\ monitor[c] = "on"
  /\ monitor' = [monitor EXCEPT ![c] = "tripped"]
  /\ UNCHANGED <<parts, bucket, given, on, stage, slot, hold, attempt, before,
                 steady, sound, result>>

-----------------------------------------------------------------------------
(* publish *)

UploadFile(c) ==
  /\ stage[c] = "upload"
  /\ UploadStep(c)
  /\ UNCHANGED <<workspaceVars, initVars, bucket, given, on, stage, slot, hold,
                 capture, result>>

\* Faulty variant: an ambiguous upload does not latch the hold.
UploadedUnlatched(c) ==
  /\ stage[c] = "upload"
  /\ \/ answer[c] = "ok" /\ Go(c, "verify")
     \/ answer[c] \in {"definite", "ambiguous"} /\ Fail(c)
  /\ UNCHANGED <<parts, bucket, given, on, slot, hold, capture, result>>

Uploaded(c) ==
  /\ stage[c] = "upload"
  /\ \/ answer[c] = "ok" /\ Go(c, "verify") /\ UNCHANGED hold
     \/ answer[c] = "definite" /\ Fail(c) /\ UNCHANGED hold
     \/ answer[c] = "ambiguous" /\ Fail(c) /\ Latch(c)
  /\ UNCHANGED <<parts, bucket, given, on, slot, capture, result>>

VerifyPayload(c) ==
  /\ stage[c] = "verify"
  /\ \/ object[c] /\ Go(c, "check")
     \/ Fail(c)
  /\ UNCHANGED <<parts, bucket, given, on, slot, hold, capture, result>>

\* History: the attempt reaches its commit with everything in order.
Judge(c) ==
  sound' = IF c \in steady /\ monitor[c] = "on" /\ Eligible(c)
           THEN sound \cup {c} ELSE sound

\* Faulty variant: Publish without the caller's check.
CheckContextOnly(c) ==
  /\ stage[c] = "check"
  /\ \/ c \notin canceled /\ Go(c, "commit") /\ Judge(c)
     \/ Fail(c) /\ UNCHANGED sound
  /\ UNCHANGED <<parts, bucket, given, on, slot, hold, attempt, before, monitor,
                 steady, result>>

\* The caller's Postflight after the payload was read back, and ctx.Err.
Check(c) ==
  /\ stage[c] = "check"
  /\ \/ Postflight(c) /\ c \notin canceled /\ Go(c, "commit") /\ Judge(c)
     \/ Fail(c) /\ UNCHANGED sound
  /\ UNCHANGED <<parts, bucket, given, on, slot, hold, attempt, before, monitor,
                 steady, result>>

\* Faulty variant: the PUT carries no condition.
CommitsAlways(c) == commit' = c

\* The PUT of commit.json creates it if there is none.
Commits(c) == commit' = IF commit = None THEN c ELSE commit

\* Its answer is conclusive or latches the hold; either way the winner is read.
Commit(c) ==
  /\ stage[c] = "commit"
  /\ Go(c, "winner")
  /\ \/ Commits(c) /\ UNCHANGED <<hold, lateCommit>>
     \/ UNCHANGED <<commit, hold, lateCommit>>
     \/ Commits(c) /\ Latch(c) /\ UNCHANGED lateCommit
     \/ UNCHANGED commit /\ Latch(c) /\ lateCommit' = lateCommit \cup {c}
  /\ UNCHANGED <<parts, frozen, given, on, slot, capture, result>>

ReadWinner(c) ==
  /\ stage[c] = "winner"
  /\ \/ /\ WinnerVerified
        /\ c \notin canceled
        /\ result' = [result EXCEPT ![c] = commit]
     \/ UNCHANGED result
  /\ Go(c, "close")
  /\ UNCHANGED <<parts, bucket, given, on, slot, hold, capture>>

-----------------------------------------------------------------------------
(* The deferred functions, in the order they run *)

\* What callbacks forget when they return or die.
Forget(C) ==
  /\ attempt' = attempt \ C
  /\ before' = [c \in Callback |-> IF c \in C THEN Unopened ELSE before[c]]
  /\ monitor' = [c \in Callback |-> IF c \in C THEN "off" ELSE monitor[c]]
  /\ steady' = steady \ C
  /\ canceled' = canceled \ C
  /\ Leave(C)

\* The capture is closed, then the hold, with a fresh context: an uncertain
\* hold, or one whose removal is not confirmed, stays in the gate.  The scratch
\* directory is removed and the slot freed.
Unwind(c) ==
  /\ stage[c] = "close"
  /\ \/ hold[c] = "held" /\ hold' = [hold EXCEPT ![c] = "released"]
     \/ hold[c] # "none" /\ Latch(c)
     \/ hold[c] = "none" /\ UNCHANGED hold
  /\ slot' = [slot EXCEPT ![on[c]] = None]
  /\ Go(c, "ended")
  /\ Forget({c})
  /\ UNCHANGED <<step, sent, closed, phase, recorded, first, answer, late, object>>
  /\ UNCHANGED <<workspaceVars, bucket, given, on, sound, result>>

-----------------------------------------------------------------------------
(* The environment *)

\* The RPC is canceled, or its deadline passes, and part workers may notice; any
\* other step that looks at the context may fail anyway.
CancelCallback(c) ==
  /\ stage[c] = "upload"
  /\ c \notin canceled
  /\ Cancel(c)
  /\ UNCHANGED <<workspaceVars, initVars, bucket, given, on, stage, slot, hold,
                 capture, result>>

\* From OpenCapture to the last check before the commit.
Span == {"freeze", "replay", "claim", "claimed", "tool", "stopped", "final",
         "upload", "verify", "check"}

\* The server restarts, reloads its settings, or is promoted.  A change that no
\* open capture could notice is taken when the next one is about to look; only
\* a differential tells a reload from a restart.
SourceChanges ==
  /\ \E c \in Callback : stage[c] = "control" \/ before[c] # Unopened
  /\ source.postmaster + source.settings + source.timeline < 3 + MaxChanges
  /\ \/ source' = [source EXCEPT !.postmaster = @ + 1]
     \/ /\ kind = "differential"
        /\ source' = [source EXCEPT !.settings = @ + 1]
     \/ /\ ~source.primary
        /\ source' = [source EXCEPT !.timeline = @ + 1, !.primary = TRUE]
  /\ steady' = {c \in steady : stage[c] \notin Span}
  /\ UNCHANGED <<parts, bucket, kind, full, on, stage, slot, hold, attempt,
                 before, monitor, sound, result>>

\* Acquiring the workspace, and native descendants on their own.
WorkspaceStep(s) ==
  /\ AcquireWorkspace(s) \/ Scribble(s) \/ ToolEnds(s)
  /\ UNCHANGED <<uploadVars, initVars, bucket, given, on, stage, slot, hold,
                 capture, result>>

\* The sidecar dies and takes its callbacks along, unless it is the last that
\* Sidecar provides for.
Crash(s) ==
  LET lost == {c \in Callback : on[c] = s /\ stage[c] # "ended"} IN
  /\ \E t \in Sidecar : boot[t] = "new"
  /\ Die(s)
  /\ stage' = [c \in Callback |-> IF c \in lost THEN "dead" ELSE stage[c]]
  /\ Forget(lost)
  /\ \/ \E c \in lost : stage[c] = "upload" /\ Abandon(c)
     \/ UNCHANGED <<step, sent, closed, phase, recorded, first, answer, late,
                    object>>
        /\ \A c \in lost : stage[c] = "upload" => step[c] = "done"
  /\ slot' = [slot EXCEPT ![s] = None]
  /\ UNCHANGED <<bucket, given, on, hold, sound, result>>

\* The WAL archiver opens, or creates, the same repository.
ArchiverStep(a) ==
  /\ StartOpening(a) \/ OpenWriter(a)
  /\ UNCHANGED <<workspaceVars, uploadVars, bucket, given, on, stage, slot, hold,
                 capture, result>>

\* The store applies, or drops, a request nobody waits for.
LateRequest ==
  /\ \/ /\ \E c \in Callback : LateLands(c)
        /\ UNCHANGED <<initVars, commit, lateCommit>>
     \/ /\ LateCreation
        /\ UNCHANGED <<uploadVars, commit, lateCommit>>
     \/ /\ \E c \in lateCommit :
             /\ Commits(c) \/ UNCHANGED commit
             /\ lateCommit' = lateCommit \ {c}
        /\ UNCHANGED <<uploadVars, initVars>>
  /\ UNCHANGED <<workspaceVars, frozen, given, on, stage, slot, hold,
                 capture, result>>

CallbackStep(c) ==
  \/ TakeSlot(c) \/ Prepare(c) \/ OpenStep(c) \/ Admit(c)
  \/ Freeze(c) \/ Replay(c) \/ Claim(c)
  \/ ReadControl(c) \/ ReadState(c) \/ StartCapture(c) \/ ToolDone(c)
  \/ Inspect(c) \/ EndCapture(c)
  \/ UploadFile(c) \/ Uploaded(c) \/ VerifyPayload(c) \/ Check(c) \/ Commit(c)
  \/ ReadWinner(c) \/ Unwind(c)

Next ==
  \/ \E c \in Callback :
       CallbackStep(c) \/ MonitorTrips(c) \/ GiveUp(c) \/ CancelCallback(c)
  \/ \E c \in Callback, s \in Sidecar : Receive(c, s)
  \/ \E s \in Sidecar : WorkspaceStep(s) \/ Crash(s)
  \/ \E a \in Archiver : ArchiverStep(a)
  \/ SourceChanges
  \/ LateRequest

\* A running callback takes its next step: the operation deadline ends every
\* request and every native tool it waits for.
Fairness == \A c \in Callback : WF_vars(CallbackStep(c))

Spec == Init /\ [][Next]_vars /\ Fairness

-----------------------------------------------------------------------------
(* Properties *)

\* A hold that was given up leaves no request of its callback behind: no part,
\* no completion, no commit.json can still be applied once garbage collection
\* may be admitted, whatever failed and however the part workers interleaved.
ReleasedSettled ==
  \A c \in Callback :
    hold[c] = "released" => ~Open(c) /\ c \notin lateCommit

\* A committed capture saw one unchanged primary from OpenCapture until its
\* payload had been read back, under the limits the monitor enforces, and a
\* differential one under the postmaster and timeline of its full.
CommitSound == commit # None => commit \in sound

\* Every successful answer names the one attempt that is committed, with its
\* payload whole, whether the callback published it, lost to it or replayed it
\* after a restart.
ResultWhole ==
  \A c \in Callback :
    result[c] # None => result[c] = commit /\ object[commit]

\* A callback that is served returns, unless its sidecar dies: the part
\* workers and their sender, the monitor and the capture, and callbacks
\* waiting for the slot never wait for each other for good.
CallbackReturns ==
  \A c \in Callback : stage[c] = "slot" ~> stage[c] \in {"ended", "dead"}
=============================================================================
