-------------------------- MODULE NativeWorkspace --------------------------
(***************************************************************************)
(* The scratch volume of an instance sidecar and the native PostgreSQL     *)
(* tools that write to it (internal/postgres/workspace.go, command.go).    *)
(*                                                                         *)
(* A sidecar is one incarnation of the container's PID 1.  Before it       *)
(* serves anything it locks native.lock, checks or writes native.owner and *)
(* replaces the directory `native'.  The lock belongs to the open file     *)
(* description, which every native command inherits: it is free only when  *)
(* the sidecar and all its native descendants are gone.  Descendants in    *)
(* the command's process group are killed and reaped by runNative; one     *)
(* that left the group is on its own.  Containers of different Pods may    *)
(* meet on the same volume.                                                *)
(***************************************************************************)
EXTENDS Naturals

CONSTANTS Sidecar,  \* incarnations of the sidecar process, numbered
          Pod,      \* Pods the volume is ever mounted into
          PodOf,    \* the Pod of each incarnation
          None      \* absent

ASSUME PodAssumption == PodOf \in [Sidecar -> Pod]
ASSUME NobodyAssumption == Sidecar \subseteq Nat /\ None \notin Sidecar

VARIABLES flock,    \* the incarnation whose description holds native.lock
          marked,   \* the Pod native.owner names, {} if it names none
          marker,   \* whether native.owner exists
          native,   \* whether the directory `native' exists
          scratch,  \* the incarnations that have files in it
          boot,     \* how far each incarnation came
          tools     \* native processes of each incarnation

workspaceVars == <<flock, marked, marker, native, scratch, boot, tools>>

Process == {"group", "detached"}
Owning == {"locked", "marking", "owned", "swept", "serving"}

WorkspaceTypeOK ==
  /\ flock \in Sidecar \cup {None}
  /\ marked \in SUBSET Pod
  /\ marker \in BOOLEAN
  /\ native \in BOOLEAN
  /\ scratch \in SUBSET Sidecar
  /\ boot \in [Sidecar -> Owning \cup {"new", "refused", "dead"}]
  /\ tools \in [Sidecar -> SUBSET Process]

\* A new volume, or one with an unmarked `native' of an earlier release.
WorkspaceInit ==
  /\ flock = None
  /\ marked = {}
  /\ marker = FALSE
  /\ native \in BOOLEAN
  /\ scratch = {}
  /\ boot = [s \in Sidecar |-> "new"]
  /\ tools = [s \in Sidecar |-> {}]

-----------------------------------------------------------------------------
(* AcquireWorkspace *)

Boot(s, b) == boot' = [boot EXCEPT ![s] = b]

\* The deferred f.Close() of a failure; no native command exists yet.
Refuse(s) ==
  /\ Boot(s, "refused")
  /\ flock' = None

\* The kubelet starts a container when its last incarnation is gone.
TryLock(s) ==
  /\ boot[s] = "new"
  /\ \A t \in Sidecar :
       t < s /\ PodOf[t] = PodOf[s] => boot[t] \in {"refused", "dead"}
  /\ \/ flock = None /\ flock' = s /\ Boot(s, "locked")
     \/ flock # None /\ flock' = flock /\ Boot(s, "refused")
  /\ UNCHANGED <<marked, marker, native, scratch, tools>>

\* An unmarked `native' is never adopted; a marker must name this Pod.
CheckOwner(s) ==
  /\ boot[s] = "locked"
  /\ \/ ~marker /\ ~native /\ marker' = TRUE /\ Boot(s, "marking")
        /\ UNCHANGED flock
     \/ ~marker /\ native /\ Refuse(s) /\ UNCHANGED marker
     \/ marker /\ marked = {PodOf[s]} /\ Boot(s, "owned")
        /\ UNCHANGED <<flock, marker>>
     \/ marker /\ marked # {PodOf[s]} /\ Refuse(s) /\ UNCHANGED marker
  /\ UNCHANGED <<marked, native, scratch, tools>>

\* The new marker is written and synced.  Here and below an I/O error ends the
\* process, which may die anyway.
WriteOwner(s) ==
  /\ boot[s] = "marking"
  /\ marked' = {PodOf[s]}
  /\ Boot(s, "owned")
  /\ UNCHANGED <<flock, marker, native, scratch, tools>>

\* RemoveAll("native").
Sweep(s) ==
  /\ boot[s] = "owned"
  /\ native' = FALSE
  /\ scratch' = {}
  /\ Boot(s, "swept")
  /\ UNCHANGED <<flock, marked, marker, tools>>

\* Mkdir and the directory sync; success keeps the lock open for good.
Make(s) ==
  /\ boot[s] = "swept"
  /\ native' = TRUE
  /\ Boot(s, "serving")
  /\ UNCHANGED <<flock, marked, marker, scratch, tools>>

AcquireWorkspace(s) ==
  TryLock(s) \/ CheckOwner(s) \/ WriteOwner(s) \/ Sweep(s) \/ Make(s)

-----------------------------------------------------------------------------
(* runNative *)

\* cmd.Start with the lock among ExtraFiles; the tool writes its output.
StartTool(s) ==
  /\ boot[s] = "serving"
  /\ "group" \notin tools[s]
  /\ tools' = [tools EXCEPT ![s] = @ \cup {"group"}]
  /\ scratch' = scratch \cup {s}
  /\ UNCHANGED <<flock, marked, marker, native, boot>>

\* A native process, orphaned or not, writes a file.
Scribble(s) ==
  /\ tools[s] # {}
  /\ native
  /\ scratch' = scratch \cup {s}
  /\ UNCHANGED <<flock, marked, marker, native, boot, tools>>

\* cmd.Wait, the kill of the group and the Wait4 loop until ECHILD.
Reap(s) ==
  /\ boot[s] = "serving"
  /\ "group" \in tools[s]
  /\ tools' = [tools EXCEPT ![s] = @ \ {"group"}]
  /\ UNCHANGED <<flock, marked, marker, native, scratch, boot>>

-----------------------------------------------------------------------------
(* The kernel *)

\* A descendant that left the process group of a command outlives runNative,
\* the lock still open in it; while the sidecar lives it makes no difference.
Survivors(s) ==
  \/ tools' = tools
  \/ s \in scratch /\ tools' = [tools EXCEPT ![s] = @ \cup {"detached"}]

\* Faulty variant: the descriptor is close-on-exec, so only PID 1 has it.
ProcessEndsEarlyUnlock(s) ==
  /\ boot[s] \in Owning
  /\ Boot(s, "dead")
  /\ Survivors(s)
  /\ flock' = None
  /\ UNCHANGED <<marked, marker, native, scratch>>

\* PID 1 dies; a description some descendant still has stays locked.
Die(s) ==
  /\ boot[s] \in Owning
  /\ Boot(s, "dead")
  /\ Survivors(s)
  /\ flock' = IF tools'[s] = {} THEN None ELSE flock
  /\ UNCHANGED <<marked, marker, native, scratch>>

\* The kernel kills what is left of the namespace, one process at a time.
ToolEnds(s) ==
  /\ boot[s] = "dead"
  /\ \E p \in tools[s] : tools' = [tools EXCEPT ![s] = @ \ {p}]
  /\ flock' = IF tools'[s] = {} THEN None ELSE flock
  /\ UNCHANGED <<marked, marker, native, scratch, boot>>

WorkspaceNext ==
  \E s \in Sidecar :
    \/ AcquireWorkspace(s)
    \/ StartTool(s) \/ Scribble(s) \/ Reap(s)
    \/ Die(s) \/ ToolEnds(s)

WorkspaceSpec == WorkspaceInit /\ [][WorkspaceNext]_workspaceVars

-----------------------------------------------------------------------------
(* What every callback of a sidecar relies on *)

\* A sidecar that serves has the directory to itself: no native process of
\* another incarnation is left to write there, nothing another incarnation
\* wrote is in it, and the volume is marked as its own Pod's.
WorkspaceOwned ==
  \A s \in Sidecar : boot[s] = "serving" =>
    /\ \A t \in Sidecar \ {s} : tools[t] = {}
    /\ scratch \subseteq {s}
    /\ marked = {PodOf[s]}
=============================================================================
