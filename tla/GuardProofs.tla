---------------------------- MODULE GuardProofs ----------------------------
(***************************************************************************)
(* Bootstrap keeps its promises for any number of guards, sidecars,        *)
(* volumes and crashes of the node.                                        *)
(*                                                                         *)
(* GuardInv is about the guards and their sessions: which markers a guard  *)
(* has at each stage, that a marker goes only with the guard that wrote    *)
(* it, and that a guard which removes its markers has a sidecar whose      *)
(* Admission is closed and whose tasks are done.  It rests on the markers  *)
(* alone: the locks only make a second guard fail early.  It follows that  *)
(* the tasks that are active belong to one session, so that one attempt at *)
(* a time touches the plan and the targets; BootInv says what that attempt *)
(* has established by each of its steps.                                   *)
(***************************************************************************)
EXTENDS Bootstrap, TLAPS

\* Most leaves are first-order reasoning; those with arithmetic or records cite SMT.
USE ZenonT(30)

GuardStage == {"lock", "check", "mark", "begin", "run", "drain", "unlink", "failed", "exited"}

GuardTypeOK ==
  /\ marker \in [Volume -> Guard \cup {None, Torn}]
  /\ stage \in [Guard -> GuardStage]
  /\ next \in [Guard -> Volume]
  /\ children \in [Guard -> SUBSET {"main", "descendant"}]
  /\ link \in [Guard -> Sidecar \cup {None}]
  /\ session \in [Sidecar -> Guard \cup {None}]
  /\ control \in [Sidecar -> {"waiting", "begun", "accepted", "draining", "drained", "closed", "dead"}]
  /\ closed \in [Sidecar -> BOOLEAN]
  /\ fetches \in [Sidecar -> Nat]
  /\ restore \in [Sidecar -> InRestore \cup {"new", "ready", "failed", "poisoned"}]
  /\ reader \in [Sidecar -> {"none", "held", "closed"}]

Marked(g) == \A v \in Volume : marker[v] = g

\* What a guard has locked and marked.
GuardSound(g) ==
  /\ stage[g] = "mark" => \A v \in 1..(next[g] - 1) : marker[v] = g
  /\ stage[g] \in {"begin", "run", "drain"} => Marked(g)
  /\ stage[g] = "unlink" => \A v \in next[g]..Volumes : marker[v] = g
  /\ stage[g] \in {"check", "begin", "run", "drain"} => next[g] = 1

\* A process below a guard is marked, even when the guard is dead, and was started
\* in a session.
ChildrenSound(g) ==
  children[g] # {} =>
    /\ stage[g] \in {"run", "failed"} /\ Marked(g)
    /\ link[g] \in Sidecar /\ session[link[g]] = g

Quiet(s) == fetches[s] = 0 /\ restore[s] \notin InRestore

\* The sidecar of a guard that removes its markers.
Settled(s) ==
  /\ closed[s] /\ Quiet(s)
  /\ reader[s] # "held" /\ restore[s] # "poisoned"

LinkSound(g) ==
  /\ stage[g] \in {"lock", "check", "mark"} => link[g] = None
  /\ stage[g] \in {"run", "drain", "unlink", "exited"} => link[g] \in Sidecar /\ session[link[g]] = g
  /\ stage[g] \in {"unlink", "exited"} => Settled(link[g])

SessionSound(s) ==
  /\ control[s] = "waiting" => session[s] = None
  /\ session[s] # None => link[session[s]] = s /\ (Marked(session[s]) \/ Settled(s))
  /\ ~Quiet(s) \/ restore[s] # "new" => session[s] # None
  /\ control[s] \in {"draining", "drained", "closed"} => closed[s]
  /\ control[s] = "drained" => Settled(s)
  /\ reader[s] = "closed" => closed[s] /\ Quiet(s)
  /\ restore[s] = "poisoned" =>
       control[s] \notin {"accepted", "draining", "drained"} /\ (control[s] = "begun" => closed[s])

GuardInv ==
  /\ GuardTypeOK
  /\ \A g \in Guard : GuardSound(g) /\ ChildrenSound(g) /\ LinkSound(g)
  /\ \A s \in Sidecar : SessionSound(s)

-----------------------------------------------------------------------------

LEMMA GuardStarts == Init => GuardInv
<1> SUFFICES ASSUME Init  PROVE GuardInv
  OBVIOUS
<1>1. GuardTypeOK
  BY SMTT(30), GuardAssumption DEF Init, GuardTypeOK, GuardStage, Volume, InRestore
<1>2. \A g \in Guard : GuardSound(g) /\ ChildrenSound(g) /\ LinkSound(g)
  BY DEF Init, GuardSound, ChildrenSound, LinkSound
<1>3. \A s \in Sidecar : SessionSound(s)
  BY DEF Init, SessionSound, Quiet, Settled, InRestore
<1> QED  BY <1>1, <1>2, <1>3 DEF GuardInv

\* The next volume in order, or the next stage after the last one.
LEMMA OnwardsMoves ==
  ASSUME GuardTypeOK, NEW g \in Guard, NEW a \in GuardStage, Onwards(g, a)
  PROVE  /\ next' \in [Guard -> Volume] /\ stage' \in [Guard -> GuardStage]
         /\ \A h \in Guard \ {g} : next'[h] = next[h] /\ stage'[h] = stage[h]
         /\ \/ next'[g] = next[g] + 1 /\ stage'[g] = stage[g]
            \/ next[g] = Volumes /\ next'[g] = 1 /\ stage'[g] = a
<1> USE GuardAssumption DEF GuardTypeOK, Onwards, Goto, Volume
<1>1. CASE next[g] < Volumes
  <2>1. next[g] + 1 \in Volume
    BY SMTT(30), <1>1
  <2>2. next' = [next EXCEPT ![g] = @ + 1] /\ stage' = stage
    BY <1>1
  <2> QED  BY <2>1, <2>2
<1>2. CASE ~(next[g] < Volumes)
  <2>1. next[g] = Volumes /\ 1 \in Volume
    BY SMTT(30), <1>2
  <2>2. next' = [next EXCEPT ![g] = 1] /\ stage' = [stage EXCEPT ![g] = a]
    BY <1>2
  <2> QED  BY <2>1, <2>2
<1> QED  BY <1>1, <1>2

LEMMA LockKept ==
  ASSUME GuardInv, NEW g \in Guard, Lock(g)
  PROVE  GuardInv'
<1> USE GuardAssumption DEF GuardInv, Lock, volumes, sidecars
<1>0. "check" \in GuardStage /\ "begin" \in GuardStage /\ "exited" \in GuardStage
  BY DEF GuardStage
<1>1. GuardTypeOK'
  BY <1>0, OnwardsMoves DEF GuardTypeOK, Volume
<1>2. ASSUME NEW h \in Guard  PROVE GuardSound(h)' /\ ChildrenSound(h)'
  <2>1. CASE h = g
    BY SMTT(30), <1>0, <2>1, OnwardsMoves DEF GuardTypeOK, GuardSound, ChildrenSound, Marked, Volume
  <2>2. CASE h # g
    <3>1. next'[h] = next[h] /\ stage'[h] = stage[h]
      BY <1>0, <2>2, OnwardsMoves
    <3> QED  BY SMTT(30), <3>1 DEF GuardSound, ChildrenSound, Marked
  <2> QED  BY <2>1, <2>2
<1>3. ASSUME NEW h \in Guard  PROVE LinkSound(h)'
  BY SMTT(30), <1>0, OnwardsMoves DEF GuardTypeOK, LinkSound, Settled, Quiet
<1>4. ASSUME NEW t \in Sidecar  PROVE SessionSound(t)'
  <2>1. Settled(t)' = Settled(t) /\ Quiet(t)' = Quiet(t) /\ Marked(session[t])' = Marked(session[t])
    BY DEF Settled, Quiet, Marked
  <2> HIDE DEF Lock
  <2>2. UNCHANGED <<control, session, link, closed, reader, restore>>
    BY DEF Lock
  <2> QED  BY <2>1, <2>2 DEF SessionSound
<1> QED  BY <1>1, <1>2, <1>3, <1>4

LEMMA CheckKept ==
  ASSUME GuardInv, NEW g \in Guard, Check(g)
  PROVE  GuardInv'
<1> USE GuardAssumption DEF GuardInv, Check, Goto, volumes, sidecars
<1>1. GuardTypeOK'
  BY DEF GuardTypeOK, GuardStage, InRestore, Volume
<1>2. ASSUME NEW h \in Guard  PROVE GuardSound(h)' /\ ChildrenSound(h)'
  BY SMTT(30) DEF GuardTypeOK, GuardSound, ChildrenSound, Marked, Volume, GuardStage
<1>3. ASSUME NEW h \in Guard  PROVE LinkSound(h)'
  BY SMTT(30) DEF GuardTypeOK, LinkSound, Settled, Quiet, SessionSound
<1>4. ASSUME NEW t \in Sidecar  PROVE SessionSound(t)'
  BY SMTT(30) DEF GuardTypeOK, SessionSound, Settled, Quiet, Marked, InRestore, LinkSound
<1> QED  BY <1>1, <1>2, <1>3, <1>4

LEMMA MarkKept ==
  ASSUME GuardInv, NEW g \in Guard, Mark(g)
  PROVE  GuardInv'
<1> USE GuardAssumption DEF GuardInv, Mark, Goto, sidecars
<1>0. "check" \in GuardStage /\ "begin" \in GuardStage /\ "exited" \in GuardStage
  BY DEF GuardStage
<1>1. GuardTypeOK'
  <2>1. CASE marker' = [marker EXCEPT ![next[g]] = g] /\ Onwards(g, "begin")
    BY <1>0, <2>1, OnwardsMoves DEF GuardTypeOK, Volume
  <2> QED  BY <2>1 DEF GuardTypeOK, GuardStage, Volume
<1>2. ASSUME NEW h \in Guard  PROVE GuardSound(h)' /\ ChildrenSound(h)'
  <2>1. CASE marker' = [marker EXCEPT ![next[g]] = g] /\ Onwards(g, "begin")
    <3>1. CASE h = g
      BY SMTT(30), <1>0, <2>1, <3>1, OnwardsMoves DEF GuardTypeOK, GuardSound, ChildrenSound, Marked, Volume
    <3>2. CASE h # g
      <4>1. next'[h] = next[h] /\ stage'[h] = stage[h]
        BY <1>0, <2>1, <3>2, OnwardsMoves
      <4>2. \A v \in Volume : marker[v] = h => marker'[v] = h
        BY <2>1 DEF GuardTypeOK
      <4> QED  BY SMTT(30), <4>1, <4>2 DEF GuardTypeOK, GuardSound, ChildrenSound, Marked, Volume
    <3> QED  BY <3>1, <3>2
  <2>2. CASE marker' = [marker EXCEPT ![next[g]] = Torn] /\ stage' = [stage EXCEPT ![g] = "failed"] /\ next' = next
    <3>1. \A v \in Volume : marker[v] = h => marker'[v] = h
      BY <2>2 DEF GuardTypeOK
    <3>2. stage'[h] = stage[h] \/ (h = g /\ stage'[h] = "failed" /\ stage[h] = "mark")
      BY <2>2 DEF GuardTypeOK
    <3> QED  BY SMTT(30), <2>2, <3>1, <3>2 DEF GuardTypeOK, GuardSound, ChildrenSound, Marked, Volume
  <2> QED  BY <2>1, <2>2
<1>3. ASSUME NEW h \in Guard  PROVE LinkSound(h)'
  <2>1. CASE Onwards(g, "begin")
    BY SMTT(30), <1>0, <2>1, OnwardsMoves DEF GuardTypeOK, LinkSound, Settled, Quiet
  <2> QED  BY SMTT(30), <2>1 DEF GuardTypeOK, LinkSound, Settled, Quiet
<1>4. ASSUME NEW t \in Sidecar  PROVE SessionSound(t)'
  BY SMTT(30) DEF GuardTypeOK, SessionSound, Settled, Quiet, Marked, InRestore, LinkSound
<1> QED  BY <1>1, <1>2, <1>3, <1>4

LEMMA ConnectKept ==
  ASSUME GuardInv, NEW g \in Guard, NEW s \in Sidecar, Connect(g, s)
  PROVE  GuardInv'
<1> USE GuardAssumption DEF GuardInv, Connect, volumes, sidecars
<1>1. GuardTypeOK'
  BY DEF GuardTypeOK, GuardStage, InRestore, Volume
<1>2. ASSUME NEW h \in Guard  PROVE GuardSound(h)' /\ ChildrenSound(h)'
  BY SMTT(30) DEF GuardTypeOK, GuardSound, ChildrenSound, Marked, Volume, GuardStage
<1>3. ASSUME NEW h \in Guard  PROVE LinkSound(h)'
  BY SMTT(30) DEF GuardTypeOK, LinkSound, Settled, Quiet, SessionSound
<1>4. ASSUME NEW t \in Sidecar  PROVE SessionSound(t)'
  BY SMTT(30) DEF GuardTypeOK, SessionSound, Settled, Quiet, Marked, InRestore, LinkSound
<1> QED  BY <1>1, <1>2, <1>3, <1>4

LEMMA BeginKept ==
  ASSUME GuardInv, NEW g \in Guard, NEW s \in Sidecar, Begin(s, g)
  PROVE  GuardInv'
<1> USE GuardAssumption DEF GuardInv, Begin, OwnerVerified, volumes, guards
<1>1. GuardTypeOK'
  BY DEF GuardTypeOK, GuardStage, InRestore, Volume
<1>2. ASSUME NEW h \in Guard  PROVE GuardSound(h)' /\ ChildrenSound(h)'
  BY SMTT(30) DEF GuardTypeOK, GuardSound, ChildrenSound, Marked, Volume, GuardStage
<1>3. ASSUME NEW h \in Guard  PROVE LinkSound(h)'
  BY SMTT(30) DEF GuardTypeOK, LinkSound, Settled, Quiet, SessionSound
<1>4. ASSUME NEW t \in Sidecar  PROVE SessionSound(t)'
  BY SMTT(30) DEF GuardTypeOK, SessionSound, Settled, Quiet, Marked, InRestore, LinkSound
<1> QED  BY <1>1, <1>2, <1>3, <1>4

LEMMA StartChildKept ==
  ASSUME GuardInv, NEW g \in Guard, StartChild(g)
  PROVE  GuardInv'
<1> USE GuardAssumption DEF GuardInv, StartChild, Goto, volumes, sidecars
<1>1. GuardTypeOK'
  BY DEF GuardTypeOK, GuardStage, InRestore, Volume
<1>2. ASSUME NEW h \in Guard  PROVE GuardSound(h)' /\ ChildrenSound(h)'
  BY SMTT(30) DEF GuardTypeOK, GuardSound, ChildrenSound, Marked, Volume, GuardStage
<1>3. ASSUME NEW h \in Guard  PROVE LinkSound(h)'
  BY SMTT(30) DEF GuardTypeOK, LinkSound, Settled, Quiet, SessionSound
<1>4. ASSUME NEW t \in Sidecar  PROVE SessionSound(t)'
  BY SMTT(30) DEF GuardTypeOK, SessionSound, Settled, Quiet, Marked, InRestore, LinkSound
<1> QED  BY <1>1, <1>2, <1>3, <1>4

LEMMA ChildrenKept ==
  ASSUME GuardInv, NEW g \in Guard, Fork(g) \/ LatchUncertain(g) \/ \E c \in children[g] : ChildEnds(g, c)
  PROVE  GuardInv'
<1> USE GuardAssumption DEF GuardInv, Fork, LatchUncertain, ChildEnds, volumes, sidecars
<1>1. GuardTypeOK'
  BY SMTT(30) DEF GuardTypeOK, GuardStage, InRestore, Volume
<1>2. ASSUME NEW h \in Guard  PROVE GuardSound(h)' /\ ChildrenSound(h)'
  BY SMTT(30) DEF GuardTypeOK, GuardSound, ChildrenSound, Marked, Volume, GuardStage
<1>3. ASSUME NEW h \in Guard  PROVE LinkSound(h)'
  BY SMTT(30) DEF GuardTypeOK, LinkSound, Settled, Quiet, SessionSound
<1>4. ASSUME NEW t \in Sidecar  PROVE SessionSound(t)'
  BY SMTT(30) DEF GuardTypeOK, SessionSound, Settled, Quiet, Marked, InRestore, LinkSound
<1> QED  BY <1>1, <1>2, <1>3, <1>4

LEMMA ReapedKept ==
  ASSUME GuardInv, NEW g \in Guard, Reaped(g)
  PROVE  GuardInv'
<1> USE GuardAssumption DEF GuardInv, Reaped, Goto, volumes, sidecars
<1>1. GuardTypeOK'
  BY DEF GuardTypeOK, GuardStage, InRestore, Volume
<1>2. ASSUME NEW h \in Guard  PROVE GuardSound(h)' /\ ChildrenSound(h)'
  BY SMTT(30) DEF GuardTypeOK, GuardSound, ChildrenSound, Marked, Volume, GuardStage
<1>3. ASSUME NEW h \in Guard  PROVE LinkSound(h)'
  BY SMTT(30) DEF GuardTypeOK, LinkSound, Settled, Quiet, SessionSound
<1>4. ASSUME NEW t \in Sidecar  PROVE SessionSound(t)'
  BY SMTT(30) DEF GuardTypeOK, SessionSound, Settled, Quiet, Marked, InRestore, LinkSound
<1> QED  BY <1>1, <1>2, <1>3, <1>4

LEMMA DrainedKept ==
  ASSUME GuardInv, NEW g \in Guard, Drained(g)
  PROVE  GuardInv'
<1> USE GuardAssumption DEF GuardInv, Drained, Goto, volumes, sidecars
<1>1. GuardTypeOK'
  BY DEF GuardTypeOK, GuardStage, InRestore, Volume
<1>2. ASSUME NEW h \in Guard  PROVE GuardSound(h)' /\ ChildrenSound(h)'
  BY SMTT(30) DEF GuardTypeOK, GuardSound, ChildrenSound, Marked, Volume, GuardStage
<1>3. ASSUME NEW h \in Guard  PROVE LinkSound(h)'
  BY SMTT(30) DEF GuardTypeOK, LinkSound, Settled, Quiet, SessionSound
<1>4. ASSUME NEW t \in Sidecar  PROVE SessionSound(t)'
  BY SMTT(30) DEF GuardTypeOK, SessionSound, Settled, Quiet, Marked, InRestore, LinkSound
<1> QED  BY <1>1, <1>2, <1>3, <1>4

LEMMA UnlinkKept ==
  ASSUME GuardInv, NEW g \in Guard, Unlink(g)
  PROVE  GuardInv'
<1> USE GuardAssumption DEF GuardInv, Unlink, sidecars
<1>0. "check" \in GuardStage /\ "begin" \in GuardStage /\ "exited" \in GuardStage
  BY DEF GuardStage
<1>1. GuardTypeOK'
  BY <1>0, OnwardsMoves DEF GuardTypeOK, Volume
<1>2. ASSUME NEW h \in Guard  PROVE GuardSound(h)' /\ ChildrenSound(h)'
  <2>1. marker[next[g]] = g
    BY SMTT(30) DEF GuardTypeOK, GuardSound, Volume
  <2> QED  BY SMTT(30), <1>0, <2>1, OnwardsMoves DEF GuardTypeOK, GuardSound, ChildrenSound, Marked, Volume
<1>3. ASSUME NEW h \in Guard  PROVE LinkSound(h)'
  BY SMTT(30), <1>0, OnwardsMoves DEF GuardTypeOK, LinkSound, Settled, Quiet
<1>4. ASSUME NEW t \in Sidecar  PROVE SessionSound(t)'
  <2>1. marker[next[g]] = g /\ next[g] \in Volume
    BY SMTT(30) DEF GuardTypeOK, GuardSound, Volume
  <2>2. session[t] # None /\ session[t] # g => (Marked(session[t]) => Marked(session[t])')
    BY <2>1 DEF GuardTypeOK, Marked
  <2>3. session[t] = g => Settled(t)
    BY SMTT(30) DEF LinkSound, SessionSound
  <2> QED  BY <2>2, <2>3 DEF GuardTypeOK, SessionSound, Settled, Quiet
<1> QED  BY <1>1, <1>2, <1>3, <1>4

LEMMA FailKept ==
  ASSUME GuardInv, NEW g \in Guard, Fail(g)
  PROVE  GuardInv'
<1> USE GuardAssumption DEF GuardInv, Fail, Goto, sidecars
<1>1. GuardTypeOK'
  BY DEF GuardTypeOK, GuardStage, InRestore, Volume
<1>2. ASSUME NEW h \in Guard  PROVE GuardSound(h)' /\ ChildrenSound(h)'
  BY SMTT(30) DEF GuardTypeOK, GuardSound, ChildrenSound, Marked, Volume, GuardStage
<1>3. ASSUME NEW h \in Guard  PROVE LinkSound(h)'
  BY SMTT(30) DEF GuardTypeOK, LinkSound, Settled, Quiet, SessionSound
<1>4. ASSUME NEW t \in Sidecar  PROVE SessionSound(t)'
  BY DEF GuardTypeOK, SessionSound, Settled, Quiet, Marked, InRestore, LinkSound
<1> QED  BY <1>1, <1>2, <1>3, <1>4

LEMMA DrainKept ==
  ASSUME GuardInv, NEW s \in Sidecar, AcceptDrain(s) \/ CloseForDrain(s) \/ Drain(s)
  PROVE  GuardInv'
<1> USE GuardAssumption DEF GuardInv, AcceptDrain, CloseForDrain, Drain, Active, CloseAdmission, volumes, guards
<1>1. GuardTypeOK'
  BY DEF GuardTypeOK, GuardStage, InRestore, Volume
<1>2. ASSUME NEW h \in Guard  PROVE GuardSound(h)' /\ ChildrenSound(h)'
  BY SMTT(30) DEF GuardTypeOK, GuardSound, ChildrenSound, Marked, Volume, GuardStage
<1>3. ASSUME NEW h \in Guard  PROVE LinkSound(h)'
  BY SMTT(30) DEF GuardTypeOK, LinkSound, Settled, Quiet, SessionSound
<1>4. ASSUME NEW t \in Sidecar  PROVE SessionSound(t)'
  BY SMTT(30) DEF GuardTypeOK, SessionSound, Settled, Quiet, Marked, InRestore, LinkSound
<1> QED  BY <1>1, <1>2, <1>3, <1>4

LEMMA SessionEndsKept ==
  ASSUME GuardInv, NEW s \in Sidecar, SessionEnds(s) \/ SidecarDies(s)
  PROVE  GuardInv'
<1> USE GuardAssumption DEF GuardInv, SessionEnds, SidecarDies, CloseAdmission, volumes, guards
<1>1. GuardTypeOK'
  BY DEF GuardTypeOK, GuardStage, InRestore, Volume
<1>2. ASSUME NEW h \in Guard  PROVE GuardSound(h)' /\ ChildrenSound(h)'
  BY SMTT(30) DEF GuardTypeOK, GuardSound, ChildrenSound, Marked, Volume, GuardStage
<1>3. ASSUME NEW h \in Guard  PROVE LinkSound(h)'
  BY SMTT(30) DEF GuardTypeOK, LinkSound, Settled, Quiet, SessionSound
<1>4. ASSUME NEW t \in Sidecar  PROVE SessionSound(t)'
  BY SMTT(30) DEF GuardTypeOK, SessionSound, Settled, Quiet, Marked, InRestore, LinkSound
<1> QED  BY <1>1, <1>2, <1>3, <1>4

LEMMA FetchKept ==
  ASSUME GuardInv, NEW s \in Sidecar, Fetch(s) \/ FetchDone(s)
  PROVE  GuardInv'
<1> USE GuardAssumption DEF GuardInv, Fetch, FetchDone, Admits, volumes, guards
<1>1. GuardTypeOK'
  <2>1. fetches'[s] \in Nat
    BY SMTT(30) DEF GuardTypeOK
  <2> QED  BY <2>1 DEF GuardTypeOK
<1>2. ASSUME NEW h \in Guard  PROVE GuardSound(h)' /\ ChildrenSound(h)'
  BY SMTT(30) DEF GuardTypeOK, GuardSound, ChildrenSound, Marked, Volume, GuardStage
<1>3. ASSUME NEW h \in Guard  PROVE LinkSound(h)'
  BY SMTT(30) DEF GuardTypeOK, LinkSound, Settled, Quiet, SessionSound
<1>4. ASSUME NEW t \in Sidecar  PROVE SessionSound(t)'
  BY SMTT(30) DEF GuardTypeOK, SessionSound, Settled, Quiet, Marked, InRestore, LinkSound
<1> QED  BY <1>1, <1>2, <1>3, <1>4

LEMMA RestoreKept ==
  ASSUME GuardInv, NEW s \in Sidecar, Restore(s) \/ HoldSource(s) \/ Materialize(s) \/ Materialized(s)
  PROVE  GuardInv'
<1> USE GuardAssumption DEF GuardInv, Restore, HoldSource, Materialize, Materialized, Admits, volumes, guards
<1>1. GuardTypeOK'
  BY DEF GuardTypeOK, GuardStage, InRestore, Volume
<1>2. ASSUME NEW h \in Guard  PROVE GuardSound(h)' /\ ChildrenSound(h)'
  BY SMTT(30) DEF GuardTypeOK, GuardSound, ChildrenSound, Marked, Volume, GuardStage
<1>3. ASSUME NEW h \in Guard  PROVE LinkSound(h)'
  BY SMTT(30) DEF GuardTypeOK, LinkSound, Settled, Quiet, SessionSound
<1>4. ASSUME NEW t \in Sidecar  PROVE SessionSound(t)'
  BY SMTT(30) DEF GuardTypeOK, SessionSound, Settled, Quiet, Marked, InRestore, LinkSound
<1> QED  BY <1>1, <1>2, <1>3, <1>4

LEMMA RestoreFailsKept ==
  ASSUME GuardInv, NEW s \in Sidecar, RestoreFails(s)
  PROVE  GuardInv'
<1> USE GuardAssumption DEF GuardInv, RestoreFails, Failed, volumes, guards
<1>1. GuardTypeOK'
  BY DEF GuardTypeOK, GuardStage, InRestore, Volume
<1>2. ASSUME NEW h \in Guard  PROVE GuardSound(h)' /\ ChildrenSound(h)'
  BY DEF GuardTypeOK, GuardSound, ChildrenSound, Marked, Volume, GuardStage
<1>3. ASSUME NEW h \in Guard  PROVE LinkSound(h)'
  BY DEF GuardTypeOK, LinkSound, Settled, Quiet, SessionSound
<1>4. ASSUME NEW t \in Sidecar  PROVE SessionSound(t)'
  <2>1. CASE t # s
    BY SMTT(30), <2>1 DEF GuardTypeOK, SessionSound, Settled, Quiet, Marked
  <2>2. CASE t = s
    <3>1. ~Quiet(s) /\ ~Settled(s)
      BY DEF Quiet, Settled
    <3>2. /\ restore'[s] \in {"failed", "poisoned"} /\ closed'[s] \in BOOLEAN /\ (closed[s] => closed'[s])
          /\ restore'[s] = "poisoned" => control[s] \notin {"accepted", "draining"} /\ closed'[s]
      BY DEF GuardTypeOK
    <3> QED  BY <2>2, <3>1, <3>2 DEF GuardTypeOK, SessionSound, Settled, Quiet, Marked, InRestore
  <2> QED  BY <2>1, <2>2
<1> QED  BY <1>1, <1>2, <1>3, <1>4

LEMMA NodeCrashKept ==
  ASSUME GuardInv, NodeCrash
  PROVE  GuardInv'
<1> USE GuardAssumption DEF GuardInv, NodeCrash, SidecarRuns, Failed
<1>1. GuardTypeOK'
  BY DEF GuardTypeOK, GuardStage, InRestore, Volume
<1>2. ASSUME NEW h \in Guard  PROVE GuardSound(h)' /\ ChildrenSound(h)'
  BY DEF GuardTypeOK, GuardSound, ChildrenSound, Marked, Volume, GuardStage
<1>3. ASSUME NEW h \in Guard  PROVE LinkSound(h)'
  BY DEF GuardTypeOK, LinkSound, Settled, Quiet, SessionSound
<1>4. ASSUME NEW t \in Sidecar  PROVE SessionSound(t)'
  BY DEF GuardTypeOK, SessionSound, Settled, Quiet, Marked, InRestore, LinkSound
<1> QED  BY <1>1, <1>2, <1>3, <1>4

LEMMA GuardKept ==
  ASSUME GuardInv, [Next]_vars
  PROVE  GuardInv'
<1>1. ASSUME NEW g \in Guard, NEW s \in Sidecar, Connect(g, s) \/ Begin(s, g)  PROVE GuardInv'
  BY <1>1, ConnectKept, BeginKept
<1>2. CASE UNCHANGED vars
  BY SMTT(30), <1>2 DEF vars, GuardInv, GuardTypeOK, GuardSound, ChildrenSound, LinkSound, SessionSound, Marked,
              Settled, Quiet
<1> QED  BY <1>1, <1>2, LockKept, CheckKept, MarkKept, StartChildKept, ChildrenKept, ReapedKept, DrainedKept,
            UnlinkKept, FailKept, DrainKept, SessionEndsKept, FetchKept, RestoreKept, RestoreFailsKept
         DEF Next

\* A task that is not done has its guard's marker on every volume.
LEMMA ActiveMarked ==
  ASSUME GuardInv, NEW s \in Sidecar, ~Quiet(s) \/ restore[s] = "poisoned"
  PROVE  session[s] \in Guard /\ Marked(session[s]) /\ link[session[s]] = s
BY DEF GuardInv, GuardTypeOK, SessionSound, Settled

\* One attempt at a time is in Restore.
LEMMA OneAttempt ==
  ASSUME GuardInv, NEW s \in Sidecar, NEW t \in Sidecar, restore[s] \in InRestore, restore[t] \in InRestore
  PROVE  s = t
<1>1. /\ session[s] \in Guard /\ Marked(session[s]) /\ link[session[s]] = s
      /\ session[t] \in Guard /\ Marked(session[t]) /\ link[session[t]] = t
  BY ActiveMarked DEF Quiet
<1>2. 1 \in Volume
  BY SMTT(30), GuardAssumption DEF Volume
<1> QED  BY <1>1, <1>2 DEF Marked

-----------------------------------------------------------------------------
(* The attempt *)

HeldStep == {"selected", "renamed", "saved"}
Writing == {"input", "writing", "verified", "finished"}
NativeStep == Writing \cup {"reported", "recorded"}

PlanType == [chain : Nat, by : Sidecar \cup {None}, materialized : BOOLEAN]
TargetType == [by : SUBSET Sidecar, chain : Nat, state : {"empty", "partial", "whole", "synced"}]

BootTypeOK ==
  /\ newest \in Nat \ {0}
  /\ plan \in PlanType /\ durable \in PlanType
  /\ target \in TargetType /\ disk \in TargetType
  /\ step \in [Sidecar -> {"none"} \cup HeldStep \cup NativeStep]
  /\ choice \in [Sidecar -> Nat]

\* Before an attempt writes.
Early == {"new", "admitted", "held"}

\* What the targets hold of an attempt at each of its last steps.
Reached(a) ==
  CASE a = "writing" -> "partial" [] a = "verified" -> "whole" [] OTHER -> "synced"

AttemptSound(s) ==
  /\ step[s] \in HeldStep => restore[s] = "held"
  /\ step[s] \in NativeStep => restore[s] = "native"
  /\ step[s] # "none" => choice[s] # 0 /\ plan.chain \in {0, choice[s]}
  /\ step[s] \in {"renamed", "saved"} \cup Writing => plan = Plan(choice[s], s, FALSE)
  /\ step[s] \in {"reported", "recorded"} => plan = Plan(choice[s], s, TRUE)
  /\ step[s] \in {"saved", "reported"} \cup Writing => durable = Plan(choice[s], s, FALSE)
  /\ step[s] = "recorded" => durable = Plan(choice[s], s, TRUE)
  /\ step[s] \in {"writing", "verified", "finished", "reported", "recorded"} =>
       target = [by |-> {s}, chain |-> choice[s], state |-> Reached(step[s])]
  /\ step[s] \in {"finished", "reported", "recorded"} => disk = target
  /\ restore[s] \in Early /\ step[s] \in {"none", "selected"} => plan.by # s
  /\ restore[s] \in Early /\ step[s] \in {"none", "selected", "renamed"} => durable.by # s

\* What is on a target, or was synced, belongs to the chain of both plans.
Frozen(t) ==
  IF t.state = "empty" THEN t = EmptyTarget
  ELSE t.chain # 0 /\ durable.chain = t.chain /\ plan.chain = t.chain

\* A plan without a chain is no plan.
PlansSound ==
  /\ plan.chain = 0 => plan = NoPlan
  /\ durable.chain = 0 => durable = NoPlan
  /\ Frozen(target) /\ Frozen(disk)

\* The attempt of s is done, or a plan says so, synced or not.
Claims(s) ==
  \/ restore[s] = "ready"
  \/ plan.by = s /\ plan.materialized
  \/ durable.by = s /\ durable.materialized

\* The strengthening of TargetsWhole: an unsynced plan may survive a crash.
ClaimSound(s) ==
  Claims(s) /\ Kept(session[s]) =>
    /\ plan = Plan(target.chain, s, TRUE)
    /\ restore[s] = "ready" => durable = plan
    /\ target.by = {s} /\ target.state = "synced"
    /\ disk = target

BootInv ==
  /\ GuardInv /\ BootTypeOK
  /\ \A s \in Sidecar : AttemptSound(s)
  /\ PlansSound
  /\ \A s \in Sidecar : ClaimSound(s)

-----------------------------------------------------------------------------

\* What a plan says.
LEMMA PlanSays ==
  ASSUME NEW c, NEW s
  PROVE  /\ Plan(c, s, TRUE).by = s /\ Plan(c, s, TRUE).materialized
         /\ Plan(c, s, FALSE).by = s /\ ~Plan(c, s, FALSE).materialized
BY SMTT(30) DEF Plan

\* Only an attempt that was made claims anything.
LEMMA Made ==
  ASSUME BootInv, NEW s \in Sidecar, Claims(s)
  PROVE  restore[s] # "new"
BY DEF BootInv, BootTypeOK, AttemptSound, Claims, HeldStep, NativeStep, Writing, Early

LEMMA BootStarts == BootInit => BootInv
<1> SUFFICES ASSUME BootInit  PROVE BootInv
  OBVIOUS
<1>1. GuardInv
  BY GuardStarts DEF BootInit
<1>2. BootTypeOK
  BY SMTT(30) DEF BootInit, BootTypeOK, PlanType, TargetType, NoPlan, EmptyTarget
<1>3. \A s \in Sidecar : AttemptSound(s)
  BY GuardAssumption DEF BootInit, AttemptSound, HeldStep, NativeStep, Writing, NoPlan
<1>4. PlansSound /\ \A s \in Sidecar : ~Claims(s)
  BY GuardAssumption DEF BootInit, Init, PlansSound, Frozen, Claims, NoPlan, EmptyTarget
<1> QED  BY <1>1, <1>2, <1>3, <1>4 DEF BootInv, ClaimSound

\* An attempt that was made has lost its targets once another guard has them.
LEMMA Lost ==
  ASSUME GuardInv, NEW s \in Sidecar, restore[s] # "new",
         NEW g \in Guard, Marked(g), link[g] \in Sidecar \ {s}
  PROVE  ~Kept(session[s])
<1>1. session[s] \in Guard /\ link[session[s]] = s
  BY SMTT(30) DEF GuardInv, GuardTypeOK, SessionSound
<1>2. g \in Guard \ {session[s]} /\ link[g] # None
  BY <1>1, GuardAssumption
<1> QED  BY <1>2 DEF Kept, Marked

\* What an attempt in progress does to the plans and the targets concerns no
\* earlier one.
LEMMA OnlyOwn ==
  ASSUME BootInv, NEW s \in Sidecar, restore[s] \in InRestore, UNCHANGED <<marker, link, session>>,
         NEW u \in Sidecar \ {s}, Claims(u)' => Claims(u)
  PROVE  ClaimSound(u)'
<1>1. session[s] \in Guard /\ Marked(session[s]) /\ link[session[s]] = s
  BY ActiveMarked DEF BootInv, Quiet
<1>2. Claims(u) => restore[u] # "new"
  BY Made
<1>3. Claims(u) => ~Kept(session[u])
  BY <1>1, <1>2, Lost DEF BootInv
<1> QED  BY <1>3 DEF ClaimSound, Kept

LEMMA SelectKept ==
  ASSUME BootInv, GuardInv', NEW s \in Sidecar, Select(s)
  PROVE  BootInv'
<1> USE DEF BootInv, Select, Stage, vars, files
<1>1. restore \in [Sidecar -> InRestore \cup {"new", "ready", "failed", "poisoned"}]
  BY DEF GuardInv, GuardTypeOK
<1>2. restore[s] \in InRestore /\ \A t \in Sidecar \ {s} : step[t] = "none"
  BY OneAttempt DEF AttemptSound, BootTypeOK, HeldStep, NativeStep, Writing, InRestore
<1>3. BootTypeOK'
  BY DEF BootTypeOK, PlanType, TargetType, HeldStep, NativeStep, Writing, Plan
<1>4. AttemptSound(s)'
  <2>1. choice'[s] \in Nat \ {0} /\ plan.chain \in {0, choice'[s]}
    BY SMTT(30) DEF BootTypeOK, PlanType, PlansSound, NoPlan
  <2> QED  BY <1>1, <2>1 DEF BootTypeOK, AttemptSound, HeldStep, NativeStep, Writing, Early
<1>5. ASSUME NEW t \in Sidecar \ {s}  PROVE AttemptSound(t)'
  BY <1>1, <1>2 DEF BootTypeOK, AttemptSound, HeldStep, NativeStep, Writing, Early, Plan
<1>6. PlansSound'
  BY <1>1 DEF PlansSound, Frozen
<1>7. ASSUME NEW u \in Sidecar  PROVE ClaimSound(u)'
  BY <1>1, <1>2 DEF ClaimSound, Claims, Kept, InRestore, volumes, guards
<1> QED  BY <1>3, <1>4, <1>5, <1>6, <1>7

LEMMA RenamePlanKept ==
  ASSUME BootInv, GuardInv', NEW s \in Sidecar, RenamePlan(s)
  PROVE  BootInv'
<1> USE DEF BootInv, RenamePlan, Stage, Rename, vars
<1>1. restore \in [Sidecar -> InRestore \cup {"new", "ready", "failed", "poisoned"}]
  BY DEF GuardInv, GuardTypeOK
<1>2. restore[s] \in InRestore /\ \A t \in Sidecar \ {s} : step[t] = "none"
  BY OneAttempt DEF AttemptSound, BootTypeOK, HeldStep, NativeStep, Writing, InRestore
<1>3. BootTypeOK'
  BY DEF BootTypeOK, PlanType, TargetType, HeldStep, NativeStep, Writing, Plan
<1>4. AttemptSound(s)'
  BY SMTT(30), <1>1 DEF BootTypeOK, AttemptSound, Reached, HeldStep, NativeStep, Writing, Plan
<1>5. ASSUME NEW t \in Sidecar \ {s}  PROVE AttemptSound(t)'
  BY <1>1, <1>2 DEF BootTypeOK, AttemptSound, HeldStep, NativeStep, Writing, Early, Plan
<1>6. PlansSound'
  BY SMTT(30), <1>1 DEF BootTypeOK, PlanType, TargetType, AttemptSound, HeldStep, PlansSound, Frozen, Plan
<1>7. ASSUME NEW u \in Sidecar  PROVE ClaimSound(u)'
  <2>1. CASE u # s
    <3>1. Claims(u)' => Claims(u)
      BY <1>1, <2>1 DEF Claims, BootTypeOK, Plan
    <3> QED  BY <1>2, <2>1, <3>1, OnlyOwn
  <2>2. CASE u = s
    BY <1>1, <2>2 DEF ClaimSound, Claims, AttemptSound, Early, Plan
  <2> QED  BY <2>1, <2>2
<1> QED  BY <1>3, <1>4, <1>5, <1>6, <1>7

LEMMA SyncPlanKept ==
  ASSUME BootInv, GuardInv', NEW s \in Sidecar, SyncPlan(s)
  PROVE  BootInv'
<1> USE DEF BootInv, SyncPlan, Stage, SyncRename, vars
<1>1. restore \in [Sidecar -> InRestore \cup {"new", "ready", "failed", "poisoned"}]
  BY DEF GuardInv, GuardTypeOK
<1>2. restore[s] \in InRestore /\ \A t \in Sidecar \ {s} : step[t] = "none"
  BY OneAttempt DEF AttemptSound, BootTypeOK, HeldStep, NativeStep, Writing, InRestore
<1>3. BootTypeOK'
  BY DEF BootTypeOK, PlanType, TargetType, HeldStep, NativeStep, Writing, Plan
<1>4. AttemptSound(s)'
  BY SMTT(30), <1>1 DEF BootTypeOK, AttemptSound, Reached, HeldStep, NativeStep, Writing, Plan
<1>5. ASSUME NEW t \in Sidecar \ {s}  PROVE AttemptSound(t)'
  BY <1>1, <1>2 DEF BootTypeOK, AttemptSound, HeldStep, NativeStep, Writing, Early, Plan
<1>6. PlansSound'
  BY SMTT(30), <1>1 DEF BootTypeOK, AttemptSound, HeldStep, PlansSound, Frozen, Plan
<1>7. ASSUME NEW u \in Sidecar  PROVE ClaimSound(u)'
  <2>1. CASE u # s
    <3>1. Claims(u)' => Claims(u)
      BY <1>1, <2>1 DEF Claims, BootTypeOK, Plan
    <3> QED  BY <1>2, <2>1, <3>1, OnlyOwn
  <2>2. CASE u = s
    <3>1. restore[s] # "ready" /\ plan = Plan(choice[s], s, FALSE)
      BY DEF AttemptSound, Writing
    <3>2. durable' = Plan(choice[s], s, FALSE)
      BY <3>1 DEF AttemptSound, Writing
    <3>3. ~plan.materialized /\ ~durable'.materialized
      BY <3>1, <3>2, PlanSays
    <3> QED  BY <2>2, <3>1, <3>3 DEF ClaimSound, Claims
  <2> QED  BY <2>1, <2>2
<1> QED  BY <1>3, <1>4, <1>5, <1>6, <1>7

LEMMA BeginMaterializeKept ==
  ASSUME BootInv, GuardInv', NEW s \in Sidecar, BeginMaterialize(s)
  PROVE  BootInv'
<1> USE DEF BootInv, BeginMaterialize, Stage, Materialize, files
<1>1. restore \in [Sidecar -> InRestore \cup {"new", "ready", "failed", "poisoned"}]
  BY DEF GuardInv, GuardTypeOK
<1>2. restore[s] \in InRestore /\ \A t \in Sidecar \ {s} : step[t] = "none"
  BY OneAttempt DEF AttemptSound, BootTypeOK, HeldStep, NativeStep, Writing, InRestore
<1>3. BootTypeOK'
  BY DEF BootTypeOK, PlanType, TargetType, HeldStep, NativeStep, Writing, Plan
<1>4. AttemptSound(s)'
  BY SMTT(30), <1>1 DEF BootTypeOK, AttemptSound, Reached, HeldStep, NativeStep, Writing, Plan
<1>5. ASSUME NEW t \in Sidecar \ {s}  PROVE AttemptSound(t)'
  BY <1>1, <1>2 DEF BootTypeOK, AttemptSound, HeldStep, NativeStep, Writing, Early, Plan
<1>6. PlansSound'
  BY <1>1 DEF PlansSound, Frozen
<1>7. ASSUME NEW u \in Sidecar  PROVE ClaimSound(u)'
  BY <1>1, <1>2 DEF ClaimSound, Claims, Kept, InRestore, volumes, guards
<1> QED  BY <1>3, <1>4, <1>5, <1>6, <1>7

LEMMA WriteTargetsKept ==
  ASSUME BootInv, GuardInv', NEW s \in Sidecar, WriteTargets(s)
  PROVE  BootInv'
<1> USE DEF BootInv, WriteTargets, Stage, vars
<1>1. restore \in [Sidecar -> InRestore \cup {"new", "ready", "failed", "poisoned"}]
  BY DEF GuardInv, GuardTypeOK
<1>2. restore[s] \in InRestore /\ \A t \in Sidecar \ {s} : step[t] = "none"
  BY OneAttempt DEF AttemptSound, BootTypeOK, HeldStep, NativeStep, Writing, InRestore
<1>3. BootTypeOK'
  BY DEF BootTypeOK, PlanType, TargetType, HeldStep, NativeStep, Writing, Plan
<1>4. AttemptSound(s)'
  BY SMTT(30), <1>1 DEF BootTypeOK, AttemptSound, Reached, HeldStep, NativeStep, Writing, Plan
<1>5. ASSUME NEW t \in Sidecar \ {s}  PROVE AttemptSound(t)'
  BY <1>1, <1>2 DEF BootTypeOK, AttemptSound, HeldStep, NativeStep, Writing, Early, Plan
<1>6. PlansSound'
  <2>1. plan = Plan(choice[s], s, FALSE) /\ durable = Plan(choice[s], s, FALSE) /\ choice[s] # 0
    BY DEF AttemptSound, Writing
  <2>2. plan.chain = choice[s] /\ durable.chain = choice[s] /\ target'.chain = choice[s] /\ target'.state = "partial"
    BY <2>1 DEF Plan
  <2> QED  BY <2>1, <2>2 DEF PlansSound, Frozen
<1>7. ASSUME NEW u \in Sidecar  PROVE ClaimSound(u)'
  <2>1. CASE u # s
    BY <1>1, <1>2, <2>1, OnlyOwn DEF Claims
  <2>2. CASE u = s
    <3>1. restore[s] # "ready" /\ plan = Plan(choice[s], s, FALSE)
      BY DEF AttemptSound, Writing
    <3>2. durable' = Plan(choice[s], s, FALSE)
      BY <3>1 DEF AttemptSound, Writing
    <3>3. ~plan.materialized /\ ~durable'.materialized
      BY <3>1, <3>2, PlanSays
    <3> QED  BY <2>2, <3>1, <3>3 DEF ClaimSound, Claims
  <2> QED  BY <2>1, <2>2
<1> QED  BY <1>3, <1>4, <1>5, <1>6, <1>7

LEMMA VerifiedKept ==
  ASSUME BootInv, GuardInv', NEW s \in Sidecar, Verified(s)
  PROVE  BootInv'
<1> USE DEF BootInv, Verified, Stage, vars
<1>1. restore \in [Sidecar -> InRestore \cup {"new", "ready", "failed", "poisoned"}]
  BY DEF GuardInv, GuardTypeOK
<1>2. restore[s] \in InRestore /\ \A t \in Sidecar \ {s} : step[t] = "none"
  BY OneAttempt DEF AttemptSound, BootTypeOK, HeldStep, NativeStep, Writing, InRestore
<1>3. BootTypeOK'
  BY DEF BootTypeOK, PlanType, TargetType, HeldStep, NativeStep, Writing, Plan
<1>4. AttemptSound(s)'
  <2>1. target = [by |-> {s}, chain |-> choice[s], state |-> "partial"]
    BY DEF AttemptSound, Reached, NativeStep, Writing
  <2>2. target' = [by |-> {s}, chain |-> choice[s], state |-> "whole"]
    BY <2>1
  <2> QED  BY <1>1, <2>2 DEF BootTypeOK, AttemptSound, Reached, HeldStep, NativeStep, Writing
<1>5. ASSUME NEW t \in Sidecar \ {s}  PROVE AttemptSound(t)'
  BY <1>1, <1>2 DEF BootTypeOK, AttemptSound, HeldStep, NativeStep, Writing, Early, Plan
<1>6. PlansSound'
  BY SMTT(30), <1>1 DEF BootTypeOK, TargetType, AttemptSound, NativeStep, Writing, PlansSound, Frozen, Reached, Plan, EmptyTarget
<1>7. ASSUME NEW u \in Sidecar  PROVE ClaimSound(u)'
  <2>1. CASE u # s
    BY <1>1, <1>2, <2>1, OnlyOwn DEF Claims
  <2>2. CASE u = s
    <3>1. restore[s] # "ready" /\ plan = Plan(choice[s], s, FALSE)
      BY DEF AttemptSound, Writing
    <3>2. durable' = Plan(choice[s], s, FALSE)
      BY <3>1 DEF AttemptSound, Writing
    <3>3. ~plan.materialized /\ ~durable'.materialized
      BY <3>1, <3>2, PlanSays
    <3> QED  BY <2>2, <3>1, <3>3 DEF ClaimSound, Claims
  <2> QED  BY <2>1, <2>2
<1> QED  BY <1>3, <1>4, <1>5, <1>6, <1>7

LEMMA FinishKept ==
  ASSUME BootInv, GuardInv', NEW s \in Sidecar, Finish(s)
  PROVE  BootInv'
<1> USE DEF BootInv, Finish, Stage, vars
<1>1. restore \in [Sidecar -> InRestore \cup {"new", "ready", "failed", "poisoned"}]
  BY DEF GuardInv, GuardTypeOK
<1>2. restore[s] \in InRestore /\ \A t \in Sidecar \ {s} : step[t] = "none"
  BY OneAttempt DEF AttemptSound, BootTypeOK, HeldStep, NativeStep, Writing, InRestore
<1>3. BootTypeOK'
  BY DEF BootTypeOK, PlanType, TargetType, HeldStep, NativeStep, Writing, Plan
<1>4. AttemptSound(s)'
  <2>1. target = [by |-> {s}, chain |-> choice[s], state |-> "whole"]
    BY DEF AttemptSound, Reached, NativeStep, Writing
  <2>2. target' = [by |-> {s}, chain |-> choice[s], state |-> "synced"]
    BY <2>1
  <2> QED  BY <1>1, <2>2 DEF BootTypeOK, AttemptSound, Reached, HeldStep, NativeStep, Writing
<1>5. ASSUME NEW t \in Sidecar \ {s}  PROVE AttemptSound(t)'
  BY <1>1, <1>2 DEF BootTypeOK, AttemptSound, HeldStep, NativeStep, Writing, Early, Plan
<1>6. PlansSound'
  BY SMTT(30), <1>1 DEF BootTypeOK, TargetType, AttemptSound, NativeStep, Writing, PlansSound, Frozen, Reached, Plan, EmptyTarget
<1>7. ASSUME NEW u \in Sidecar  PROVE ClaimSound(u)'
  <2>1. CASE u # s
    BY <1>1, <1>2, <2>1, OnlyOwn DEF Claims
  <2>2. CASE u = s
    <3>1. restore[s] # "ready" /\ plan = Plan(choice[s], s, FALSE)
      BY DEF AttemptSound, Writing
    <3>2. durable' = Plan(choice[s], s, FALSE)
      BY <3>1 DEF AttemptSound, Writing
    <3>3. ~plan.materialized /\ ~durable'.materialized
      BY <3>1, <3>2, PlanSays
    <3> QED  BY <2>2, <3>1, <3>3 DEF ClaimSound, Claims
  <2> QED  BY <2>1, <2>2
<1> QED  BY <1>3, <1>4, <1>5, <1>6, <1>7

LEMMA RenameMaterializedKept ==
  ASSUME BootInv, GuardInv', NEW s \in Sidecar, RenameMaterialized(s)
  PROVE  BootInv'
<1> USE DEF BootInv, RenameMaterialized, Stage, Rename, vars
<1>1. restore \in [Sidecar -> InRestore \cup {"new", "ready", "failed", "poisoned"}]
  BY DEF GuardInv, GuardTypeOK
<1>2. restore[s] \in InRestore /\ \A t \in Sidecar \ {s} : step[t] = "none"
  BY OneAttempt DEF AttemptSound, BootTypeOK, HeldStep, NativeStep, Writing, InRestore
<1>3. BootTypeOK'
  BY DEF BootTypeOK, PlanType, TargetType, HeldStep, NativeStep, Writing, Plan
<1>4. AttemptSound(s)'
  BY SMTT(30), <1>1 DEF BootTypeOK, AttemptSound, Reached, HeldStep, NativeStep, Writing, Plan
<1>5. ASSUME NEW t \in Sidecar \ {s}  PROVE AttemptSound(t)'
  BY <1>1, <1>2 DEF BootTypeOK, AttemptSound, HeldStep, NativeStep, Writing, Early, Plan
<1>6. PlansSound'
  BY SMTT(30), <1>1 DEF BootTypeOK, TargetType, AttemptSound, NativeStep, Writing, PlansSound, Frozen, Plan
<1>7. ASSUME NEW u \in Sidecar  PROVE ClaimSound(u)'
  <2>1. CASE u # s
    <3>1. Claims(u)' => Claims(u)
      BY <1>1, <2>1 DEF Claims, BootTypeOK, Plan
    <3> QED  BY <1>2, <2>1, <3>1, OnlyOwn
  <2>2. CASE u = s
    <3>1. target = [by |-> {s}, chain |-> choice[s], state |-> "synced"] /\ disk = target
      BY DEF AttemptSound, Reached
    <3>2. plan' = Plan(choice[s], s, TRUE) /\ (restore'[s] = "ready" => durable' = plan')
      BY <1>1 DEF AttemptSound
    <3> QED  BY <2>2, <3>1, <3>2 DEF ClaimSound
  <2> QED  BY <2>1, <2>2
<1> QED  BY <1>3, <1>4, <1>5, <1>6, <1>7

LEMMA SyncMaterializedKept ==
  ASSUME BootInv, GuardInv', NEW s \in Sidecar, SyncMaterialized(s)
  PROVE  BootInv'
<1> USE DEF BootInv, SyncMaterialized, Stage, SyncRename, vars
<1>1. restore \in [Sidecar -> InRestore \cup {"new", "ready", "failed", "poisoned"}]
  BY DEF GuardInv, GuardTypeOK
<1>2. restore[s] \in InRestore /\ \A t \in Sidecar \ {s} : step[t] = "none"
  BY OneAttempt DEF AttemptSound, BootTypeOK, HeldStep, NativeStep, Writing, InRestore
<1>3. BootTypeOK'
  BY DEF BootTypeOK, PlanType, TargetType, HeldStep, NativeStep, Writing, Plan
<1>4. AttemptSound(s)'
  BY SMTT(30), <1>1 DEF BootTypeOK, AttemptSound, Reached, HeldStep, NativeStep, Writing, Plan
<1>5. ASSUME NEW t \in Sidecar \ {s}  PROVE AttemptSound(t)'
  BY <1>1, <1>2 DEF BootTypeOK, AttemptSound, HeldStep, NativeStep, Writing, Early, Plan
<1>6. PlansSound'
  BY SMTT(30), <1>1 DEF BootTypeOK, TargetType, AttemptSound, NativeStep, Writing, PlansSound, Frozen, Plan
<1>7. ASSUME NEW u \in Sidecar  PROVE ClaimSound(u)'
  <2>1. CASE u # s
    <3>1. Claims(u)' => Claims(u)
      BY <1>1, <2>1 DEF Claims, BootTypeOK, Plan
    <3> QED  BY <1>2, <2>1, <3>1, OnlyOwn
  <2>2. CASE u = s
    <3>1. target = [by |-> {s}, chain |-> choice[s], state |-> "synced"] /\ disk = target
      BY DEF AttemptSound, Reached
    <3>2. plan' = Plan(choice[s], s, TRUE) /\ (restore'[s] = "ready" => durable' = plan')
      BY <1>1 DEF AttemptSound
    <3> QED  BY <2>2, <3>1, <3>2 DEF ClaimSound
  <2> QED  BY <2>1, <2>2
<1> QED  BY <1>3, <1>4, <1>5, <1>6, <1>7

LEMMA CompleteKept ==
  ASSUME BootInv, GuardInv', NEW s \in Sidecar, Complete(s)
  PROVE  BootInv'
<1> USE DEF BootInv, Complete, Stage, Materialized, files
<1>1. restore \in [Sidecar -> InRestore \cup {"new", "ready", "failed", "poisoned"}]
  BY DEF GuardInv, GuardTypeOK
<1>2. restore[s] \in InRestore /\ \A t \in Sidecar \ {s} : step[t] = "none"
  BY OneAttempt DEF AttemptSound, BootTypeOK, HeldStep, NativeStep, Writing, InRestore
<1>3. BootTypeOK'
  BY DEF BootTypeOK, PlanType, TargetType, HeldStep, NativeStep, Writing, Plan
<1>4. AttemptSound(s)'
  <2>1. step'[s] = "none" /\ restore'[s] = "ready"
    BY <1>1 DEF BootTypeOK
  <2> QED  BY <2>1 DEF AttemptSound, HeldStep, NativeStep, Writing, Early
<1>5. ASSUME NEW t \in Sidecar \ {s}  PROVE AttemptSound(t)'
  BY <1>1, <1>2 DEF BootTypeOK, AttemptSound, HeldStep, NativeStep, Writing, Early, Plan
<1>6. PlansSound'
  BY <1>1 DEF PlansSound, Frozen
<1>7. ASSUME NEW u \in Sidecar  PROVE ClaimSound(u)'
  <2>1. CASE u # s
    <3>1. Claims(u)' => Claims(u)
      BY <1>1, <2>1 DEF Claims
    <3> QED  BY <1>2, <2>1, <3>1, OnlyOwn DEF volumes, guards
  <2>2. CASE u = s
    <3>1. target = [by |-> {s}, chain |-> choice[s], state |-> "synced"] /\ disk = target
      BY DEF AttemptSound, Reached
    <3>2. plan = Plan(choice[s], s, TRUE) /\ durable = Plan(choice[s], s, TRUE)
      BY DEF AttemptSound
    <3> QED  BY <2>2, <3>1, <3>2 DEF ClaimSound
  <2> QED  BY <2>1, <2>2
<1> QED  BY <1>3, <1>4, <1>5, <1>6, <1>7

LEMMA BootstrapFailsKept ==
  ASSUME BootInv, GuardInv', NEW s \in Sidecar, BootstrapFails(s)
  PROVE  BootInv'
<1> USE DEF BootInv, BootstrapFails, RestoreFails, Failed, files
<1>1. restore \in [Sidecar -> InRestore \cup {"new", "ready", "failed", "poisoned"}]
  BY DEF GuardInv, GuardTypeOK
<1>2. BootTypeOK'
  BY DEF BootTypeOK
<1>3. \A t \in Sidecar : AttemptSound(t)'
  BY <1>1 DEF BootTypeOK, AttemptSound, HeldStep, NativeStep, Writing, Early
<1>4. PlansSound'
  BY <1>1 DEF PlansSound, Frozen
<1>5. \A u \in Sidecar : ClaimSound(u)'
  BY <1>1 DEF ClaimSound, Claims, Kept, volumes, guards
<1> QED  BY <1>2, <1>3, <1>4, <1>5

LEMMA MainClearsKept ==
  ASSUME BootInv, GuardInv', NEW g \in Guard, MainClears(g)
  PROVE  BootInv'
<1> USE DEF BootInv, MainClears, vars, attempts
<1>1. Marked(g) /\ link[g] \in Sidecar /\ session[link[g]] = g
  BY DEF GuardInv, ChildrenSound
<1>2. BootTypeOK'
  BY SMTT(30) DEF BootTypeOK, TargetType, EmptyTarget
<1>3. ASSUME NEW t \in Sidecar  PROVE AttemptSound(t)'
  <2>1. restore[t] \in InRestore => t = link[g]
    <3>1. restore[t] \in InRestore => session[t] \in Guard /\ Marked(session[t]) /\ link[session[t]] = t
      BY ActiveMarked DEF Quiet
    <3>2. 1 \in Volume
      BY SMTT(30), GuardAssumption DEF Volume
    <3> QED  BY <1>1, <3>1, <3>2 DEF Marked
  <2>2. step[t] = "none"
    BY <2>1 DEF AttemptSound, BootTypeOK, InRestore
  <2> QED  BY <2>2 DEF AttemptSound, HeldStep, NativeStep, Writing
<1>4. PlansSound'
  BY SMTT(30) DEF BootTypeOK, TargetType, PlansSound, Frozen, EmptyTarget
<1>5. ASSUME NEW u \in Sidecar  PROVE ClaimSound(u)'
  <2>1. Claims(u) => restore[u] # "new"
    BY Made
  <2>2. Claims(u) => ~Kept(session[u])
    BY <1>1, <2>1, Lost
  <2> QED  BY <2>2 DEF ClaimSound, Claims, Kept
<1> QED  BY <1>2, <1>3, <1>4, <1>5

LEMMA CrashKept ==
  ASSUME BootInv, GuardInv', NodeCrash
  PROVE  BootInv'
<1> USE DEF BootInv, NodeCrash, AfterCrash
<1>1. restore \in [Sidecar -> InRestore \cup {"new", "ready", "failed", "poisoned"}]
  BY DEF GuardInv, GuardTypeOK
<1>2. BootTypeOK'
  BY SMTT(30) DEF BootTypeOK, TargetType, EmptyTarget
<1>3. ASSUME NEW t \in Sidecar  PROVE AttemptSound(t)'
  <2>1. restore'[t] \in Early => restore[t] = "new" /\ step[t] = "none"
    BY <1>1 DEF Failed, InRestore, Early, AttemptSound, BootTypeOK
  <2>2. restore[t] = "new" /\ step[t] = "none" => plan.by # t /\ durable.by # t
    BY DEF AttemptSound, Early
  <2> QED  BY <2>1, <2>2 DEF AttemptSound, HeldStep, NativeStep, Writing
<1>4. PlansSound'
  <2>1. Frozen(target)'
    BY SMTT(30) DEF BootTypeOK, TargetType, PlansSound, Frozen, EmptyTarget
  <2> QED  BY <2>1 DEF PlansSound, Frozen
<1>5. ASSUME NEW u \in Sidecar  PROVE ClaimSound(u)'
  <2>1. restore'[u] = "ready" => restore[u] = "ready"
    BY <1>1 DEF Failed, InRestore
  <2>2. Claims(u)' => Claims(u)
    BY <2>1 DEF Claims
  <2>3. CASE Claims(u)' /\ Kept(session[u])
    <3>1. /\ plan = Plan(target.chain, u, TRUE) /\ (restore[u] = "ready" => durable = plan)
          /\ target.by = {u} /\ target.state = "synced" /\ disk = target
      BY <2>2, <2>3 DEF ClaimSound
    <3>2. target' = target /\ disk' = target
      BY <3>1
    <3>3. CASE plan' = plan
      BY <3>1, <3>2, <3>3 DEF ClaimSound
    <3>4. CASE plan' = durable /\ restore[u] = "ready"
      BY <3>1, <3>2, <3>4 DEF ClaimSound
    <3>5. CASE plan' = durable /\ restore[u] # "ready"
      <4>1. durable.by = u /\ durable.materialized = TRUE
        BY <2>1, <2>3, <3>5 DEF Claims, BootTypeOK, PlanType
      <4>2. durable.chain = target.chain
        BY <3>1 DEF PlansSound, Frozen
      <4>3. durable = Plan(target.chain, u, TRUE)
        BY SMTT(30), <4>1, <4>2 DEF BootTypeOK, PlanType, Plan
      <4> QED  BY <2>1, <3>1, <3>2, <3>5, <4>3 DEF ClaimSound
    <3> QED  BY <3>3, <3>4, <3>5
  <2> QED  BY <2>3 DEF ClaimSound, Kept
<1> QED  BY <1>2, <1>3, <1>4, <1>5

\* No guard gets targets back that it has given up.
LEMMA KeptBefore ==
  ASSUME GuardInv, [Next]_vars, NEW s \in Sidecar, restore[s] # "new", Kept(session[s])'
  PROVE  Kept(session[s])
<1>1. session[s] \in Guard /\ link[session[s]] = s /\ control[s] # "waiting"
  BY DEF GuardInv, GuardTypeOK, SessionSound
<1>2. session'[s] = session[s]
  BY <1>1 DEF Next, vars, GuardInv, GuardTypeOK, Lock, Check, Mark, StartChild, Fork, LatchUncertain, Reaped,
              Drained, Unlink, Fail, ChildEnds, Connect, Begin, AcceptDrain, CloseForDrain, Drain, SessionEnds,
              SidecarDies, Fetch, FetchDone, Restore, HoldSource, Materialize, Materialized, RestoreFails, sidecars
<1>3. ASSUME NEW v \in Volume, marker'[v] = session[s]  PROVE marker[v] = session[s]
  <2>1. CASE marker' = marker
    BY <1>3, <2>1
  <2>2. ASSUME NEW g \in Guard, Mark(g)  PROVE marker[v] = session[s]
    <3>1. g # session[s]
      BY <1>1, <2>2, GuardAssumption DEF Mark, GuardInv, LinkSound
    <3> QED  BY <1>1, <1>3, <2>2, <3>1, GuardAssumption DEF Mark, GuardInv, GuardTypeOK
  <2>3. ASSUME NEW g \in Guard, Unlink(g)  PROVE marker[v] = session[s]
    BY <1>1, <1>3, <2>3, GuardAssumption DEF Unlink, GuardInv, GuardTypeOK
  <2>4. marker' = marker \/ \E g \in Guard : Mark(g) \/ Unlink(g)
    BY DEF Next, vars, Lock, Check, StartChild, Fork, LatchUncertain, Reaped, Drained, Fail, ChildEnds, Connect,
           Begin, AcceptDrain, CloseForDrain, Drain, SessionEnds, SidecarDies, Fetch, FetchDone, Restore,
           HoldSource, Materialize, Materialized, RestoreFails, volumes
  <2> QED  BY <2>1, <2>2, <2>3, <2>4
<1>4. ASSUME NEW h \in Guard, link'[h] = None  PROVE link[h] = None
  <2>1. link' = link \/ \E g \in Guard, t \in Sidecar : Connect(g, t)
    BY DEF Next, vars, Lock, Check, Mark, StartChild, Fork, LatchUncertain, Reaped, Drained, Unlink, Fail,
           ChildEnds, Begin, AcceptDrain, CloseForDrain, Drain, SessionEnds, SidecarDies, Fetch, FetchDone,
           Restore, HoldSource, Materialize, Materialized, RestoreFails, guards
  <2> QED  BY <1>4, <2>1, GuardAssumption DEF Connect, GuardInv, GuardTypeOK
<1> QED  BY <1>2, <1>3, <1>4 DEF Kept

\* A step of a guard or of a sidecar's session leaves the attempts alone.
LEMMA OthersKept ==
  ASSUME BootInv, GuardInv', [Next]_vars, UNCHANGED <<plan, durable, target, disk, attempts>>,
         newest' \in Nat \ {0},
         \A s \in Sidecar : \/ restore'[s] = restore[s]
                            \/ restore[s] \in {"new", "admitted"} /\ restore'[s] \in {"admitted", "held"}
  PROVE  BootInv'
<1> USE DEF BootInv, attempts
<1>1. BootTypeOK'
  BY DEF BootTypeOK
<1>2. \A s \in Sidecar : AttemptSound(s)'
  BY DEF AttemptSound, HeldStep, NativeStep, Writing, Early
<1>3. PlansSound'
  BY DEF PlansSound, Frozen
<1>4. ASSUME NEW s \in Sidecar  PROVE ClaimSound(s)'
  <2>1. (Claims(s)' => Claims(s)) /\ (restore'[s] = "ready" => restore[s] = "ready")
    BY DEF Claims
  <2>2. Claims(s) /\ Kept(session[s])' => Kept(session[s])
    BY Made, KeptBefore
  <2> QED  BY <2>1, <2>2 DEF ClaimSound
<1> QED  BY <1>1, <1>2, <1>3, <1>4

LEMMA BootGuardKept ==
  ASSUME GuardInv, [BootNext]_bootVars
  PROVE  GuardInv'
<1>1. CASE UNCHANGED vars
  BY <1>1, GuardKept
<1>2. ASSUME NEW g \in Guard, GuardStep(g)  PROVE GuardInv'
  BY <1>2, GuardKept DEF GuardStep, Next
<1>3. ASSUME NEW s \in Sidecar, SidecarStep(s) \/ BeginMaterialize(s) \/ Complete(s) \/ BootstrapFails(s)
      PROVE  GuardInv'
  BY <1>3, GuardKept DEF SidecarStep, BeginMaterialize, Complete, BootstrapFails, Next
<1>4. CASE NodeCrash
  BY <1>4, NodeCrashKept
<1>5. ASSUME NEW s \in Sidecar, Select(s) \/ RenamePlan(s) \/ SyncPlan(s) \/ WriteTargets(s) \/ Verified(s)
                                \/ Finish(s) \/ RenameMaterialized(s) \/ SyncMaterialized(s)
      PROVE  UNCHANGED vars
  BY <1>5 DEF Select, RenamePlan, SyncPlan, Rename, SyncRename, WriteTargets, Verified, Finish,
              RenameMaterialized, SyncMaterialized
<1>6. Publish \/ (\E g \in Guard : MainClears(g)) => UNCHANGED vars
  BY DEF Publish, MainClears
<1> QED  BY <1>1, <1>2, <1>3, <1>4, <1>5, <1>6 DEF BootNext, bootVars

LEMMA BootKept ==
  ASSUME BootInv, [BootNext]_bootVars
  PROVE  BootInv'
<1>1. GuardInv' /\ newest \in Nat \ {0}
  BY BootGuardKept DEF BootInv, BootTypeOK
<1>2. CASE UNCHANGED bootVars
  BY <1>1, <1>2, OthersKept DEF bootVars, vars, files, attempts
<1>3. ASSUME NEW g \in Guard, GuardStep(g)  PROVE BootInv'
  <2>1. UNCHANGED <<restore, files, attempts>>
    BY <1>3 DEF GuardStep, Lock, Check, Mark, Connect, Begin, StartChild, Fork, LatchUncertain, ChildEnds,
                Reaped, Drained, Unlink, Fail, sidecars
  <2>2. Next
    BY <1>3 DEF GuardStep, Next
  <2> QED  BY <1>1, <2>1, <2>2, OthersKept DEF files
<1>4. ASSUME NEW s \in Sidecar, SidecarStep(s)  PROVE BootInv'
  <2>0. Next
    BY <1>4 DEF SidecarStep, Next
  <2>1. CASE AcceptDrain(s) \/ CloseForDrain(s) \/ Drain(s) \/ SessionEnds(s) \/ SidecarDies(s) \/ Fetch(s)
             \/ FetchDone(s)
    <3>1. UNCHANGED <<restore, files, attempts>>
      BY <1>4, <2>1 DEF SidecarStep, AcceptDrain, CloseForDrain, Drain, SessionEnds, SidecarDies, Fetch, FetchDone
    <3> QED  BY <1>1, <2>0, <3>1, OthersKept DEF files
  <2>2. CASE Restore(s) \/ HoldSource(s)
    <3>1. restore \in [Sidecar -> InRestore \cup {"new", "ready", "failed", "poisoned"}]
      BY DEF BootInv, GuardInv, GuardTypeOK
    <3> QED  BY <1>1, <1>4, <2>0, <2>2, <3>1, OthersKept DEF SidecarStep, Restore, HoldSource, files
  <2> QED  BY <1>4, <2>1, <2>2 DEF SidecarStep
<1>5. CASE Publish
  <2>1. newest' \in Nat \ {0}
    BY SMTT(30), <1>1, <1>5 DEF Publish
  <2> QED  BY <1>1, <1>5, <2>1, OthersKept DEF Publish, vars
<1> QED  BY <1>1, <1>2, <1>3, <1>4, <1>5, SelectKept, RenamePlanKept, SyncPlanKept, BeginMaterializeKept,
            WriteTargetsKept, VerifiedKept, FinishKept, RenameMaterializedKept, SyncMaterializedKept,
            CompleteKept, BootstrapFailsKept, MainClearsKept, CrashKept
         DEF BootNext

LEMMA BootAlways == BootSpec => []BootInv
<1>1. BootInv /\ [BootNext]_bootVars => BootInv'
  BY BootKept
<1> QED  BY BootStarts, <1>1, PTL DEF BootSpec

-----------------------------------------------------------------------------
(* Results *)

\* Whoever may still write to the targets (a descendant of a guard, a task a
\* sidecar admitted) has its guard's marker on every volume, for any number of
\* guards, sidecars and volumes, whatever dies or crashes (acquire, release).
THEOREM GuardWriterMarked == BootSpec => []WriterMarked
<1>1. ASSUME BootInv  PROVE WriterMarked
  <2> SUFFICES ASSUME NEW g \in Guard, Writes(g)  PROVE Marked(g)
    BY DEF WriterMarked, Marked
  <2>1. CASE children[g] # {}
    BY <1>1, <2>1 DEF BootInv, GuardInv, ChildrenSound
  <2>2. ASSUME NEW s \in Sidecar, session[s] = g, Active(s) > 0  PROVE Marked(g)
    <3>1. ~Quiet(s)
      BY SMTT(30), <1>1, <2>2 DEF Active, Quiet, BootInv, GuardInv, GuardTypeOK
    <3> QED  BY <1>1, <2>2, <3>1, ActiveMarked DEF BootInv
  <2> QED  BY <2>1, <2>2 DEF Writes
<1> QED  BY <1>1, BootAlways, PTL

\* A materialization that failed, or was cut off, before its session accepted a
\* Drain keeps every target marked for ever (bootstrap's deferred Close, drain).
THEOREM GuardPoisonedStaysMarked == BootSpec => []PoisonedStaysMarked
<1>1. ASSUME BootInv  PROVE PoisonedStaysMarked
  BY <1>1, ActiveMarked DEF BootInv, PoisonedStaysMarked, Marked
<1> QED  BY <1>1, BootAlways, PTL

\* The source hold outlives the tasks that read the source, and a guard removes
\* markers and exits only when it is closed (RecoveryService.drain).
THEOREM GuardReaderSpansTasks == BootSpec => []ReaderSpansTasks
<1>1. ASSUME BootInv  PROVE ReaderSpansTasks
  BY SMTT(30), <1>1 DEF BootInv, GuardInv, GuardTypeOK, SessionSound, LinkSound, Settled, Quiet, Active, ReaderSpansTasks
<1> QED  BY <1>1, BootAlways, PTL

\* What is on the targets belongs to the chain of the plan that a crash leaves
\* behind, however many attempts and crashes there are (readRecovery, saveRecovery).
THEOREM BootPlanFrozen == BootSpec => []PlanFrozen
<1>1. BootInv => PlanFrozen
  BY DEF BootInv, PlansSound, Frozen, PlanFrozen
<1> QED  BY <1>1, BootAlways, PTL

\* The targets of an attempt that was reported ready, or that the durable plan
\* calls materialized, hold the whole of one chain, written by that attempt
\* alone, until another guard gets them, however many attempts and crashes there
\* are and whatever CNPG's main command removes (emptyRestoreRoot, finish).
THEOREM BootTargetsWhole == BootSpec => []TargetsWhole
<1>1. ASSUME BootInv  PROVE TargetsWhole
  <2> SUFFICES ASSUME NEW s \in Sidecar, Restored(s), Kept(session[s])
               PROVE  /\ target = [by |-> {s}, chain |-> durable.chain, state |-> "synced"]
                      /\ durable.by = s /\ durable.materialized
    BY DEF TargetsWhole
  <2>1. /\ plan = Plan(target.chain, s, TRUE) /\ (restore[s] = "ready" => durable = plan)
        /\ target.by = {s} /\ target.state = "synced"
    BY <1>1 DEF BootInv, Restored, Claims, ClaimSound
  <2>2. durable.chain = target.chain
    BY <1>1, <2>1 DEF BootInv, PlansSound, Frozen
  <2>3. target = [by |-> {s}, chain |-> durable.chain, state |-> "synced"]
    BY SMTT(30), <1>1, <2>1, <2>2 DEF BootInv, BootTypeOK, TargetType
  <2>4. durable.by = s /\ durable.materialized
    <3>1. CASE restore[s] = "ready"
      <4>1. durable = Plan(target.chain, s, TRUE)
        BY <2>1, <3>1
      <4> QED  BY SMTT(30), <4>1 DEF Plan
    <3> QED  BY <3>1 DEF Restored
  <2> QED  BY <2>3, <2>4
<1> QED  BY <1>1, BootAlways, PTL
=============================================================================
