-------------------------------- MODULE Gate --------------------------------
(***************************************************************************)
(* The repository gate: one object, gate.json, that every backup, restore  *)
(* and garbage-collection process changes with a conditional PUT           *)
(* (internal/repository/gate.go, and AcquireGC/Close of gc.go).            *)
(*                                                                         *)
(* A client is ONE handle: the process that asks for it, the changeGate    *)
(* call it is in, and what it holds.  Holder and owner identifiers are     *)
(* fresh UUIDs, so a client stands for its own identifier.  A restore      *)
(* lifetime is the exception: its identifier is the operation's, and both  *)
(* the manager and the readers of that operation establish it.             *)
(*                                                                         *)
(* The ETag of an object is a digest of its content, so "If-Match" is      *)
(* equality with the content read.  A PUT whose answer is lost may have    *)
(* been applied, may be applied at any later time, or never.               *)
(***************************************************************************)
EXTENDS Naturals, FiniteSets

CONSTANTS Backup,         \* backup holders
          Reader,         \* restore-reader holders
          Lifetime,       \* restore-lifetime holders, one per restore operation
          GC,             \* garbage-collection owners
          OperationOf,    \* the lifetime of a reader's restore operation
          NoOwner,        \* gate.json has no owner
          MaxHolders,     \* 1024 in the code
          MaxGeneration,  \* math.MaxUint64 in the code
          MaxRounds,      \* 10 in the code
          MaxLate         \* bound: late PUTs at a time

Holder == Backup \cup Reader \cup Lifetime
Client == Holder \cup GC

ASSUME ClientAssumption ==
  /\ OperationOf \in [Reader -> Lifetime]
  /\ Backup \cap Reader = {} /\ Backup \cap Lifetime = {} /\ Reader \cap Lifetime = {}
  /\ Holder \cap GC = {}
  /\ NoOwner \notin Client
ASSUME BoundAssumption ==
  /\ MaxHolders \in Nat /\ MaxGeneration \in Nat /\ MaxRounds \in Nat /\ MaxLate \in Nat

VARIABLES gate,       \* the content of gate.json
          stage,      \* where each client is in its life
          call,       \* the changeGate call a client is in
          late,       \* PUTs whose client stopped waiting, not yet applied
          uncertain   \* Hold.uncertain, GCOwner.uncertain

vars == <<gate, stage, call, late, uncertain>>

GateContent == [generation : Nat, owner : GC \cup {NoOwner}, holders : SUBSET Holder]

\* idle: not asked yet          life: in EstablishLifetime of AdmitRestore
\* admit: in addHolder or AcquireGC           in: the handle was returned
\* leave: in Close or ReleaseLifetime         out: that returned nil
\* refused: admission failed    abandoned: the release failed, or died
\* stuck: Close of an uncertain handle, or the process died holding it
Stage == {"idle", "life", "admit", "in", "leave", "out", "refused", "abandoned", "stuck"}
InCall == {"life", "admit", "leave"}

Put == [match : GateContent, new : GateContent]
Frame == [round : Nat, barrier : BOOLEAN, sent : SUBSET Put]   \* sent: {} or the one PUT on its way
Fresh == [round |-> 0, barrier |-> FALSE, sent |-> {}]

Init ==
  /\ gate = [generation |-> 0, owner |-> NoOwner, holders |-> {}]
  /\ stage = [c \in Client |-> "idle"]
  /\ call = [c \in Client |-> Fresh]
  /\ late = {}
  /\ uncertain = [c \in Client |-> FALSE]
-----------------------------------------------------------------------------
(* The change closures, each over a gate g that was just read.             *)

\* The holder a client's call is about: a reader first establishes its lifetime.
Token(c, s) == IF s = "life" THEN OperationOf[c] ELSE c

\* The closure returned true: there is nothing to change.
AlreadyDone(c, s, g) ==
  IF c \in GC
  THEN IF s = "admit" THEN g.owner = c ELSE g.owner = NoOwner
  ELSE IF s = "leave" THEN c \notin g.holders ELSE Token(c, s) \in g.holders

\* Faulty variant: AcquireGC looks at the owner only.
RefusedIgnoringHolders(c, s, g) ==
  IF c \in GC
  THEN g.owner \notin {NoOwner, c}
  ELSE /\ s # "leave"
       /\ Token(c, s) \notin g.holders
       /\ g.owner # NoOwner \/ Cardinality(g.holders) = MaxHolders

\* Faulty variant: addHolder does not look at the owner.
RefusedIgnoringOwner(c, s, g) ==
  IF c \in GC
  THEN \/ g.owner \notin {NoOwner, c}
       \/ s = "admit" /\ g.owner = NoOwner /\ g.holders # {}
  ELSE /\ s # "leave"
       /\ Token(c, s) \notin g.holders
       /\ Cardinality(g.holders) = MaxHolders

\* The closure returned an error: ErrBlocked, ErrCapacity or ErrIdentity.
Refused(c, s, g) ==
  IF c \in GC
  THEN \/ g.owner \notin {NoOwner, c}
       \/ s = "admit" /\ g.owner = NoOwner /\ g.holders # {}
  ELSE /\ s # "leave"
       /\ Token(c, s) \notin g.holders
       /\ g.owner # NoOwner \/ Cardinality(g.holders) = MaxHolders

\* The closure changed the gate.
Edit(c, s, g) ==
  IF c \in GC
  THEN [g EXCEPT !.owner = IF s = "admit" THEN c ELSE NoOwner]
  ELSE [g EXCEPT !.holders = IF s = "leave" THEN @ \ {c} ELSE @ \cup {Token(c, s)}]

\* Faulty variant: the generation is not advanced.
SameGeneration(g) == g

\* Every PUT, the no-op barrier included, writes a generation never stored before.
NextGeneration(g) == [g EXCEPT !.generation = @ + 1]
-----------------------------------------------------------------------------
(* How a changeGate call ends.                                             *)

\* nil.  AdmitRestore goes on from EstablishLifetime to the reader's own holder.
Returns(c) ==
  /\ stage' = [stage EXCEPT ![c] = CASE @ = "life"  -> "admit"
                                     [] @ = "admit" -> "in"
                                     [] @ = "leave" -> "out"]
  /\ call' = [call EXCEPT ![c] = Fresh]

\* An error.  The manager calls again for a lifetime: its durable operation
\* tells it what to do; every other handle is given up.
Fails(c) ==
  /\ stage' = [stage EXCEPT ![c] = CASE c \in Lifetime -> @
                                     [] c \notin Lifetime /\ @ = "leave" -> "abandoned"
                                     [] OTHER -> "refused"]
  /\ call' = [call EXCEPT ![c] = Fresh]

\* The loop's continue.
NextRound(c, barrier) ==
  /\ call' = [call EXCEPT ![c] = [round |-> @.round + 1, barrier |-> barrier, sent |-> {}]]
  /\ UNCHANGED stage
-----------------------------------------------------------------------------
(* The steps of a changeGate call.                                         *)

\* Between rounds: the next thing the call does is read the gate.
Reading(c) == stage[c] \in InCall /\ call[c].sent = {}

\* The PUT p of this round is on its way.
Putting(c, p) == stage[c] \in InCall /\ p \in call[c].sent

\* readGate, the closure unless this round is a barrier, and the new content.
Read(c) ==
  /\ Reading(c)
  /\ call[c].round < MaxRounds
  /\ LET closure == ~call[c].barrier
         done    == closure /\ AlreadyDone(c, stage[c], gate)
         refused == closure /\ Refused(c, stage[c], gate)
         new     == IF closure THEN Edit(c, stage[c], gate) ELSE gate
     IN  \/ done /\ Returns(c)
         \/ refused /\ Fails(c)
         \/ ~done /\ gate.generation = MaxGeneration /\ Fails(c)
         \/ /\ ~done /\ ~refused /\ gate.generation < MaxGeneration
            /\ call' = [call EXCEPT ![c].sent = {[match |-> gate, new |-> NextGeneration(new)]}]
            /\ UNCHANGED stage
  /\ UNCHANGED <<gate, late, uncertain>>

\* The read failed, or the ten rounds are over (ErrContention).
ReadFails(c) ==
  /\ Reading(c)
  /\ Fails(c)
  /\ UNCHANGED <<gate, late, uncertain>>

\* The PUT is applied and answered.
PutApplied(c, p) ==
  /\ Putting(c, p)
  /\ gate = p.match
  /\ gate' = p.new
  /\ IF call[c].barrier THEN NextRound(c, FALSE) ELSE Returns(c)
  /\ UNCHANGED <<late, uncertain>>

\* Precondition failed, or a conflict with a concurrent PUT: not applied.
PutRejected(c, p) ==
  /\ Putting(c, p)
  /\ NextRound(c, call[c].barrier)
  /\ UNCHANGED <<gate, late, uncertain>>

\* Any other definite failure: refused credentials, local input/output.
PutFails(c, p) ==
  /\ Putting(c, p)
  /\ Fails(c)
  /\ UNCHANGED <<gate, late, uncertain>>

\* Nobody waits for these PUTs any more: each is lost, or arrives some time.
GiveUp(c, puts) ==
  LET rs == {[by |-> c, put |-> p] : p \in puts}
  IN  \/ late' = late
      \/ Cardinality(late \cup rs) <= MaxLate /\ late' = late \cup rs

\* No answer: the PUT was applied, is late, or was lost.
PutAmbiguous(c, p) ==
  /\ Putting(c, p)
  /\ \/ gate = p.match /\ gate' = p.new /\ late' = late
     \/ gate' = gate /\ GiveUp(c, {p})
  /\ NextRound(c, TRUE)
  /\ UNCHANGED uncertain

\* The storage gets to a PUT that nobody waits for any more.
LateArrives(r) ==
  /\ r \in late
  /\ late' = late \ {r}
  /\ gate' = IF gate = r.put.match THEN r.put.new ELSE gate
  /\ UNCHANGED <<stage, call, uncertain>>
-----------------------------------------------------------------------------
(* The life of a handle.                                                   *)

\* AdmitBackup, EstablishLifetime, AcquireGC; AdmitRestore, which a reader
\* reaches only once the manager established the lifetime of its operation.
Ask(c) ==
  /\ stage[c] = "idle"
  /\ c \in Reader => stage[OperationOf[c]] = "in"
  /\ stage' = [stage EXCEPT ![c] = IF c \in Reader THEN "life" ELSE "admit"]
  /\ UNCHANGED <<gate, call, late, uncertain>>

\* Begin, Publish or Execute got no answer to a mutation of theirs.
LatchUncertain(c) ==
  /\ c \in Backup \cup GC
  /\ stage[c] = "in"
  /\ uncertain' = [uncertain EXCEPT ![c] = TRUE]
  /\ UNCHANGED <<gate, stage, call, late>>

\* Hold.Close and GCOwner.Close; ReleaseLifetimeAfterTermination, which is
\* called when every reader of the operation has terminated.
Close(c) ==
  /\ stage[c] = "in"
  /\ c \in Lifetime =>
       \A r \in Reader : OperationOf[r] = c => stage[r] \in {"idle", "out", "refused", "abandoned", "stuck"}
  /\ stage' = [stage EXCEPT ![c] = IF uncertain[c] THEN "stuck" ELSE "leave"]
  /\ UNCHANGED <<gate, call, late, uncertain>>

\* The process of a handle dies; a PUT on its way may still arrive.  Nothing
\* reconstructs a handle.  A lifetime is the manager's: its next incarnation
\* calls again.
Crash(c) ==
  /\ stage[c] \in InCall \cup {"in"}
  /\ GiveUp(c, call[c].sent)
  /\ IF stage[c] = "in"
     THEN c \notin Lifetime /\ stage' = [stage EXCEPT ![c] = "stuck"] /\ UNCHANGED call
     ELSE Fails(c)
  /\ UNCHANGED <<gate, uncertain>>

Next ==
  \/ \E c \in Client :
       \/ Ask(c) \/ LatchUncertain(c) \/ Close(c) \/ Crash(c)
       \/ Read(c) \/ ReadFails(c)
       \/ \E p \in call[c].sent :
            PutApplied(c, p) \/ PutRejected(c, p) \/ PutFails(c, p) \/ PutAmbiguous(c, p)
  \/ \E r \in late : LateArrives(r)

Spec == Init /\ [][Next]_vars
-----------------------------------------------------------------------------
(* What must hold.                                                         *)

\* The variables keep the shape of gate.json and of the Go structures.
TypeOK ==
  /\ gate \in GateContent
  /\ stage \in [Client -> Stage]
  /\ call \in [Client -> Frame]
  /\ late \subseteq [by : Client, put : Put]
  /\ uncertain \in [Client -> BOOLEAN]

\* Hold.check: the holder is listed, a reader's lifetime is, and nobody owns the gate.
HoldCheck(c) ==
  /\ c \in gate.holders
  /\ c \in Reader => OperationOf[c] \in gate.holders
  /\ gate.owner = NoOwner

\* GCOwner.check: the gate names exactly this owner.
OwnerCheck(c) == gate.owner = c

\* A handle that was returned and not given up always passes its own check,
\* whatever PUTs of other processes, or earlier PUTs of its own, arrive late
\* (Hold.check and GCOwner.check never answer ErrBlocked for a live handle).
HandleBacked ==
  \A c \in Client : stage[c] = "in" => IF c \in GC THEN OwnerCheck(c) ELSE HoldCheck(c)

\* A handle whose Close answered ErrUncertain, or whose process died holding it,
\* keeps its mark in gate.json for ever: Close says that an uncertain mutation
\* latches the holder, and nothing else may clear it.
StuckBlocks ==
  \A c \in Client : stage[c] = "stuck" =>
    IF c \in GC THEN OwnerCheck(c) ELSE c \in gate.holders /\ gate.owner = NoOwner

\* Once Close or ReleaseLifetimeAfterTermination returned nil, the holder or
\* owner never comes back: a PUT that was answered late cannot resurrect it and
\* block every later collection (or every later backup).
NoGhost ==
  \A c \in Client : stage[c] = "out" => c \notin gate.holders /\ gate.owner # c

\* When changeGate returned nil, no earlier PUT of that client can still change
\* who holds the gate: the barrier fenced it (the comment of changeGate).  The
\* barrier of a call that failed before may still be applied, and changes nothing
\* but the generation.
Fenced ==
  \A r \in late : stage[r.by] \in {"in", "out", "stuck"} =>
    r.put.match # gate \/ r.put.new = NextGeneration(gate)

\* The part a handle plays in AdmissionLock.
HandleOf(s) ==
  CASE s \in {"idle", "life", "admit", "refused"} -> "outside"
    [] s \in {"in", "stuck"} -> "inside"
    [] s \in {"leave", "abandoned"} -> "leaving"
    [] s = "out" -> "gone"

Lock == INSTANCE AdmissionLock
          WITH Shared <- Holder, Exclusive <- GC, NoOwner <- NoOwner,
               owner <- gate.owner, holders <- gate.holders,
               handle <- [c \in Client |-> HandleOf(stage[c])]

\* The compare-and-swap protocol over gate.json, with lost and late answers and
\* with crashes, implements the atomic admission lock its callers assume.
ImplementsLock == Lock!LockSpec
=============================================================================
