---------------------------- MODULE Repository ----------------------------
(***************************************************************************)
(* Publication of backups, restore reads and garbage collection over one   *)
(* bucket prefix (internal/repository, internal/retention/run.go).  The    *)
(* gate is used through what AdmissionLock promises; module Gate is the    *)
(* compare-and-swap protocol that keeps the promise.                       *)
(*                                                                         *)
(* The bucket is one record.  Every mutation is a conditional PUT, a       *)
(* multipart step, a DELETE or an abort, dispatched once and answered in   *)
(* one of three ways: applied, definitely not applied, or ambiguous.  An   *)
(* ambiguous mutation sits in `late' and may be applied at any later time, *)
(* or never.  A process that dies simply takes no further step, its last   *)
(* mutation left in `late'.                                                *)
(*                                                                         *)
(* A producer is one Backup callback: one hold, one process, at most one   *)
(* attempt, so the producer also names its attempt namespace.              *)
(***************************************************************************)
EXTENDS Naturals, FiniteSets

CONSTANTS Full, Differential,  \* backup UIDs, by the kind that was requested
          Producer,            \* backup callbacks (and their attempts)
          Reader,              \* restore readers
          Collector,           \* GC invocations
          BackupOf,            \* the UID each producer works for
          Published,           \* attempts that had won before the start
          Parts,               \* objects of an attempt: 1 is the manifest
          Segment,             \* archived WAL segments, by position
          StartOf,             \* the segment where the backup of an attempt starts
          MaxVictims,          \* the batch limit of one GC invocation
          None                 \* absent

Backup == Full \cup Differential
Client == Producer \cup Reader \cup Collector

ASSUME PartsAssumption == Parts \in Nat \ {0}
ASSUME SizesAssumption == MaxVictims \in Nat /\ Segment \subseteq Nat
ASSUME StartAssumption == StartOf \in [Producer -> Nat]
ASSUME ProducerAssumption ==
  /\ BackupOf \in [Producer -> Backup]
  /\ Published \subseteq Producer
  /\ \A p \in Published : BackupOf[p] \in Full
  /\ \A p, q \in Published : BackupOf[p] = BackupOf[q] => p = q
ASSUME DistinctAssumption ==
  /\ Full \cap Differential = {}
  /\ Producer \cap Reader = {}
  /\ (Producer \cup Reader) \cap Collector = {}
  /\ None \notin Backup \cup Client

VARIABLES owner, holders, handle,  \* the gate, as AdmissionLock has it
          store,      \* the bucket
          late,       \* mutations whose outcome is unknown to their sender
          stage,      \* what each client does next
          pick,       \* the root a producer froze, the backup a reader selected
          sent,       \* how many objects of its attempt a producer has sent
          result,     \* the attempt a producer reported as the winner
          uncertain,  \* clients whose Hold or GCOwner is latched uncertain
          catalog,    \* the live backups a collector inventoried
          plan        \* the victims a collector has not destroyed yet

INSTANCE AdmissionLock WITH Shared <- Producer \cup Reader,
                            Exclusive <- Collector,
                            NoOwner <- None

lock == <<owner, holders, handle>>
local == <<stage, pick, sent, result, uncertain, catalog, plan>>
vars == <<owner, holders, handle, store, late, local>>

NoVictims == [expire |-> {}, clean |-> {}, wal |-> {}]

Won(b) == {p \in Published : BackupOf[p] = b}

Init ==
  /\ owner = None
  /\ holders = {}
  /\ handle = [c \in Client |-> IF c \in Published THEN "gone" ELSE "outside"]
  /\ store = [request |-> [b \in Backup |-> IF Won(b) # {} THEN b ELSE None],
              commit |-> [b \in Backup |-> IF Won(b) = {} THEN None
                                           ELSE CHOOSE p \in Won(b) : TRUE],
              retired |-> {},
              claims |-> Published,
              objects |-> Published \X (1..Parts),
              uploads |-> {},
              wal |-> Segment]
  /\ late = {}
  /\ stage = [c \in Client |-> IF c \in Published THEN "leave"
                               ELSE IF c \in Producer THEN "choose"
                               ELSE IF c \in Reader THEN "select"
                               ELSE "inventory"]
  /\ pick = [c \in Producer \cup Reader |->
               IF c \in Published THEN BackupOf[c] ELSE None]
  /\ sent = [p \in Producer |-> IF p \in Published THEN Parts ELSE 0]
  /\ result = [p \in Producer |-> IF p \in Published THEN p ELSE None]
  /\ uncertain = {}
  /\ catalog = [g \in Collector |-> {}]
  /\ plan = [g \in Collector |-> NoVictims]

-----------------------------------------------------------------------------
(* What a client reads *)

Committed(b) == store.commit[b] # None

\* readCommit and live: a commit without its retirement object.
Live(b) == Committed(b) /\ b \notin store.retired

\* The request bytes behind the commit of b name this root; a full is its own.
RootOf(b) == pick[store.commit[b]]

\* verifyPayload: every object the commit names is there.
Complete(p) == \A i \in 1..Parts : <<p, i>> \in store.objects

\* verifyWinner of a full.
FullVerified(b) ==
  /\ Live(b)
  /\ b \in Full
  /\ store.request[b] = b
  /\ store.commit[b] \in store.claims
  /\ Complete(store.commit[b])

\* verifyWinner: live, requestFor, parent, verifyPayload.
Verified(b) ==
  /\ Live(b)
  /\ store.request[b] = RootOf(b)
  /\ store.commit[b] \in store.claims
  /\ Complete(store.commit[b])
  /\ b \in Differential => FullVerified(RootOf(b))

-----------------------------------------------------------------------------
(* What a mutation does when the bucket applies it *)

\* Faulty variant: commit.json is written unconditionally.
AcceptsAnyCommit(m) ==
  CASE m[1] = "request" -> store.request[BackupOf[m[2]]] = None
    [] m[1] = "claim"   -> m[2] \notin store.claims
    [] m[1] \in {"finish", "abort"} -> <<m[2], m[3]>> \in store.uploads
    [] m[1] = "wal"     -> m[2] \in store.wal
    [] OTHER            -> TRUE

\* If-None-Match, If-Match, or the upload a multipart step needs.  A retirement
\* object that is already there is read back and counts as success.
Accepts(m) ==
  CASE m[1] = "request" -> store.request[BackupOf[m[2]]] = None
    [] m[1] = "commit"  -> store.commit[BackupOf[m[2]]] = None
    [] m[1] = "claim"   -> m[2] \notin store.claims
    [] m[1] \in {"finish", "abort"} -> <<m[2], m[3]>> \in store.uploads
    [] m[1] = "wal"     -> m[2] \in store.wal
    [] OTHER            -> TRUE

Effect(m) ==
  CASE m[1] = "request" ->
         [store EXCEPT !.request[BackupOf[m[2]]] = pick[m[2]]]
    [] m[1] = "commit" -> [store EXCEPT !.commit[BackupOf[m[2]]] = m[2]]
    [] m[1] = "claim"  -> [store EXCEPT !.claims = @ \cup {m[2]}]
    [] m[1] = "start"  -> [store EXCEPT !.uploads = @ \cup {<<m[2], m[3]>>}]
    [] m[1] = "finish" -> [store EXCEPT !.uploads = @ \ {<<m[2], m[3]>>},
                                        !.objects = @ \cup {<<m[2], m[3]>>}]
    [] m[1] = "retire" -> [store EXCEPT !.retired = @ \cup {m[2]}]
    [] m[1] = "delete" -> [store EXCEPT !.objects = @ \ {<<m[2], m[3]>>}]
    [] m[1] = "abort"  -> [store EXCEPT !.uploads = @ \ {<<m[2], m[3]>>}]
    [] m[1] = "wal"    -> [store EXCEPT !.wal = @ \ {m[2]}]
    [] OTHER           -> store

Answered(m) == Accepts(m) /\ store' = Effect(m) /\ UNCHANGED <<late, uncertain>>

\* A definite error: nothing was applied, nothing will be.
Refused == UNCHANGED <<store, late, uncertain>>

\* An ambiguous error: latched, and the mutation stays under way.
Ambiguous(c, m) ==
  /\ late' = late \cup {[by |-> c, what |-> m]}
  /\ uncertain' = uncertain \cup {c}
  /\ UNCHANGED store

Working(c, s) == handle[c] = "inside" /\ stage[c] = s

Goto(c, s) == stage' = [stage EXCEPT ![c] = s]

\* One mutation of a call that goes on only after a clear success.
Dispatch(c, m, next) ==
  \/ Answered(m) /\ Goto(c, next)
  \/ Refused /\ Goto(c, "leave")
  \/ Ambiguous(c, m) /\ Goto(c, "leave")

\* A read, a local check, the context or the deadline fails.
Fail(c) ==
  /\ handle[c] = "inside"
  /\ stage[c] # "leave"
  /\ Goto(c, "leave")
  /\ UNCHANGED <<lock, store, late, pick, sent, result, uncertain,
                 catalog, plan>>

-----------------------------------------------------------------------------
(* Producers: one Backup callback *)

\* The position of the cluster's WAL only grows, and the backup of p begins
\* under its hold: not before any backup that is committed by now.
StartsLast(p) ==
  \A b \in Backup : Committed(b) => StartOf[store.commit[b]] <= StartOf[p]

\* BeginDifferential freezes the stored root, or a live full when no request
\* is stored; Begin of a full names no root.
Choose(p) ==
  LET b == BackupOf[p] IN
  /\ Working(p, "choose")
  /\ StartsLast(p)
  /\ \E r \in IF b \in Full THEN {b}
             ELSE IF store.request[b] # None THEN {store.request[b]}
             ELSE {f \in Full : FullVerified(f)} :
       pick' = [pick EXCEPT ![p] = r]
  /\ Goto(p, "request")
  /\ UNCHANGED <<lock, store, late, sent, result, uncertain, catalog, plan>>

\* A PUT of the request that did not clearly succeed is followed by a read.
PutRequest(p) ==
  /\ Working(p, "request")
  /\ \/ Answered(<<"request", p>>) /\ Goto(p, "replay")
     \/ Refused /\ Goto(p, "reread")
     \/ Ambiguous(p, <<"request", p>>) /\ Goto(p, "reread")
  /\ UNCHANGED <<lock, pick, sent, result, catalog, plan>>

RereadRequest(p) ==
  /\ Working(p, "reread")
  /\ Goto(p, IF store.request[BackupOf[p]] = pick[p] THEN "replay" ELSE "leave")
  /\ UNCHANGED <<lock, store, late, pick, sent, result, uncertain,
                 catalog, plan>>

\* The winner of this UID, when its request and its payload check out.
Report(p) ==
  LET b == BackupOf[p] IN
  result' = [result EXCEPT ![p] =
               IF Verified(b) /\ RootOf(b) = pick[p] THEN store.commit[b] ELSE @]

Replay(p) ==
  /\ Working(p, "replay")
  /\ IF Committed(BackupOf[p])
     THEN Report(p) /\ Goto(p, "leave")
     ELSE /\ Goto(p, IF p \in uncertain THEN "leave" ELSE "root")
          /\ UNCHANGED result
  /\ UNCHANGED <<lock, store, late, pick, sent, uncertain, catalog, plan>>

\* Faulty variant: a frozen root is taken as good for ever.
ParentTrusted(p) == TRUE

\* parent: nothing to check for a full.
ParentVerified(p) == BackupOf[p] \in Full \/ FullVerified(pick[p])

CheckRoot(p) ==
  /\ Working(p, "root")
  /\ Goto(p, IF ParentVerified(p) THEN "claim" ELSE "leave")
  /\ UNCHANGED <<lock, store, late, pick, sent, result, uncertain,
                 catalog, plan>>

PutClaim(p) ==
  /\ Working(p, "claim")
  /\ Dispatch(p, <<"claim", p>>, "start")
  /\ UNCHANGED <<lock, pick, sent, result, catalog, plan>>

\* UploadFile up to CompleteMultipartUpload; the first one follows the check
\* of the parent with which publish begins.
StartUpload(p) ==
  /\ Working(p, "start")
  /\ sent[p] = 0 => ParentVerified(p)
  /\ Dispatch(p, <<"start", p, sent[p] + 1>>, "finish")
  /\ UNCHANGED <<lock, pick, sent, result, catalog, plan>>

FinishUpload(p) ==
  /\ Working(p, "finish")
  /\ Dispatch(p, <<"finish", p, sent[p] + 1>>,
              IF sent[p] + 1 = Parts THEN "verify" ELSE "start")
  /\ sent' = [sent EXCEPT ![p] = @ + 1]
  /\ UNCHANGED <<lock, pick, result, catalog, plan>>

VerifyPayload(p) ==
  /\ Working(p, "verify")
  /\ Goto(p, IF Complete(p) /\ ParentVerified(p) THEN "commit" ELSE "leave")
  /\ UNCHANGED <<lock, store, late, pick, sent, result, uncertain,
                 catalog, plan>>

\* Whatever the answer, the winner is read back.
PutCommit(p) ==
  /\ Working(p, "commit")
  /\ \/ Answered(<<"commit", p>>)
     \/ Refused
     \/ Ambiguous(p, <<"commit", p>>)
  /\ Goto(p, "winner")
  /\ UNCHANGED <<lock, pick, sent, result, catalog, plan>>

ReadWinner(p) ==
  /\ Working(p, "winner")
  /\ IF Committed(BackupOf[p]) THEN Report(p) ELSE UNCHANGED result
  /\ Goto(p, "leave")
  /\ UNCHANGED <<lock, store, late, pick, sent, uncertain, catalog, plan>>

-----------------------------------------------------------------------------
(* Restore readers *)

\* Select: any live backup may be the newest eligible one for some target.
Select(r) ==
  /\ Working(r, "select")
  /\ \E b \in Backup : Verified(b) /\ pick' = [pick EXCEPT ![r] = b]
  /\ Goto(r, "read")
  /\ UNCHANGED <<lock, store, late, sent, result, uncertain, catalog, plan>>

-----------------------------------------------------------------------------
(* Garbage collection: one retention.Run *)

\* Inventory: the catalog is taken only when every live entry has its request,
\* its claim, its parent and its objects.
Inventory(g) ==
  /\ Working(g, "inventory")
  /\ \A b \in Backup : Live(b) => Verified(b)
  /\ catalog' = [catalog EXCEPT ![g] = {b \in Backup : Live(b)}]
  /\ Goto(g, "decide")
  /\ UNCHANGED <<lock, store, late, pick, sent, result, uncertain, plan>>

\* What the planner may keep of a catalog: never nothing, and never a
\* differential without its full.
Keeps(live) ==
  {k \in SUBSET live :
     /\ live # {} => k # {}
     /\ \A b \in k : RootOf(b) \in k}

LiveWinner(p) == store.commit[BackupOf[p]] = p /\ BackupOf[p] \notin store.retired

\* Cleanup: objects and uploads of attempts that did not win or are retired.
Garbage ==
  {<<"delete", o[1], o[2]>> : o \in {x \in store.objects : ~LiveWinner(x[1])}}
  \cup
  {<<"abort", o[1], o[2]>> : o \in {x \in store.uploads : ~LiveWinner(x[1])}}

\* Live segments below everything a kept backup starts at.
BelowFloor(keep) ==
  {w \in store.wal : keep # {} /\ \A b \in keep : w < StartOf[store.commit[b]]}

\* The first victims of a list, as many as there is room for.
Prefixes(list, room) ==
  {x \in SUBSET list : IF Cardinality(list) <= room THEN x = list
                       ELSE Cardinality(x) = room}

\* The batch: expiries with the differentials first, then cleanup, then WAL,
\* and no WAL unless every expiry is in the batch.
Batches(live, keep) ==
  LET expire == live \ keep IN
  {v \in [expire : Prefixes(expire, MaxVictims),
          clean : SUBSET Garbage,
          wal : SUBSET BelowFloor(keep)] :
     /\ v.expire \cap Full # {} => expire \cap Differential \subseteq v.expire
     /\ v.clean \in Prefixes(Garbage, MaxVictims - Cardinality(v.expire))
     /\ v.wal \in IF Cardinality(expire) <= MaxVictims
                  THEN Prefixes(BelowFloor(keep),
                                MaxVictims - Cardinality(v.expire)
                                           - Cardinality(v.clean))
                  ELSE {{}}}

Decide(g) ==
  /\ Working(g, "decide")
  /\ \E keep \in Keeps(catalog[g]) :
       \E v \in Batches(catalog[g], keep) :
         /\ plan' = [plan EXCEPT ![g] = v]
         /\ Goto(g, IF v = NoVictims THEN "leave" ELSE "persist")
  /\ UNCHANGED <<lock, store, late, pick, sent, result, uncertain, catalog>>

\* Execute validates the whole plan before it has any effect.
ValidPlan(g) ==
  LET v == plan[g] IN
  /\ \A b \in v.expire :
       /\ Committed(b)
       /\ \A d \in catalog[g] \cap Differential :
            RootOf(d) = b => d \in v.expire
  /\ \A x \in v.clean :
       LET b == BackupOf[x[2]] IN
       /\ store.commit[b] = x[2] => b \in store.retired \cup v.expire
       /\ x[2] \in store.claims
  /\ v.wal \subseteq store.wal

PutPlan(g) ==
  /\ Working(g, "persist")
  /\ ValidPlan(g)
  /\ Dispatch(g, <<"plan", g>>, "destroy")
  /\ UNCHANGED <<lock, pick, sent, result, catalog, plan>>

\* Faulty variant: WAL is retired before the backups that start in it.
DueWalFirst(v) ==
  IF v.wal # {} THEN {<<"wal", w>> : w \in v.wal}
  ELSE IF v.expire # {} THEN {<<"retire", b>> : b \in v.expire}
  ELSE v.clean

\* The victims that may come next in the order of the plan.
Due(v) ==
  IF v.expire # {}
  THEN {<<"retire", b>> : b \in IF v.expire \cap Differential # {}
                                THEN v.expire \cap Differential
                                ELSE v.expire}
  ELSE IF v.clean # {} THEN v.clean
  ELSE {<<"wal", w>> : w \in v.wal}

Done(v, x) ==
  [expire |-> v.expire \ {x[2]},
   clean |-> v.clean \ {x},
   wal |-> v.wal \ {x[2]}]

Destroy(g, x) ==
  /\ Working(g, "destroy")
  /\ x \in Due(plan[g])
  /\ plan' = [plan EXCEPT ![g] = Done(@, x)]
  /\ Dispatch(g, x, IF plan'[g] = NoVictims THEN "leave" ELSE "destroy")
  /\ UNCHANGED <<lock, pick, sent, result, catalog>>

-----------------------------------------------------------------------------

\* Faulty variant: Close forgets the uncertain latch.
CloseRegardless(c) ==
  /\ stage[c] \in {"leave", "read"}
  /\ StartLeaving(c)
  /\ UNCHANGED <<store, late, local>>

\* Hold.Close and GCOwner.Close: an uncertain handle is never given up.
Close(c) ==
  /\ stage[c] \in {"leave", "read"}
  /\ c \notin uncertain
  /\ StartLeaving(c)
  /\ UNCHANGED <<store, late, local>>

\* The gate at work for c: its token comes, is acknowledged, goes.
GateStep(c) ==
  /\ \/ Enter(c)
     \/ Leave(c)
     \/ Appear(c) /\ UNCHANGED handle
     \/ Disappear(c) /\ UNCHANGED handle
  /\ UNCHANGED <<store, late, local>>

\* The bucket applies a mutation whose sender never learned the outcome.
LateArrives(r) ==
  /\ r \in late
  /\ late' = late \ {r}
  /\ store' = IF Accepts(r.what) THEN Effect(r.what) ELSE store
  /\ UNCHANGED <<lock, local>>

ProducerStep(p) ==
  \/ Choose(p) \/ PutRequest(p) \/ RereadRequest(p) \/ Replay(p)
  \/ CheckRoot(p) \/ PutClaim(p) \/ StartUpload(p) \/ FinishUpload(p)
  \/ VerifyPayload(p) \/ PutCommit(p) \/ ReadWinner(p)

CollectorStep(g) ==
  \/ Inventory(g) \/ Decide(g) \/ PutPlan(g)
  \/ \E x \in Due(plan[g]) : Destroy(g, x)

Next ==
  \/ \E c \in Client : GateStep(c) \/ Fail(c) \/ Close(c)
  \/ \E p \in Producer : ProducerStep(p)
  \/ \E r \in Reader : Select(r)
  \/ \E g \in Collector : CollectorStep(g)
  \/ \E r \in late : LateArrives(r)

Spec == Init /\ [][Next]_vars

-----------------------------------------------------------------------------
(* Properties *)

\* Commit last, retire first: in every state of the bucket, whoever crashed
\* and whatever still arrives late, a commit without a retirement has its
\* request, its claim, every object it names, and a full parent of which the
\* same is true (publish, verifyWinner, Execute).
LiveBackupIntact == \A b \in Backup : Live(b) => Verified(b)

\* What a Backup callback reported as the winner of its UID is the durable
\* commit of that UID, so every retry reports the same one (begin, publish).
ResultIsCommit ==
  \A p \in Producer : result[p] # None => store.commit[BackupOf[p]] = result[p]

\* While a restore reader is admitted, the backup it selected stays live, and
\* with it every object DownloadInput will ask for.
SelectionHeld ==
  \A r \in Reader :
    handle[r] = "inside" /\ stage[r] = "read" => Verified(pick[r])

\* A handle that was given up cleanly has nothing under way: no late request
\* of its process can touch the bucket after the next owner is admitted.
CleanlyDrained ==
  \A r \in late : handle[r.by] = "inside"

\* An interrupted or truncated batch never retires WAL that a backup which is
\* still live starts from (run.go's order, Execute's walRetirement check).
WalKept ==
  \A b \in Backup :
    Live(b) => \A w \in Segment : w >= StartOf[store.commit[b]] => w \in store.wal
=============================================================================
