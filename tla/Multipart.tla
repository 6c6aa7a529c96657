----------------------------- MODULE Multipart -----------------------------
(***************************************************************************)
(* The upload of one artifact as a multipart upload with concurrent part   *)
(* workers (UploadFile of internal/s3store/multipart.go).                  *)
(*                                                                         *)
(* The caller initiates the upload, hands part numbers to the workers over *)
(* an unbuffered channel, waits for all of them and completes the upload.  *)
(* A worker digests its part and dispatches one PUT; the first error stops *)
(* the others.  A request is answered "applied", "definitely not applied"  *)
(* or not conclusively; an inconclusive one may sit in `late' and be       *)
(* applied at any later time.  A process that dies leaves its requests     *)
(* there too.                                                              *)
(***************************************************************************)
EXTENDS Naturals

CONSTANTS Upload,   \* artifacts to upload
          Worker,   \* part workers of one upload
          Parts     \* how many parts each artifact has

ASSUME PartsAssumption == Parts \in [Upload -> Nat \ {0}]

VARIABLES step,      \* what UploadFile does next
          sent,      \* parts handed to a worker so far
          closed,    \* uploads whose jobs channel is closed
          phase,     \* what each worker does with its part
          recorded,  \* parts whose ETag was recorded
          first,     \* the error kept under the mutex
          canceled,  \* uploads whose context is done
          answer,    \* what UploadFile returned
          late,      \* requests that may still be applied, nobody waiting
          object     \* the completed object

uploadVars == <<step, sent, closed, phase, recorded, first, canceled, answer,
                late, object>>

Request == {"initiation", "part", "completion"}

UploadTypeOK ==
  /\ step \in [Upload -> {"new", "parts", "complete", "done", "dead"}]
  /\ sent \in [Upload -> Nat]
  /\ closed \in SUBSET Upload
  /\ phase \in [Upload -> [Worker -> {"gone", "wait", "digest", "put"}]]
  /\ recorded \in [Upload -> Nat]
  /\ first \in [Upload -> {"none", "definite", "ambiguous"}]
  /\ canceled \in SUBSET Upload
  /\ answer \in [Upload -> {"none", "ok", "definite", "ambiguous"}]
  /\ late \in [Upload -> SUBSET Request]
  /\ object \in [Upload -> BOOLEAN]

UploadInit ==
  /\ step = [u \in Upload |-> "new"]
  /\ sent = [u \in Upload |-> 0]
  /\ closed = {}
  /\ phase = [u \in Upload |-> [w \in Worker |-> "gone"]]
  /\ recorded = [u \in Upload |-> 0]
  /\ first = [u \in Upload |-> "none"]
  /\ canceled = {}
  /\ answer = [u \in Upload |-> "none"]
  /\ late = [u \in Upload |-> {}]
  /\ object = [u \in Upload |-> FALSE]

-----------------------------------------------------------------------------
(* Parts of the steps *)

\* workerCtx.Done(): stop() was called or the caller's context is done.
Stopped(u) == u \in canceled \/ first[u] # "none"

SetPhase(u, w, p) == phase' = [phase EXCEPT ![u][w] = p]

\* The call is over; its variables are gone.
EndCall(u, s) ==
  /\ step' = [step EXCEPT ![u] = s]
  /\ sent' = [sent EXCEPT ![u] = 0]
  /\ closed' = closed \ {u}
  /\ recorded' = [recorded EXCEPT ![u] = 0]
  /\ first' = [first EXCEPT ![u] = "none"]

Return(u, a) ==
  /\ EndCall(u, "done")
  /\ answer' = [answer EXCEPT ![u] = a]

\* An inconclusive request was applied, is lost, or may be applied later.
MaybeLate(u, r) ==
  \/ late' = late
  \/ late' = [late EXCEPT ![u] = @ \cup {r}]

\* Faulty variant: the first error stands as it is.
KeepFirst(u, e) ==
  first' = [first EXCEPT ![u] = IF @ = "none" THEN e ELSE @]

\* The first error is kept; it turns ambiguous when a later one is.
Merge(u, e) ==
  first' = [first EXCEPT ![u] = IF @ = "none" \/ e = "ambiguous" THEN e ELSE @]

\* A worker records its error, calls stop and returns.
WorkerFails(u, w, e) ==
  /\ Merge(u, e)
  /\ SetPhase(u, w, "gone")
  /\ UNCHANGED <<step, sent, closed, recorded, canceled, answer, object>>

-----------------------------------------------------------------------------
(* The caller *)

\* NewMultipartUpload, then the workers are started.
Initiate(u) ==
  /\ step[u] = "new"
  /\ \/ /\ step' = [step EXCEPT ![u] = "parts"]
        /\ phase' = [phase EXCEPT ![u] = [w \in Worker |-> "wait"]]
        /\ UNCHANGED <<sent, closed, recorded, first, answer, late>>
     \/ Return(u, "definite") /\ UNCHANGED <<phase, late>>
     \/ Return(u, "ambiguous") /\ MaybeLate(u, "initiation") /\ UNCHANGED phase
  /\ UNCHANGED <<canceled, object>>

\* The send on the unbuffered channel meets a worker that waits.
Hand(u, w) ==
  /\ step[u] = "parts"
  /\ u \notin closed
  /\ sent[u] < Parts[u]
  /\ phase[u][w] = "wait"
  /\ sent' = [sent EXCEPT ![u] = @ + 1]
  /\ SetPhase(u, w, "digest")
  /\ UNCHANGED <<step, closed, recorded, first, canceled, answer, late, object>>

\* Faulty variant: the sender does not watch workerCtx.
CloseWhenAllSent(u) ==
  /\ step[u] = "parts"
  /\ u \notin closed
  /\ sent[u] = Parts[u]
  /\ closed' = closed \cup {u}
  /\ UNCHANGED <<step, sent, phase, recorded, first, canceled, answer, late,
                 object>>

\* All parts were handed out, or the select took the Done case.
CloseJobs(u) ==
  /\ step[u] = "parts"
  /\ u \notin closed
  /\ sent[u] = Parts[u] \/ Stopped(u)
  /\ closed' = closed \cup {u}
  /\ UNCHANGED <<step, sent, phase, recorded, first, canceled, answer, late,
                 object>>

\* wg.Wait() returned: the kept error, Canceled, or on to the completion.
Join(u) ==
  /\ step[u] = "parts"
  /\ u \in closed
  /\ \A w \in Worker : phase[u][w] = "gone"
  /\ \/ first[u] # "none" /\ Return(u, first[u])
     \/ first[u] = "none" /\ u \in canceled /\ Return(u, "definite")
     \/ /\ ~Stopped(u)
        /\ step' = [step EXCEPT ![u] = "complete"]
        /\ UNCHANGED <<sent, closed, recorded, first, answer>>
  /\ UNCHANGED <<phase, canceled, late, object>>

\* The store makes the object only when it has all the parts.
MakesObject(u) ==
  /\ recorded[u] = Parts[u]
  /\ object' = [object EXCEPT ![u] = TRUE]

\* CompleteMultipartUpload; a late one is applied only with all the parts.
Complete(u) ==
  /\ step[u] = "complete"
  /\ \/ Return(u, "ok") /\ MakesObject(u) /\ UNCHANGED late
     \/ Return(u, "definite") /\ UNCHANGED <<late, object>>
     \/ Return(u, "ambiguous") /\ MakesObject(u) /\ UNCHANGED late
     \/ /\ Return(u, "ambiguous")
        /\ recorded[u] = Parts[u]
        /\ MaybeLate(u, "completion")
        /\ UNCHANGED object
  /\ UNCHANGED <<phase, canceled>>

-----------------------------------------------------------------------------
(* A part worker *)

DigestFails(u, w) ==
  /\ phase[u][w] = "digest"
  /\ WorkerFails(u, w, "definite")
  /\ UNCHANGED late

Dispatch(u, w) ==
  /\ phase[u][w] = "digest"
  /\ SetPhase(u, w, "put")
  /\ UNCHANGED <<step, sent, closed, recorded, first, canceled, answer, late,
                 object>>

PartStored(u, w) ==
  /\ phase[u][w] = "put"
  /\ recorded' = [recorded EXCEPT ![u] = @ + 1]
  /\ SetPhase(u, w, "wait")
  /\ UNCHANGED <<step, sent, closed, first, canceled, answer, late, object>>

PartFails(u, w) ==
  /\ phase[u][w] = "put"
  /\ \/ WorkerFails(u, w, "definite") /\ UNCHANGED late
     \/ WorkerFails(u, w, "ambiguous") /\ MaybeLate(u, "part")

\* range jobs ends when the channel is closed.
WorkerEnds(u, w) ==
  /\ phase[u][w] = "wait"
  /\ u \in closed
  /\ SetPhase(u, w, "gone")
  /\ UNCHANGED <<step, sent, closed, recorded, first, canceled, answer, late,
                 object>>

-----------------------------------------------------------------------------
(* The environment *)

Cancel(u) ==
  /\ canceled' = canceled \cup {u}
  /\ UNCHANGED <<step, sent, closed, phase, recorded, first, answer, late,
                 object>>

\* The requests a process has in flight when it dies.
InFlight(u) ==
  (IF step[u] = "new" THEN {"initiation"} ELSE {})
    \cup (IF \E w \in Worker : phase[u][w] = "put" THEN {"part"} ELSE {})
    \cup (IF step[u] = "complete" /\ recorded[u] = Parts[u]
          THEN {"completion"} ELSE {})

\* The process dies during the upload; what was dispatched is on its own.  The
\* context is the caller's, which forgets it.
Abandon(u) ==
  /\ step[u] \in {"new", "parts", "complete"}
  /\ late' = [late EXCEPT ![u] = @ \cup InFlight(u)]
  /\ phase' = [phase EXCEPT ![u] = [w \in Worker |-> "gone"]]
  /\ EndCall(u, "dead")
  /\ UNCHANGED <<answer, object>>

\* A late request is applied or lost; only the completion makes an object.
LateLands(u) ==
  /\ \E r \in late[u] :
       /\ late' = [late EXCEPT ![u] = @ \ {r}]
       /\ \/ object' = object
          \/ r = "completion" /\ object' = [object EXCEPT ![u] = TRUE]
  /\ UNCHANGED <<step, sent, closed, phase, recorded, first, canceled, answer>>

\* The caller returned, and its context is gone.
Forgotten ==
  /\ canceled' \subseteq canceled
  /\ UNCHANGED <<step, sent, closed, phase, recorded, first, answer, late, object>>

UploadStep(u) ==
  \/ Initiate(u) \/ CloseJobs(u) \/ Join(u) \/ Complete(u)
  \/ \E w \in Worker :
       \/ Hand(u, w) \/ DigestFails(u, w) \/ Dispatch(u, w)
       \/ PartStored(u, w) \/ PartFails(u, w) \/ WorkerEnds(u, w)

UploadNext ==
  \E u \in Upload :
    \/ UploadStep(u) \/ Cancel(u) \/ LateLands(u) \/ Forgotten
    \/ Abandon(u) /\ canceled' \subseteq canceled

UploadSpec == UploadInit /\ [][UploadNext]_uploadVars

-----------------------------------------------------------------------------
(* What the caller of UploadFile relies on *)

\* A request of u may still be applied.
Open(u) == late[u] # {} \/ \E w \in Worker : phase[u][w] = "put"

\* An upload that returned success, or an error that is not ambiguous, has no
\* request left that could still be applied, however its workers' failures
\* were interleaved: publish latches the hold uncertain only on an ambiguous
\* one, and a clean Hold.Close lets garbage collection in.
Settled ==
  \A u \in Upload : answer[u] \in {"ok", "definite"} => ~Open(u)

\* The many requests of an upload keep the contract of one mutation: seen
\* through its answer, its open requests and its object, UploadFile is a
\* Mutation.
Contract == INSTANCE Mutation WITH open <- [u \in Upload |-> Open(u)]

UploadIsMutation == Contract!MutationSpec
=============================================================================
