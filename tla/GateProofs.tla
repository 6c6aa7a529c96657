----------------------------- MODULE GateProofs -----------------------------
(***************************************************************************)
(* The gate protocol is correct for every set of clients and every bound.  *)
(*                                                                         *)
(* The heart of the inductive invariant is what a PUT that is still on its *)
(* way can do: it was computed from one version of the gate, so it is dead *)
(* once the generation moved; and while it is alive, it adds its client's  *)
(* mark only if that client is still asking, and drops it only if that     *)
(* client is already giving it up.                                         *)
(*                                                                         *)
(* The invariant gives what the callers of the gate rely on, and that the  *)
(* protocol implements AdmissionLock.                                      *)
(***************************************************************************)
EXTENDS Gate, TLAPS

\* Most leaves are first-order reasoning; those with arithmetic or records cite SMT.
USE ZenonT(30)

\* The mark of a client is in gate.json.
Marked(c, g) == IF c \in GC THEN g.owner = c ELSE c \in g.holders

\* What a PUT does to the version it was computed from.
IsBarrier(p) == p.new = NextGeneration(p.match)
IsAdmit(c, p) ==
  /\ ~Marked(c, p.match)
  /\ p.match.owner = NoOwner
  /\ c \in GC => p.match.holders = {}
  /\ p.new = NextGeneration(Edit(c, "admit", p.match))
IsLeave(c, p) ==
  /\ Marked(c, p.match)
  /\ p.new = NextGeneration(Edit(c, "leave", p.match))

\* gate.json names an owner or holders, never both.
OwnerExcludes == gate.owner # NoOwner => gate.holders = {}

\* A PUT on its way was computed from the current version or from an older one.
Versioned(p) ==
  /\ p.match.generation <= gate.generation
  /\ p.match.generation = gate.generation => p.match = gate

\* A PUT that can still be applied does what its client still wants.
Wanted(c, p) ==
  \/ IsBarrier(p)
  \/ IsAdmit(c, p) /\ (p.match = gate => stage[c] \in {"admit", "refused"})
  \/ IsLeave(c, p) /\ (p.match = gate => stage[c] \in {"leave", "abandoned"})

PutsSound ==
  /\ \A r \in late : Versioned(r.put) /\ Wanted(r.by, r.put)
  /\ \A c \in Client : \A p \in call[c].sent : Versioned(p) /\ Wanted(c, p)

\* The PUT of the round a client is in is its barrier or its edit.
SentByStage ==
  \A c \in Client : \A p \in call[c].sent :
    /\ stage[c] \in {"admit", "leave"}
    /\ call[c].barrier => IsBarrier(p)
    /\ ~call[c].barrier /\ stage[c] = "admit" => IsAdmit(c, p)
    /\ ~call[c].barrier /\ stage[c] = "leave" => IsLeave(c, p)

\* Only a client in a call is in a round of it; a reader finds its lifetime in
\* the first one.
Idle ==
  \A c \in Client : stage[c] \notin {"admit", "leave"} => call[c] = Fresh

\* Acknowledged marks are there, and marks given up are not.
Acknowledged ==
  \A c \in Client :
    /\ stage[c] \in {"in", "stuck"} => Marked(c, gate)
    /\ stage[c] = "out" => ~Marked(c, gate)

\* The manager keeps the lifetime of an operation while one of its readers runs.
LifetimeSpans ==
  \A r \in Reader : stage[r] \in {"life", "admit", "in", "leave"} => stage[OperationOf[r]] = "in"

\* Only backups and collections mutate the repository.
OnlyMutatorsUncertain == \A c \in Client : uncertain[c] => c \in Backup \cup GC

\* Only readers establish somebody else's mark.
OnlyReadersLife == \A c \in Client : stage[c] = "life" => c \in Reader

IInv ==
  /\ TypeOK
  /\ OwnerExcludes /\ PutsSound /\ SentByStage /\ Idle
  /\ Acknowledged /\ LifetimeSpans /\ OnlyMutatorsUncertain /\ OnlyReadersLife
-----------------------------------------------------------------------------
(* What applying a PUT does, whoever waits for it.                         *)

\* The content a PUT writes, field by field.
LEMMA Content ==
  ASSUME NEW c \in Client, NEW p \in Put
  PROVE  /\ IsBarrier(p) =>
              /\ p.new.generation = p.match.generation + 1
              /\ p.new.owner = p.match.owner /\ p.new.holders = p.match.holders
         /\ IsAdmit(c, p) =>
              /\ p.new.generation = p.match.generation + 1
              /\ p.new.owner = IF c \in GC THEN c ELSE NoOwner
              /\ p.new.holders = IF c \in GC THEN {} ELSE p.match.holders \cup {c}
              /\ p.match.owner = NoOwner
         /\ IsLeave(c, p) =>
              /\ p.new.generation = p.match.generation + 1
              /\ p.new.owner = IF c \in GC THEN NoOwner ELSE p.match.owner
              /\ p.new.holders = IF c \in GC THEN p.match.holders ELSE p.match.holders \ {c}
BY DEF Put, GateContent, IsBarrier, IsAdmit, IsLeave, NextGeneration, Edit, Token, Marked

\* The version of a PUT that is applied is new, so every PUT on its way is
\* dead, and only the mark of the client that sent it can change.
LEMMA Applied ==
  ASSUME TypeOK, OwnerExcludes,
         NEW c \in Client, NEW p \in Put, Wanted(c, p),
         gate = p.match, gate' = p.new
  PROVE  /\ gate' \in GateContent
         /\ OwnerExcludes'
         /\ \A q \in Put : Versioned(q) => Versioned(q)' /\ q.match # gate'
         /\ \A d \in Client \ {c} : Marked(d, gate') <=> Marked(d, gate)
<1>1. gate' \in GateContent /\ gate \in GateContent
  BY DEF Put, TypeOK
<1>2. gate'.generation = gate.generation + 1
  BY Content DEF Wanted
<1>3. OwnerExcludes'
  BY Content, <1>1, ClientAssumption DEF Wanted, OwnerExcludes, IsLeave, Marked, Client
<1>4. ASSUME NEW q \in Put, Versioned(q)
      PROVE  Versioned(q)' /\ q.match # gate'
  <2>1. q.match.generation \in Nat /\ gate.generation \in Nat
    BY <1>1 DEF Put, GateContent
  <2>2. QED
    BY SMTT(30), <2>1, <1>2, <1>4 DEF Versioned
<1>5. ASSUME NEW d \in Client \ {c}
      PROVE  Marked(d, gate') <=> Marked(d, gate)
  <2>1. d # c /\ d \in Client /\ d # NoOwner /\ (c \in GC \/ c \in Holder)
    BY ClientAssumption DEF Client
  <2>2. CASE IsBarrier(p)
    BY <2>2, Content DEF Marked
  <2>3. CASE IsAdmit(c, p)
    <3>1. gate.owner = NoOwner /\ (c \in GC => gate.holders = {})
      BY <2>3 DEF IsAdmit
    <3>2. /\ gate'.owner = IF c \in GC THEN c ELSE NoOwner
          /\ gate'.holders = IF c \in GC THEN {} ELSE gate.holders \cup {c}
      BY <2>3, Content
    <3>3. QED
      BY <3>1, <3>2, <2>1 DEF Marked
  <2>4. CASE IsLeave(c, p)
    <3>1. c \in GC => gate.owner = c
      BY <2>4 DEF IsLeave, Marked
    <3>2. /\ gate'.owner = IF c \in GC THEN NoOwner ELSE gate.owner
          /\ gate'.holders = IF c \in GC THEN gate.holders ELSE gate.holders \ {c}
      BY <2>4, Content
    <3>3. QED
      BY <3>1, <3>2, <2>1 DEF Marked
  <2>5. QED
    BY <2>2, <2>3, <2>4 DEF Wanted
<1>6. QED
  BY <1>1, <1>3, <1>4, <1>5
-----------------------------------------------------------------------------
(* Every step keeps the invariant.                                         *)

LEMMA InitInv == Init => IInv
BY SMTT(30), ClientAssumption DEF Init, IInv, TypeOK, GateContent, Stage, Frame, Fresh, OwnerExcludes, PutsSound,
   SentByStage, Idle, Acknowledged, LifetimeSpans, OnlyMutatorsUncertain, OnlyReadersLife, Client, Holder

\* A step that leaves the gate, the calls and the late PUTs alone.
LEMMA AskInv ==
  ASSUME IInv, NEW c \in Client, Ask(c)
  PROVE  IInv'
<1> USE DEF Ask
<1>1. TypeOK'
  BY DEF IInv, TypeOK, Stage
<1>2. OwnerExcludes' /\ OnlyMutatorsUncertain'
  BY DEF IInv, OwnerExcludes, OnlyMutatorsUncertain
<1>3. PutsSound'
  BY SMTT(30) DEF IInv, TypeOK, PutsSound, Versioned, Wanted, IsBarrier, IsAdmit, IsLeave, Marked
<1>4. SentByStage' /\ Idle'
  BY SMTT(30) DEF IInv, TypeOK, SentByStage, Idle, IsBarrier, IsAdmit, IsLeave, Marked, Fresh
<1>5. Acknowledged' /\ LifetimeSpans' /\ OnlyReadersLife'
  BY ClientAssumption DEF IInv, TypeOK, Acknowledged, LifetimeSpans, OnlyReadersLife, Marked, Client, Holder
<1>6. QED
  BY <1>1, <1>2, <1>3, <1>4, <1>5 DEF IInv

LEMMA LatchInv ==
  ASSUME IInv, NEW c \in Client, LatchUncertain(c)
  PROVE  IInv'
<1> USE DEF LatchUncertain, IInv
<1>1. TypeOK' /\ OnlyMutatorsUncertain'
  BY DEF TypeOK, OnlyMutatorsUncertain
<1>2. OwnerExcludes' /\ PutsSound'
  BY DEF OwnerExcludes, PutsSound, Versioned, Wanted
<1>3. SentByStage' /\ Idle'
  BY DEF SentByStage, Idle
<1>4. Acknowledged' /\ LifetimeSpans' /\ OnlyReadersLife'
  BY DEF Acknowledged, LifetimeSpans, OnlyReadersLife
<1>5. QED
  BY <1>1, <1>2, <1>3, <1>4

LEMMA CloseInv ==
  ASSUME IInv, NEW c \in Client, Close(c)
  PROVE  IInv'
<1> USE DEF Close
<1>1. TypeOK'
  BY DEF IInv, TypeOK, Stage
<1>2. OwnerExcludes' /\ OnlyMutatorsUncertain'
  BY DEF IInv, OwnerExcludes, OnlyMutatorsUncertain
<1>3. PutsSound'
  BY SMTT(30) DEF IInv, TypeOK, PutsSound, Versioned, Wanted, IsBarrier, IsAdmit, IsLeave, Marked
<1>4. SentByStage' /\ Idle'
  BY SMTT(30) DEF IInv, TypeOK, SentByStage, Idle, IsBarrier, IsAdmit, IsLeave, Marked, Fresh
<1>5. Acknowledged' /\ LifetimeSpans' /\ OnlyReadersLife'
  BY SMTT(30), ClientAssumption DEF IInv, TypeOK, Acknowledged, LifetimeSpans, OnlyReadersLife, OnlyMutatorsUncertain, Marked, Client, Holder
<1>6. QED
  BY <1>1, <1>2, <1>3, <1>4, <1>5 DEF IInv

\* The shape of Fails: the call is over, and the stage is one that ends it.
LEMMA FailsShape ==
  ASSUME TypeOK, NEW c \in Client, stage[c] \in InCall, Fails(c)
  PROVE  /\ stage' \in [Client -> Stage] /\ call' \in [Client -> Frame]
         /\ \A d \in Client \ {c} : stage'[d] = stage[d] /\ call'[d] = call[d]
         /\ call'[c] = Fresh
         /\ stage'[c] = IF c \in Lifetime THEN stage[c]
                        ELSE IF stage[c] = "leave" THEN "abandoned" ELSE "refused"
<1>1. Fresh \in Frame
  BY DEF Fresh, Frame
<1>2. QED
  BY <1>1 DEF TypeOK, Fails, Stage, InCall

\* A call that fails leaves the gate alone; only its own PUT stops being sent.
LEMMA FailInv ==
  ASSUME IInv, NEW c \in Client, stage[c] \in InCall, Fails(c),
         late \subseteq late',
         \A r \in late' : r \in late \/ \E p \in call[c].sent : r = [by |-> c, put |-> p],
         UNCHANGED <<gate, uncertain>>
  PROVE  IInv'
<1> USE FailsShape
<1> TypeOK
  BY DEF IInv
<1>1. TypeOK'
  BY SMTT(30) DEF IInv, TypeOK, Frame
<1>2. OwnerExcludes' /\ OnlyMutatorsUncertain'
  BY DEF IInv, OwnerExcludes, OnlyMutatorsUncertain
<1>3. PutsSound'
  <2>1. ASSUME NEW d \in Client, NEW p \in Put, Versioned(p), Wanted(d, p)
        PROVE  Versioned(p)' /\ Wanted(d, p)'
    BY <2>1 DEF InCall, Versioned, Wanted, IsBarrier, IsAdmit, IsLeave, Marked
  <2>2. \A d \in Client : call'[d].sent \subseteq call[d].sent /\ call[d].sent \subseteq Put
    BY SMTT(30) DEF TypeOK, Frame, Fresh
  <2>3. \A r \in late' : r.by \in Client /\ r.put \in Put /\ Versioned(r.put) /\ Wanted(r.by, r.put)
    BY SMTT(30), <2>2 DEF IInv, PutsSound, TypeOK
  <2>4. QED
    BY <2>1, <2>2, <2>3 DEF IInv, PutsSound
<1>4. SentByStage' /\ Idle'
  <2>1. Idle'
    BY DEF IInv, Idle
  <2>2. call'[c].sent = {}
    BY SMTT(30) DEF Fresh
  <2>3. SentByStage'
    BY SMTT(30), <2>2 DEF IInv, SentByStage, IsBarrier, IsAdmit, IsLeave, Marked
  <2>4. QED
    BY <2>1, <2>3
<1>5. Acknowledged' /\ LifetimeSpans' /\ OnlyReadersLife'
  BY ClientAssumption DEF IInv, TypeOK, Acknowledged, LifetimeSpans, OnlyReadersLife, Marked, Client, Holder, InCall
<1>6. QED
  BY <1>1, <1>2, <1>3, <1>4, <1>5 DEF IInv

LEMMA ReadFailsInv ==
  ASSUME IInv, NEW c \in Client, ReadFails(c)
  PROVE  IInv'
BY FailInv DEF ReadFails, Reading

LEMMA PutFailsInv ==
  ASSUME IInv, NEW c \in Client, NEW p \in call[c].sent, PutFails(c, p)
  PROVE  IInv'
BY FailInv DEF PutFails, Putting

LEMMA CrashInv ==
  ASSUME IInv, NEW c \in Client, Crash(c)
  PROVE  IInv'
<1>1. CASE stage[c] = "in"
  <2>1. call[c].sent = {} /\ late' = late /\ call' = call
    <3>1. call[c].sent = {} /\ call' = call /\ GiveUp(c, call[c].sent)
      BY SMTT(30), <1>1 DEF IInv, Idle, Fresh, Crash
    <3>2. {[by |-> c, put |-> p] : p \in {}} = {}
      OBVIOUS
    <3>3. QED
      BY <3>1, <3>2 DEF GiveUp
  <2> USE <1>1 DEF Crash
  <2>2. TypeOK'
    BY <2>1 DEF IInv, TypeOK, Stage
  <2>3. OwnerExcludes' /\ OnlyMutatorsUncertain'
    BY DEF IInv, OwnerExcludes, OnlyMutatorsUncertain
  <2>4. PutsSound'
    BY SMTT(30), <2>1 DEF IInv, TypeOK, PutsSound, Versioned, Wanted, IsBarrier, IsAdmit, IsLeave, Marked
  <2>5. SentByStage' /\ Idle'
    <3>1. \A d \in Client : stage'[d] = stage[d] \/ (d = c /\ stage'[d] \notin {"admit", "leave"})
      BY SMTT(30) DEF IInv, TypeOK
    <3>2. SentByStage'
      BY <2>1, <3>1 DEF IInv, SentByStage
    <3>3. Idle'
      BY <1>1, <2>1, <3>1 DEF IInv, Idle
    <3>4. QED
      BY <3>2, <3>3
  <2>6. Acknowledged' /\ LifetimeSpans' /\ OnlyReadersLife'
    BY SMTT(30), ClientAssumption DEF IInv, TypeOK, Acknowledged, LifetimeSpans, OnlyReadersLife, Marked, Client, Holder
  <2>7. QED
    BY <2>2, <2>3, <2>4, <2>5, <2>6 DEF IInv
<1>2. CASE stage[c] # "in"
  BY <1>2, FailInv DEF Crash, GiveUp
<1>3. QED
  BY <1>1, <1>2

\* A PUT on its way stays what it is while neither the gate nor its client moves.
LEMMA PutUntouched ==
  ASSUME gate' = gate, NEW c, NEW p, stage'[c] = stage[c], Versioned(p), Wanted(c, p)
  PROVE  Versioned(p)' /\ Wanted(c, p)'
BY DEF Versioned, Wanted, IsBarrier, IsAdmit, IsLeave, Marked

\* The shape of the loop's continue.
LEMMA NextRoundShape ==
  ASSUME TypeOK, NEW c \in Client, NEW b \in BOOLEAN, NextRound(c, b)
  PROVE  /\ stage' = stage /\ call' \in [Client -> Frame]
         /\ \A d \in Client \ {c} : call'[d] = call[d]
         /\ call'[c].sent = {}
BY SMTT(30) DEF TypeOK, NextRound, Frame

LEMMA PutRejectedInv ==
  ASSUME IInv, NEW c \in Client, NEW p \in call[c].sent, PutRejected(c, p)
  PROVE  IInv'
<1>1. TypeOK /\ call[c].barrier \in BOOLEAN
  BY DEF IInv, TypeOK, Frame
<1>2. /\ stage' = stage /\ call' \in [Client -> Frame]
      /\ \A d \in Client \ {c} : call'[d] = call[d]
      /\ call'[c].sent = {}
      /\ UNCHANGED <<gate, late, uncertain>>
      /\ stage[c] \in {"admit", "leave"}
  BY <1>1, NextRoundShape DEF PutRejected, IInv, SentByStage
<1>3. TypeOK'
  BY <1>1, <1>2 DEF TypeOK
<1>4. PutsSound'
  <2>1. \A d \in Client : call'[d].sent \subseteq call[d].sent
    BY <1>2
  <2>2. QED
    BY <1>2, <2>1, PutUntouched DEF IInv, PutsSound
<1>5. SentByStage' /\ Idle'
  BY SMTT(30), <1>1, <1>2 DEF IInv, SentByStage, Idle, IsBarrier, IsAdmit, IsLeave, Marked
<1>6. QED
  BY <1>2, <1>3, <1>4, <1>5 DEF IInv, OwnerExcludes, Acknowledged, LifetimeSpans, OnlyMutatorsUncertain, OnlyReadersLife, Marked
-----------------------------------------------------------------------------
(* The steps that apply a PUT, or read the gate. *)

\* A PUT of client d is applied: what the acknowledged marks become.
LEMMA AppliedMarks ==
  ASSUME IInv, NEW d \in Client, NEW p \in Put, Wanted(d, p),
         gate = p.match, gate' = p.new,
         \A e \in Client \ {d} : stage'[e] = stage[e],
         \/ stage'[d] = stage[d]
         \/ stage'[d] = "in" /\ IsAdmit(d, p)
         \/ stage'[d] = "out" /\ IsLeave(d, p)
  PROVE  Acknowledged'
<1>1. \A e \in Client \ {d} : Marked(e, gate') <=> Marked(e, gate)
  BY Applied DEF IInv
<1>2. IsBarrier(p) => (Marked(d, gate') <=> Marked(d, gate))
  BY Content DEF Marked
<1>3. IsAdmit(d, p) => Marked(d, gate')
  BY Content DEF Marked
<1>4. IsLeave(d, p) => ~Marked(d, gate')
  <2> SUFFICES ASSUME IsLeave(d, p) PROVE ~Marked(d, gate')
    OBVIOUS
  <2>1. d # NoOwner
    BY ClientAssumption
  <2>2. /\ gate'.owner = IF d \in GC THEN NoOwner ELSE gate.owner
        /\ gate'.holders = IF d \in GC THEN gate.holders ELSE gate.holders \ {d}
    BY Content
  <2>3. QED
    BY <2>1, <2>2 DEF Marked
<1>5. \A e \in Client \ {d} : (stage'[e] \in {"in", "stuck"} => Marked(e, gate')) /\ (stage'[e] = "out" => ~Marked(e, gate'))
  BY <1>1 DEF IInv, Acknowledged
<1>6. (stage'[d] \in {"in", "stuck"} => Marked(d, gate')) /\ (stage'[d] = "out" => ~Marked(d, gate'))
  BY <1>2, <1>3, <1>4 DEF IInv, Acknowledged, Wanted
<1>7. QED
  BY SMTT(30), <1>5, <1>6 DEF Acknowledged

\* A PUT of client d is applied: the PUTs that stay on their way are dead.
LEMMA AppliedPuts ==
  ASSUME IInv, NEW d \in Client, NEW p \in Put, Wanted(d, p),
         gate = p.match, gate' = p.new,
         late' \subseteq late,
         \A e \in Client : call'[e].sent \subseteq call[e].sent
  PROVE  PutsSound'
<1>1. \A q \in Put : Versioned(q) => Versioned(q)' /\ q.match # gate'
  BY Applied DEF IInv
<1>2. ASSUME NEW e \in Client, NEW q \in Put, Versioned(q), Wanted(e, q)
      PROVE  Versioned(q)' /\ Wanted(e, q)'
  BY <1>1, <1>2 DEF Wanted, IsBarrier, IsAdmit, IsLeave, Marked
<1>3. \A e \in Client : call[e].sent \subseteq Put
  BY DEF IInv, TypeOK, Frame
<1>4. \A r \in late : r.by \in Client /\ r.put \in Put
  BY DEF IInv, TypeOK
<1>5. QED
  BY <1>2, <1>3, <1>4 DEF IInv, PutsSound

\* Returns moves the client on and ends its call.
LEMMA ReturnsShape ==
  ASSUME TypeOK, NEW c \in Client, stage[c] \in InCall, Returns(c)
  PROVE  /\ stage' \in [Client -> Stage] /\ call' \in [Client -> Frame]
         /\ \A d \in Client \ {c} : stage'[d] = stage[d] /\ call'[d] = call[d]
         /\ call'[c] = Fresh
         /\ stage'[c] = IF stage[c] = "life" THEN "admit"
                        ELSE IF stage[c] = "admit" THEN "in" ELSE "out"
<1>1. Fresh \in Frame
  BY DEF Fresh, Frame
<1>2. QED
  BY <1>1 DEF TypeOK, Returns, Stage, InCall

LEMMA PutAppliedInv ==
  ASSUME IInv, NEW c \in Client, NEW p \in call[c].sent, PutApplied(c, p)
  PROVE  IInv'
<1>1. /\ TypeOK /\ p \in Put /\ Wanted(c, p) /\ gate = p.match /\ gate' = p.new
      /\ stage[c] \in {"admit", "leave"} /\ late' = late /\ uncertain' = uncertain
      /\ call[c].barrier \in BOOLEAN
  BY DEF IInv, TypeOK, Frame, PutsSound, SentByStage, PutApplied
<1>2. gate' \in GateContent /\ OwnerExcludes'
  BY <1>1, Applied DEF IInv
<1>3. CASE call[c].barrier
  <2>1. /\ stage' = stage /\ call' \in [Client -> Frame]
        /\ \A d \in Client \ {c} : call'[d] = call[d]
        /\ call'[c].sent = {}
    BY <1>1, <1>3, NextRoundShape DEF PutApplied
  <2>2. TypeOK' /\ OnlyMutatorsUncertain' /\ LifetimeSpans' /\ OnlyReadersLife'
    BY <1>1, <1>2, <2>1 DEF IInv, TypeOK, OnlyMutatorsUncertain, LifetimeSpans, OnlyReadersLife
  <2>3. Acknowledged' /\ PutsSound'
    BY <1>1, <2>1, AppliedMarks, AppliedPuts
  <2>4. SentByStage' /\ Idle'
    BY SMTT(30), <1>1, <2>1 DEF IInv, SentByStage, Idle, IsBarrier, IsAdmit, IsLeave, Marked
  <2>5. QED
    BY <1>2, <2>2, <2>3, <2>4 DEF IInv
<1>4. CASE ~call[c].barrier
  <2>1. /\ stage' \in [Client -> Stage] /\ call' \in [Client -> Frame]
        /\ \A d \in Client \ {c} : stage'[d] = stage[d] /\ call'[d] = call[d]
        /\ call'[c] = Fresh
        /\ stage'[c] = IF stage[c] = "admit" THEN "in" ELSE "out"
    BY <1>1, <1>4, ReturnsShape DEF PutApplied, InCall
  <2>2. TypeOK'
    <3>1. late' \subseteq [by : Client, put : Put]
      BY <1>1, <2>1 DEF TypeOK
    <3>2. QED
      BY <1>1, <1>2, <2>1, <3>1, Zenon DEF TypeOK
  <2>3. OnlyMutatorsUncertain' /\ LifetimeSpans' /\ OnlyReadersLife'
    BY SMTT(30), <1>1, <2>1, ClientAssumption DEF IInv, TypeOK, OnlyMutatorsUncertain, LifetimeSpans, OnlyReadersLife, Client, Holder
  <2>4. (stage[c] = "admit" => IsAdmit(c, p)) /\ (stage[c] = "leave" => IsLeave(c, p))
    BY <1>4 DEF IInv, SentByStage
  <2>5. Acknowledged'
    BY <1>1, <2>1, <2>4, AppliedMarks
  <2>6. call'[c].sent = {}
    BY SMTT(30), <2>1 DEF Fresh
  <2>7. PutsSound'
    BY <1>1, <2>1, <2>6, AppliedPuts
  <2>8. SentByStage' /\ Idle'
    BY SMTT(30), <2>1, <2>6 DEF IInv, SentByStage, Idle, IsBarrier, IsAdmit, IsLeave, Marked
  <2>9. QED
    BY <1>2, <2>2, <2>3, <2>5, <2>7, <2>8 DEF IInv
<1>5. QED
  BY <1>3, <1>4

LEMMA PutAmbiguousInv ==
  ASSUME IInv, NEW c \in Client, NEW p \in call[c].sent, PutAmbiguous(c, p)
  PROVE  IInv'
<1>1. /\ TypeOK /\ p \in Put /\ Versioned(p) /\ Wanted(c, p) /\ uncertain' = uncertain
      /\ stage[c] \in {"admit", "leave"}
  BY DEF IInv, TypeOK, Frame, PutsSound, SentByStage, PutAmbiguous
<1>2. /\ stage' = stage /\ call' \in [Client -> Frame]
      /\ \A d \in Client \ {c} : call'[d] = call[d]
      /\ call'[c].sent = {}
  BY <1>1, NextRoundShape DEF PutAmbiguous
<1>3. SentByStage' /\ Idle'
  BY SMTT(30), <1>1, <1>2 DEF IInv, SentByStage, Idle, IsBarrier, IsAdmit, IsLeave, Marked
<1>4. OnlyMutatorsUncertain' /\ LifetimeSpans' /\ OnlyReadersLife'
  BY <1>1, <1>2 DEF IInv, OnlyMutatorsUncertain, LifetimeSpans, OnlyReadersLife
<1>5. CASE gate = p.match /\ gate' = p.new /\ late' = late
  <2>1. gate' \in GateContent /\ OwnerExcludes'
    BY <1>1, <1>5, Applied DEF IInv
  <2>2. TypeOK'
    BY <1>1, <1>2, <1>5, <2>1 DEF TypeOK
  <2>3. Acknowledged' /\ PutsSound'
    BY <1>1, <1>2, <1>5, AppliedMarks, AppliedPuts
  <2>4. QED
    BY <1>3, <1>4, <2>1, <2>2, <2>3 DEF IInv
<1>6. CASE gate' = gate /\ GiveUp(c, {p})
  <2>1. /\ gate' = gate /\ late' \subseteq late \cup {[by |-> c, put |-> p]}
    BY <1>6 DEF GiveUp
  <2>2. TypeOK'
    <3>1. late' \subseteq [by : Client, put : Put]
      BY SMTT(30), <1>1, <2>1 DEF TypeOK
    <3>2. QED
      BY <1>1, <1>2, <2>1, <3>1, Zenon DEF TypeOK
  <2>3. PutsSound'
    <3>1. \A d \in Client : call'[d].sent \subseteq call[d].sent
      BY <1>2
    <3>2. \A r \in late' : Versioned(r.put) /\ Wanted(r.by, r.put)
      BY SMTT(30), <1>1, <2>1 DEF IInv, PutsSound
    <3>3. QED
      BY <1>2, <2>1, <3>1, <3>2, PutUntouched DEF IInv, PutsSound
  <2>4. Acknowledged' /\ OwnerExcludes'
    BY <1>2, <2>1 DEF IInv, Acknowledged, OwnerExcludes, Marked
  <2>5. QED
    BY <1>3, <1>4, <2>2, <2>3, <2>4 DEF IInv
<1>7. QED
  BY <1>5, <1>6 DEF PutAmbiguous

LEMMA LateArrivesInv ==
  ASSUME IInv, NEW r \in late, LateArrives(r)
  PROVE  IInv'
<1>1. /\ TypeOK /\ r.by \in Client /\ r.put \in Put /\ Wanted(r.by, r.put)
      /\ late' \subseteq late /\ UNCHANGED <<stage, call, uncertain>>
  BY DEF IInv, TypeOK, PutsSound, LateArrives
<1>2. SentByStage' /\ Idle' /\ OnlyMutatorsUncertain' /\ LifetimeSpans' /\ OnlyReadersLife'
  BY SMTT(30), <1>1 DEF IInv, SentByStage, Idle, IsBarrier, IsAdmit, IsLeave, Marked, OnlyMutatorsUncertain, LifetimeSpans, OnlyReadersLife
<1>3. CASE gate = r.put.match
  <2>1. gate' = r.put.new
    BY <1>3 DEF LateArrives
  <2>2. gate' \in GateContent /\ OwnerExcludes'
    BY <1>1, <1>3, <2>1, Applied DEF IInv
  <2>3. TypeOK'
    BY <1>1, <2>2 DEF TypeOK
  <2>4. Acknowledged' /\ PutsSound'
    BY <1>1, <1>3, <2>1, AppliedMarks, AppliedPuts
  <2>5. QED
    BY <1>2, <2>2, <2>3, <2>4 DEF IInv
<1>4. CASE gate # r.put.match
  <2>1. gate' = gate
    BY <1>4 DEF LateArrives
  <2>2. TypeOK'
    BY <1>1, <2>1, Zenon DEF TypeOK
  <2>3. PutsSound'
    BY <1>1, <2>1, PutUntouched DEF IInv, PutsSound
  <2>4. Acknowledged' /\ OwnerExcludes'
    BY <1>1, <2>1 DEF IInv, Acknowledged, OwnerExcludes, Marked
  <2>5. QED
    BY <1>2, <2>2, <2>3, <2>4 DEF IInv
<1>5. QED
  BY <1>3, <1>4

LEMMA ReadInv ==
  ASSUME IInv, NEW c \in Client, Read(c)
  PROVE  IInv'
<1> DEFINE s == stage[c]
           closure == ~call[c].barrier
           done == closure /\ AlreadyDone(c, s, gate)
           refused == closure /\ Refused(c, s, gate)
           put == [match |-> gate, new |-> NextGeneration(IF closure THEN Edit(c, s, gate) ELSE gate)]
<1>1. /\ TypeOK /\ s \in InCall /\ call[c].sent = {} /\ UNCHANGED <<gate, late, uncertain>>
  BY DEF Read, Reading, IInv
<1>2. s = "life" => c \in Reader /\ OperationOf[c] \in gate.holders /\ call[c] = Fresh
  BY ClientAssumption DEF IInv, OnlyReadersLife, LifetimeSpans, Acknowledged, Marked, Idle, Client, Holder
<1>3. CASE done /\ Returns(c)
  <2>1. /\ stage' \in [Client -> Stage] /\ call' \in [Client -> Frame]
        /\ \A d \in Client \ {c} : stage'[d] = stage[d] /\ call'[d] = call[d]
        /\ call'[c] = Fresh
        /\ stage'[c] = IF s = "life" THEN "admit" ELSE IF s = "admit" THEN "in" ELSE "out"
    BY <1>1, <1>3, ReturnsShape
  <2>2. TypeOK'
    BY <1>1, <2>1 DEF TypeOK
  <2>3. OwnerExcludes' /\ OnlyMutatorsUncertain' /\ LifetimeSpans' /\ OnlyReadersLife'
    BY SMTT(30), <1>1, <1>2, <2>1, ClientAssumption DEF IInv, OwnerExcludes, TypeOK, OnlyMutatorsUncertain, LifetimeSpans, OnlyReadersLife, Client, Holder, InCall
  <2>4. (s = "admit" => Marked(c, gate)) /\ (s = "leave" => ~Marked(c, gate))
    BY <1>3, ClientAssumption DEF AlreadyDone, Marked, Token, Client
  <2>5. Acknowledged'
    BY <1>1, <2>1, <2>4 DEF IInv, Acknowledged, Marked, InCall
  <2>6. call'[c].sent = {}
    BY SMTT(30), <2>1 DEF Fresh
  <2>7. PutsSound'
    <3>1. ASSUME NEW d \in Client, NEW q \in Put, Versioned(q), Wanted(d, q)
          PROVE  Versioned(q)' /\ Wanted(d, q)'
      BY <1>1, <2>1, <2>4, <3>1 DEF InCall, Versioned, Wanted, IsBarrier, IsAdmit, IsLeave, Marked
    <3>2. \A d \in Client : call'[d].sent \subseteq call[d].sent /\ call[d].sent \subseteq Put
      BY <1>1, <2>1, <2>6 DEF TypeOK, Frame
    <3>3. \A r \in late : r.by \in Client /\ r.put \in Put
      BY <1>1 DEF TypeOK
    <3>4. QED
      BY <1>1, <3>1, <3>2, <3>3 DEF IInv, PutsSound
  <2>8. SentByStage' /\ Idle'
    BY SMTT(30), <1>1, <2>1, <2>6 DEF IInv, SentByStage, Idle, IsBarrier, IsAdmit, IsLeave, Marked
  <2>9. QED
    BY <2>2, <2>3, <2>5, <2>7, <2>8 DEF IInv
<1>4. CASE Fails(c)
  BY <1>1, <1>4, FailInv
<1>5. CASE ~done /\ ~refused /\ call' = [call EXCEPT ![c].sent = {put}] /\ stage' = stage
  <2>1. s \in {"admit", "leave"}
    BY SMTT(30), <1>1, <1>2, <1>5, ClientAssumption DEF InCall, AlreadyDone, Token, Fresh, Holder
  <2>2. put \in Put
    BY SMTT(30), <1>1, <2>1, ClientAssumption DEF TypeOK, Put, GateContent, NextGeneration, Edit, Token, Client
  <2>3. /\ call' \in [Client -> Frame]
        /\ \A d \in Client \ {c} : call'[d] = call[d]
        /\ call'[c].sent = {put} /\ call'[c].barrier = call[c].barrier
    BY <1>1, <1>5, <2>2 DEF TypeOK, Frame
  <2>4. call[c].barrier => IsBarrier(put)
    BY DEF IsBarrier
  <2>5. ~call[c].barrier /\ s = "admit" => IsAdmit(c, put)
    BY <1>5, ClientAssumption DEF IsAdmit, AlreadyDone, Refused, Token, Marked, Client
  <2>6. ~call[c].barrier /\ s = "leave" => IsLeave(c, put)
    BY <1>5, ClientAssumption DEF IsLeave, AlreadyDone, Refused, Token, Marked, Client
  <2>7. Versioned(put) /\ Wanted(c, put)
    <3>1. gate.generation \in Nat
      BY <1>1 DEF TypeOK, GateContent
    <3>2. Versioned(put)
      BY SMTT(30), <3>1 DEF Versioned
    <3>3. IsBarrier(put) \/ (s = "admit" /\ IsAdmit(c, put)) \/ (s = "leave" /\ IsLeave(c, put))
      BY <2>1, <2>4, <2>5, <2>6
    <3>4. QED
      BY <3>2, <3>3 DEF Wanted
  <2>8. TypeOK'
    BY <1>1, <1>5, <2>3 DEF TypeOK
  <2>9. PutsSound'
    BY SMTT(30), <1>1, <1>5, <2>3, <2>7 DEF IInv, PutsSound, Versioned, Wanted, IsBarrier, IsAdmit, IsLeave, Marked
  <2>10. SentByStage' /\ Idle'
    BY SMTT(30), <1>1, <1>5, <2>1, <2>3, <2>4, <2>5, <2>6 DEF IInv, SentByStage, Idle, IsBarrier, IsAdmit, IsLeave, Marked
  <2>11. QED
    BY <1>1, <1>5, <2>8, <2>9, <2>10 DEF IInv, OwnerExcludes, Acknowledged, LifetimeSpans, OnlyMutatorsUncertain, OnlyReadersLife, Marked
<1>6. QED
  BY <1>3, <1>4, <1>5 DEF Read

LEMMA NextInv == IInv /\ [Next]_vars => IInv'
<1> SUFFICES ASSUME IInv, [Next]_vars PROVE IInv'
  OBVIOUS
<1>1. CASE UNCHANGED vars
  <2>1. UNCHANGED <<gate, stage, call, late, uncertain>>
    BY <1>1 DEF vars
  <2>2. TypeOK' /\ OwnerExcludes'
    BY <2>1 DEF IInv, TypeOK, OwnerExcludes
  <2>3. PutsSound'
    BY <2>1, PutUntouched DEF IInv, PutsSound
  <2>4. SentByStage' /\ Idle'
    BY <2>1 DEF IInv, SentByStage, Idle, IsBarrier, IsAdmit, IsLeave, Marked
  <2>5. Acknowledged' /\ LifetimeSpans' /\ OnlyMutatorsUncertain' /\ OnlyReadersLife'
    BY <2>1 DEF IInv, Acknowledged, LifetimeSpans, OnlyMutatorsUncertain, OnlyReadersLife, Marked
  <2>6. QED
    BY <2>2, <2>3, <2>4, <2>5 DEF IInv
<1>2. ASSUME NEW c \in Client, Ask(c) \/ LatchUncertain(c) \/ Close(c) \/ Crash(c) PROVE IInv'
  BY <1>2, AskInv, LatchInv, CloseInv, CrashInv, Zenon
<1>3. ASSUME NEW c \in Client, Read(c) \/ ReadFails(c) PROVE IInv'
  BY <1>3, ReadInv, ReadFailsInv, Zenon
<1>4. ASSUME NEW c \in Client, NEW p \in call[c].sent,
             PutApplied(c, p) \/ PutRejected(c, p) \/ PutFails(c, p) \/ PutAmbiguous(c, p)
      PROVE  IInv'
  BY <1>4, PutAppliedInv, PutRejectedInv, PutFailsInv, PutAmbiguousInv, Zenon
<1>5. ASSUME NEW r \in late, LateArrives(r) PROVE IInv'
  BY <1>5, LateArrivesInv, Zenon
<1>6. QED
  BY <1>1, <1>2, <1>3, <1>4, <1>5, Zenon DEF Next
-----------------------------------------------------------------------------
(* What the invariant gives the callers of the gate.                       *)

LEMMA InvGives == IInv => TypeOK /\ HandleBacked /\ StuckBlocks /\ NoGhost /\ Fenced
<1> SUFFICES ASSUME IInv PROVE TypeOK /\ HandleBacked /\ StuckBlocks /\ NoGhost /\ Fenced
  OBVIOUS
<1>1. HandleBacked
  BY ClientAssumption DEF IInv, TypeOK, HandleBacked, Acknowledged, Marked, OwnerCheck, HoldCheck, OwnerExcludes,
     LifetimeSpans, Client, Holder
<1>2. StuckBlocks
  BY ClientAssumption DEF IInv, StuckBlocks, Acknowledged, Marked, OwnerCheck, OwnerExcludes
<1>3. NoGhost
  BY ClientAssumption DEF IInv, TypeOK, GateContent, NoGhost, Acknowledged, Marked, Client
<1>4. Fenced
  BY DEF IInv, TypeOK, Fenced, PutsSound, Wanted, IsBarrier
<1>5. QED
  BY <1>1, <1>2, <1>3, <1>4 DEF IInv

\* Type correctness of the gate, of every client's changeGate call and of every late PUT.
THEOREM GateTypeOK == Spec => []TypeOK
BY InitInv, NextInv, InvGives, PTL DEF Spec

\* For any number of clients and rounds, a handle that AdmitBackup, AdmitRestore,
\* EstablishLifetime or AcquireGC returned passes its own check until it is closed.
THEOREM GateHandleBacked == Spec => []HandleBacked
BY InitInv, NextInv, InvGives, PTL DEF Spec

\* A handle closed with ErrUncertain, or whose process died, blocks the gate for ever.
THEOREM GateStuckBlocks == Spec => []StuckBlocks
BY InitInv, NextInv, InvGives, PTL DEF Spec

\* A cleanly closed handle never comes back, whatever PUT arrives late.
THEOREM GateNoGhost == Spec => []NoGhost
BY InitInv, NextInv, InvGives, PTL DEF Spec

\* When changeGate returned nil, no late PUT of that client can change who holds the gate.
THEOREM GateFenced == Spec => []Fenced
BY InitInv, NextInv, InvGives, PTL DEF Spec
-----------------------------------------------------------------------------
(* The protocol implements AdmissionLock.                                  *)

\* The handles of AdmissionLock.
Handles == [c \in Client |-> HandleOf(stage[c])]

LEMMA StageHandles ==
  ASSUME stage' \in [Client -> Stage], stage \in [Client -> Stage], NEW c \in Client,
         \A d \in Client \ {c} : stage'[d] = stage[d]
  PROVE  Handles' = [Handles EXCEPT ![c] = HandleOf(stage'[c])]
BY DEF Handles

\* Nothing an observer of the lock sees has changed.
LEMMA LockStutters ==
  ASSUME TypeOK, TypeOK', NEW c \in Client,
         gate'.owner = gate.owner, gate'.holders = gate.holders,
         \A d \in Client \ {c} : stage'[d] = stage[d],
         HandleOf(stage'[c]) = HandleOf(stage[c])
  PROVE  [Lock!LockNext]_(Lock!lockVars)
<1>1. Handles' = Handles
  BY DEF Handles, TypeOK
<1>2. QED
  BY <1>1 DEF Lock!lockVars, Handles

\* A PUT of client c is applied and its stage stays: its mark appears, disappears or stays.
LEMMA LockApplied ==
  ASSUME IInv, TypeOK', NEW c \in Client, NEW p \in Put, Wanted(c, p),
         gate = p.match, gate' = p.new, stage' = stage
  PROVE  [Lock!LockNext]_(Lock!lockVars)
<1>0. TypeOK /\ Handles' = Handles /\ c \in Holder \cup GC /\ c # NoOwner
  BY ClientAssumption DEF IInv, Handles, Client
<1>1. CASE IsBarrier(p)
  <2>1. gate'.owner = gate.owner /\ gate'.holders = gate.holders
    BY <1>1, Content
  <2>2. QED
    BY <1>0, <2>1, LockStutters
<1>2. CASE IsAdmit(c, p) /\ stage[c] \in {"admit", "refused"}
  <2>1. HandleOf(stage[c]) = "outside"
    BY <1>2 DEF HandleOf
  <2>2. /\ gate.owner = NoOwner /\ (c \in GC => gate.holders = {})
        /\ gate'.owner = IF c \in GC THEN c ELSE NoOwner
        /\ gate'.holders = IF c \in GC THEN {} ELSE gate.holders \cup {c}
    BY <1>2, Content DEF IsAdmit
  <2>3. Lock!Appear(c)
    BY <1>0, <2>1, <2>2 DEF Lock!Appear, Client
  <2>4. QED
    BY <1>0, <2>3 DEF Lock!LockNext, Handles
<1>3. CASE IsLeave(c, p) /\ stage[c] \in {"leave", "abandoned"}
  <2>1. HandleOf(stage[c]) = "leaving"
    BY <1>3 DEF HandleOf
  <2>2. /\ IF c \in GC THEN gate.owner = c ELSE c \in gate.holders
        /\ gate'.owner = IF c \in GC THEN NoOwner ELSE gate.owner
        /\ gate'.holders = IF c \in GC THEN gate.holders ELSE gate.holders \ {c}
    BY <1>3, Content DEF IsLeave, Marked
  <2>3. Lock!Disappear(c)
    BY <1>0, <2>1, <2>2 DEF Lock!Disappear, Client
  <2>4. QED
    BY <1>0, <2>3 DEF Lock!LockNext, Handles
<1>4. QED
  BY <1>1, <1>2, <1>3 DEF Wanted

\* A call that fails is not seen by an observer of the lock.
LEMMA LockFails ==
  ASSUME TypeOK, TypeOK', NEW c \in Client, stage[c] \in InCall, Fails(c), gate' = gate
  PROVE  [Lock!LockNext]_(Lock!lockVars)
<1>1. HandleOf(stage'[c]) = HandleOf(stage[c])
  BY FailsShape DEF HandleOf, InCall
<1>2. QED
  BY <1>1, FailsShape, LockStutters

\* The edit of client c is applied and answered: the handle is entered or left.
LEMMA LockAnswered ==
  ASSUME IInv, TypeOK', NEW c \in Client, NEW p \in call[c].sent, PutApplied(c, p), ~call[c].barrier
  PROVE  [Lock!LockNext]_(Lock!lockVars)
<1>1. /\ TypeOK /\ p \in Put /\ gate = p.match /\ gate' = p.new
      /\ stage[c] \in {"admit", "leave"}
      /\ c \in Holder \cup GC /\ c # NoOwner
  BY ClientAssumption DEF IInv, TypeOK, Frame, SentByStage, PutApplied, Client
<1>2. /\ stage' \in [Client -> Stage]
      /\ \A d \in Client \ {c} : stage'[d] = stage[d]
      /\ stage'[c] = IF stage[c] = "admit" THEN "in" ELSE "out"
  BY <1>1, ReturnsShape DEF PutApplied, InCall
<1>3. Handles' = [Handles EXCEPT ![c] = HandleOf(stage'[c])]
  BY <1>1, <1>2, StageHandles DEF TypeOK
<1>4. CASE stage[c] = "admit"
  <2>1. HandleOf(stage[c]) = "outside" /\ HandleOf(stage'[c]) = "inside"
    BY <1>2, <1>4 DEF HandleOf
  <2>2. IsAdmit(c, p)
    BY <1>4 DEF IInv, SentByStage
  <2>3. /\ gate.owner = NoOwner /\ (c \in GC => gate.holders = {})
        /\ gate'.owner = IF c \in GC THEN c ELSE NoOwner
        /\ gate'.holders = IF c \in GC THEN {} ELSE gate.holders \cup {c}
    BY <1>1, <2>2, Content DEF IsAdmit
  <2>4. Lock!Enter(c)
    BY <1>1, <1>3, <2>1, <2>3 DEF Lock!Enter, Lock!Appear, Handles, Client
  <2>5. QED
    BY <1>1, <2>4 DEF Lock!LockNext
<1>5. CASE stage[c] = "leave"
  <2>1. HandleOf(stage[c]) = "leaving" /\ HandleOf(stage'[c]) = "gone"
    BY <1>2, <1>5 DEF HandleOf
  <2>2. IsLeave(c, p)
    BY <1>5 DEF IInv, SentByStage
  <2>3. /\ IF c \in GC THEN gate.owner = c ELSE c \in gate.holders
        /\ gate'.owner = IF c \in GC THEN NoOwner ELSE gate.owner
        /\ gate'.holders = IF c \in GC THEN gate.holders ELSE gate.holders \ {c}
    BY <1>1, <2>2, Content DEF IsLeave, Marked
  <2>4. Lock!Leave(c)
    BY <1>1, <1>3, <2>1, <2>3 DEF Lock!Leave, Lock!Disappear, Handles, Client
  <2>5. QED
    BY <1>1, <2>4 DEF Lock!LockNext
<1>6. QED
  BY <1>1, <1>4, <1>5

\* The call finds nothing to do: the handle is entered or left, and the gate stays.
LEMMA LockFound ==
  ASSUME IInv, TypeOK', NEW c \in Client, stage[c] \in InCall,
         AlreadyDone(c, stage[c], gate), Returns(c), gate' = gate
  PROVE  [Lock!LockNext]_(Lock!lockVars)
<1>1. TypeOK /\ c \in Holder \cup GC /\ c # NoOwner
  BY ClientAssumption DEF IInv, Client
<1>2. /\ stage' \in [Client -> Stage]
      /\ \A d \in Client \ {c} : stage'[d] = stage[d]
      /\ stage'[c] = IF stage[c] = "life" THEN "admit" ELSE IF stage[c] = "admit" THEN "in" ELSE "out"
  BY <1>1, ReturnsShape
<1>3. Handles' = [Handles EXCEPT ![c] = HandleOf(stage'[c])]
  BY <1>1, <1>2, StageHandles DEF TypeOK
<1>4. CASE stage[c] = "life"
  <2>1. HandleOf(stage[c]) = HandleOf(stage'[c])
    BY <1>2, <1>4 DEF HandleOf
  <2>2. QED
    BY <1>1, <1>2, <2>1, LockStutters
<1>5. CASE stage[c] = "admit"
  <2>1. HandleOf(stage[c]) = "outside" /\ HandleOf(stage'[c]) = "inside"
    BY <1>2, <1>5 DEF HandleOf
  <2>2. Lock!Present(c)
    BY <1>5 DEF AlreadyDone, Token, Lock!Present
  <2>3. Lock!Enter(c)
    BY <1>3, <2>1, <2>2 DEF Lock!Enter, Handles, Client
  <2>4. QED
    BY <1>1, <2>3 DEF Lock!LockNext
<1>6. CASE stage[c] = "leave"
  <2>1. HandleOf(stage[c]) = "leaving" /\ HandleOf(stage'[c]) = "gone"
    BY <1>2, <1>6 DEF HandleOf
  <2>2. ~Lock!Present(c)
    <3>1. CASE c \in GC
      BY <1>1, <1>6, <3>1, ClientAssumption DEF AlreadyDone, Lock!Present, TypeOK, GateContent
    <3>2. CASE c \notin GC
      BY <1>1, <1>6, <3>2, ClientAssumption DEF AlreadyDone, Token, Lock!Present, TypeOK, GateContent
    <3>3. QED
      BY <3>1, <3>2
  <2>3. Lock!Leave(c)
    BY <1>3, <2>1, <2>2 DEF Lock!Leave, Handles, Client
  <2>4. QED
    BY <1>1, <2>3 DEF Lock!LockNext
<1>7. QED
  BY <1>4, <1>5, <1>6 DEF InCall

LEMMA LockClose ==
  ASSUME IInv, TypeOK', NEW c \in Client, Close(c)
  PROVE  [Lock!LockNext]_(Lock!lockVars)
<1>1. /\ TypeOK /\ stage \in [Client -> Stage] /\ stage' \in [Client -> Stage] /\ gate' = gate
      /\ \A d \in Client \ {c} : stage'[d] = stage[d]
      /\ stage[c] = "in" /\ stage'[c] \in {"stuck", "leave"}
  BY DEF IInv, TypeOK, Close
<1>2. CASE stage'[c] = "stuck"
  BY <1>1, <1>2, LockStutters DEF HandleOf
<1>3. CASE stage'[c] = "leave"
  <2>1. HandleOf(stage[c]) = "inside" /\ HandleOf(stage'[c]) = "leaving"
    BY <1>1, <1>3 DEF HandleOf
  <2>2. Handles' = [Handles EXCEPT ![c] = "leaving"]
    BY <1>1, <2>1, StageHandles
  <2>3. Lock!StartLeaving(c)
    BY <1>1, <2>1, <2>2 DEF Lock!StartLeaving, Handles, Client
  <2>4. QED
    BY <2>3 DEF Lock!LockNext, Client
<1>4. QED
  BY <1>1, <1>2, <1>3

LEMMA LockStep == IInv /\ IInv' /\ [Next]_vars => [Lock!LockNext]_(Lock!lockVars)
<1> SUFFICES ASSUME IInv, IInv', [Next]_vars PROVE [Lock!LockNext]_(Lock!lockVars)
  OBVIOUS
<1>0. TypeOK /\ TypeOK'
  BY DEF IInv
<1>1. ASSUME NEW c \in Client, Ask(c) PROVE [Lock!LockNext]_(Lock!lockVars)
  <2>1. /\ gate' = gate /\ \A d \in Client \ {c} : stage'[d] = stage[d]
        /\ stage[c] = "idle" /\ stage'[c] \in {"life", "admit"}
    BY <1>0, <1>1 DEF Ask, TypeOK
  <2>2. QED
    BY <1>0, <2>1, LockStutters DEF HandleOf
<1>2. ASSUME NEW c \in Client, LatchUncertain(c) PROVE [Lock!LockNext]_(Lock!lockVars)
  BY <1>0, <1>2, LockStutters DEF LatchUncertain
<1>3. ASSUME NEW c \in Client, Crash(c) PROVE [Lock!LockNext]_(Lock!lockVars)
  <2>1. CASE stage[c] = "in"
    <3>1. gate' = gate /\ stage'[c] = "stuck" /\ \A d \in Client \ {c} : stage'[d] = stage[d]
      BY <1>0, <1>3, <2>1 DEF Crash, TypeOK
    <3>2. QED
      BY <1>0, <2>1, <3>1, LockStutters DEF HandleOf
  <2>2. CASE stage[c] # "in"
    BY <1>0, <1>3, <2>2, LockFails DEF Crash
  <2>3. QED
    BY <2>1, <2>2
<1>4. ASSUME NEW c \in Client, Read(c) PROVE [Lock!LockNext]_(Lock!lockVars)
  <2>1. stage[c] \in InCall /\ gate' = gate
    BY <1>4 DEF Read, Reading
  <2>2. CASE AlreadyDone(c, stage[c], gate) /\ Returns(c)
    BY <1>0, <2>1, <2>2, LockFound
  <2>3. CASE Fails(c)
    BY <1>0, <2>1, <2>3, LockFails
  <2>4. CASE stage' = stage
    BY <1>0, <2>1, <2>4, LockStutters
  <2>5. QED
    BY <1>4, <2>2, <2>3, <2>4 DEF Read
<1>5. ASSUME NEW c \in Client, NEW p \in call[c].sent, PutApplied(c, p) PROVE [Lock!LockNext]_(Lock!lockVars)
  <2>1. CASE call[c].barrier
    <3>1. p \in Put /\ Wanted(c, p) /\ gate = p.match /\ gate' = p.new /\ stage' = stage
      BY <1>0, <1>5, <2>1 DEF IInv, TypeOK, Frame, PutsSound, PutApplied, NextRound
    <3>2. QED
      BY <1>0, <3>1, LockApplied
  <2>2. CASE ~call[c].barrier
    BY <1>0, <1>5, <2>2, LockAnswered
  <2>3. QED
    BY <2>1, <2>2
<1>6. ASSUME NEW c \in Client, NEW p \in call[c].sent, PutAmbiguous(c, p) PROVE [Lock!LockNext]_(Lock!lockVars)
  <2>1. p \in Put /\ Wanted(c, p) /\ stage' = stage
    BY <1>0, <1>6 DEF IInv, TypeOK, Frame, PutsSound, PutAmbiguous, NextRound
  <2>2. CASE gate = p.match /\ gate' = p.new
    BY <1>0, <2>1, <2>2, LockApplied
  <2>3. CASE gate' = gate
    BY <1>0, <2>1, <2>3, LockStutters
  <2>4. QED
    BY <1>6, <2>2, <2>3 DEF PutAmbiguous
<1>7. ASSUME NEW r \in late, LateArrives(r) PROVE [Lock!LockNext]_(Lock!lockVars)
  <2>1. r.by \in Client /\ r.put \in Put /\ Wanted(r.by, r.put) /\ stage' = stage
    BY <1>0, <1>7 DEF IInv, TypeOK, PutsSound, LateArrives
  <2>2. CASE gate = r.put.match
    BY <1>0, <1>7, <2>1, <2>2, LockApplied DEF LateArrives
  <2>3. CASE gate # r.put.match
    BY <1>0, <1>7, <2>1, <2>3, LockStutters DEF LateArrives
  <2>4. QED
    BY <2>2, <2>3
<1>8. ASSUME NEW c \in Client, NEW p \in call[c].sent, PutRejected(c, p) \/ PutFails(c, p)
      PROVE  [Lock!LockNext]_(Lock!lockVars)
  BY <1>0, <1>8, LockFails, LockStutters DEF PutRejected, PutFails, NextRound, Putting
<1>9. ASSUME NEW c \in Client, ReadFails(c) PROVE [Lock!LockNext]_(Lock!lockVars)
  BY <1>0, <1>9, LockFails DEF ReadFails, Reading
<1>10. CASE UNCHANGED vars
  BY <1>10 DEF vars, Lock!lockVars
<1>11. QED
  BY <1>0, <1>1, <1>2, <1>3, <1>4, <1>5, <1>6, <1>7, <1>8, <1>9, <1>10, LockClose DEF Next

LEMMA LockInitially == Init => Lock!LockInit
BY SMTT(30) DEF Init, Lock!LockInit, HandleOf, Client

\* The conditional-PUT protocol over gate.json implements the atomic admission lock,
\* for any number of backups, readers, lifetimes and collections.
THEOREM GateImplementsLock == Spec => ImplementsLock
BY InitInv, NextInv, LockInitially, LockStep, PTL DEF Spec, ImplementsLock, Lock!LockSpec
=============================================================================
