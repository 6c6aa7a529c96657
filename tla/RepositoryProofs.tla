-------------------------- MODULE RepositoryProofs --------------------------
(***************************************************************************)
(* Publication, restore reads and garbage collection keep the repository   *)
(* whole for any set of backups, callbacks, readers and collectors.        *)
(*                                                                         *)
(* A mutation that is applied, at once or late, either grows the bucket    *)
(* under the hold of a producer (Grow) or shrinks it under the ownership   *)
(* of a collector (Shrink).  The gate keeps the two apart, and a client    *)
(* whose last mutation is in doubt never gives up its handle, so that what *)
(* a producer has checked stays true until its commit arrives, and what a  *)
(* collector has inventoried only shrinks until its victims are gone.      *)
(***************************************************************************)
EXTENDS Repository, TLAPS

\* Most leaves are first-order reasoning; those with arithmetic or records cite SMT.
USE ZenonT(30)

Stages == {"choose", "request", "reread", "replay", "root", "claim", "start", "finish", "verify", "commit",
           "winner", "select", "read", "inventory", "decide", "persist", "destroy", "leave"}

StoreType == [request : [Backup -> Full \cup {None}],
              commit : [Backup -> Producer \cup {None}],
              retired : SUBSET Backup,
              claims : SUBSET Producer,
              objects : SUBSET (Producer \X Nat),
              uploads : SUBSET (Producer \X Nat),
              wal : SUBSET Segment]

Cleanup == {"delete", "abort"} \X Producer \X Nat

VictimsType == [expire : SUBSET Backup, clean : SUBSET Cleanup, wal : SUBSET Segment]

RepTypeOK ==
  /\ handle \in [Client -> {"outside", "inside", "leaving", "gone"}]
  /\ store \in StoreType
  /\ stage \in [Client -> Stages]
  /\ pick \in [Producer \cup Reader -> Backup \cup {None}]
  /\ sent \in [Producer -> Nat]
  /\ result \in [Producer -> Producer \cup {None}]
  /\ catalog \in [Collector -> SUBSET Backup]
  /\ plan \in [Collector -> VictimsType]

\* A handle has its token, and the token of a collector excludes the others.
LockSound ==
  /\ owner \in Collector \cup {None} /\ holders \subseteq Producer \cup Reader
  /\ owner # None => holders = {}
  /\ \A c \in Client : handle[c] = "inside" => Present(c)
  /\ \A c \in Client : handle[c] = "outside" => stage[c] \in {"choose", "select", "inventory"}

\* The bucket: what a commit is, and where WAL is gone.
WinnersSound ==
  \A b \in Backup : Committed(b) =>
    LET p == store.commit[b] IN
    BackupOf[p] = b /\ pick[p] \in Full /\ stage[p] \in {"winner", "leave"}

Gone(w) == \E b \in Backup : Committed(b) /\ w < StartOf[store.commit[b]]

FloorSound == \A w \in Segment \ store.wal : Gone(w)

\* The WAL that the backup of p needs is there.
Started(p) == \A w \in Segment \ store.wal : w < StartOf[p]

\* Nothing is missing for the commit of p.
Ready(p) ==
  /\ pick[p] \in Full /\ store.request[BackupOf[p]] = pick[p]
  /\ p \in store.claims /\ Complete(p) /\ ParentVerified(p) /\ Started(p)

AfterClaim == {"start", "finish", "verify", "commit"}
AfterRequest == {"replay", "root", "claim"} \cup AfterClaim

ProducerSound(p) ==
  /\ stage[p] \notin {"select", "inventory"}
  /\ stage[p] = "choose" => pick[p] = None
  /\ stage[p] \notin {"choose", "leave"} => pick[p] \in Full
  /\ stage[p] \in AfterRequest => store.request[BackupOf[p]] = pick[p]
  /\ stage[p] \in AfterClaim => p \in store.claims
  /\ handle[p] = "inside" /\ stage[p] \notin {"choose", "winner", "leave"} => Started(p)
  /\ handle[p] = "inside" /\ stage[p] = "commit" => Complete(p) /\ ParentVerified(p)
  /\ result[p] # None => store.commit[BackupOf[p]] = result[p]

ReaderSound(r) ==
  handle[r] = "inside" /\ stage[r] = "read" => pick[r] \in Backup /\ Verified(pick[r])

\* A victim that no live backup needs.
Harmless(m) ==
  \/ \E b \in Backup : m = <<"retire", b>> /\ \A d \in Differential : Live(d) => RootOf(d) # b
  \/ m \in Cleanup /\ ~LiveWinner(m[2])
  \/ \E w \in Segment : /\ m = <<"wal", w>> /\ Gone(w)
                        /\ \A b \in Backup : Live(b) => w < StartOf[store.commit[b]]

CollectorSound(g) ==
  /\ handle[g] = "inside" /\ stage[g] \in {"decide", "persist", "destroy"} =>
       /\ \A b \in Backup : Live(b) => b \in catalog[g]
       /\ \A b \in catalog[g] : Committed(b)
  /\ handle[g] = "inside" /\ stage[g] \in {"persist", "destroy"} =>
       /\ \A x \in plan[g].clean : ~LiveWinner(x[2])
       /\ \A w \in plan[g].wal :
            /\ Gone(w)
            /\ \A b \in Backup : Live(b) => b \in plan[g].expire \/ w < StartOf[store.commit[b]]
  /\ handle[g] = "inside" /\ stage[g] = "destroy" =>
       \A d \in Differential : Live(d) /\ RootOf(d) \in plan[g].expire => d \in plan[g].expire

\* What a client may have sent.
SentBy(c, m) ==
  \/ /\ c \in Producer /\ stage[c] # "choose" /\ pick[c] \in Full
     /\ \/ m \in {<<"request", c>>, <<"claim", c>>}
        \/ m \in {"start", "finish"} \X {c} \X Nat
        \/ m = <<"commit", c>> /\ Ready(c) /\ stage[c] \in {"winner", "leave"}
  \/ c \in Collector /\ (m = <<"plan", c>> \/ Harmless(m))

LateSound ==
  \A r \in late : /\ r.by \in Client /\ handle[r.by] = "inside" /\ r.by \in uncertain
                  /\ SentBy(r.by, r.what)

RepInv ==
  /\ RepTypeOK /\ LockSound
  /\ WinnersSound /\ FloorSound /\ LiveBackupIntact /\ WalKept
  /\ \A p \in Producer : ProducerSound(p)
  /\ \A r \in Reader : ReaderSound(r)
  /\ \A g \in Collector : CollectorSound(g)
  /\ LateSound
-----------------------------------------------------------------------------
(* What a mutation does to the bucket *)

\* Under the hold of p: nothing goes, and what comes is ready.
Grow(p) ==
  /\ store' \in StoreType
  /\ store'.retired = store.retired /\ store'.wal = store.wal
  /\ store.claims \subseteq store'.claims /\ store.objects \subseteq store'.objects
  /\ \A b \in Backup : store.request[b] # None => store'.request[b] = store.request[b]
  /\ \A b \in Backup : \/ store'.commit[b] = store.commit[b]
                       \/ /\ store.commit[b] = None /\ store'.commit[b] = p
                          /\ b = BackupOf[p] /\ Ready(p)

\* Under the ownership of a collector: nothing comes, and what goes is harmless.
Shrink ==
  /\ store' \in StoreType
  /\ store'.request = store.request /\ store'.commit = store.commit /\ store'.claims = store.claims
  /\ store.retired \subseteq store'.retired
  /\ store'.objects \subseteq store.objects /\ store'.wal \subseteq store.wal
  /\ \A b \in store'.retired \ store.retired : \A d \in Differential : Live(d) => RootOf(d) # b
  /\ \A o \in store.objects \ store'.objects : ~LiveWinner(o[1])
  /\ \A w \in store.wal \ store'.wal :
       Gone(w) /\ \A b \in Backup : Live(b) => w < StartOf[store.commit[b]]

LEMMA SameGrows ==
  ASSUME RepTypeOK, store' = store, NEW p
  PROVE  Grow(p) /\ Shrink
BY DEF RepTypeOK, Grow, Shrink

LEMMA ProducerGrows ==
  ASSUME RepInv, NEW p \in Producer, NEW m, SentBy(p, m) \/ (m = <<"commit", p>> /\ Ready(p)), pick[p] \in Full,
         Accepts(m), store' = Effect(m)
  PROVE  Grow(p) /\ (m # <<"commit", p>> => store'.commit = store.commit)
<1> USE DEF RepInv, RepTypeOK
<1>0. BackupOf[p] \in Backup /\ p \notin Collector
  BY ProducerAssumption, DistinctAssumption
<1>1. CASE m = <<"request", p>>
  <2>1. store' = [store EXCEPT !.request[BackupOf[p]] = pick[p]] /\ store.request[BackupOf[p]] = None
    BY <1>1 DEF Effect, Accepts
  <2> DEFINE q == [store.request EXCEPT ![BackupOf[p]] = pick[p]]
  <2>2. /\ q \in [Backup -> Full \cup {None}]
        /\ \A b \in Backup : store.request[b] # None => q[b] = store.request[b]
    BY <1>0, <2>1 DEF StoreType
  <2>3. store' = [store EXCEPT !.request = q]
    BY <2>1 DEF StoreType
  <2> HIDE DEF q
  <2> QED  BY <2>2, <2>3 DEF Grow, StoreType
<1>2. CASE m = <<"claim", p>>
  <2>1. store' = [store EXCEPT !.claims = @ \cup {p}]
    BY <1>2 DEF Effect
  <2> QED  BY SMTT(30), <1>0, <2>1 DEF Grow, StoreType
<1>3. CASE m = <<"commit", p>> /\ Ready(p)
  <2>1. store' = [store EXCEPT !.commit[BackupOf[p]] = p] /\ store.commit[BackupOf[p]] = None
    BY <1>3 DEF Effect, Accepts
  <2> QED  BY SMTT(30), <1>0, <1>3, <2>1 DEF Grow, StoreType
<1>4. ASSUME NEW i \in Nat, m = <<"start", p, i>>  PROVE Grow(p) /\ store'.commit = store.commit
  <2>1. store' = [store EXCEPT !.uploads = @ \cup {<<p, i>>}]
    BY <1>4 DEF Effect
  <2> QED  BY SMTT(30), <2>1 DEF Grow, StoreType
<1>5. ASSUME NEW i \in Nat, m = <<"finish", p, i>>  PROVE Grow(p) /\ store'.commit = store.commit
  <2> DEFINE u == store.uploads \ {<<p, i>>}
             o == store.objects \cup {<<p, i>>}
  <2>1. store' = [store EXCEPT !.uploads = u, !.objects = o]
    BY <1>5 DEF Effect
  <2>2. u \in SUBSET (Producer \X Nat) /\ o \in SUBSET (Producer \X Nat) /\ store.objects \subseteq o
    BY SMTT(30) DEF StoreType
  <2> HIDE DEF u, o
  <2>3. store' \in StoreType
    BY <2>1, <2>2 DEF StoreType
  <2> QED  BY <2>1, <2>2, <2>3 DEF Grow, StoreType
<1> QED  BY SMTT(30), <1>0, <1>1, <1>2, <1>3, <1>4, <1>5 DEF SentBy

LEMMA CollectorShrinks ==
  ASSUME RepInv, NEW g \in Collector, NEW m, m = <<"plan", g>> \/ Harmless(m),
         Accepts(m), store' = Effect(m)
  PROVE  Shrink
<1> USE DEF RepInv, RepTypeOK
<1>1. CASE m = <<"plan", g>>
  <2>1. store' = store
    BY <1>1 DEF Effect
  <2> QED  BY <2>1, SameGrows
<1>2. ASSUME NEW b \in Backup, m = <<"retire", b>>, \A d \in Differential : Live(d) => RootOf(d) # b
      PROVE  Shrink
  <2>1. store' = [store EXCEPT !.retired = @ \cup {b}]
    BY <1>2 DEF Effect
  <2> QED  BY SMTT(30), <1>2, <2>1 DEF Shrink, StoreType
<1>3. ASSUME NEW p \in Producer, NEW i \in Nat, m = <<"delete", p, i>>, ~LiveWinner(p)  PROVE Shrink
  <2>1. store' = [store EXCEPT !.objects = @ \ {<<p, i>>}]
    BY <1>3 DEF Effect
  <2> QED  BY SMTT(30), <1>3, <2>1 DEF Shrink, StoreType
<1>4. ASSUME NEW p \in Producer, NEW i \in Nat, m = <<"abort", p, i>>  PROVE Shrink
  <2>1. store' = [store EXCEPT !.uploads = @ \ {<<p, i>>}]
    BY <1>4 DEF Effect
  <2> QED  BY SMTT(30), <1>4, <2>1 DEF Shrink, StoreType
<1>5. ASSUME NEW w \in Segment, m = <<"wal", w>>, Gone(w),
             \A b \in Backup : Live(b) => w < StartOf[store.commit[b]]
      PROVE  Shrink
  <2>1. store' = [store EXCEPT !.wal = @ \ {w}]
    BY <1>5 DEF Effect
  <2> QED  BY <1>5, <2>1 DEF Shrink, StoreType
<1> QED  BY SMTT(30), <1>1, <1>2, <1>3, <1>4, <1>5 DEF Harmless, Cleanup
-----------------------------------------------------------------------------
(* What stays true *)

\* A collector that is inside is alone.
LEMMA Alone ==
  ASSUME RepInv, NEW g \in Collector, handle[g] = "inside", NEW c \in Client, handle[c] = "inside"
  PROVE  c = g
BY DistinctAssumption DEF RepInv, LockSound, Present, Client

\* A root is fixed once it is chosen.
PicksKept == \A p \in Producer : stage[p] # "choose" => pick'[p] = pick[p]

LEMMA GrowKeeps ==
  ASSUME RepInv, NEW p \in Producer, Grow(p), PicksKept
  PROVE  /\ \A q \in Producer : Complete(q) => Complete(q)'
         /\ \A b \in Backup : Committed(b) => store'.commit[b] = store.commit[b] /\ RootOf(b)' = RootOf(b)
         /\ \A b \in Backup : FullVerified(b) => FullVerified(b)'
         /\ \A b \in Backup : Verified(b) => Verified(b)'
<1> USE DEF RepInv
<1>1. \A q \in Producer : Complete(q) => Complete(q)'
  BY DEF Complete, Grow
<1>2. ASSUME NEW b \in Backup, Committed(b)
      PROVE  store'.commit[b] = store.commit[b] /\ RootOf(b)' = RootOf(b) /\ store.commit[b] \in Producer
             /\ RootOf(b) \in Full
  BY SMTT(30), <1>2 DEF Grow, Committed, RootOf, WinnersSound, PicksKept, RepTypeOK, StoreType
<1>3. ASSUME NEW b \in Backup, FullVerified(b)  PROVE FullVerified(b)'
  <2>1. Committed(b) /\ store.request[b] # None
    BY <1>3, DistinctAssumption DEF FullVerified, Live
  <2> QED  BY <1>1, <1>2, <1>3, <2>1 DEF FullVerified, Live, Committed, Grow
<1>4. ASSUME NEW b \in Backup, Verified(b)  PROVE Verified(b)'
  <2>1. Committed(b) /\ store.request[b] # None /\ RootOf(b) \in Backup
    BY <1>2, <1>4, DistinctAssumption DEF Verified, Live, Backup
  <2> QED  BY <1>1, <1>2, <1>3, <1>4, <2>1 DEF Verified, Live, Committed, Grow
<1> QED  BY <1>1, <1>2, <1>3, <1>4

LEMMA GrowStore ==
  ASSUME RepInv, NEW p \in Producer, Grow(p), PicksKept,
         \A q \in Producer : stage[q] \in {"winner", "leave"} => stage'[q] \in {"winner", "leave"},
         store'.commit[BackupOf[p]] = p => stage'[p] \in {"winner", "leave"}
  PROVE  (WinnersSound /\ FloorSound /\ LiveBackupIntact /\ WalKept)'
<1> USE DEF RepInv
<1>0. BackupOf[p] \in Backup /\ None \notin Producer /\ (Ready(p) => stage[p] # "choose")
  BY ProducerAssumption, DistinctAssumption DEF Client, Backup, ProducerSound, Ready
<1>1. WinnersSound'
  <2> SUFFICES ASSUME NEW b \in Backup, Committed(b)'
               PROVE  /\ BackupOf[store'.commit[b]] = b /\ pick'[store'.commit[b]] \in Full
                      /\ stage'[store'.commit[b]] \in {"winner", "leave"}
    BY DEF WinnersSound
  <2>1. CASE store'.commit[b] = store.commit[b]
    <3> DEFINE q == store.commit[b]
    <3>1. q # None /\ q \in Producer
      BY SMTT(30), <2>1 DEF Committed, RepTypeOK, StoreType
    <3>2. BackupOf[q] = b /\ pick[q] \in Full /\ stage[q] \in {"winner", "leave"}
      BY <3>1 DEF WinnersSound, Committed
    <3>3. pick'[q] = pick[q] /\ stage'[q] \in {"winner", "leave"}
      BY <3>1, <3>2 DEF PicksKept
    <3> QED  BY <2>1, <3>2, <3>3
  <2>2. CASE store'.commit[b] = p /\ b = BackupOf[p] /\ Ready(p)
    BY <1>0, <2>2 DEF Ready, PicksKept
  <2> QED  BY <2>1, <2>2 DEF Grow
<1>2. FloorSound'
  BY GrowKeeps, <1>0 DEF FloorSound, Gone, Committed, Grow
<1>3. ASSUME NEW b \in Backup, Live(b)'  PROVE Verified(b)'
  <2>1. CASE Committed(b)
    <3>1. Live(b)
      BY <1>3, <2>1 DEF Live, Grow
    <3> QED  BY <3>1, GrowKeeps DEF LiveBackupIntact
  <2>2. CASE ~Committed(b)
    <3>1. store'.commit[b] = p /\ b = BackupOf[p] /\ Ready(p) /\ pick'[p] = pick[p]
      BY <1>0, <1>3, <2>2 DEF Live, Committed, Grow, PicksKept
    <3>2. store'.request[b] = pick[p] /\ p \in store'.claims /\ Complete(p)'
      BY <3>1, GrowKeeps, DistinctAssumption DEF Ready, Grow, Backup
    <3>3. b \in Differential => FullVerified(pick[p])'
      BY <3>1, GrowKeeps, DistinctAssumption DEF Ready, ParentVerified, Backup
    <3> QED  BY <1>3, <3>1, <3>2, <3>3 DEF Verified, RootOf
  <2> QED  BY <2>1, <2>2
<1>4. ASSUME NEW b \in Backup, Live(b)', NEW w \in Segment, w >= StartOf[store'.commit[b]]
      PROVE  w \in store'.wal
  <2>1. CASE Committed(b)
    <3>1. Live(b) /\ store'.commit[b] = store.commit[b]
      BY <1>4, <2>1, GrowKeeps DEF Live, Grow
    <3> QED  BY <1>4, <3>1 DEF WalKept, Grow
  <2>2. CASE ~Committed(b)
    <3>1. store'.commit[b] = p /\ Ready(p)
      BY <1>4, <2>2 DEF Live, Committed, Grow
    <3> QED  BY SMTT(30), <1>4, <3>1, StartAssumption, SizesAssumption DEF Ready, Started, Grow
  <2> QED  BY <2>1, <2>2
<1> QED  BY <1>1, <1>2, <1>3, <1>4 DEF LiveBackupIntact, WalKept

\* A step of producer p under its hold, as the other clients see it.
HoldStep(p) ==
  /\ handle[p] = "inside" /\ Grow(p)
  /\ UNCHANGED <<lock, catalog, plan>>
  /\ \A c \in Client \ {p} : stage'[c] = stage[c]
  /\ \A c \in (Producer \cup Reader) \ {p} : pick'[c] = pick[c]
  /\ stage[p] # "choose" => pick'[p] = pick[p] /\ stage'[p] # "choose"
  /\ stage[p] \in {"winner", "leave"} => stage'[p] \in {"winner", "leave"}
  /\ store'.commit[BackupOf[p]] = p => stage'[p] \in {"winner", "leave"}
  /\ \A q \in Producer \ {p} : result'[q] = result[q]
  /\ uncertain \subseteq uncertain'
  /\ \A r \in late' : r \in late \/ (r.by = p /\ p \in uncertain' /\ SentBy(p, r.what)')

LEMMA GrowKept ==
  ASSUME RepInv, NEW p \in Producer, HoldStep(p), RepTypeOK', ProducerSound(p)'
  PROVE  RepInv'
<1> USE DEF RepInv, HoldStep, lock
<1>0. /\ Producer \subseteq Client /\ Reader \subseteq Client /\ Collector \subseteq Client
      /\ \A c \in Reader \cup Collector : c \notin Producer
      /\ \A q \in Producer : BackupOf[q] \in Backup
      /\ None \notin Producer /\ None \notin Full
  BY ProducerAssumption, DistinctAssumption DEF Client, Backup
<1>1. PicksKept
  BY DEF PicksKept
<1>2. LockSound'
  BY <1>0 DEF LockSound, Present
<1>3. (WinnersSound /\ FloorSound /\ LiveBackupIntact /\ WalKept)'
  BY <1>0, <1>1, GrowStore
<1>4. /\ \A q \in Producer : Complete(q) => Complete(q)'
      /\ \A b \in Backup : Committed(b) => store'.commit[b] = store.commit[b]
      /\ \A b \in Backup : FullVerified(b) => FullVerified(b)'
      /\ \A b \in Backup : Verified(b) => Verified(b)'
  BY <1>1, GrowKeeps
<1>5. ASSUME NEW q \in Producer, pick'[q] = pick[q], pick[q] \in Full
      PROVE  /\ store.request[BackupOf[q]] = pick[q] => store'.request[BackupOf[q]] = pick[q]
             /\ ParentVerified(q) => ParentVerified(q)'
             /\ Started(q) => Started(q)'
             /\ Ready(q) => Ready(q)'
  BY <1>0, <1>4, <1>5 DEF Grow, ParentVerified, Started, Ready, Backup
<1>6. ASSUME NEW q \in Producer \ {p}  PROVE ProducerSound(q)'
  <2>1. /\ pick'[q] = pick[q] /\ stage'[q] = stage[q] /\ handle'[q] = handle[q] /\ result'[q] = result[q]
        /\ ProducerSound(q) /\ (Complete(q) => Complete(q)')
        /\ (q \in store.claims => q \in store'.claims) /\ (Started(q) => Started(q)')
    BY <1>0, <1>4 DEF Grow, Started
  <2>2. result[q] # None => store'.commit[BackupOf[q]] = result[q]
    BY <1>0, <1>4, <2>1 DEF ProducerSound, Committed
  <2>3. pick[q] \in Full \/ stage[q] \in {"choose", "leave"}
    BY <2>1 DEF ProducerSound
  <2> QED  BY <1>5, <2>1, <2>2, <2>3 DEF ProducerSound, AfterRequest, AfterClaim
<1>7. ASSUME NEW r \in Reader  PROVE ReaderSound(r)'
  BY <1>0, <1>4 DEF ReaderSound
<1>8. ASSUME NEW g \in Collector  PROVE CollectorSound(g)'
  BY <1>0, Alone DEF CollectorSound
<1>9. ASSUME NEW r \in late, r.by \in Client, r \in late'
      PROVE  handle'[r.by] = "inside" /\ r.by \in uncertain' /\ SentBy(r.by, r.what)'
  <2>1. handle[r.by] = "inside" /\ r.by \in uncertain /\ SentBy(r.by, r.what)
    BY DEF LateSound
  <2>2. r.by \in Producer
    BY <1>0, <2>1, Alone DEF SentBy
  <2>3. stage[r.by] # "choose" /\ pick[r.by] \in Full /\ pick'[r.by] = pick[r.by]
        /\ stage'[r.by] # "choose"
        /\ (stage[r.by] \in {"winner", "leave"} => stage'[r.by] \in {"winner", "leave"})
    BY <1>0, <2>1, <2>2 DEF SentBy
  <2>4. Ready(r.by) => Ready(r.by)'
    BY <1>5, <2>2, <2>3
  <2> QED  BY <1>0, <2>1, <2>2, <2>3, <2>4 DEF SentBy
<1>10. LateSound'
  BY <1>0, <1>9 DEF LateSound
<1> QED  BY <1>2, <1>3, <1>6, <1>7, <1>8, <1>10

LEMMA ShrinkKeeps ==
  ASSUME RepInv, Shrink, \A p \in Producer : pick'[p] = pick[p]
  PROVE  /\ \A b \in Backup : Committed(b)' <=> Committed(b)
         /\ \A b \in Backup : Live(b)' => Live(b)
         /\ \A b \in Backup : Committed(b) => RootOf(b)' = RootOf(b)
         /\ \A p \in Producer : LiveWinner(p)' => LiveWinner(p)
         /\ \A w \in Segment : Gone(w) => Gone(w)'
         /\ \A b \in Backup : Live(b)' => Verified(b)'
<1> USE DEF RepInv
<1>1. \A b \in Backup : (Committed(b)' <=> Committed(b)) /\ (Live(b)' => Live(b))
  BY DEF Shrink, Committed, Live
<1>2. \A b \in Backup : Committed(b) => RootOf(b)' = RootOf(b) /\ store.commit[b] \in Producer /\ RootOf(b) \in Full
  BY SMTT(30) DEF Shrink, Committed, RootOf, RepTypeOK, StoreType, WinnersSound
<1>3. \A p \in Producer : LiveWinner(p)' => LiveWinner(p)
  BY DEF Shrink, LiveWinner
<1>4. \A w \in Segment : Gone(w) => Gone(w)'
  BY <1>1 DEF Shrink, Gone
<1>5. ASSUME NEW b \in Backup, Live(b)'  PROVE Complete(store.commit[b])'
  <2>1. Live(b) /\ LiveWinner(store.commit[b]) /\ Complete(store.commit[b]) /\ store'.commit[b] = store.commit[b]
    BY <1>1, <1>2, <1>5 DEF Live, LiveWinner, WinnersSound, LiveBackupIntact, Verified, Shrink
  <2> QED  BY SMTT(30), <2>1 DEF Complete, Shrink
<1>6. ASSUME NEW b \in Backup, Live(b)'  PROVE Verified(b)'
  <2>1. Live(b) /\ Verified(b) /\ RootOf(b)' = RootOf(b) /\ RootOf(b) \in Full /\ store'.commit[b] = store.commit[b]
    BY <1>1, <1>2, <1>6 DEF LiveBackupIntact, Live, Shrink
  <2>2. ASSUME b \in Differential  PROVE FullVerified(RootOf(b))'
    <3>1. FullVerified(RootOf(b)) /\ RootOf(b) \in Backup
      BY <2>1, <2>2 DEF Verified, Backup
    <3>2. Live(RootOf(b))'
      BY <2>1, <2>2, <3>1 DEF FullVerified, Live, Committed, Shrink
    <3>3. Complete(store.commit[RootOf(b)])'
      BY <1>5, <2>1, <3>1, <3>2
    <3> QED  BY <2>1, <3>1, <3>2, <3>3 DEF FullVerified, Shrink
  <2> QED  BY <1>5, <1>6, <2>1, <2>2 DEF Verified, Shrink
<1> QED  BY <1>1, <1>2, <1>3, <1>4, <1>6

\* A step of collector g, which finds nobody else inside.
OwnerStep(g) ==
  /\ handle[g] = "inside" /\ Shrink
  /\ UNCHANGED <<lock, pick, result>>
  /\ \A c \in Client \ {g} : stage'[c] = stage[c]
  /\ uncertain \subseteq uncertain'
  /\ \A r \in late' : \/ r \in late
                      \/ r.by = g /\ g \in uncertain' /\ (r.what = <<"plan", g>> \/ Harmless(r.what)')

LEMMA ShrinkKept ==
  ASSUME RepInv, NEW g \in Collector, OwnerStep(g), RepTypeOK', CollectorSound(g)'
  PROVE  RepInv'
<1> USE DEF RepInv, OwnerStep, lock
<1>0. /\ Producer \subseteq Client /\ Reader \subseteq Client /\ Collector \subseteq Client
      /\ \A c \in Producer \cup Reader : c \notin Collector
      /\ \A q \in Producer : BackupOf[q] \in Backup
  BY ProducerAssumption, DistinctAssumption DEF Client
<1>1. /\ \A b \in Backup : Committed(b)' <=> Committed(b)
      /\ \A b \in Backup : Live(b)' => Live(b)
      /\ \A b \in Backup : Committed(b) => RootOf(b)' = RootOf(b)
      /\ \A p \in Producer : LiveWinner(p)' => LiveWinner(p)
      /\ \A w \in Segment : Gone(w) => Gone(w)'
      /\ \A b \in Backup : Live(b)' => Verified(b)'
  BY ShrinkKeeps
<1>2. LockSound'
  BY <1>0 DEF LockSound, Present
<1>3. WinnersSound'
  BY SMTT(30), <1>0, <1>1 DEF WinnersSound, Committed, Shrink, RepTypeOK, StoreType
<1>4. FloorSound'
  BY <1>1 DEF FloorSound, Shrink
<1>5. LiveBackupIntact'
  BY <1>1 DEF LiveBackupIntact
<1>6. WalKept'
  <2>1. ASSUME NEW b \in Backup, Live(b)', NEW w \in Segment, w >= StartOf[store'.commit[b]]
        PROVE  w \in store'.wal
    <3>1. Live(b) /\ store'.commit[b] = store.commit[b] /\ store.commit[b] \in Producer
      BY <1>1, <2>1 DEF Shrink, Live, Committed, RepTypeOK, StoreType
    <3>2. w \in store.wal /\ ~(w < StartOf[store.commit[b]])
      BY SMTT(30), <2>1, <3>1, StartAssumption, SizesAssumption DEF WalKept
    <3> QED  BY <3>1, <3>2 DEF Shrink
  <2> QED  BY <2>1 DEF WalKept
<1>7. ASSUME NEW q \in Producer  PROVE ProducerSound(q)'
  <2>1. handle[q] # "inside"
    BY <1>0, Alone
  <2> QED  BY <1>0, <2>1 DEF ProducerSound, Shrink
<1>8. ASSUME NEW r \in Reader  PROVE ReaderSound(r)'
  BY <1>0, Alone DEF ReaderSound
<1>9. ASSUME NEW h \in Collector  PROVE CollectorSound(h)'
  BY <1>0, Alone DEF CollectorSound
<1>10. ASSUME NEW m, Harmless(m)  PROVE Harmless(m)'
  <2>1. CASE m \in Cleanup /\ ~LiveWinner(m[2])
    BY <1>1, <2>1 DEF Harmless, Cleanup
  <2>2. ASSUME NEW b \in Backup, m = <<"retire", b>>, \A d \in Differential : Live(d) => RootOf(d) # b
        PROVE  Harmless(m)'
    BY <1>1, <2>2 DEF Harmless, Live, Backup
  <2>3. ASSUME NEW w \in Segment, m = <<"wal", w>>, Gone(w),
               \A b \in Backup : Live(b) => w < StartOf[store.commit[b]]
        PROVE  Harmless(m)'
    BY <1>1, <2>3 DEF Harmless, Shrink
  <2> QED  BY <1>10, <2>1, <2>2, <2>3 DEF Harmless
<1>11. LateSound'
  <2>1. ASSUME NEW r \in late  PROVE r.by = g /\ (r.what = <<"plan", g>> \/ Harmless(r.what)) /\ g \in uncertain
    BY <1>0, Alone DEF LateSound, SentBy
  <2> QED  BY <1>0, <1>10, <2>1 DEF LateSound, SentBy
<1> QED  BY <1>2, <1>3, <1>4, <1>5, <1>6, <1>7, <1>8, <1>9, <1>11
-----------------------------------------------------------------------------
(* The gate, and steps that leave the bucket alone *)

\* Nobody who is inside has moved.
LEMMA GateKept ==
  ASSUME RepInv, NEW c \in Client, GateStep(c) \/ Close(c)
  PROVE  RepInv'
<1> USE DEF RepInv, GateStep, Close, local
<1>0. /\ Producer \subseteq Client /\ Reader \subseteq Client /\ Collector \subseteq Client
      /\ (Producer \cup Reader) \cap Collector = {} /\ None \notin Client
  BY DistinctAssumption DEF Client
<1>1. /\ handle' \in [Client -> {"outside", "inside", "leaving", "gone"}]
      /\ \A d \in Client \ {c} : handle'[d] = handle[d]
      /\ UNCHANGED <<store, late, stage, pick, sent, result, uncertain, catalog, plan>>
  BY DEF RepTypeOK, Enter, Leave, Appear, Disappear, StartLeaving
<1>2. handle'[c] = "inside" => \/ handle[c] = "inside"
                               \/ stage[c] \in {"choose", "select", "inventory"}
  BY DEF RepTypeOK, LockSound, Enter, Leave, Appear, Disappear, StartLeaving
<1>3. c \in uncertain /\ handle[c] = "inside" => handle'[c] = "inside"
  BY DEF RepTypeOK, Enter, Leave, Appear, Disappear, StartLeaving
<1>4. RepTypeOK'
  BY <1>1 DEF RepTypeOK
<1>5. LockSound'
  BY <1>0, <1>1, <1>2 DEF RepTypeOK, LockSound, Present, Enter, Leave, Appear, Disappear, StartLeaving
<1>6. (WinnersSound /\ FloorSound /\ LiveBackupIntact /\ WalKept)'
  BY <1>1 DEF WinnersSound, FloorSound, Gone, LiveBackupIntact, WalKept, Live, Committed, Verified, FullVerified,
              RootOf, Complete
<1>7. ASSUME NEW q \in Producer  PROVE ProducerSound(q)'
  <2>1. /\ ProducerSound(q) /\ (Started(q)' <=> Started(q)) /\ (Complete(q)' <=> Complete(q))
        /\ ParentVerified(q)' <=> ParentVerified(q)
    BY <1>1 DEF Started, Complete, ParentVerified, FullVerified, Live, Committed
  <2>2. handle'[q] = "inside" /\ stage[q] # "choose" => handle[q] = "inside" \/ stage[q] \in {"select", "inventory"}
    BY <1>0, <1>1, <1>2
  <2>3. stage[q] \notin {"select", "inventory"}
    BY DEF ProducerSound
  <2> QED  BY <1>1, <2>1, <2>2, <2>3 DEF ProducerSound
<1>8. ASSUME NEW r \in Reader  PROVE ReaderSound(r)'
  BY <1>0, <1>1, <1>2 DEF ReaderSound, Verified, Complete, FullVerified, Live, Committed, RootOf
<1>9. ASSUME NEW g \in Collector  PROVE CollectorSound(g)'
  BY <1>0, <1>1, <1>2 DEF CollectorSound, Live, Committed, RootOf, LiveWinner, Gone
<1>10. \A d \in Client : \A m : SentBy(d, m) => SentBy(d, m)'
  <2>1. /\ \A d : Ready(d)' <=> Ready(d)
        /\ \A b : (Live(b)' <=> Live(b)) /\ RootOf(b)' = RootOf(b)
        /\ \A q : LiveWinner(q)' <=> LiveWinner(q)
        /\ \A w : Gone(w)' <=> Gone(w)
    BY <1>1 DEF Ready, Complete, ParentVerified, FullVerified, Started, Live, Committed, RootOf, LiveWinner, Gone
  <2>2. ASSUME NEW m, Harmless(m)  PROVE Harmless(m)'
    BY <1>1, <2>1, <2>2 DEF Harmless
  <2> QED  BY <1>1, <2>1, <2>2 DEF SentBy
<1>11. LateSound'
  BY <1>1, <1>3, <1>10 DEF LateSound
<1> QED  BY <1>4, <1>5, <1>6, <1>7, <1>8, <1>9, <1>11

\* A step of one reader.
LEMMA ReaderKept ==
  ASSUME RepInv, NEW r \in Reader, RepTypeOK', handle[r] = "inside",
         UNCHANGED <<lock, store, late, sent, result, uncertain, catalog, plan>>,
         \A c \in Client \ {r} : stage'[c] = stage[c],
         \A c \in (Producer \cup Reader) \ {r} : pick'[c] = pick[c],
         stage'[r] = "read" => pick'[r] \in Backup /\ Verified(pick'[r])
  PROVE  RepInv'
<1> USE DEF RepInv, lock
<1>0. /\ Producer \subseteq Client /\ Reader \subseteq Client /\ Collector \subseteq Client
      /\ r \notin Producer /\ r \notin Collector /\ None \notin Producer
  BY DistinctAssumption DEF Client
<1>1. \A q \in Producer : pick'[q] = pick[q] /\ stage'[q] = stage[q]
  BY <1>0
<1>2. /\ \A b \in Backup : (Committed(b)' <=> Committed(b)) /\ (Live(b)' <=> Live(b))
      /\ \A b \in Backup : Committed(b) => RootOf(b)' = RootOf(b) /\ RootOf(b) \in Full
      /\ \A q \in Producer : (Complete(q)' <=> Complete(q)) /\ (LiveWinner(q)' <=> LiveWinner(q))
      /\ \A w : Gone(w)' <=> Gone(w)
  BY SMTT(30), <1>1 DEF Committed, Live, RootOf, Complete, LiveWinner, Gone, RepTypeOK, StoreType, WinnersSound
<1>3. \A b \in Backup : (FullVerified(b)' <=> FullVerified(b)) /\ (Verified(b) => Verified(b)')
  BY <1>2 DEF FullVerified, Verified, Live, Committed, Backup, RepTypeOK, StoreType
<1>4. \A q \in Producer : /\ Started(q)' <=> Started(q)
                          /\ pick[q] \in Full => (ParentVerified(q)' <=> ParentVerified(q))
                          /\ Ready(q) => Ready(q)'
  BY <1>1, <1>2, <1>3 DEF Started, ParentVerified, Ready, Backup
<1>5. LockSound'
  BY <1>0 DEF LockSound, Present
<1>6. (WinnersSound /\ FloorSound /\ LiveBackupIntact /\ WalKept)'
  BY SMTT(30), <1>1, <1>2, <1>3 DEF WinnersSound, FloorSound, LiveBackupIntact, WalKept, Committed, RepTypeOK, StoreType
<1>7. ASSUME NEW q \in Producer  PROVE ProducerSound(q)'
  BY <1>1, <1>2, <1>4 DEF ProducerSound
<1>8. ASSUME NEW s \in Reader  PROVE ReaderSound(s)'
  BY <1>0, <1>3 DEF ReaderSound
<1>9. ASSUME NEW g \in Collector  PROVE CollectorSound(g)'
  BY <1>0, Alone DEF CollectorSound
<1>10. LateSound'
  <2>1. ASSUME NEW x \in late  PROVE x.by \in Producer /\ SentBy(x.by, x.what)'
    BY <1>0, <1>1, <1>4, Alone DEF LateSound, SentBy
  <2> QED  BY <2>1 DEF LateSound
<1> QED  BY <1>5, <1>6, <1>7, <1>8, <1>9, <1>10

\* The call of a client ends, and nothing else happens.
LEMMA FailKept ==
  ASSUME RepInv, NEW c \in Client, Fail(c)
  PROVE  RepInv'
<1>0. /\ RepTypeOK /\ WinnersSound /\ None \notin Producer
      /\ \A p \in Producer : ProducerSound(p) /\ BackupOf[p] \in Backup
  BY ProducerAssumption, DistinctAssumption DEF RepInv, Client
<1>1. /\ stage' \in [Client -> Stages] /\ stage'[c] = "leave" /\ handle[c] = "inside"
      /\ \A d \in Client \ {c} : stage'[d] = stage[d]
      /\ UNCHANGED <<lock, store, late, pick, sent, result, uncertain, catalog, plan>>
  BY <1>0 DEF RepTypeOK, Stages, Fail, Goto
<1>2. RepTypeOK' /\ Shrink /\ \A p : Grow(p)
  BY <1>0, <1>1, SameGrows DEF RepTypeOK, lock
<1>3. CASE c \in Producer
  <2>1. ProducerSound(c)'
    BY <1>0, <1>1, <1>3 DEF ProducerSound, AfterRequest, AfterClaim
  <2>2. HoldStep(c)
    BY <1>1, <1>2, <1>3 DEF HoldStep
  <2> QED  BY <1>2, <1>3, <2>1, <2>2, GrowKept
<1>4. CASE c \in Collector
  <2>1. CollectorSound(c)'
    BY <1>1 DEF CollectorSound
  <2>2. OwnerStep(c)
    BY <1>1, <1>2 DEF OwnerStep
  <2> QED  BY <1>2, <1>4, <2>1, <2>2, ShrinkKept
<1>5. CASE c \in Reader
  BY <1>1, <1>2, <1>5, ReaderKept
<1> QED  BY <1>3, <1>4, <1>5 DEF Client

LEMMA SelectKept ==
  ASSUME RepInv, NEW r \in Reader, Select(r)
  PROVE  RepInv'
<1>0. RepTypeOK /\ r \in Client
  BY DEF RepInv, Client
<1>1. PICK b \in Backup : Verified(b) /\ pick' = [pick EXCEPT ![r] = b]
  BY DEF Select
<1>2. /\ stage' = [stage EXCEPT ![r] = "read"] /\ handle[r] = "inside"
      /\ UNCHANGED <<lock, store, late, sent, result, uncertain, catalog, plan>>
  BY DEF Select, Working, Goto
<1>3. stage' \in [Client -> Stages] /\ pick' \in [Producer \cup Reader -> Backup \cup {None}]
  BY <1>0, <1>1, <1>2 DEF RepTypeOK, Stages
<1>4. RepTypeOK'
  BY <1>0, <1>2, <1>3 DEF RepTypeOK, lock
<1>5. /\ \A c \in Client \ {r} : stage'[c] = stage[c]
      /\ \A c \in (Producer \cup Reader) \ {r} : pick'[c] = pick[c]
      /\ pick'[r] = b
  BY <1>0, <1>1, <1>2 DEF RepTypeOK
<1> QED  BY <1>1, <1>2, <1>4, <1>5, ReaderKept
-----------------------------------------------------------------------------
(* Producers *)

LEMMA ProducerFacts ==
  ASSUME RepInv, NEW p \in Producer
  PROVE  /\ RepTypeOK /\ ProducerSound(p) /\ p \in Client /\ BackupOf[p] \in Backup
         /\ None \notin Producer /\ None \notin Backup /\ Full \subseteq Backup
         /\ store.commit[BackupOf[p]] = p => stage[p] \in {"winner", "leave"}
BY SMTT(30), ProducerAssumption, DistinctAssumption DEF RepInv, Client, Backup, WinnersSound, Committed

\* The step to t, with or without a report, that only reads the bucket.
LEMMA ReadKept ==
  ASSUME RepInv, NEW p \in Producer, handle[p] = "inside", stage[p] # "choose",
         NEW t \in Stages, Goto(p, t), t \notin {"choose", "select", "inventory"},
         stage[p] \in {"winner", "leave"} => t = "leave",
         store.commit[BackupOf[p]] = p => t = "leave",
         UNCHANGED <<lock, store, late, pick, sent, uncertain, catalog, plan>>,
         result' \in [Producer -> Producer \cup {None}],
         \A q \in Producer \ {p} : result'[q] = result[q],
         result'[p] # None => store.commit[BackupOf[p]] = result'[p],
         t \in AfterRequest => store.request[BackupOf[p]] = pick[p],
         t \in AfterClaim => p \in store.claims,
         t = "commit" => Complete(p) /\ ParentVerified(p)
  PROVE  RepInv'
<1>0. /\ RepTypeOK /\ ProducerSound(p) /\ p \in Client
  BY ProducerFacts
<1>1. /\ stage' \in [Client -> Stages] /\ stage'[p] = t
      /\ \A c \in Client \ {p} : stage'[c] = stage[c]
  BY <1>0 DEF RepTypeOK, Goto
<1>2. RepTypeOK' /\ Grow(p)
  BY <1>0, <1>1, SameGrows DEF RepTypeOK, lock
<1>3. HoldStep(p)
  BY <1>1, <1>2 DEF HoldStep
<1>4. (Started(p) => Started(p)') /\ (Complete(p) => Complete(p)') /\ (ParentVerified(p) => ParentVerified(p)')
  BY DEF Started, Complete, ParentVerified, FullVerified, Live, Committed
<1>5. ProducerSound(p)'
  BY <1>0, <1>1, <1>4 DEF ProducerSound, lock
<1> QED  BY <1>2, <1>3, <1>5, GrowKept

LEMMA ReadsKept ==
  ASSUME RepInv, NEW p \in Producer,
         RereadRequest(p) \/ Replay(p) \/ CheckRoot(p) \/ VerifyPayload(p) \/ ReadWinner(p)
  PROVE  RepInv'
<1>0. /\ RepTypeOK /\ ProducerSound(p) /\ BackupOf[p] \in Backup
      /\ store.commit[BackupOf[p]] = p => stage[p] \in {"winner", "leave"}
      /\ {"replay", "leave", "root", "claim", "commit"} \subseteq Stages
  BY ProducerFacts DEF Stages
<1>1. result[p] # None => store.commit[BackupOf[p]] = result[p]
  BY <1>0 DEF ProducerSound
<1>2. ASSUME Report(p)
      PROVE  /\ result' \in [Producer -> Producer \cup {None}]
             /\ \A q \in Producer \ {p} : result'[q] = result[q]
             /\ result'[p] # None => store.commit[BackupOf[p]] = result'[p]
  BY <1>0, <1>1, <1>2 DEF Report, RepTypeOK, StoreType
<1>3. ASSUME UNCHANGED result
      PROVE  /\ result' \in [Producer -> Producer \cup {None}]
             /\ \A q \in Producer \ {p} : result'[q] = result[q]
             /\ result'[p] # None => store.commit[BackupOf[p]] = result'[p]
  BY <1>0, <1>1, <1>3 DEF RepTypeOK
<1>4. CASE RereadRequest(p)
  <2> DEFINE t == IF store.request[BackupOf[p]] = pick[p] THEN "replay" ELSE "leave"
  <2>1. /\ handle[p] = "inside" /\ stage[p] = "reread" /\ Goto(p, t)
        /\ UNCHANGED <<lock, store, late, pick, sent, result, uncertain, catalog, plan>>
    BY <1>4 DEF RereadRequest, Working
  <2>2. /\ t \in Stages /\ t \in {"replay", "leave"}
        /\ t \in AfterRequest => store.request[BackupOf[p]] = pick[p]
        /\ t \notin AfterClaim
    BY <1>0 DEF AfterClaim, AfterRequest
  <2> HIDE DEF t
  <2> QED  BY <1>0, <1>3, <2>1, <2>2, ReadKept
<1>5. CASE Replay(p)
  <2>1. PICK t \in {"leave", "root"} : Goto(p, t) /\ (t = "root" => ~Committed(BackupOf[p]))
    BY <1>5 DEF Replay
  <2>2. /\ handle[p] = "inside" /\ stage[p] = "replay" /\ (Report(p) \/ UNCHANGED result)
        /\ UNCHANGED <<lock, store, late, pick, sent, uncertain, catalog, plan>>
    BY <1>5 DEF Replay, Working
  <2>3. /\ t \in Stages /\ store.request[BackupOf[p]] = pick[p] /\ t \notin AfterClaim
    BY <1>0, <2>2 DEF AfterClaim, AfterRequest, ProducerSound
  <2> QED  BY <1>0, <1>2, <1>3, <2>1, <2>2, <2>3, ReadKept
<1>6. CASE CheckRoot(p)
  <2>1. PICK t \in {"leave", "claim"} : Goto(p, t)
    BY <1>6 DEF CheckRoot
  <2>2. /\ handle[p] = "inside" /\ stage[p] = "root"
        /\ UNCHANGED <<lock, store, late, pick, sent, result, uncertain, catalog, plan>>
    BY <1>6 DEF CheckRoot, Working
  <2>3. /\ t \in Stages /\ store.request[BackupOf[p]] = pick[p] /\ t \notin AfterClaim
    BY <1>0, <2>2 DEF AfterClaim, AfterRequest, ProducerSound
  <2> QED  BY <1>0, <1>3, <2>1, <2>2, <2>3, ReadKept
<1>7. CASE VerifyPayload(p)
  <2>1. PICK t \in {"leave", "commit"} : Goto(p, t) /\ (t = "commit" => Complete(p) /\ ParentVerified(p))
    BY <1>7 DEF VerifyPayload
  <2>2. /\ handle[p] = "inside" /\ stage[p] = "verify"
        /\ UNCHANGED <<lock, store, late, pick, sent, result, uncertain, catalog, plan>>
    BY <1>7 DEF VerifyPayload, Working
  <2>3. t \in Stages /\ store.request[BackupOf[p]] = pick[p] /\ p \in store.claims
    BY <1>0, <2>2 DEF AfterClaim, AfterRequest, ProducerSound
  <2> QED  BY <1>0, <1>3, <2>1, <2>2, <2>3, ReadKept
<1>8. CASE ReadWinner(p)
  <2>1. /\ handle[p] = "inside" /\ stage[p] = "winner" /\ Goto(p, "leave") /\ (Report(p) \/ UNCHANGED result)
        /\ UNCHANGED <<lock, store, late, pick, sent, uncertain, catalog, plan>>
    BY <1>8 DEF ReadWinner, Working
  <2>2. "leave" \notin AfterRequest /\ "leave" \notin AfterClaim
    BY DEF AfterClaim, AfterRequest
  <2> QED  BY <1>0, <1>2, <1>3, <2>1, <2>2, ReadKept
<1> QED  BY <1>4, <1>5, <1>6, <1>7, <1>8

LEMMA ChooseKept ==
  ASSUME RepInv, NEW p \in Producer, Choose(p)
  PROVE  RepInv'
<1>0. /\ RepTypeOK /\ ProducerSound(p) /\ p \in Client /\ BackupOf[p] \in Backup /\ FloorSound
      /\ None \notin Full /\ Full \subseteq Backup
      /\ store.commit[BackupOf[p]] = p => stage[p] \in {"winner", "leave"}
  BY ProducerFacts DEF RepInv
<1>1. /\ handle[p] = "inside" /\ stage[p] = "choose" /\ StartsLast(p)
      /\ stage' = [stage EXCEPT ![p] = "request"]
      /\ UNCHANGED <<lock, store, late, sent, result, uncertain, catalog, plan>>
  BY DEF Choose, Working, Goto
<1>2. PICK r \in Full : pick' = [pick EXCEPT ![p] = r]
  BY <1>0 DEF Choose, RepTypeOK, StoreType
<1>3. stage' \in [Client -> Stages] /\ pick' \in [Producer \cup Reader -> Backup \cup {None}]
  BY <1>0, <1>1, <1>2 DEF RepTypeOK, Stages
<1>4. RepTypeOK' /\ Grow(p)
  BY <1>0, <1>1, <1>3, SameGrows DEF RepTypeOK, lock
<1>5. /\ stage'[p] = "request" /\ \A c \in Client \ {p} : stage'[c] = stage[c]
      /\ pick'[p] = r /\ \A c \in (Producer \cup Reader) \ {p} : pick'[c] = pick[c]
  BY <1>0, <1>1, <1>2 DEF RepTypeOK
<1>6. HoldStep(p)
  BY <1>0, <1>1, <1>4, <1>5 DEF HoldStep
<1>7. ASSUME NEW w \in Segment \ store.wal  PROVE w < StartOf[p]
  <2>1. PICK b \in Backup : Committed(b) /\ w < StartOf[store.commit[b]]
    BY <1>0 DEF FloorSound, Gone
  <2>2. StartOf[store.commit[b]] <= StartOf[p] /\ store.commit[b] \in Producer
    BY <1>0, <1>1, <2>1 DEF StartsLast, RepTypeOK, StoreType, Committed
  <2>3. w \in Nat /\ StartOf[p] \in Nat /\ StartOf[store.commit[b]] \in Nat
    BY <2>2, StartAssumption, SizesAssumption
  <2> QED  BY SMTT(30), <2>1, <2>2, <2>3
<1>8. Started(p)'
  BY <1>1, <1>7 DEF Started
<1>9. ProducerSound(p)'
  BY <1>0, <1>1, <1>5, <1>8 DEF ProducerSound, AfterRequest, AfterClaim
<1> QED  BY <1>4, <1>6, <1>9, GrowKept

\* The step to t with a mutation, however it is answered.
LEMMA SendKept ==
  ASSUME RepInv, NEW p \in Producer, handle[p] = "inside", stage[p] \notin {"choose", "winner", "leave"},
         NEW t \in Stages, Goto(p, t), t \notin {"choose", "select", "inventory", "commit"},
         NEW m, Answered(m) \/ Refused \/ Ambiguous(p, m),
         \/ m \in {<<"request", p>>, <<"claim", p>>} \cup ({"start", "finish"} \X {p} \X Nat)
         \/ m = <<"commit", p>> /\ stage[p] = "commit" /\ t = "winner",
         UNCHANGED <<lock, pick, result, catalog, plan>>, sent' \in [Producer -> Nat],
         t \in AfterRequest => store'.request[BackupOf[p]] = pick[p],
         t \in AfterClaim => p \in store'.claims
  PROVE  RepInv'
<1>0. /\ RepTypeOK /\ ProducerSound(p) /\ p \in Client /\ BackupOf[p] \in Backup /\ None \notin Producer
      /\ store.commit[BackupOf[p]] # p /\ pick[p] \in Full
  BY ProducerFacts DEF ProducerSound
<1>1. /\ stage' \in [Client -> Stages] /\ stage'[p] = t
      /\ \A c \in Client \ {p} : stage'[c] = stage[c]
  BY <1>0 DEF RepTypeOK, Goto
<1>2. m = <<"commit", p>> => Ready(p) /\ t = "winner"
  BY SMTT(30), <1>0 DEF Ready, ProducerSound, AfterRequest, AfterClaim
<1>3. SentBy(p, m) \/ (m = <<"commit", p>> /\ Ready(p))
  BY <1>0, <1>2 DEF SentBy
<1>4. Grow(p) /\ (m # <<"commit", p>> => store'.commit = store.commit)
  BY <1>0, <1>3, ProducerGrows, SameGrows DEF Answered, Refused, Ambiguous
<1>5. store' \in StoreType
  BY <1>4 DEF Grow
<1>6. RepTypeOK'
  BY <1>0, <1>1, <1>5 DEF RepTypeOK, lock
<1>7. ASSUME Ambiguous(p, m)  PROVE SentBy(p, m)'
  BY <1>0, <1>1, <1>2, <1>3, <1>7 DEF SentBy, Ambiguous, Ready, Complete, ParentVerified, FullVerified, Live,
                                      Committed, Started
<1>8. /\ uncertain \subseteq uncertain'
      /\ \A r \in late' : r \in late \/ (r.by = p /\ p \in uncertain' /\ SentBy(p, r.what)')
  BY SMTT(30), <1>7 DEF Answered, Refused, Ambiguous
<1>9. HoldStep(p)
  BY <1>0, <1>1, <1>2, <1>4, <1>8 DEF HoldStep
<1>10. Started(p) => Started(p)'
  BY <1>4 DEF Started, Grow
<1>11. store.commit[BackupOf[p]] # None => store'.commit[BackupOf[p]] = store.commit[BackupOf[p]]
  BY <1>0, <1>4 DEF Grow
<1>12. ProducerSound(p)'
  BY <1>0, <1>1, <1>10, <1>11 DEF ProducerSound
<1> QED  BY <1>6, <1>9, <1>12, GrowKept

LEMMA SendsKept ==
  ASSUME RepInv, NEW p \in Producer,
         PutRequest(p) \/ PutClaim(p) \/ StartUpload(p) \/ FinishUpload(p) \/ PutCommit(p)
  PROVE  RepInv'
<1>0. /\ RepTypeOK /\ ProducerSound(p) /\ BackupOf[p] \in Backup /\ None \notin Full
      /\ {"replay", "reread", "start", "finish", "verify", "winner", "leave"} \subseteq Stages
      /\ "leave" \notin AfterRequest /\ "reread" \notin AfterRequest /\ "winner" \notin AfterRequest
      /\ AfterClaim \subseteq AfterRequest /\ "replay" \notin AfterClaim
  BY ProducerFacts DEF Stages, AfterRequest, AfterClaim
<1>1. sent \in [Producer -> Nat] /\ [sent EXCEPT ![p] = @ + 1] \in [Producer -> Nat] /\ sent[p] + 1 \in Nat
  BY SMTT(30), <1>0 DEF RepTypeOK
<1>2. CASE PutRequest(p)
  <2> DEFINE m == <<"request", p>>
  <2>1. /\ handle[p] = "inside" /\ stage[p] = "request"
        /\ UNCHANGED <<lock, pick, sent, result, catalog, plan>>
        /\ \/ Answered(m) /\ Goto(p, "replay")
           \/ Refused /\ Goto(p, "reread")
           \/ Ambiguous(p, m) /\ Goto(p, "reread")
    BY <1>2 DEF PutRequest, Working
  <2>2. Answered(m) => store'.request[BackupOf[p]] = pick[p]
    BY SMTT(30), <1>0 DEF Answered, Effect, RepTypeOK, StoreType
  <2>3. m \in {<<"request", p>>, <<"claim", p>>} \cup ({"start", "finish"} \X {p} \X Nat)
    OBVIOUS
  <2> HIDE DEF m
  <2> QED  BY <1>0, <1>1, <2>1, <2>2, <2>3, SendKept
<1>3. CASE PutClaim(p)
  <2> DEFINE m == <<"claim", p>>
  <2>1. /\ handle[p] = "inside" /\ stage[p] = "claim"
        /\ UNCHANGED <<lock, pick, sent, result, catalog, plan>>
        /\ Dispatch(p, m, "start")
    BY <1>3 DEF PutClaim, Working
  <2>2. Answered(m) => store'.request = store.request /\ p \in store'.claims
    BY SMTT(30), <1>0 DEF Answered, Effect, RepTypeOK, StoreType
  <2>3. store.request[BackupOf[p]] = pick[p]
    BY <1>0, <2>1 DEF ProducerSound, AfterRequest
  <2>4. m \in {<<"request", p>>, <<"claim", p>>} \cup ({"start", "finish"} \X {p} \X Nat)
    OBVIOUS
  <2> HIDE DEF m
  <2> QED  BY <1>0, <1>1, <2>1, <2>2, <2>3, <2>4, SendKept DEF Dispatch
<1>4. ASSUME NEW kind \in {"start", "finish"}, NEW t \in {"start", "finish", "verify"}, stage[p] = kind,
             handle[p] = "inside", Dispatch(p, <<kind, p, sent[p] + 1>>, t),
             UNCHANGED <<lock, pick, result, catalog, plan>>, sent' \in [Producer -> Nat]
      PROVE  RepInv'
  <2> DEFINE m == <<kind, p, sent[p] + 1>>
  <2>1. Answered(m) => store'.request = store.request /\ store'.claims = store.claims
    BY <1>0 DEF Answered, Effect, RepTypeOK, StoreType
  <2>2. store.request[BackupOf[p]] = pick[p] /\ p \in store.claims
    BY <1>0, <1>4 DEF ProducerSound, AfterRequest, AfterClaim
  <2>3. m \in {<<"request", p>>, <<"claim", p>>} \cup ({"start", "finish"} \X {p} \X Nat)
    BY <1>1
  <2>4. Dispatch(p, m, t)
    BY <1>4
  <2> HIDE DEF m
  <2> QED  BY <1>0, <1>4, <2>1, <2>2, <2>3, <2>4, SendKept DEF Dispatch
<1>5. CASE StartUpload(p)
  BY <1>1, <1>4, <1>5 DEF StartUpload, Working
<1>6. CASE FinishUpload(p)
  BY <1>1, <1>4, <1>6 DEF FinishUpload, Working
<1>7. CASE PutCommit(p)
  <2> DEFINE m == <<"commit", p>>
  <2>1. /\ handle[p] = "inside" /\ stage[p] = "commit"
        /\ UNCHANGED <<lock, pick, sent, result, catalog, plan>>
        /\ (Answered(m) \/ Refused \/ Ambiguous(p, m)) /\ Goto(p, "winner")
    BY <1>7 DEF PutCommit, Working
  <2> QED  BY <1>0, <1>1, <2>1, SendKept
<1> QED  BY <1>2, <1>3, <1>5, <1>6, <1>7

-----------------------------------------------------------------------------
(* Collectors *)

LEMMA InventoryKept ==
  ASSUME RepInv, NEW g \in Collector, Inventory(g)
  PROVE  RepInv'
<1>0. RepTypeOK /\ g \in Client
  BY DEF RepInv, Client
<1>1. /\ handle[g] = "inside" /\ stage' = [stage EXCEPT ![g] = "decide"]
      /\ catalog' = [catalog EXCEPT ![g] = {b \in Backup : Live(b)}]
      /\ UNCHANGED <<lock, store, late, pick, sent, result, uncertain, plan>>
  BY DEF Inventory, Working, Goto
<1>2. /\ stage' \in [Client -> Stages] /\ stage'[g] = "decide"
      /\ catalog' \in [Collector -> SUBSET Backup] /\ catalog'[g] = {b \in Backup : Live(b)}
      /\ \A c \in Client \ {g} : stage'[c] = stage[c]
  BY <1>0, <1>1 DEF RepTypeOK, Stages
<1>3. RepTypeOK' /\ Shrink
  BY <1>0, <1>1, <1>2, SameGrows DEF RepTypeOK, lock
<1>4. OwnerStep(g)
  BY <1>1, <1>2, <1>3 DEF OwnerStep
<1>5. CollectorSound(g)'
  BY <1>1, <1>2 DEF CollectorSound, Live, Committed
<1> QED  BY <1>3, <1>4, <1>5, ShrinkKept

\* What a batch holds.
LEMMA BatchSound ==
  ASSUME RepTypeOK, NEW live \in SUBSET Backup, NEW keep \in Keeps(live), NEW v \in Batches(live, keep)
  PROVE  /\ v \in VictimsType
         /\ \A x \in v.clean : ~LiveWinner(x[2])
         /\ \A w \in v.wal : /\ keep # {} /\ \A b \in keep : w < StartOf[store.commit[b]]
                             /\ v.expire = live \ keep
<1> DEFINE expire == live \ keep
<1>1. /\ v \in [expire : Prefixes(expire, MaxVictims), clean : SUBSET Garbage, wal : SUBSET BelowFloor(keep)]
      /\ v.wal \in IF Cardinality(expire) <= MaxVictims
                   THEN Prefixes(BelowFloor(keep), MaxVictims - Cardinality(v.expire) - Cardinality(v.clean))
                   ELSE {{}}
  BY DEF Batches
<1>2. v.expire \in Prefixes(expire, MaxVictims) /\ v.clean \subseteq Garbage /\ v.wal \subseteq BelowFloor(keep)
  BY <1>1
<1>3. \A x \in Garbage : x \in Cleanup /\ ~LiveWinner(x[2])
  BY SMTT(30) DEF Garbage, Cleanup, RepTypeOK, StoreType
<1>4. v \in VictimsType
  <2>1. v.expire \in SUBSET Backup
    BY <1>2 DEF Prefixes
  <2>2. v.clean \in SUBSET Cleanup
    BY <1>2, <1>3
  <2>3. v.wal \in SUBSET Segment
    BY <1>2 DEF BelowFloor, RepTypeOK, StoreType
  <2> QED  BY <1>1, <2>1, <2>2, <2>3 DEF VictimsType
<1>5. ASSUME NEW w \in v.wal
      PROVE  keep # {} /\ (\A b \in keep : w < StartOf[store.commit[b]]) /\ v.expire = live \ keep
  <2>1. Cardinality(expire) <= MaxVictims
    BY <1>1
  <2>2. v.expire = expire
    BY <1>2, <2>1 DEF Prefixes
  <2> QED  BY <1>2, <2>2 DEF BelowFloor
<1> QED  BY <1>2, <1>3, <1>4, <1>5

LEMMA DecideKept ==
  ASSUME RepInv, NEW g \in Collector, Decide(g)
  PROVE  RepInv'
<1>0. RepTypeOK /\ g \in Client /\ CollectorSound(g) /\ catalog[g] \in SUBSET Backup
  BY DEF RepInv, Client, RepTypeOK
<1>1. PICK keep \in Keeps(catalog[g]) :
        \E v \in Batches(catalog[g], keep) :
          /\ plan' = [plan EXCEPT ![g] = v]
          /\ Goto(g, IF v = NoVictims THEN "leave" ELSE "persist")
  BY DEF Decide
<1>2. PICK v \in Batches(catalog[g], keep) :
        /\ plan' = [plan EXCEPT ![g] = v]
        /\ Goto(g, IF v = NoVictims THEN "leave" ELSE "persist")
  BY <1>1
<1>3. /\ handle[g] = "inside" /\ stage[g] = "decide"
      /\ UNCHANGED <<lock, store, late, pick, sent, result, uncertain, catalog>>
  BY DEF Decide, Working
<1>4. /\ v \in VictimsType
      /\ \A x \in v.clean : ~LiveWinner(x[2])
      /\ \A w \in v.wal : /\ keep # {} /\ \A b \in keep : w < StartOf[store.commit[b]]
                          /\ v.expire = catalog[g] \ keep
  BY <1>0, <1>2, BatchSound
<1>5. /\ stage' \in [Client -> Stages] /\ stage'[g] \in {"leave", "persist"}
      /\ plan' \in [Collector -> VictimsType] /\ plan'[g] = v
      /\ \A c \in Client \ {g} : stage'[c] = stage[c]
  BY <1>0, <1>2, <1>4 DEF RepTypeOK, Stages, Goto
<1>6. RepTypeOK' /\ Shrink
  BY <1>0, <1>3, <1>5, SameGrows DEF RepTypeOK, lock
<1>7. OwnerStep(g)
  BY <1>3, <1>5, <1>6 DEF OwnerStep
<1>8. ASSUME NEW w \in v.wal
      PROVE  Gone(w) /\ \A b \in Backup : Live(b) => b \in v.expire \/ w < StartOf[store.commit[b]]
  <2>1. PICK b \in keep : w < StartOf[store.commit[b]]
    BY <1>4, <1>8
  <2>2. b \in catalog[g]
    BY <1>2, <2>1 DEF Keeps
  <2>3. b \in Backup /\ Committed(b)
    BY <1>0, <1>3, <2>2 DEF CollectorSound
  <2> QED  BY <1>0, <1>3, <1>4, <1>8, <2>1, <2>3 DEF CollectorSound, Gone
<1>9. CollectorSound(g)'
  <2>1. /\ \A b \in Backup : (Live(b)' <=> Live(b)) /\ (Committed(b)' <=> Committed(b))
        /\ \A q : LiveWinner(q)' <=> LiveWinner(q)
        /\ \A w : Gone(w)' <=> Gone(w)
    BY <1>3 DEF Live, Committed, LiveWinner, Gone
  <2> QED  BY <1>0, <1>3, <1>4, <1>5, <1>8, <2>1 DEF CollectorSound
<1> QED  BY <1>6, <1>7, <1>9, ShrinkKept

\* The step to t with a mutation of g, however it is answered.
LEMMA OwnerSendKept ==
  ASSUME RepInv, NEW g \in Collector, handle[g] = "inside",
         NEW t \in Stages, Goto(g, t),
         NEW m, Answered(m) \/ Refused \/ Ambiguous(g, m), m = <<"plan", g>> \/ Harmless(m),
         UNCHANGED <<lock, pick, sent, result, catalog>>, plan' \in [Collector -> VictimsType],
         Shrink => CollectorSound(g)'
  PROVE  RepInv'
<1>0. RepTypeOK /\ g \in Client
  BY DEF RepInv, Client
<1>1. /\ stage' \in [Client -> Stages] /\ stage'[g] = t
      /\ \A c \in Client \ {g} : stage'[c] = stage[c]
  BY <1>0 DEF RepTypeOK, Goto
<1>2. Shrink
  BY <1>0, CollectorShrinks, SameGrows DEF Answered, Refused, Ambiguous
<1>3. store' \in StoreType
  BY <1>2 DEF Shrink
<1>4. RepTypeOK'
  BY <1>0, <1>1, <1>3 DEF RepTypeOK, lock
<1>5. ASSUME Ambiguous(g, m)  PROVE m = <<"plan", g>> \/ Harmless(m)'
  BY <1>5 DEF Ambiguous, Harmless, Live, Committed, RootOf, LiveWinner, Gone
<1>6. /\ uncertain \subseteq uncertain'
      /\ \A r \in late' : r \in late \/ (r.by = g /\ g \in uncertain' /\ (r.what = <<"plan", g>> \/ Harmless(r.what)'))
  BY SMTT(30), <1>5 DEF Answered, Refused, Ambiguous
<1>7. OwnerStep(g)
  BY <1>1, <1>2, <1>6 DEF OwnerStep
<1> QED  BY <1>2, <1>4, <1>7, ShrinkKept

LEMMA PutPlanKept ==
  ASSUME RepInv, NEW g \in Collector, PutPlan(g)
  PROVE  RepInv'
<1> DEFINE m == <<"plan", g>>
<1>0. RepTypeOK /\ CollectorSound(g) /\ {"destroy", "leave"} \subseteq Stages /\ g \in Client
  BY DEF RepInv, Stages, Client
<1>1. /\ handle[g] = "inside" /\ stage[g] = "persist" /\ ValidPlan(g) /\ Dispatch(g, m, "destroy")
      /\ UNCHANGED <<lock, pick, sent, result, catalog, plan>>
  BY DEF PutPlan, Working
<1>2. UNCHANGED store
  BY <1>1 DEF Dispatch, Answered, Refused, Ambiguous, Effect
<1>3. PICK t \in {"destroy", "leave"} : Goto(g, t) /\ (Answered(m) \/ Refused \/ Ambiguous(g, m))
  BY <1>1 DEF Dispatch
<1>4. CollectorSound(g)'
  <2>1. stage'[g] \in {"destroy", "leave"} /\ handle'[g] = handle[g]
    BY <1>0, <1>1, <1>3 DEF Goto, RepTypeOK, lock
  <2>2. /\ \A b \in Backup : (Live(b)' <=> Live(b)) /\ (Committed(b)' <=> Committed(b)) /\ RootOf(b)' = RootOf(b)
        /\ \A q : LiveWinner(q)' <=> LiveWinner(q)
        /\ \A w : Gone(w)' <=> Gone(w)
    BY <1>1, <1>2 DEF Live, Committed, LiveWinner, Gone, RootOf
  <2>3. ASSUME NEW d \in Differential, Live(d), RootOf(d) \in plan[g].expire  PROVE d \in plan[g].expire
    <3>1. d \in catalog[g]
      BY <1>0, <1>1, <2>3 DEF CollectorSound, Backup
    <3> QED  BY <1>1, <2>3, <3>1 DEF ValidPlan
  <2>4. /\ \A b \in Backup : Live(b) => b \in catalog[g]
        /\ \A b \in catalog[g] : b \in Backup /\ Committed(b)
        /\ \A x \in plan[g].clean : ~LiveWinner(x[2])
        /\ \A w \in plan[g].wal :
             /\ Gone(w)
             /\ \A b \in Backup : Live(b) => b \in plan[g].expire \/ w < StartOf[store.commit[b]]
    BY <1>0, <1>1 DEF CollectorSound, RepTypeOK
  <2>5. \A d \in Differential : Live(d)' /\ RootOf(d)' \in plan[g].expire => d \in plan[g].expire
    BY <2>2, <2>3 DEF Backup
  <2> QED  BY <1>1, <1>2, <2>2, <2>4, <2>5 DEF CollectorSound
<1>5. plan' \in [Collector -> VictimsType]
  BY <1>0, <1>1 DEF RepTypeOK
<1> QED  BY <1>0, <1>1, <1>3, <1>4, <1>5, OwnerSendKept

\* The victims that may come next are harmless.
LEMMA DueHarmless ==
  ASSUME RepInv, NEW g \in Collector, handle[g] = "inside", stage[g] = "destroy", NEW x \in Due(plan[g])
  PROVE  /\ Harmless(x)
         /\ plan[g].expire = {} \/ \E b \in plan[g].expire : x = <<"retire", b>>
<1> DEFINE v == plan[g]
<1>0. /\ RepTypeOK /\ CollectorSound(g) /\ v \in VictimsType /\ WinnersSound
      /\ \A b \in Full : b \notin Differential
  BY DistinctAssumption DEF RepInv, RepTypeOK
<1>1. CASE v.expire # {}
  <2>1. PICK b \in v.expire : x = <<"retire", b>> /\ (b \in Differential \/ v.expire \cap Differential = {})
    BY <1>1 DEF Due
  <2>2. ASSUME NEW d \in Differential, Live(d)  PROVE RootOf(d) # b
    <3>1. RootOf(d) \in Full
      BY <1>0, <2>2 DEF WinnersSound, Live, RootOf, Backup
    <3>2. RootOf(d) = b => d \in v.expire
      BY <1>0, <2>1, <2>2 DEF CollectorSound
    <3> QED  BY <1>0, <2>1, <2>2, <3>1, <3>2
  <2>3. b \in Backup
    BY <1>0 DEF VictimsType
  <2> QED  BY <2>1, <2>2, <2>3 DEF Harmless
<1>2. CASE v.expire = {} /\ v.clean # {}
  BY <1>0, <1>2 DEF Due, Harmless, CollectorSound, VictimsType
<1>3. CASE v.expire = {} /\ v.clean = {}
  <2>1. PICK w \in v.wal : x = <<"wal", w>>
    BY <1>3 DEF Due
  <2>2. w \in Segment
    BY <1>0 DEF VictimsType
  <2>3. Gone(w) /\ \A b \in Backup : Live(b) => w < StartOf[store.commit[b]]
    BY <1>0, <1>3 DEF CollectorSound
  <2> QED  BY <1>3, <2>1, <2>2, <2>3 DEF Harmless
<1> QED  BY <1>1, <1>2, <1>3

LEMMA DestroyKept ==
  ASSUME RepInv, NEW g \in Collector, NEW x \in Due(plan[g]), Destroy(g, x)
  PROVE  RepInv'
<1> DEFINE v == plan[g]
<1>0. /\ RepTypeOK /\ CollectorSound(g) /\ v \in VictimsType /\ {"destroy", "leave"} \subseteq Stages
      /\ g \in Client
  BY DEF RepInv, RepTypeOK, Stages, Client
<1>1. /\ handle[g] = "inside" /\ stage[g] = "destroy"
      /\ plan' = [plan EXCEPT ![g] = Done(v, x)]
      /\ UNCHANGED <<lock, pick, sent, result, catalog>>
  BY DEF Destroy, Working
<1>2. PICK t \in {"destroy", "leave"} : /\ Goto(g, t) /\ (Answered(x) \/ Refused \/ Ambiguous(g, x))
                                        /\ Answered(x) \/ t = "leave"
  BY DEF Destroy, Dispatch
<1>3. Harmless(x) /\ (v.expire = {} \/ \E b \in v.expire : x = <<"retire", b>>)
  BY <1>1, DueHarmless
<1>4. /\ Done(v, x) \in VictimsType /\ Done(v, x).clean \subseteq v.clean /\ Done(v, x).wal \subseteq v.wal
      /\ Done(v, x).expire = v.expire \ {x[2]}
  BY <1>0 DEF Done, VictimsType
<1>5. plan' \in [Collector -> VictimsType] /\ plan'[g] = Done(v, x)
  BY <1>0, <1>1, <1>4 DEF RepTypeOK
<1>6. stage'[g] = t /\ handle'[g] = handle[g]
  BY <1>0, <1>1, <1>2 DEF Goto, RepTypeOK, lock
<1>7. ASSUME Shrink  PROVE CollectorSound(g)'
  <2>1. CASE t = "leave"
    BY <1>6, <2>1 DEF CollectorSound
  <2>2. CASE Answered(x)
    <3>1. /\ \A b \in Backup : (Committed(b)' <=> Committed(b)) /\ (Live(b)' => Live(b))
          /\ \A b \in Backup : Committed(b) => RootOf(b)' = RootOf(b)
          /\ \A p \in Producer : LiveWinner(p)' => LiveWinner(p)
          /\ \A w \in Segment : Gone(w) => Gone(w)'
      BY <1>1, <1>7, ShrinkKeeps
    <3>2. ASSUME NEW b \in Backup, Live(b)', b \in v.expire  PROVE b \in Done(v, x).expire
      <4>1. PICK a \in v.expire : x = <<"retire", a>>
        BY <1>3, <3>2
      <4>2. a \in store'.retired
        BY <1>0, <2>2, <4>1 DEF Answered, Effect, RepTypeOK, StoreType
      <4> QED  BY <1>4, <3>2, <4>1, <4>2 DEF Live
    <3>3. store'.commit = store.commit
      BY <1>7 DEF Shrink
    <3>4. \A b \in Backup : Live(b)' => b \in catalog'[g]
      BY <1>0, <1>1, <3>1 DEF CollectorSound
    <3>5. \A b \in catalog'[g] : Committed(b)'
      BY <1>0, <1>1, <3>1 DEF CollectorSound, RepTypeOK
    <3>6. \A y \in plan'[g].clean : ~LiveWinner(y[2])'
      BY <1>0, <1>1, <1>4, <1>5, <3>1 DEF CollectorSound, VictimsType, Cleanup
    <3>7. ASSUME NEW w \in plan'[g].wal
          PROVE  /\ Gone(w)'
                 /\ \A b \in Backup : Live(b)' => b \in plan'[g].expire \/ w < StartOf[store'.commit[b]]
      <4>1. w \in Segment /\ w \in v.wal
        BY <1>0, <1>4, <1>5, <3>7 DEF VictimsType
      <4> QED  BY <1>0, <1>1, <1>5, <3>1, <3>2, <3>3, <4>1 DEF CollectorSound
    <3>8. ASSUME NEW d \in Differential, Live(d)', RootOf(d)' \in plan'[g].expire  PROVE d \in plan'[g].expire
      <4>1. d \in Backup /\ Live(d) /\ RootOf(d)' = RootOf(d)
        BY <3>1, <3>8 DEF Live, Backup
      <4> QED  BY <1>0, <1>1, <1>4, <1>5, <3>2, <3>8, <4>1 DEF CollectorSound
    <3> QED  BY <3>4, <3>5, <3>6, <3>7, <3>8 DEF CollectorSound
  <2> QED  BY <1>2, <2>1, <2>2
<1> QED  BY <1>0, <1>1, <1>2, <1>3, <1>5, <1>7, OwnerSendKept

-----------------------------------------------------------------------------
(* Late mutations, and every step *)

\* What a collector knows survives while the bucket shrinks.
LEMMA StillSound ==
  ASSUME RepInv, NEW g \in Collector, Shrink, UNCHANGED <<lock, stage, pick, catalog, plan>>
  PROVE  CollectorSound(g)'
<1>0. /\ RepTypeOK /\ CollectorSound(g) /\ plan[g] \in VictimsType /\ catalog[g] \in SUBSET Backup
      /\ store'.commit = store.commit
      /\ UNCHANGED <<handle, stage, catalog, plan>>
  BY DEF RepInv, RepTypeOK, Shrink, lock
<1>1. /\ \A b \in Backup : (Committed(b)' <=> Committed(b)) /\ (Live(b)' => Live(b))
      /\ \A b \in Backup : Committed(b) => RootOf(b)' = RootOf(b)
      /\ \A p \in Producer : LiveWinner(p)' => LiveWinner(p)
      /\ \A w \in Segment : Gone(w) => Gone(w)'
  BY ShrinkKeeps
<1>2. \A x \in plan[g].clean : x[2] \in Producer
  BY <1>0 DEF VictimsType, Cleanup
<1>3. plan[g].wal \subseteq Segment
  BY <1>0 DEF VictimsType
<1>4. \A d \in Differential : Live(d)' => d \in Backup /\ Live(d) /\ RootOf(d)' = RootOf(d)
  BY <1>1 DEF Live, Backup
<1> QED  BY <1>0, <1>1, <1>2, <1>3, <1>4 DEF CollectorSound

LEMMA LateKept ==
  ASSUME RepInv, NEW r \in late, LateArrives(r)
  PROVE  RepInv'
<1> DEFINE c == r.by
           m == r.what
<1>0. /\ RepTypeOK /\ c \in Client /\ handle[c] = "inside" /\ c \in uncertain /\ SentBy(c, m)
      /\ \A g \in Collector : CollectorSound(g)
  BY DEF RepInv, LateSound
<1>1. /\ late' = late \ {r} /\ UNCHANGED <<lock, stage, pick, sent, result, uncertain, catalog, plan>>
      /\ store' = IF Accepts(m) THEN Effect(m) ELSE store
  BY DEF LateArrives, local
<1>2. CASE c \in Producer
  <2>1. /\ stage[c] # "choose" /\ pick[c] \in Full
        /\ m = <<"commit", c>> => Ready(c) /\ stage[c] \in {"winner", "leave"}
    BY SMTT(30), <1>0, <1>2, DistinctAssumption DEF SentBy
  <2>2. Grow(c) /\ (m # <<"commit", c>> => store'.commit = store.commit)
    <3>1. CASE Accepts(m)
      BY <1>0, <1>1, <1>2, <2>1, <3>1, ProducerGrows
    <3>2. CASE ~Accepts(m)
      BY <1>0, <1>1, <3>2, SameGrows
    <3> QED  BY <3>1, <3>2
  <2>3. store' \in StoreType
    BY <2>2 DEF Grow
  <2>4. RepTypeOK'
    BY <1>0, <1>1, <2>3 DEF RepTypeOK, lock
  <2>5. /\ BackupOf[c] \in Backup /\ ProducerSound(c) /\ Full \subseteq Backup /\ None \notin Backup
        /\ store.commit[BackupOf[c]] = c => stage[c] \in {"winner", "leave"}
    BY <1>2, ProducerFacts
  <2>6. HoldStep(c)
    BY <1>0, <1>1, <2>1, <2>2, <2>5 DEF HoldStep
  <2>7. PicksKept
    BY <1>1 DEF PicksKept
  <2>8. /\ (Complete(c) => Complete(c)') /\ (pick[c] \in Backup /\ FullVerified(pick[c]) => FullVerified(pick[c])')
        /\ store.commit[BackupOf[c]] # None => store'.commit[BackupOf[c]] = store.commit[BackupOf[c]]
    BY <1>1, <1>2, <2>2, <2>5, <2>7, GrowKeeps DEF Committed
  <2>9. (ParentVerified(c) => ParentVerified(c)') /\ (Started(c) => Started(c)')
    BY <1>1, <2>1, <2>2, <2>5, <2>8 DEF ParentVerified, Started, Grow
  <2>10. store.request[BackupOf[c]] = pick[c] => store'.request[BackupOf[c]] = pick[c]
    BY <2>1, <2>2, <2>5 DEF Grow
  <2>11. c \in store.claims => c \in store'.claims
    BY <2>2 DEF Grow
  <2>12. ProducerSound(c)'
    BY <1>1, <2>1, <2>5, <2>8, <2>9, <2>10, <2>11 DEF ProducerSound, lock, AfterRequest, AfterClaim
  <2> QED  BY <1>2, <2>4, <2>6, <2>12, GrowKept
<1>3. CASE c \in Collector
  <2>1. m = <<"plan", c>> \/ Harmless(m)
    BY <1>0, <1>3, DistinctAssumption DEF SentBy
  <2>2. Shrink
    <3>1. CASE Accepts(m)
      BY <1>1, <1>3, <2>1, <3>1, CollectorShrinks
    <3>2. CASE ~Accepts(m)
      BY <1>0, <1>1, <3>2, SameGrows
    <3> QED  BY <3>1, <3>2
  <2>3. store' \in StoreType
    BY <2>2 DEF Shrink
  <2>4. RepTypeOK'
    BY <1>0, <1>1, <2>3 DEF RepTypeOK, lock
  <2>5. OwnerStep(c)
    BY <1>0, <1>1, <2>2 DEF OwnerStep
  <2>6. CollectorSound(c)'
    BY <1>0, <1>1, <1>3, <2>2, StillSound
  <2> QED  BY <1>3, <2>4, <2>5, <2>6, ShrinkKept
<1> QED  BY <1>0, <1>2, <1>3 DEF SentBy

LEMMA RepStarts == Init => RepInv
<1> SUFFICES ASSUME Init  PROVE RepInv
  OBVIOUS
<1> USE DEF Init
<1>0. /\ BackupOf \in [Producer -> Backup] /\ Published \subseteq Producer /\ Full \subseteq Backup
      /\ \A p \in Published : BackupOf[p] \in Full
      /\ \A p, q \in Published : BackupOf[p] = BackupOf[q] => p = q
      /\ None \notin Backup /\ None \notin Producer /\ Parts \in Nat
      /\ Client = Producer \cup Reader \cup Collector
      /\ \A c \in Client \ Producer : c \notin Published
      /\ \A c \in Client : c \in Producer => c \notin Reader /\ c \notin Collector
      /\ \A c \in Client : c \in Reader => c \notin Collector
  BY ProducerAssumption, PartsAssumption, DistinctAssumption DEF Backup, Client
<1>1. /\ \A b \in Backup : store.commit[b] = None \/ store.commit[b] \in Won(b)
      /\ \A b \in Backup : store.request[b] = IF store.commit[b] # None THEN b ELSE None
      /\ \A b \in Backup : Won(b) # {} => store.commit[b] # None
  <2>1. ASSUME NEW b \in Backup  PROVE Won(b) # {} => (CHOOSE p \in Won(b) : TRUE) \in Won(b)
    OBVIOUS
  <2>2. \A b \in Backup : None \notin Won(b)
    BY <1>0 DEF Won
  <2> QED  BY <2>1, <2>2
<1>2. \A b \in Backup : store.commit[b] # None =>
        /\ store.commit[b] \in Published /\ BackupOf[store.commit[b]] = b /\ b \in Full
        /\ pick[store.commit[b]] = b /\ stage[store.commit[b]] = "leave"
  BY SMTT(30), <1>0, <1>1 DEF Won
<1>3. store \in StoreType
  <2>1. /\ store.request \in [Backup -> Full \cup {None}] /\ store.commit \in [Backup -> Producer \cup {None}]
    BY <1>0, <1>1, <1>2
  <2>2. Published \X (1..Parts) \in SUBSET (Producer \X Nat)
    BY SMTT(30), <1>0
  <2> QED  BY <1>0, <2>1, <2>2 DEF StoreType
<1>4. RepTypeOK
  <2>1. NoVictims \in VictimsType
    BY DEF NoVictims, VictimsType
  <2>2. stage \in [Client -> Stages]
    BY DEF Stages
  <2>3. pick \in [Producer \cup Reader -> Backup \cup {None}]
    BY <1>0
  <2> QED  BY <1>0, <1>3, <2>1, <2>2, <2>3 DEF RepTypeOK
<1>5. LockSound
  BY <1>0 DEF LockSound
<1>6. WinnersSound /\ FloorSound
  BY <1>0, <1>2 DEF WinnersSound, FloorSound, Committed
<1>7. LiveBackupIntact /\ WalKept
  <2>1. \A p \in Published : Complete(p)
    BY DEF Complete
  <2>2. \A b \in Full : b \notin Differential
    BY DistinctAssumption
  <2> QED  BY <1>1, <1>2, <2>1, <2>2 DEF LiveBackupIntact, Verified, Live, Committed, RootOf, WalKept
<1>8. ASSUME NEW p \in Producer  PROVE ProducerSound(p)
  <2>1. p \in Published => store.commit[BackupOf[p]] = p
    BY SMTT(30), <1>0, <1>1, <1>2 DEF Won
  <2> QED  BY <1>0, <2>1 DEF ProducerSound, AfterRequest, AfterClaim
<1>9. ASSUME NEW r \in Reader  PROVE ReaderSound(r)
  BY <1>0 DEF ReaderSound
<1>10. ASSUME NEW g \in Collector  PROVE CollectorSound(g)
  BY <1>0 DEF CollectorSound
<1> QED  BY <1>4, <1>5, <1>6, <1>7, <1>8, <1>9, <1>10 DEF RepInv, LateSound

LEMMA RepKept ==
  ASSUME RepInv, [Next]_vars
  PROVE  RepInv'
<1>1. CASE UNCHANGED vars
  <2> USE <1>1 DEF vars, local, RepInv
  <2>1. (RepTypeOK /\ LockSound)'
    BY DEF RepTypeOK, LockSound, Present
  <2>2. (WinnersSound /\ FloorSound /\ LiveBackupIntact /\ WalKept)'
    BY DEF WinnersSound, FloorSound, Gone, LiveBackupIntact, WalKept, Live, Committed, Verified, FullVerified,
           RootOf, Complete
  <2>3. \A p \in Producer : ProducerSound(p)'
    BY DEF ProducerSound, Started, Complete, ParentVerified, FullVerified, Live, Committed
  <2>4. \A r \in Reader : ReaderSound(r)'
    BY DEF ReaderSound, Verified, Complete, FullVerified, Live, Committed, RootOf
  <2>5. \A g \in Collector : CollectorSound(g)'
    BY DEF CollectorSound, Live, Committed, RootOf, LiveWinner, Gone
  <2>6. ASSUME NEW c, NEW m, SentBy(c, m)  PROVE SentBy(c, m)'
    <3>1. Ready(c) => Ready(c)'
      BY DEF Ready, Complete, ParentVerified, FullVerified, Started, Live, Committed
    <3>2. Harmless(m) => Harmless(m)'
      BY DEF Harmless, Live, Committed, RootOf, LiveWinner, Gone
    <3> QED  BY <2>6, <3>1, <3>2 DEF SentBy
  <2>7. LateSound'
    BY <2>6 DEF LateSound
  <2> QED  BY <2>1, <2>2, <2>3, <2>4, <2>5, <2>7
<1>2. ASSUME NEW p \in Producer, ProducerStep(p)  PROVE RepInv'
  BY <1>2, ChooseKept, ReadsKept, SendsKept DEF ProducerStep
<1>3. ASSUME NEW g \in Collector, CollectorStep(g)  PROVE RepInv'
  BY <1>3, InventoryKept, DecideKept, PutPlanKept, DestroyKept DEF CollectorStep
<1> QED  BY <1>1, <1>2, <1>3, GateKept, FailKept, SelectKept, LateKept DEF Next

LEMMA RepAlways == Spec => []RepInv
<1>1. RepInv /\ [Next]_vars => RepInv'
  BY RepKept
<1> QED  BY RepStarts, <1>1, PTL DEF Spec

-----------------------------------------------------------------------------
(* Results *)

\* Commit last, retire first: for any number of callbacks, readers, collectors
\* and lost answers, a commit without a retirement has its request, its claim,
\* every object it names, and a full parent of which the same is true (publish,
\* verifyWinner, Execute).
THEOREM RepositoryLiveBackupIntact == Spec => []LiveBackupIntact
<1>1. RepInv => LiveBackupIntact
  BY DEF RepInv
<1> QED  BY <1>1, RepAlways, PTL

\* What a callback reported as the winner of its UID is the durable commit of
\* that UID (begin, publish).
THEOREM RepositoryResultIsCommit == Spec => []ResultIsCommit
<1>1. RepInv => ResultIsCommit
  BY DEF RepInv, ProducerSound, ResultIsCommit
<1> QED  BY <1>1, RepAlways, PTL

\* The backup that an admitted reader selected stays live and whole.
THEOREM RepositorySelectionHeld == Spec => []SelectionHeld
<1>1. RepInv => SelectionHeld
  BY DEF RepInv, ReaderSound, SelectionHeld
<1> QED  BY <1>1, RepAlways, PTL

\* A handle that was given up has nothing under way: Hold.Close and
\* GCOwner.Close refuse while the last mutation is in doubt.
THEOREM RepositoryCleanlyDrained == Spec => []CleanlyDrained
<1>1. RepInv => CleanlyDrained
  BY DEF RepInv, LateSound, CleanlyDrained
<1> QED  BY <1>1, RepAlways, PTL

\* No batch, interrupted or truncated, retires WAL that a live backup starts
\* from, whichever batch limit, positions and victims (run.go, walRetirement).
THEOREM RepositoryWalKept == Spec => []WalKept
<1>1. RepInv => WalKept
  BY DEF RepInv
<1> QED  BY <1>1, RepAlways, PTL
=============================================================================
