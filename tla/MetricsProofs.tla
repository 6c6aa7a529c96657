--------------------------- MODULE MetricsProofs ---------------------------
(***************************************************************************)
(* The failure counter counts no Backup twice, and none that had failed at *)
(* startup, for any number of Backups, Clusters, restarts and faults.      *)
(*                                                                         *)
(* The observation of a Backup is the only memory of what was counted, and *)
(* a deletion erases it.  The argument is about the order of the informer: *)
(* after a deletion it has nothing but deletions to deliver.               *)
(***************************************************************************)
EXTENDS BackupMetrics, TLAPS

\* Most leaves are first-order reasoning; those with arithmetic or records cite SMT.
USE ZenonT(30)

ObjectType == [phase : {"none", "running", "failed", "gone"}, type : {"full", ""}]
EventType == [new : ObjectType, initial : BOOLEAN]
TallyType == [label : Cluster \X Repository, type : {"full"}]

MetTypeOK ==
  /\ up \in BOOLEAN /\ baseline \subseteq Backup
  /\ config \in [Cluster -> Repository \cup {None}]
  /\ object \in [Backup -> ObjectType]
  /\ events \in [Backup -> Seq(EventType)]
  /\ observed \in [Backup -> Observation \cup {None}]
  /\ tally \in [Backup -> Seq(TallyType)]
  /\ queue \subseteq Backup

\* What the worker holds was read from a pending observation.
WorkerSound ==
  \/ worker = Idle
  \/ /\ worker.stage \in {"ask", "settle", "count"}
     /\ worker.uid \in Backup /\ worker.type = "full"
     /\ worker = [stage |-> worker.stage, uid |-> worker.uid, type |-> "full", label |-> worker.label]
     /\ worker.stage \in {"settle", "count"} => worker.label \in Cluster \X Repository

\* A manager that does not run has no memory.
DownSound == ~up =>
  /\ events = [b \in Backup |-> <<>>] /\ observed = [b \in Backup |-> None]
  /\ queue = {} /\ worker = Idle /\ baseline = {}
  /\ tally = [b \in Backup |-> <<>>]

\* A deletion is the last thing that happens to a Backup.
OrderSound(b) ==
  \A i \in 1..Len(events[b]) : events[b][i].new.phase = "gone" =>
    /\ object[b].phase = "gone"
    /\ \A j \in i..Len(events[b]) : events[b][j].new.phase = "gone"

\* The failure was noted, and is not to be counted (any more).
Settled(b) == observed[b] # None /\ observed[b].seenFailure /\ ~observed[b].pending

\* The Backup is forgotten, and the informer has only its deletion to deliver.
Finished(b) ==
  /\ observed[b] = None /\ object[b].phase = "gone"
  /\ \A i \in 1..Len(events[b]) : events[b][i].new.phase = "gone"

Counting(b) == worker.stage = "count" /\ worker.uid = b

\* A Backup that is being counted, or was, is not counted again.
TallySound(b) ==
  /\ Counting(b) => tally[b] = <<>>
  /\ Counting(b) \/ tally[b] # <<>> => Settled(b) \/ Finished(b)
  /\ Len(tally[b]) <= 1
  /\ IsPending(b) => observed[b].seenFailure /\ observed[b].type = "full"

\* The first object the informer delivers of a Backup that had failed says so.
Unread(b) ==
  /\ observed[b] = None /\ object[b].phase # "none"
  /\ events[b] # <<>> /\ Head(events[b]).initial /\ Head(events[b]).new.phase = "failed"

BaselineSound(b) == b \in baseline =>
  /\ tally[b] = <<>> /\ ~Counting(b)
  /\ Unread(b) \/ Settled(b) \/ Finished(b)

MetInv ==
  /\ MetTypeOK /\ WorkerSound /\ DownSound
  /\ \A b \in Backup : OrderSound(b) /\ TallySound(b) /\ BaselineSound(b)
-----------------------------------------------------------------------------
(* Steps *)

BackupSound(b) == OrderSound(b) /\ TallySound(b) /\ BaselineSound(b)

\* A Backup that a step does not touch keeps what holds of it.
LEMMA BackupStill ==
  ASSUME MetInv, NEW c \in Backup, baseline' = baseline,
         object'[c] = object[c], events'[c] = events[c], observed'[c] = observed[c], tally'[c] = tally[c],
         Counting(c)' => Counting(c)
  PROVE  BackupSound(c)'
<1>0. OrderSound(c) /\ TallySound(c) /\ BaselineSound(c)
  BY DEF MetInv
<1>1. OrderSound(c)'
  BY <1>0 DEF OrderSound
<1>2. /\ Settled(c)' <=> Settled(c)
      /\ Finished(c)' <=> Finished(c)
      /\ Unread(c)' <=> Unread(c)
      /\ IsPending(c)' <=> IsPending(c)
  BY DEF Settled, Finished, Unread, IsPending
<1>3. TallySound(c)'
  BY <1>0, <1>2 DEF TallySound
<1>4. BaselineSound(c)'
  BY <1>0, <1>2 DEF BaselineSound
<1> QED
  BY <1>1, <1>3, <1>4 DEF BackupSound

\* Appending to a sequence keeps what is there and adds one element at the end.
LEMMA AppendIs ==
  ASSUME NEW S, NEW q \in Seq(S), NEW x \in S
  PROVE  /\ Len(Append(q, x)) = Len(q) + 1
         /\ \A i \in 1..Len(q) : Append(q, x)[i] = q[i]
         /\ Append(q, x)[Len(q) + 1] = x
         /\ Append(q, x) # <<>>
         /\ q # <<>> => Head(Append(q, x)) = Head(q)
<1>1. /\ Len(Append(q, x)) = Len(q) + 1
      /\ Append(q, x)[Len(q) + 1] = x
  BY SMTT(30)
<1>2. \A i \in 1..Len(q) : Append(q, x)[i] = q[i]
  BY SMTT(30)
<1>3. Append(q, x) # <<>>
  <2>1. Len(<<>>) = 0 /\ Len(q) + 1 # 0
    BY SMTT(30)
  <2> QED
    BY <1>1, <2>1
<1>4. q # <<>> => Head(Append(q, x)) = Head(q)
  BY SMTT(30)
<1> QED
  BY <1>1, <1>2, <1>3, <1>4

\* A Backup is created, fails, is edited or deleted: the informer has one more
\* object to deliver, and none of it said "gone" before.
LEMMA ChangeKept ==
  ASSUME MetInv, NEW b \in Backup, NEW o \in ObjectType, Change(b, o),
         object[b].phase # "gone", o.phase # "none"
  PROVE  MetInv'
<1>0. /\ UNCHANGED <<up, config, baseline, tally, observed, queue, worker>>
      /\ object' = [object EXCEPT ![b] = o]
      /\ events' = IF up THEN [events EXCEPT ![b] = Append(@, [new |-> o, initial |-> FALSE])] ELSE events
  BY DEF Change, observer
<1>1. /\ object \in [Backup -> ObjectType] /\ events \in [Backup -> Seq(EventType)]
      /\ events[b] \in Seq(EventType) /\ Len(events[b]) \in Nat
      /\ OrderSound(b) /\ TallySound(b) /\ BaselineSound(b) /\ DownSound
  BY SMTT(30) DEF MetInv, MetTypeOK
<1> DEFINE e == [new |-> o, initial |-> FALSE]
<1>2. e \in EventType /\ e.new = o
  BY DEF EventType
<1> HIDE DEF e
<1>3. object' \in [Backup -> ObjectType] /\ object'[b] = o /\ \A c \in Backup \ {b} : object'[c] = object[c]
  BY <1>0, <1>1
<1>4. events' \in [Backup -> Seq(EventType)] /\ \A c \in Backup \ {b} : events'[c] = events[c]
  BY SMTT(30), <1>0, <1>1, <1>2 DEF e
<1>5. events'[b] = events[b] \/ events'[b] = Append(events[b], e)
  BY <1>0, <1>1 DEF e
<1>6. MetTypeOK'
  BY <1>0, <1>3, <1>4 DEF MetInv, MetTypeOK
<1>7. WorkerSound' /\ DownSound'
  BY <1>0, <1>1 DEF MetInv, WorkerSound, DownSound
<1>8. \A i \in 1..Len(events[b]) : events[b][i].new.phase # "gone"
  BY <1>1 DEF OrderSound
<1>9. /\ \A i \in 1..Len(events[b]) : events'[b][i] = events[b][i]
      /\ Len(events'[b]) \in {Len(events[b]), Len(events[b]) + 1}
      /\ Len(events'[b]) = Len(events[b]) + 1 => events'[b][Len(events[b]) + 1] = e
      /\ events[b] # <<>> => events'[b] # <<>> /\ Head(events'[b]) = Head(events[b])
  <2>1. CASE events'[b] = events[b]
    <3>1. Len(events[b]) # Len(events[b]) + 1
      BY SMTT(30), <1>1
    <3> QED
      BY <2>1, <3>1
  <2>2. CASE events'[b] = Append(events[b], e)
    <3> DEFINE q == events[b]
    <3>1. /\ Len(Append(q, e)) = Len(q) + 1
          /\ \A i \in 1..Len(q) : Append(q, e)[i] = q[i]
          /\ Append(q, e)[Len(q) + 1] = e
          /\ Append(q, e) # <<>>
          /\ q # <<>> => Head(Append(q, e)) = Head(q)
      BY <1>1, <1>2, AppendIs
    <3> QED
      BY <2>2, <3>1
  <2> QED
    BY <1>5, <2>1, <2>2
<1>10. OrderSound(b)'
  <2> SUFFICES ASSUME NEW i \in 1..Len(events'[b]), events'[b][i].new.phase = "gone"
               PROVE  /\ object'[b].phase = "gone"
                      /\ \A j \in i..Len(events'[b]) : events'[b][j].new.phase = "gone"
    BY DEF OrderSound
  <2>1. i \notin 1..Len(events[b])
    BY <1>8, <1>9
  <2>2. i = Len(events[b]) + 1 /\ Len(events'[b]) = Len(events[b]) + 1
    BY SMTT(30), <1>1, <1>9, <2>1
  <2>3. events'[b][i] = e /\ \A j \in i..Len(events'[b]) : j = i
    BY SMTT(30), <1>1, <1>9, <2>2
  <2> QED
    BY <1>2, <1>3, <2>3
<1>11. ~Finished(b) /\ (Settled(b)' <=> Settled(b)) /\ (IsPending(b)' <=> IsPending(b)) /\ (Counting(b)' <=> Counting(b))
  BY <1>0 DEF Finished, Settled, IsPending, Counting
<1>12. TallySound(b)'
  BY <1>0, <1>1, <1>11 DEF TallySound
<1>13. BaselineSound(b)'
  BY <1>0, <1>1, <1>3, <1>9, <1>11 DEF BaselineSound, Unread
<1>14. ASSUME NEW c \in Backup, c # b PROVE BackupSound(c)'
  BY <1>0, <1>3, <1>4, <1>14, BackupStill DEF Counting
<1> QED
  BY <1>6, <1>7, <1>10, <1>12, <1>13, <1>14 DEF MetInv, BackupSound

LEMMA ObjectKept ==
  ASSUME MetInv, NEW b \in Backup, Create(b) \/ FailBackup(b) \/ EditType(b) \/ DeleteBackup(b)
  PROVE  MetInv'
<1>0. object[b] \in ObjectType
  BY DEF MetInv, MetTypeOK
<1>1. CASE Create(b)
  BY <1>0, <1>1, ChangeKept DEF Create, ObjectType
<1>2. CASE FailBackup(b)
  BY <1>0, <1>2, ChangeKept DEF FailBackup, ObjectType
<1>3. CASE EditType(b)
  BY <1>0, <1>3, ChangeKept DEF EditType, Exists, ObjectType
<1>4. CASE DeleteBackup(b)
  BY <1>0, <1>4, ChangeKept DEF DeleteBackup, Exists, ObjectType
<1> QED
  BY <1>1, <1>2, <1>3, <1>4

\* What observe notes of one object: a failure that was noted stays noted, and one
\* is pending only when it is new, later than the first list, and of a known type.
LEMMA ObserveNotes ==
  ASSUME MetInv, NEW b \in Backup, NEW o \in ObjectType, NEW initial \in BOOLEAN, Observe(b, o, initial)
  PROVE  /\ observed' \in [Backup -> Observation \cup {None}] /\ observed'[b] \in Observation
         /\ \A c \in Backup \ {b} : observed'[c] = observed[c]
         /\ queue' \subseteq Backup
         /\ Settled(b) => Settled(b)'
         /\ observed[b] = None /\ o.phase = "failed" /\ initial => Settled(b)'
         /\ IsPending(b)' => observed'[b].seenFailure /\ observed'[b].type = "full"
<1> DEFINE state == IF observed[b] = None THEN Unobserved ELSE observed[b]
           first == o.phase = "failed" /\ ~state.seenFailure
           notify == first /\ ~initial /\ o.type # ""
           new == [type |-> IF state.seenFailure THEN state.type ELSE o.type,
                   seenFailure |-> state.seenFailure \/ first, pending |-> state.pending \/ notify]
<1>0. /\ observed \in [Backup -> Observation \cup {None}] /\ TallySound(b)
      /\ observed' = [observed EXCEPT ![b] = new]
      /\ queue' = (IF notify THEN queue \cup {b} ELSE queue) /\ queue \subseteq Backup
      /\ o.type \in {"full", ""}
  BY DEF MetInv, MetTypeOK, Observe, ObjectType
<1>1. /\ state.seenFailure \in BOOLEAN /\ state.pending \in BOOLEAN
      /\ state.seenFailure => observed[b] # None /\ state.type \in {"full", ""}
      /\ state.pending => state.seenFailure /\ state.type = "full"
  BY <1>0 DEF Unobserved, Observation, TallySound, IsPending
<1>2. /\ Settled(b) => state.seenFailure /\ ~state.pending
      /\ observed[b] = None => ~state.seenFailure /\ ~state.pending
  BY DEF Settled, Unobserved
<1> HIDE DEF state
<1>3. new \in Observation
  BY <1>0, <1>1 DEF Observation
<1>4. new # None
  BY <1>3, ClusterAssumption
<1>5. /\ new.seenFailure = (state.seenFailure \/ first) /\ new.pending = (state.pending \/ notify)
      /\ new.type = IF state.seenFailure THEN state.type ELSE o.type
  OBVIOUS
<1>6. /\ observed' \in [Backup -> Observation \cup {None}] /\ observed'[b] = new
      /\ \A c \in Backup \ {b} : observed'[c] = observed[c]
  BY <1>0, <1>3
<1>7. Settled(b) => Settled(b)'
  BY <1>2, <1>4, <1>5, <1>6 DEF Settled
<1>8. observed[b] = None /\ o.phase = "failed" /\ initial => Settled(b)'
  BY <1>2, <1>4, <1>5, <1>6 DEF Settled
<1>9. IsPending(b)' => observed'[b].seenFailure /\ observed'[b].type = "full"
  BY <1>0, <1>1, <1>5, <1>6 DEF IsPending
<1> QED
  BY <1>0, <1>3, <1>6, <1>7, <1>8, <1>9

\* The events that are left after one was delivered.
LEMMA TailShifts ==
  ASSUME NEW s \in Seq(EventType), s # <<>>
  PROVE  /\ Tail(s) \in Seq(EventType) /\ Len(Tail(s)) = Len(s) - 1 /\ Len(s) \in Nat /\ Len(s) >= 1
         /\ Head(s) = s[1] /\ Head(s) \in EventType
         /\ \A i \in 1..Len(Tail(s)) : Tail(s)[i] = s[i + 1]
BY SMTT(30)

LEMMA DeliverKept ==
  ASSUME MetInv, NEW b \in Backup, Deliver(b)
  PROVE  MetInv'
<1> DEFINE e == Head(events[b])
<1>0. /\ UNCHANGED <<up, config, object, baseline, worker, tally>>
      /\ events[b] # <<>> /\ events' = [events EXCEPT ![b] = Tail(@)]
      /\ IF e.new.phase = "gone" THEN Deleted(b) ELSE Observe(b, e.new, e.initial)
  BY DEF Deliver, cluster
<1>1. /\ events \in [Backup -> Seq(EventType)] /\ events[b] \in Seq(EventType)
      /\ observed \in [Backup -> Observation \cup {None}]
      /\ OrderSound(b) /\ TallySound(b) /\ BaselineSound(b) /\ DownSound
  BY DEF MetInv, MetTypeOK
<1>2. /\ events' \in [Backup -> Seq(EventType)] /\ events'[b] = Tail(events[b])
      /\ \A c \in Backup \ {b} : events'[c] = events[c]
  BY <1>0, <1>1, TailShifts
<1>3. /\ Len(events'[b]) = Len(events[b]) - 1 /\ Len(events[b]) \in Nat /\ Len(events[b]) >= 1
      /\ e = events[b][1] /\ e \in EventType
      /\ \A i \in 1..Len(events'[b]) : events'[b][i] = events[b][i + 1]
  BY <1>0, <1>1, <1>2, TailShifts
<1>4. up
  BY <1>0, <1>1 DEF DownSound
<1>5. WorkerSound' /\ DownSound'
  BY <1>0, <1>4 DEF MetInv, WorkerSound, DownSound
<1>6. OrderSound(b)'
  <2> SUFFICES ASSUME NEW i \in 1..Len(events'[b]), events'[b][i].new.phase = "gone"
               PROVE  /\ object[b].phase = "gone"
                      /\ \A j \in i..Len(events'[b]) : events'[b][j].new.phase = "gone"
    BY <1>0 DEF OrderSound
  <2>1. i + 1 \in 1..Len(events[b]) /\ events[b][i + 1].new.phase = "gone"
    BY SMTT(30), <1>3
  <2>2. object[b].phase = "gone" /\ \A j \in (i + 1)..Len(events[b]) : events[b][j].new.phase = "gone"
    BY <1>1, <2>1 DEF OrderSound
  <2>3. ASSUME NEW j \in i..Len(events'[b]) PROVE events'[b][j].new.phase = "gone"
    <3>1. j + 1 \in (i + 1)..Len(events[b]) /\ j \in 1..Len(events'[b])
      BY SMTT(30), <1>3
    <3> QED
      BY <1>3, <2>2, <3>1
  <2> QED
    BY <2>2, <2>3
<1>7. Counting(b)' <=> Counting(b)
  BY <1>0 DEF Counting
<1> HIDE DEF e
<1>8. CASE e.new.phase = "gone"
  <2>1. /\ observed' \in [Backup -> Observation \cup {None}] /\ observed'[b] = None /\ queue' = queue
        /\ \A c \in Backup \ {b} : observed'[c] = observed[c]
    BY <1>0, <1>1, <1>8 DEF Deleted
  <2>2. object[b].phase = "gone" /\ \A j \in 1..Len(events[b]) : events[b][j].new.phase = "gone"
    BY SMTT(30), <1>1, <1>3, <1>8 DEF OrderSound
  <2>3. \A i \in 1..Len(events'[b]) : events'[b][i].new.phase = "gone"
    <3> SUFFICES ASSUME NEW i \in 1..Len(events'[b]) PROVE events'[b][i].new.phase = "gone"
      OBVIOUS
    <3>1. i + 1 \in 1..Len(events[b])
      BY SMTT(30), <1>3
    <3> QED
      BY <1>3, <2>2, <3>1
  <2>4. Finished(b)'
    BY <1>0, <2>1, <2>2, <2>3 DEF Finished
  <2>5. TallySound(b)' /\ BaselineSound(b)'
    BY <1>0, <1>1, <1>7, <2>1, <2>4 DEF TallySound, BaselineSound, IsPending
  <2>6. ASSUME NEW c \in Backup, c # b PROVE BackupSound(c)'
    BY <1>0, <1>2, <2>1, <2>6, BackupStill DEF Counting
  <2>7. MetTypeOK'
    BY <1>0, <1>2, <2>1 DEF MetInv, MetTypeOK
  <2> QED
    BY <1>5, <1>6, <2>5, <2>6, <2>7 DEF MetInv, BackupSound
<1>9. CASE e.new.phase # "gone"
  <2>0. e.new \in ObjectType /\ e.initial \in BOOLEAN /\ Observe(b, e.new, e.initial)
    BY <1>0, <1>3, <1>9 DEF EventType
  <2>1. /\ observed' \in [Backup -> Observation \cup {None}]
        /\ \A c \in Backup \ {b} : observed'[c] = observed[c]
        /\ queue' \subseteq Backup
        /\ Settled(b) => Settled(b)'
        /\ observed[b] = None /\ e.new.phase = "failed" /\ e.initial => Settled(b)'
        /\ IsPending(b)' => observed'[b].seenFailure /\ observed'[b].type = "full"
    BY <2>0, ObserveNotes
  <2>2. ~Finished(b)
    BY SMTT(30), <1>3, <1>9 DEF Finished
  <2>3. TallySound(b)'
    BY <1>0, <1>1, <1>7, <2>1, <2>2 DEF TallySound
  <2>4. BaselineSound(b)'
    BY <1>0, <1>1, <1>7, <2>1, <2>2 DEF BaselineSound, Unread, e
  <2>5. ASSUME NEW c \in Backup, c # b PROVE BackupSound(c)'
    BY <1>0, <1>2, <2>1, <2>5, BackupStill DEF Counting
  <2>6. MetTypeOK'
    BY <1>0, <1>2, <2>1 DEF MetInv, MetTypeOK
  <2> QED
    BY <1>5, <1>6, <2>3, <2>4, <2>5, <2>6 DEF MetInv, BackupSound
<1> QED
  BY <1>8, <1>9

\* A step of the worker that neither starts to count nor counts.
LEMMA WorkerKept ==
  ASSUME MetInv, up, UNCHANGED <<up, config, object, events, baseline, observed, tally>>,
         queue' \subseteq Backup, WorkerSound', worker'.stage # "count"
  PROVE  MetInv'
<1>1. MetTypeOK' /\ DownSound'
  BY DEF MetInv, MetTypeOK, DownSound
<1>2. ASSUME NEW c \in Backup PROVE BackupSound(c)'
  BY BackupStill DEF Counting
<1> QED
  BY <1>1, <1>2 DEF MetInv, BackupSound

LEMMA IdleSound == Idle.stage = "idle" /\ Idle.uid = None
BY DEF Idle

LEMMA AskKept ==
  ASSUME MetInv, (\E b \in Backup : Take(b)) \/ AskFails \/ Ask
  PROVE  MetInv'
<1>0. queue \subseteq Backup /\ WorkerSound /\ DownSound /\ config \in [Cluster -> Repository \cup {None}]
  BY DEF MetInv, MetTypeOK
<1>1. CASE \E b \in Backup : Take(b)
  <2>1. PICK b \in Backup : Take(b)
    BY <1>1
  <2>2. up
    BY <1>0, <2>1 DEF Take, DownSound
  <2>3. IsPending(b) => observed[b].type = "full"
    BY DEF MetInv, TallySound
  <2>4. WorkerSound' /\ worker'.stage # "count"
    <3>1. CASE IsPending(b)
      <4>1. worker' = [stage |-> "ask", uid |-> b, type |-> "full", label |-> None]
        BY <2>1, <2>3, <3>1 DEF Take, Idle
      <4> QED
        BY <4>1 DEF WorkerSound
    <3>2. CASE ~IsPending(b)
      BY <2>1, <3>2, IdleSound DEF Take, WorkerSound
    <3> QED
      BY <3>1, <3>2
  <2> QED
    BY <1>0, <2>1, <2>2, <2>4, WorkerKept DEF Take, cluster, informer
<1>2. CASE AskFails
  <2>1. worker # Idle /\ worker.uid \in Backup
    BY <1>0, <1>2, IdleSound DEF AskFails, WorkerSound
  <2>2. up
    BY <1>0, <2>1 DEF DownSound
  <2>3. worker' = Idle /\ queue' = queue \cup {worker.uid}
    BY <1>2 DEF AskFails
  <2>4. WorkerSound' /\ worker'.stage # "count"
    BY <2>3, IdleSound DEF WorkerSound
  <2> QED
    BY <1>0, <1>2, <2>1, <2>2, <2>3, <2>4, WorkerKept DEF AskFails, cluster, informer
<1>3. CASE Ask
  <2>1. /\ worker # Idle /\ worker.uid \in Backup
        /\ worker = [stage |-> worker.stage, uid |-> worker.uid, type |-> "full", label |-> worker.label]
    BY <1>0, <1>3, IdleSound DEF Ask, WorkerSound
  <2>2. up
    BY <1>0, <2>1 DEF DownSound
  <2> DEFINE l == <<ClusterOf[worker.uid], config[ClusterOf[worker.uid]]>>
  <2>3. l \in Cluster \X Repository
    BY <1>0, <1>3, <2>1, ClusterAssumption DEF Ask
  <2>4. worker' = [stage |-> "settle", uid |-> worker.uid, type |-> "full", label |-> l]
    <3>1. worker' = [worker EXCEPT !.stage = "settle", !.label = l]
      BY <1>3 DEF Ask
    <3> HIDE DEF l
    <3>2. PICK u, x : worker = [stage |-> "ask", uid |-> u, type |-> "full", label |-> x]
      BY <1>3, <2>1 DEF Ask
    <3>3. worker' = [stage |-> "settle", uid |-> u, type |-> "full", label |-> l]
      BY <3>1, <3>2
    <3> QED
      BY <3>2, <3>3
  <2> HIDE DEF l
  <2>5. WorkerSound' /\ worker'.stage # "count"
    BY <2>1, <2>3, <2>4 DEF WorkerSound
  <2> QED
    BY <1>0, <1>3, <2>2, <2>5, WorkerKept DEF Ask, cluster, informer
<1> QED
  BY <1>1, <1>2, <1>3

\* The second look: what is pending is settled before it is counted.
LEMMA SettleKept ==
  ASSUME MetInv, Settle
  PROVE  MetInv'
<1>0. /\ WorkerSound /\ DownSound /\ worker.stage = "settle"
      /\ UNCHANGED <<up, config, object, events, baseline, queue, tally>>
      /\ observed \in [Backup -> Observation \cup {None}] /\ queue \subseteq Backup
  BY DEF MetInv, MetTypeOK, Settle, cluster, informer
<1>1. PICK b \in Backup :
        /\ worker # Idle /\ worker.uid = b /\ worker.label \in Cluster \X Repository
        /\ worker = [stage |-> "settle", uid |-> b, type |-> "full", label |-> worker.label]
  BY <1>0, IdleSound DEF WorkerSound
<1>2. up
  BY <1>0, <1>1 DEF DownSound
<1>3. CASE ~IsPending(b)
  <2>1. worker' = Idle /\ UNCHANGED observed
    BY <1>1, <1>3 DEF Settle
  <2>2. WorkerSound' /\ worker'.stage # "count"
    BY <2>1, IdleSound DEF WorkerSound
  <2> QED
    BY <1>0, <1>2, <2>1, <2>2, WorkerKept
<1>4. CASE IsPending(b)
  <2>0. observed[b] \in Observation /\ observed[b].pending /\ observed[b].seenFailure
        /\ TallySound(b) /\ BaselineSound(b) /\ OrderSound(b)
    BY <1>0, <1>1, <1>4 DEF IsPending, MetInv, TallySound
  <2> DEFINE new == [observed[b] EXCEPT !.pending = FALSE]
  <2>1. new \in Observation /\ new.seenFailure /\ ~new.pending
    BY <2>0 DEF Observation
  <2>2. observed' = [observed EXCEPT ![b] = new] /\ worker' = [worker EXCEPT !.stage = "count"]
    BY <1>1, <1>4 DEF Settle
  <2> HIDE DEF new
  <2>3. /\ observed' \in [Backup -> Observation \cup {None}] /\ observed'[b] = new
        /\ \A c \in Backup \ {b} : observed'[c] = observed[c]
    BY <1>0, <1>1, <2>1, <2>2
  <2>4. worker' = [stage |-> "count", uid |-> b, type |-> "full", label |-> worker.label]
    BY SMTT(30), <1>1, <2>2
  <2>5. new # None
    BY <2>1, ClusterAssumption
  <2>6. Settled(b)' /\ ~IsPending(b)'
    BY <2>1, <2>3, <2>5 DEF Settled, IsPending
  <2>7. ~Settled(b) /\ ~Finished(b) /\ ~Unread(b)
    BY <1>4 DEF Settled, Finished, Unread, IsPending
  <2>8. TallySound(b)'
    BY <1>0, <2>0, <2>6, <2>7 DEF TallySound
  <2>9. BaselineSound(b)' /\ OrderSound(b)'
    BY <1>0, <2>0, <2>7 DEF BaselineSound, OrderSound
  <2>10. ASSUME NEW c \in Backup, c # b PROVE BackupSound(c)'
    BY <1>0, <2>3, <2>4, <2>10, BackupStill DEF Counting
  <2>11. WorkerSound'
    BY <1>1, <2>4 DEF WorkerSound
  <2>12. MetTypeOK' /\ DownSound'
    BY <1>0, <1>2, <2>3 DEF MetInv, MetTypeOK, DownSound
  <2> QED
    BY <2>8, <2>9, <2>10, <2>11, <2>12 DEF MetInv, BackupSound
<1> QED
  BY <1>3, <1>4

LEMMA CountKept ==
  ASSUME MetInv, Count
  PROVE  MetInv'
<1>0. /\ WorkerSound /\ DownSound /\ worker.stage = "count" /\ worker' = Idle
      /\ UNCHANGED <<up, config, object, events, baseline, observed, queue>>
      /\ tally' = [tally EXCEPT ![worker.uid] = Append(@, [label |-> worker.label, type |-> worker.type])]
      /\ tally \in [Backup -> Seq(TallyType)]
  BY DEF MetInv, MetTypeOK, Count, cluster, informer
<1>1. PICK b \in Backup :
        worker # Idle /\ worker.uid = b /\ worker.label \in Cluster \X Repository /\ worker.type = "full"
  BY <1>0, IdleSound DEF WorkerSound
<1> DEFINE entry == [label |-> worker.label, type |-> worker.type]
<1>2. up
  BY <1>0, <1>1 DEF DownSound
<1>3. entry \in TallyType
  BY <1>1 DEF TallyType
<1>4. Counting(b) /\ TallySound(b) /\ BaselineSound(b) /\ OrderSound(b)
  BY <1>0, <1>1 DEF Counting, MetInv
<1>5. tally[b] = <<>> /\ (Settled(b) \/ Finished(b)) /\ b \notin baseline
  BY <1>4 DEF TallySound, BaselineSound
<1>6. /\ tally' \in [Backup -> Seq(TallyType)] /\ tally'[b] = Append(tally[b], entry)
      /\ \A c \in Backup \ {b} : tally'[c] = tally[c]
  BY SMTT(30), <1>0, <1>1, <1>3
<1>7. Len(tally'[b]) = 1
  BY SMTT(30), <1>5, <1>6
<1>8. worker'.stage # "count"
  BY <1>0, IdleSound
<1>9. (Settled(b) <=> Settled(b)') /\ (Finished(b) <=> Finished(b)') /\ (IsPending(b) <=> IsPending(b)')
  BY <1>0 DEF Settled, Finished, IsPending
<1>10. TallySound(b)' /\ BaselineSound(b)' /\ OrderSound(b)'
  <2>1. IsPending(b) => observed[b].seenFailure /\ observed[b].type = "full"
    BY <1>4 DEF TallySound
  <2> QED
    BY SMTT(30), <1>0, <1>4, <1>5, <1>7, <1>8, <1>9, <2>1 DEF TallySound, BaselineSound, OrderSound, Counting
<1>11. ASSUME NEW c \in Backup, c # b PROVE BackupSound(c)'
  BY <1>0, <1>6, <1>8, <1>11, BackupStill DEF Counting
<1>12. MetTypeOK' /\ WorkerSound' /\ DownSound'
  BY <1>0, <1>2, <1>6 DEF MetInv, MetTypeOK, WorkerSound, DownSound
<1> QED
  BY <1>10, <1>11, <1>12 DEF MetInv, BackupSound
-----------------------------------------------------------------------------
(* The manager's life, the list that replaces a watch, and the history *)

LEMMA ListAppends ==
  ASSUME NEW x \in EventType, NEW y \in EventType
  PROVE  /\ Append(<<>>, y) \in Seq(EventType) /\ Len(Append(<<>>, y)) = 1 /\ Append(<<>>, y)[1] = y
         /\ Append(<<x>>, y) \in Seq(EventType) /\ Len(Append(<<x>>, y)) = 2
         /\ Append(<<x>>, y)[1] = x /\ Append(<<x>>, y)[2] = y
         /\ Append(<<x>>, y) # <<>> /\ Head(Append(<<x>>, y)) = x
<1>1. <<x>> \in Seq(EventType) /\ Len(<<x>>) = 1 /\ <<x>>[1] = x
  BY SMTT(30)
<1>2. <<>> \in Seq(EventType) /\ Len(<<>>) = 0
  BY SMTT(30)
<1>3. /\ Append(<<x>>, y) \in Seq(EventType) /\ Len(Append(<<x>>, y)) = 2
      /\ Append(<<x>>, y)[1] = x /\ Append(<<x>>, y)[2] = y
  BY SMTT(30), <1>1
<1>4. Append(<<>>, y) \in Seq(EventType) /\ Len(Append(<<>>, y)) = 1 /\ Append(<<>>, y)[1] = y
  BY SMTT(30), <1>2
<1>5. Append(<<x>>, y) # <<>> /\ Head(Append(<<x>>, y)) = x
  BY SMTT(30), <1>3
<1> QED
  BY <1>3, <1>4, <1>5

\* An index into a sequence of at most two.
LEMMA TwoAtMost ==
  ASSUME NEW n, n = 0 \/ n = 1 \/ n = 2, NEW i \in 1..n
  PROVE  /\ (i = 1 \/ i = 2) /\ (i = 2 => n = 2)
         /\ \A j \in i..n : j = i \/ (j = 2 /\ n = 2)
<1>1. CASE n = 0
  BY SMTT(30), <1>1
<1>2. CASE n = 1
  BY SMTT(30), <1>2
<1>3. CASE n = 2
  BY SMTT(30), <1>3
<1> QED
  BY <1>1, <1>2, <1>3

LEMMA RelistKept ==
  ASSUME MetInv, Relist
  PROVE  MetInv'
<1> DEFINE first(b) == IF events[b] # <<>> /\ Head(events[b]).initial THEN <<Head(events[b])>> ELSE <<>>
           after(b) == IF object[b].phase = "none" THEN <<>>
                       ELSE Append(first(b), [new |-> object[b], initial |-> FALSE])
<1>0. /\ UNCHANGED <<up, config, object, baseline, observed, queue, worker, tally>> /\ up
      /\ events' = [b \in Backup |-> after(b)]
      /\ events \in [Backup -> Seq(EventType)] /\ object \in [Backup -> ObjectType]
  BY DEF Relist, cluster, observer, MetInv, MetTypeOK
<1>1. ASSUME NEW b \in Backup
      PROVE  /\ after(b) \in Seq(EventType) /\ BackupSound(b)'
  <2> DEFINE last == [new |-> object[b], initial |-> FALSE]
  <2>1. OrderSound(b) /\ TallySound(b) /\ BaselineSound(b) /\ events[b] \in Seq(EventType)
    BY <1>0 DEF MetInv
  <2>2. last \in EventType /\ last.new = object[b]
    BY <1>0 DEF EventType
  <2>3. \/ first(b) = <<>>
        \/ /\ events[b] # <<>> /\ Head(events[b]) = events[b][1] /\ 1 \in 1..Len(events[b])
           /\ Head(events[b]) \in EventType /\ first(b) = <<Head(events[b])>>
    BY SMTT(30), <2>1
  <2>4. events'[b] = after(b) /\ after(b) = (IF object[b].phase = "none" THEN <<>> ELSE Append(first(b), last))
    BY <1>0
  <2>5. events[b] # <<>> /\ Head(events[b]).initial => first(b) = <<Head(events[b])>>
    OBVIOUS
  <2> HIDE DEF first, last, after
  <2>6. /\ after(b) \in Seq(EventType)
        /\ \/ object[b].phase = "none" /\ Len(after(b)) = 0
           \/ Len(after(b)) = 1 /\ after(b)[1] = last
           \/ /\ Len(after(b)) = 2 /\ after(b)[2] = last
              /\ 1 \in 1..Len(events[b]) /\ after(b)[1] = events[b][1]
        /\ first(b) # <<>> /\ object[b].phase # "none" => after(b) # <<>> /\ Head(after(b)) = Head(events[b])
    <3>1. CASE object[b].phase = "none"
      BY SMTT(30), <2>4, <3>1
    <3>2. CASE object[b].phase # "none" /\ first(b) = <<>>
      BY SMTT(30), <2>2, <2>4, <3>2, ListAppends
    <3>3. CASE object[b].phase # "none" /\ first(b) # <<>>
      <4>1. after(b) = Append(<<Head(events[b])>>, last) /\ Head(events[b]) \in EventType
        BY <2>3, <2>4, <3>3
      <4>2. /\ after(b) \in Seq(EventType) /\ Len(after(b)) = 2 /\ after(b)[2] = last
            /\ after(b)[1] = Head(events[b]) /\ after(b) # <<>> /\ Head(after(b)) = Head(events[b])
        BY SMTT(30), <2>2, <4>1, ListAppends
      <4> QED
        BY <2>3, <3>3, <4>2
    <3> QED
      BY <3>1, <3>2, <3>3
  <2>7. Len(after(b)) = 0 \/ Len(after(b)) = 1 \/ Len(after(b)) = 2
    BY <2>6
  <2>8. 1 \in 1..Len(events[b]) /\ events[b][1].new.phase = "gone" => object[b].phase = "gone"
    BY <2>1 DEF OrderSound
  <2>9. OrderSound(b)'
    <3> SUFFICES ASSUME NEW i \in 1..Len(after(b)), after(b)[i].new.phase = "gone"
                 PROVE  /\ object[b].phase = "gone"
                        /\ \A j \in i..Len(after(b)) : after(b)[j].new.phase = "gone"
      BY <1>0, <2>4 DEF OrderSound
    <3>1. object[b].phase = "gone"
      BY SMTT(30), <2>2, <2>6, <2>8
    <3>2. ASSUME NEW j \in i..Len(after(b)) PROVE after(b)[j].new.phase = "gone"
      <4>1. (i = 1 \/ i = 2) /\ (j = i \/ (j = 2 /\ Len(after(b)) = 2))
        BY <2>7, <3>2, TwoAtMost
      <4> QED
        BY <2>2, <2>6, <3>1, <4>1
    <3> QED
      BY <3>1, <3>2
  <2>10. /\ Counting(b)' <=> Counting(b)
         /\ Settled(b)' <=> Settled(b)
         /\ IsPending(b)' <=> IsPending(b)
    BY <1>0 DEF Settled, IsPending, Counting
  <2>11. Finished(b) => Finished(b)'
    <3> SUFFICES ASSUME Finished(b) PROVE Finished(b)'
      OBVIOUS
    <3>1. /\ object[b].phase = "gone" /\ observed[b] = None
          /\ \A i \in 1..Len(events[b]) : events[b][i].new.phase = "gone"
      BY DEF Finished
    <3>2. ASSUME NEW i \in 1..Len(after(b)) PROVE after(b)[i].new.phase = "gone"
      <4>1. (i = 1 \/ i = 2) /\ (i = 2 => Len(after(b)) = 2)
        BY <2>7, <3>2, TwoAtMost
      <4> QED
        BY <2>2, <2>6, <3>1, <4>1
    <3> QED
      BY <1>0, <2>4, <3>1, <3>2 DEF Finished
  <2>12. Unread(b) => Unread(b)'
    <3> SUFFICES ASSUME Unread(b) PROVE Unread(b)'
      OBVIOUS
    <3>1. first(b) # <<>> /\ object[b].phase # "none"
      BY SMTT(30), <2>5 DEF Unread
    <3> QED
      BY <1>0, <2>4, <2>6, <3>1 DEF Unread
  <2>13. TallySound(b)'
    BY <1>0, <2>1, <2>10, <2>11 DEF TallySound
  <2>14. BaselineSound(b)'
    BY <1>0, <2>1, <2>10, <2>11, <2>12 DEF BaselineSound
  <2> QED
    BY <2>6, <2>9, <2>13, <2>14 DEF BackupSound
<1>2. events' \in [Backup -> Seq(EventType)]
  BY <1>0, <1>1
<1>3. MetTypeOK' /\ WorkerSound' /\ DownSound'
  BY <1>0, <1>2 DEF MetInv, MetTypeOK, WorkerSound, DownSound
<1> QED
  BY <1>1, <1>3 DEF MetInv, BackupSound

LEMMA StartKept ==
  ASSUME MetInv, Start
  PROVE  MetInv'
<1> DEFINE listed(b) == IF Exists(b) THEN <<[new |-> object[b], initial |-> TRUE]>> ELSE <<>>
<1>0. /\ UNCHANGED <<config, object, observed, queue, worker, tally>> /\ up'
      /\ events' = [b \in Backup |-> listed(b)]
      /\ baseline' = {b \in Backup : object[b].phase = "failed"}
      /\ object \in [Backup -> ObjectType]
      /\ worker = Idle /\ observed = [b \in Backup |-> None] /\ tally = [b \in Backup |-> <<>>]
  BY DEF Start, cluster, observer, MetInv, MetTypeOK, DownSound
<1>1. ASSUME NEW b \in Backup PROVE listed(b) \in Seq(EventType) /\ BackupSound(b)'
  <2>1. [new |-> object[b], initial |-> TRUE] \in EventType /\ events'[b] = listed(b)
    BY <1>0 DEF EventType
  <2>2. OrderSound(b)'
    BY SMTT(30), <1>0, <2>1 DEF OrderSound, Exists
  <2>3. ~Counting(b)' /\ ~IsPending(b)' /\ tally'[b] = <<>> /\ observed'[b] = None
    BY <1>0, IdleSound DEF Counting, IsPending
  <2>4. TallySound(b)'
    BY SMTT(30), <2>3 DEF TallySound
  <2>5. object[b].phase = "failed" => Unread(b)'
    BY SMTT(30), <1>0, <2>1, <2>3 DEF Unread, Exists
  <2>6. BaselineSound(b)'
    BY <1>0, <2>3, <2>5 DEF BaselineSound
  <2> QED
    BY SMTT(30), <2>1, <2>2, <2>4, <2>6 DEF BackupSound
<1>2. MetTypeOK' /\ WorkerSound' /\ DownSound'
  BY <1>0, <1>1 DEF MetInv, MetTypeOK, WorkerSound, DownSound
<1> QED
  BY <1>1, <1>2 DEF MetInv, BackupSound

\* A manager without memory.
LEMMA FreshSound ==
  ASSUME events = [b \in Backup |-> <<>>], observed = [b \in Backup |-> None],
         queue = {}, worker = Idle, baseline = {}, tally = [b \in Backup |-> <<>>],
         ~up, up \in BOOLEAN, object \in [Backup -> ObjectType], config \in [Cluster -> Repository \cup {None}]
  PROVE  MetInv
<1>1. MetTypeOK /\ WorkerSound /\ DownSound
  BY SMTT(30) DEF MetTypeOK, WorkerSound, DownSound
<1>2. ASSUME NEW b \in Backup PROVE OrderSound(b) /\ TallySound(b) /\ BaselineSound(b)
  BY SMTT(30), IdleSound DEF OrderSound, TallySound, BaselineSound, Counting, IsPending
<1> QED
  BY <1>1, <1>2 DEF MetInv

LEMMA CrashKept ==
  ASSUME MetInv, Crash
  PROVE  MetInv'
<1>1. /\ events' = [b \in Backup |-> <<>>] /\ observed' = [b \in Backup |-> None]
      /\ queue' = {} /\ worker' = Idle /\ baseline' = {} /\ tally' = [b \in Backup |-> <<>>]
      /\ ~up' /\ up' \in BOOLEAN
      /\ object' \in [Backup -> ObjectType] /\ config' \in [Cluster -> Repository \cup {None}]
  BY DEF Crash, cluster, MetInv, MetTypeOK
<1>2. MetTypeOK' /\ WorkerSound' /\ DownSound'
  BY SMTT(30), <1>1 DEF MetTypeOK, WorkerSound, DownSound
<1>3. ASSUME NEW b \in Backup PROVE OrderSound(b)' /\ TallySound(b)' /\ BaselineSound(b)'
  BY SMTT(30), <1>1, IdleSound DEF OrderSound, TallySound, BaselineSound, Counting, IsPending
<1> QED
  BY <1>2, <1>3 DEF MetInv

\* A step that neither the informer nor the worker notices.
LEMMA ElsewhereKept ==
  ASSUME MetInv, UNCHANGED <<up, object, events, baseline, observed, queue, worker, tally>>,
         config' \in [Cluster -> Repository \cup {None}]
  PROVE  MetInv'
<1>1. MetTypeOK' /\ WorkerSound' /\ DownSound'
  BY DEF MetInv, MetTypeOK, WorkerSound, DownSound
<1>2. ASSUME NEW c \in Backup PROVE BackupSound(c)'
  BY BackupStill DEF Counting
<1> QED
  BY <1>1, <1>2 DEF MetInv, BackupSound

LEMMA HistoryKept ==
  ASSUME MetInv, \/ \E c \in Cluster, r \in Repository \cup {None} : Configure(c, r)
                 \/ List \/ ListFails \/ Prune
                 \/ \E l \in Cluster \X Repository : Page(l) \/ PageFails(l)
  PROVE  MetInv'
<1>1. UNCHANGED <<up, object, events, baseline, observed, queue, worker, tally>>
  BY DEF Configure, List, ListFails, Prune, Page, PageFails, cluster, informer, observer
<1>2. config' \in [Cluster -> Repository \cup {None}]
  BY DEF Configure, List, ListFails, Prune, Page, PageFails, cluster, MetInv, MetTypeOK
<1> QED
  BY <1>1, <1>2, ElsewhereKept
-----------------------------------------------------------------------------
(* The theorems *)

LEMMA MetStarts == Init => MetInv
<1> SUFFICES ASSUME Init PROVE MetInv
  OBVIOUS
<1>1. object \in [Backup -> ObjectType] /\ config \in [Cluster -> Repository \cup {None}]
  BY DEF Init, ObjectType
<1> QED
  BY <1>1, FreshSound DEF Init

LEMMA MetKept == MetInv /\ [Next]_vars => MetInv'
<1> SUFFICES ASSUME MetInv, [Next]_vars PROVE MetInv'
  OBVIOUS
<1>1. CASE UNCHANGED vars
  <2>1. UNCHANGED <<up, object, events, baseline, observed, queue, worker, tally>> /\ config' = config
    BY <1>1 DEF vars, cluster, informer, observer
  <2> QED
    BY <2>1, ElsewhereKept DEF MetInv, MetTypeOK
<1>2. CASE \E b \in Backup : Create(b) \/ FailBackup(b) \/ EditType(b) \/ DeleteBackup(b)
  BY <1>2, ObjectKept
<1>3. CASE \E b \in Backup : Deliver(b)
  BY <1>3, DeliverKept
<1>4. CASE (\E b \in Backup : Take(b)) \/ AskFails \/ Ask
  BY <1>4, AskKept
<1>5. CASE Settle \/ Count
  BY <1>5, SettleKept, CountKept
<1>6. CASE Relist \/ Start \/ Crash
  BY <1>6, RelistKept, StartKept, CrashKept
<1>7. CASE \/ \E c \in Cluster, r \in Repository \cup {None} : Configure(c, r)
           \/ List \/ ListFails \/ Prune
           \/ \E l \in Cluster \X Repository : Page(l) \/ PageFails(l)
  BY <1>7, HistoryKept
<1> QED
  BY <1>1, <1>2, <1>3, <1>4, <1>5, <1>6, <1>7 DEF Next

LEMMA MetAlways == Spec => []MetInv
BY MetStarts, MetKept, PTL DEF Spec

\* A Backup is counted at most once between two starts of the manager and under
\* the type it failed with, whatever the informer replays, however often the
\* configuration could not be read, and even when the Backup was deleted and its
\* observation forgotten meanwhile.
THEOREM MetricsCountedOnce == Spec => []CountedOnce
<1>1. MetInv => CountedOnce
  <2> SUFFICES ASSUME MetInv, NEW b \in Backup
               PROVE  Len(tally[b]) <= 1 /\ \A i \in DOMAIN tally[b] : tally[b][i].type = "full"
    BY DEF CountedOnce
  <2>1. Len(tally[b]) <= 1 /\ tally[b] \in Seq(TallyType)
    BY DEF MetInv, MetTypeOK, TallySound
  <2>2. \A i \in DOMAIN tally[b] : tally[b][i] \in TallyType
    BY SMTT(30), <2>1
  <2> QED
    BY <2>1, <2>2 DEF TallyType
<1> QED
  BY <1>1, MetAlways, PTL

\* A failure that was there when the manager listed the Backups is never counted,
\* neither from the first list nor from one that replaces a broken watch.
THEOREM MetricsStartupNotCounted == Spec => []StartupNotCounted
<1>1. MetInv => StartupNotCounted
  BY DEF MetInv, MetTypeOK, BaselineSound, StartupNotCounted
<1> QED
  BY <1>1, MetAlways, PTL
=============================================================================
