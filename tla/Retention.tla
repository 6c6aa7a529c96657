----------------------------- MODULE Retention -----------------------------
(***************************************************************************)
(* Which backups and which WAL retention may retire (internal/retention),  *)
(* against what a restore needs (Resolve, Select and Coverage of           *)
(* internal/repository).                                                   *)
(*                                                                         *)
(* The repository is filled by a PostgreSQL cluster: it writes WAL, takes  *)
(* full and differential backups, archives complete segments in order, and *)
(* is promoted to new timelines, from any point any timeline reached.  A   *)
(* segment is named by the LSN it starts at; SegmentBytes divides it.      *)
(***************************************************************************)
EXTENDS Naturals, Sequences, FiniteSets, FiniteSetsExt

CONSTANTS SegmentBytes,   \* size of a WAL segment
          Window,         \* length of the recovery window
          Minimum,        \* minimum number of full roots
          MaxLSN, MaxTime, MaxBackups, MaxTimelines

ASSUME PolicyAssumption ==
  /\ SegmentBytes \in Nat \ {0} /\ Minimum \in Nat \ {0}
  /\ {Window, MaxLSN, MaxTime, MaxBackups, MaxTimelines} \subseteq Nat

VARIABLES now,       \* the clock
          history,   \* timeline -> its path, oldest first, with the forks
          written,   \* timeline -> LSN up to which WAL was written
          archived,  \* names in the archive, tombstones included: <<timeline, start>>
          expired,   \* those of them that are tombstones
          backups,   \* the commits, in the order they were published
          retired    \* the backups that are retired, by their place

retentionVars == <<now, history, written, archived, expired, backups, retired>>

Timeline == DOMAIN history
Align(lsn) == (lsn \div SegmentBytes) * SegmentBytes
Live == (1..Len(backups)) \ retired

RetentionInit ==
  /\ now = 1
  /\ history = [t \in {1} |-> <<[id |-> 1, fork |-> 0]>>]
  /\ written = [t \in {1} |-> 0]
  /\ archived = {} /\ expired = {}
  /\ backups = <<>> /\ retired = {}
-----------------------------------------------------------------------------
(* The cluster *)

Elapse ==
  /\ now < MaxTime /\ now' = now + 1
  /\ UNCHANGED <<history, written, archived, expired, backups, retired>>

Write(t) ==
  /\ written[t] < MaxLSN
  /\ written' = [written EXCEPT ![t] = @ + 1]
  /\ UNCHANGED <<now, history, archived, expired, backups, retired>>

\* The archiver takes the segments of a timeline in order, from the one with the
\* fork.
Archive(t) ==
  LET names == {n \in archived : n[1] = t}
      start == IF names = {} THEN Align(history[t][Len(history[t])].fork)
               ELSE Max({n[2] : n \in names}) + SegmentBytes
  IN /\ start + SegmentBytes <= written[t]
     /\ archived' = archived \cup {<<t, start>>}
     /\ UNCHANGED <<now, history, written, expired, backups, retired>>

\* The history file is archived before anything of the new timeline.
Promote(t, fork) ==
  LET new == Cardinality(Timeline) + 1 IN
  /\ new <= MaxTimelines
  /\ fork \in history[t][Len(history[t])].fork..written[t]
  /\ history' = [u \in Timeline \cup {new} |->
                  IF u = new THEN Append(history[t], [id |-> new, fork |-> fork]) ELSE history[u]]
  /\ written' = [u \in Timeline \cup {new} |-> IF u = new THEN fork ELSE written[u]]
  /\ UNCHANGED <<now, archived, expired, backups, retired>>

\* A backup, and the parent of a differential: a live full of the same timeline
\* that ended before it starts (validateParent).  0 is no parent.  start is the
\* redo point, the lower of the two bounds that Plan takes the minimum of.
Backup(t, parent) ==
  /\ Len(backups) < MaxBackups /\ written[t] < MaxLSN
  /\ parent # 0 => LET p == backups[parent] IN
                     p.parent = 0 /\ p.timeline = t /\ p.end <= written[t]
  /\ backups' = Append(backups, [parent |-> parent, timeline |-> t, completed |-> now,
                                 start |-> written[t], end |-> written[t] + 1])
  /\ written' = [written EXCEPT ![t] = @ + 1]
  /\ UNCHANGED <<now, history, archived, expired, retired>>
-----------------------------------------------------------------------------
(* retention.Plan *)

Newer(a, b) ==
  \/ backups[a].completed > backups[b].completed
  \/ backups[a].completed = backups[b].completed /\ a > b
Newest(S) == CHOOSE a \in S : \A b \in S \ {a} : Newer(a, b)
Oldest(S) == CHOOSE a \in S : \A b \in S \ {a} : Newer(b, a)

\* Where a timeline is on a path; 0 when it is not.
Place(t, path) == IF \E i \in DOMAIN path : path[i].id = t
                  THEN CHOOSE i \in DOMAIN path : path[i].id = t ELSE 0

\* A backup can be replayed along a path when it ended before the path left its
\* timeline.
Reachable(b, path) ==
  LET i == Place(backups[b].timeline, path) IN
  i # 0 /\ (i = Len(path) \/ backups[b].end < path[i + 1].fork)

\* Faulty variant: only what lies inside the window, and the minimum.
KeepOnInside(live, path, cutoff) ==
  LET C == {b \in live : Reachable(b, path)}
      fulls == {b \in C : backups[b].parent = 0}
  IN {b \in C : backups[b].completed >= cutoff}
     \cup {b \in fulls : Cardinality({f \in fulls : Newer(f, b)}) < Minimum}

\* What one path keeps of the backups that can be replayed along it.
KeepOn(live, path, cutoff) ==
  LET C == {b \in live : Reachable(b, path)}
      fulls == {b \in C : backups[b].parent = 0}
      anchors == {b \in C : backups[b].completed <= cutoff}
  IN IF C = {} THEN {}
     ELSE {b \in C : backups[b].completed >= cutoff}
          \cup {IF anchors # {} THEN Newest(anchors) ELSE Oldest(C)}
          \cup {b \in fulls : Cardinality({f \in fulls : Newer(f, b)}) < Minimum}
          \cup {Newest(C)}

Paths == {history[t] : t \in Timeline}

Keep(live, cutoff) ==
  LET kept == UNION {KeepOn(live, path, cutoff) : path \in Paths}
  IN kept \cup ({backups[b].parent : b \in kept} \ {0})

\* Faulty variant: in the order of their identifiers.
ExpireInOrder(keep) ==
  LET gone == Live \ keep
  IN CHOOSE s \in [1..Cardinality(gone) -> gone] : \A i, j \in DOMAIN s : i < j => s[i] < s[j]

\* Differentials first, then fulls, each in the order of their identifiers.
Before(a, b) ==
  IF (backups[a].parent # 0) # (backups[b].parent # 0) THEN backups[a].parent # 0 ELSE a < b
Expire(keep) ==
  LET gone == Live \ keep
  IN CHOOSE s \in [1..Cardinality(gone) -> gone] :
       \A i, j \in DOMAIN s : i < j => Before(s[i], s[j])

\* The timelines that no other one descends from; the current one is the only leaf.
Leaves == {t \in Timeline : \A u \in Timeline \ {t} : Place(t, history[u]) = 0}
Current == CHOOSE t \in Leaves : TRUE

Frontier(t) == Max({0} \cup {n[2] + SegmentBytes : n \in {a \in archived : a[1] = t}})

\* The WAL that replay needs after backup b along a path: on each timeline from
\* the end of the backup, or from the fork, to the next fork, or to the frontier.
Intervals(b, path) ==
  LET from == Place(backups[b].timeline, path)
      start(i) == IF i = from THEN backups[b].end ELSE path[i].fork
      end(i) == IF i < Len(path) THEN path[i + 1].fork ELSE Max({start(i), Frontier(path[i].id)})
  IN {[timeline |-> path[i].id, start |-> start(i), end |-> end(i)] : i \in from..Len(path)}

\* The segments of an interval, as the loops of Plan and Resolve enumerate them.
Segments(w) ==
  {<<w.timeline, s>> : s \in {x \in Align(w.start)..w.end : x % SegmentBytes = 0 /\ x < w.end}}
Needs(b, path) == UNION {Segments(w) : w \in {v \in Intervals(b, path) : v.end > v.start}}

Covered(keep, wal) ==
  \A b \in keep, path \in Paths : Reachable(b, path) => Needs(b, path) \subseteq wal

\* Where replay of each kept backup enters the current timeline.
Floors(keep) ==
  LET path == history[Current]
  IN {Align(IF backups[b].timeline = Current THEN backups[b].start ELSE path[Len(path)].fork) :
        b \in {k \in keep : Reachable(k, path)}}

\* Faulty variant: the floor of the newest kept backup.
HighFloor(keep) == Max(Floors(keep))

WalFloor(keep) == Min(Floors(keep))

\* Anything else is ErrCoverage: no backup, competing leaves, a gap.
Plannable(keep, wal) ==
  Cardinality(Leaves) = 1 /\ keep # {} /\ Covered(keep, wal) /\ Floors(keep) # {}

Cutoff == now - Window

\* Run: a batch retires a prefix of the expired backups; a prefix of the WAL of
\* the current timeline below the floor follows only when no backup is left over.
Retain ==
  LET keep == Keep(Live, Cutoff)
      expire == Expire(keep)
  IN /\ now > Window
     /\ Plannable(keep, archived \ expired)
     /\ \E batch \in 0..Len(expire), upTo \in 0..WalFloor(keep) :
          /\ batch < Len(expire) => upTo = 0
          /\ retired' = retired \cup {expire[i] : i \in 1..batch}
          /\ expired' = expired \cup {n \in archived : n[1] \in Leaves /\ n[2] < upTo}
     /\ UNCHANGED <<now, history, written, archived, backups>>
-----------------------------------------------------------------------------
(* Resolve and Select.  A target is the latest point or a time, on the only    *)
(* leaf or on a timeline that is named.                                        *)

Target == [kind : {"latest"}, time : {0}, timeline : {0} \cup Timeline]
          \cup [kind : {"time"}, time : 1..MaxTime, timeline : {0} \cup Timeline]

\* The timeline of a target; 0 when competing leaves leave it open.
TargetTimeline(t) ==
  IF t.timeline # 0 THEN t.timeline
  ELSE IF Cardinality(Leaves) = 1 THEN Current ELSE 0

\* eligible of plan.go has a path test of its own; the planner must agree with it.
Eligible(b, t, path) ==
  /\ \E i \in DOMAIN path :
       /\ path[i].id = backups[b].timeline
       /\ i < Len(path) => backups[b].end < path[i + 1].fork
  /\ t.kind = "time" => backups[b].completed < t.time

\* The backups Select may choose when those in gone are retired.
EligiblesWithout(t, gone) ==
  {b \in (1..Len(backups)) \ gone : Eligible(b, t, history[TargetTimeline(t)])}
Eligibles(t) == EligiblesWithout(t, retired)

\* Resolve finds a backup, and a name in the archive for every segment it needs.
Resolved(t) ==
  /\ TargetTimeline(t) \in Timeline
  /\ Eligibles(t) # {}
  /\ Needs(Newest(Eligibles(t)), history[TargetTimeline(t)]) \subseteq archived

\* Besides, the chain is whole and none of these names is a tombstone.
Recoverable(t, gone, tombs) ==
  /\ TargetTimeline(t) # 0
  /\ LET path == history[TargetTimeline(t)]
         eligible == EligiblesWithout(t, gone)
         b == Newest(eligible)
     IN /\ eligible # {}
        /\ backups[b].parent \notin gone
        /\ Needs(b, path) \subseteq archived \ tombs

\* Faulty variant: a segment that starts before the interval does not count.
IntersectsInside(n, w) == n[1] = w.timeline /\ n[2] < w.end /\ w.start <= n[2]

\* Coverage: does a segment overlap an interval?
Intersects(n, w) ==
  /\ n[1] = w.timeline
  /\ n[2] < w.end /\ (w.start < n[2] \/ w.start - n[2] < SegmentBytes)

\* Coverage and optionalFuture, for the plan of a target: what restoreSourceWAL
\* makes of a segment that is absent from the archive.
AbsentSegment(n, t) ==
  LET path == history[TargetTimeline(t)]
      b == Newest(Eligibles(t))
      required == {w \in Intervals(b, path) : w.end > w.start}
      bundle == [timeline |-> backups[b].timeline, start |-> backups[b].start, end |-> backups[b].end]
      frontier == Max({backups[b].end} \cup {w.end : w \in required})
  IN IF \E w \in required : Intersects(n, w) THEN "blocked"
     ELSE IF Intersects(n, bundle) THEN "bundle"
     ELSE IF n[1] = TargetTimeline(t) /\ n[2] >= frontier THEN "future" ELSE "blocked"

RetentionNext ==
  \/ Elapse
  \/ \E t \in Timeline :
       \/ Write(t) \/ Archive(t)
       \/ \E f \in 0..MaxLSN : Promote(t, f)
       \/ \E p \in {0} \cup Live : Backup(t, p)
  \/ Retain

RetentionSpec == RetentionInit /\ [][RetentionNext]_retentionVars
-----------------------------------------------------------------------------
(* Properties *)

Retains == <<retired, expired>>' # <<retired, expired>>

\* Retention takes nothing from the recovery window: a target inside it, the
\* latest point included, on any timeline, that could be recovered can still be
\* recovered after a batch, complete or not (Plan and Run against Resolve).
WindowKept ==
  [][Retains =>
       \A t \in {u \in Target : u.kind = "latest" \/ u.time > Cutoff} :
         Recoverable(t, retired, expired) => Recoverable(t, retired', expired')]_retentionVars

\* A live differential always has its live full parent, though a batch may end
\* between any two retirements (the order of Expire, the parents in Keep).
ChainsWhole == \A b \in Live : backups[b].parent \notin retired

\* Retention never locks itself out and never drifts: after any batch, complete
\* or not, the next plan succeeds and keeps the same backups (Plan run again on
\* what Run left behind).
PlanStable ==
  [][Retains =>
       LET keep == Keep(Live, Cutoff)
           left == (1..Len(backups)) \ retired'
       IN /\ Keep(left, Cutoff) = keep
          /\ Plannable(keep, archived \ expired')]_retentionVars

\* During a restore, absence of a segment that replay needs is never answered as
\* absence, so PostgreSQL does not end recovery early; and absence of the first
\* segment that begins behind the frontier always is (Coverage, optionalFuture).
AbsenceClassified ==
  \A t \in {u \in Target : Resolved(u)} :
    LET tl == TargetTimeline(t)
        path == history[tl]
        b == Newest(Eligibles(t))
        frontier == Max({w.end : w \in Intervals(b, path)})
        beyond == <<tl, IF frontier % SegmentBytes = 0 THEN frontier ELSE Align(frontier) + SegmentBytes>>
    IN /\ \A n \in Needs(b, path) : AbsentSegment(n, t) = "blocked"
       /\ AbsentSegment(beyond, t) = "future"
=============================================================================
