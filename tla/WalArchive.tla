---------------------------- MODULE WalArchive ----------------------------
(***************************************************************************)
(* The WAL archive: one object per WAL file name, written once without any *)
(* hold on the gate, read back by every archive callback, fetched by every *)
(* restore callback, and replaced by a tombstone when retention retires it *)
(* (internal/wal/wal.go, the callbacks of internal/cnpgi/wal.go and        *)
(* recovery_wal.go, and the retire-wal victim of repository/gc.go).        *)
(*                                                                         *)
(* A restore writes into one directory that all restore callbacks share.   *)
(* Its fixed temporary name points to the inode of the callback that       *)
(* created it; an inode is empty, partly written, or holds a WAL file.     *)
(***************************************************************************)
EXTENDS Naturals, FiniteSets

CONSTANTS Name,          \* WAL file names
          Content,       \* the raw bytes of a WAL file
          Archiver,      \* archive callbacks
          Restorer,      \* restore callbacks
          Recovery,      \* those of them that serve a recovery Job
          Collector,     \* GC invocations with one retire-wal victim
          NameOf,        \* the WAL file a callback or a victim is about
          ContentOf,     \* the bytes an archiver has under that name
          TargetOf,      \* the name a restorer publishes under
          Required,      \* names the plan needs from the archive (Coverage: remote)
          Bundle,        \* names the base backup bundles, and their bytes
          Future,        \* names past everything the plan needs (optionalFuture)
          MaxCallbacks,  \* capacity of walCallbacks
          None, Retired  \* no object, a tombstone

Callback == Archiver \cup Restorer
Target == {TargetOf[r] : r \in Restorer} \cup DOMAIN Bundle

ASSUME CallbackAssumption ==
  /\ Archiver \cap Restorer = {} /\ Callback \cap Collector = {}
  /\ Recovery \subseteq Restorer
  /\ NameOf \in [Callback \cup Collector -> Name]
  /\ ContentOf \in [Archiver -> Content]
  /\ {None, Retired} \cap (Content \cup Callback) = {} /\ None # Retired
  /\ Content \cap (Restorer \cup {"empty", "partial"}) = {} /\ None # "absent"
ASSUME PlanAssumption ==
  /\ Required \subseteq Name /\ Future \subseteq Name
  /\ DOMAIN Bundle \subseteq Name
  /\ \A n \in DOMAIN Bundle : Bundle[n] \in Content
ASSUME SlotAssumption == MaxCallbacks \in Nat \ {0}

VARIABLES object,   \* the bucket: name -> bytes, tombstone or nothing
          late,     \* mutations whose outcome is unknown to their sender
          stage,    \* where each callback and victim is
          head,     \* what HEAD, or the victim's validation, saw
          flock,    \* the callback that holds the directory lock
          tmp,      \* the inode behind the temporary name
          inode,    \* the bytes written into each callback's inode
          file,     \* the directory: the inode or the bundled bytes under a name
          acked,    \* archivers that were answered success
          result,   \* what a restorer answered
          warned    \* restorers that began after their file was acknowledged

vars == <<object, late, stage, head, flock, tmp, inode, file, acked, result, warned>>
bucket == <<object, late>>
directory == <<flock, tmp, inode, file>>
outcome == <<acked, result, warned>>

Init ==
  /\ object = [n \in Name |-> None]
  /\ late = {}
  /\ stage = [c \in Callback \cup Collector |-> "new"]
  /\ head = [c \in Callback \cup Collector |-> None]
  /\ flock = None
  /\ tmp = None
  /\ inode = [r \in Restorer |-> "empty"]
  /\ file = [t \in Target |-> IF t \in DOMAIN Bundle THEN Bundle[t] ELSE None]
  /\ acked = {}
  /\ result = [r \in Restorer |-> None]
  /\ warned = {}

Goto(c, s) == stage' = [stage EXCEPT ![c] = s]

\* The callbacks that hold a slot of walCallbacks.
Running == {c \in Callback : stage[c] \notin {"new", "done", "dead"}}

\* The archived bytes of a name, or of its bundled copy.
Bytes(t) == IF file[t] \in Restorer THEN inode[file[t]] ELSE file[t]
-----------------------------------------------------------------------------
(* The bucket *)

\* Faulty variant: PutFile without If-None-Match.
AcceptsOverwrite(m) == m.new \in Content \/ object[m.name] = m.match

\* PutFile with Create, the tombstone with If-Match.
Accepts(m) == object[m.name] = m.match

Answered(m) ==
  /\ Accepts(m)
  /\ object' = [object EXCEPT ![m.name] = m.new]
  /\ UNCHANGED late

\* Precondition failed, or a conflict with a concurrent mutation.
Rejected == UNCHANGED bucket

Ambiguous(m) == late' = late \cup {m} /\ UNCHANGED object

LateArrives(m) ==
  /\ m \in late
  /\ late' = late \ {m}
  /\ object' = IF Accepts(m) THEN [object EXCEPT ![m.name] = m.new] ELSE object
  /\ UNCHANGED <<stage, head, directory, outcome>>
-----------------------------------------------------------------------------
(* Both callbacks *)

\* acquireWAL and openWAL.
Begin(c) ==
  /\ stage[c] = "new"
  /\ Cardinality(Running) < MaxCallbacks
  /\ Goto(c, IF c \in Archiver THEN "put" ELSE "lock")
  /\ warned' = IF c \in Restorer /\ \E a \in acked : NameOf[a] = NameOf[c]
               THEN warned \cup {c} ELSE warned
  /\ UNCHANGED <<bucket, head, directory, acked, result>>

\* The deferred cleanup of Files.Restore: the temporary name goes, then the lock.
Cleanup(c) ==
  IF flock = c
  THEN /\ flock' = None
       /\ tmp' = IF stage[c] = "tmp" THEN tmp ELSE None
       /\ UNCHANGED <<inode, file>>
  ELSE UNCHANGED directory

Answer(c, r) ==
  /\ result' = IF c \in Restorer THEN [result EXCEPT ![c] = r] ELSE result
  /\ Goto(c, "done")

\* The callback returns an error that is not an absence: exit 255.
Fatal(c) == Cleanup(c) /\ Answer(c, "fatal") /\ UNCHANGED <<bucket, head, acked, warned>>

\* A deadline, local input/output or a request fails with no effect on the bucket.
Fail(c) == stage[c] \notin {"done", "dead"} /\ Fatal(c)

\* Faulty variant: a HEAD 404 is taken for absence.
HeadTrusted(c) ==
  /\ stage[c] = "head"
  /\ \/ /\ Goto(c, IF c \in Restorer THEN "absent" ELSE "done")
        /\ Cleanup(c)
        /\ UNCHANGED <<bucket, head, outcome>>
     \/ /\ object[NameOf[c]] \in Content
        /\ head' = [head EXCEPT ![c] = object[NameOf[c]]]
        /\ Goto(c, "get")
        /\ UNCHANGED <<bucket, directory, outcome>>

\* Retrieve: the HEAD.  A 404 has no authenticated body: it may come from
\* anything on the way to the bucket.
Head(c) ==
  /\ stage[c] = "head"
  /\ \/ Goto(c, "confirm") /\ UNCHANGED <<bucket, head, directory, outcome>>
     \/ object[NameOf[c]] = Retired /\ Fatal(c)
     \/ /\ object[NameOf[c]] \in Content
        /\ head' = [head EXCEPT ![c] = object[NameOf[c]]]
        /\ Goto(c, "get")
        /\ UNCHANGED <<bucket, directory, outcome>>

\* Retrieve: only a consumed GET NoSuchKey is absence.  Any other answer fails,
\* an object that appeared meanwhile included.
Confirm(c) ==
  /\ stage[c] = "confirm"
  /\ IF object[NameOf[c]] = None /\ c \in Restorer
     THEN /\ Goto(c, "absent")
          /\ Cleanup(c)
          /\ UNCHANGED <<bucket, head, outcome>>
     ELSE Fatal(c)
-----------------------------------------------------------------------------
(* Files.Archive *)

\* PutFile.  After anything but another definite error the bytes are read back.
Put(a) ==
  LET m == [name |-> NameOf[a], match |-> None, new |-> ContentOf[a]] IN
  /\ stage[a] = "put"
  /\ Answered(m) \/ Rejected \/ Ambiguous(m)
  /\ Goto(a, "head")
  /\ UNCHANGED <<head, directory, outcome>>

\* The download, and the comparison with what was to be archived.
Verify(a) ==
  /\ stage[a] = "get"
  /\ a \in Archiver
  /\ acked' = IF object[NameOf[a]] = head[a] /\ head[a] = ContentOf[a]
              THEN acked \cup {a} ELSE acked
  /\ Goto(a, "done")
  /\ UNCHANGED <<bucket, head, directory, result, warned>>
-----------------------------------------------------------------------------
(* Files.Restore *)

\* Faulty variant: no lock on the directory.
LockNothing(r) ==
  /\ stage[r] = "lock"
  /\ flock' = r
  /\ Goto(r, "tmp")
  /\ UNCHANGED <<bucket, head, tmp, inode, file, outcome>>

\* The non-blocking lock on the directory inode.
Lock(r) ==
  /\ stage[r] = "lock"
  /\ flock = None
  /\ flock' = r
  /\ Goto(r, "tmp")
  /\ UNCHANGED <<bucket, head, tmp, inode, file, outcome>>

\* A crash may have left the temporary name behind: reclaim it.
MakeTmp(r) ==
  /\ stage[r] = "tmp"
  /\ tmp' = r
  /\ inode' = [inode EXCEPT ![r] = "empty"]
  /\ Goto(r, "head")
  /\ UNCHANGED <<bucket, head, flock, file, outcome>>

\* The download is checked against what HEAD announced before any byte is written.
Download(r) ==
  /\ stage[r] = "get"
  /\ r \in Restorer
  /\ IF object[NameOf[r]] = head[r]
     THEN /\ inode' = [inode EXCEPT ![r] = "partial"]
          /\ Goto(r, "write")
          /\ UNCHANGED <<bucket, head, flock, tmp, file, outcome>>
     ELSE Fatal(r)

\* The last byte, the size and the digest of the raw bytes, and the sync.
Write(r) ==
  /\ stage[r] = "write"
  /\ inode' = [inode EXCEPT ![r] = head[r]]
  /\ Goto(r, "rename")
  /\ UNCHANGED <<bucket, head, flock, tmp, file, outcome>>

Rename(r) ==
  /\ stage[r] = "rename"
  /\ tmp # None
  /\ file' = [file EXCEPT ![TargetOf[r]] = tmp]
  /\ tmp' = None
  /\ Goto(r, "sync")
  /\ UNCHANGED <<bucket, head, flock, inode, outcome>>

Restored(r) ==
  /\ stage[r] = "sync"
  /\ Cleanup(r)
  /\ Answer(r, "restored")
  /\ UNCHANGED <<bucket, head, acked, warned>>

\* The archive has no such file.  WALService.Restore says so; restoreSourceWAL
\* first asks whether PostgreSQL may go on without it.
Absent(r) ==
  LET n == NameOf[r] IN
  /\ stage[r] = "absent"
  /\ Answer(r, IF \/ r \notin Recovery
                  \/ /\ n \notin Required
                     /\ IF n \in DOMAIN Bundle THEN Bytes(n) = Bundle[n] ELSE n \in Future
               THEN "absent" ELSE "fatal")
  /\ UNCHANGED <<bucket, head, directory, acked, warned>>
-----------------------------------------------------------------------------
(* Retirement, and processes that die *)

\* validateVictim: the victim is live WAL; its ETag goes into the tombstone PUT.
Validate(g) ==
  /\ stage[g] = "new"
  /\ object[NameOf[g]] \in Content
  /\ head' = [head EXCEPT ![g] = object[NameOf[g]]]
  /\ Goto(g, "put")
  /\ UNCHANGED <<bucket, directory, outcome>>

Retire(g) ==
  LET m == [name |-> NameOf[g], match |-> head[g], new |-> Retired] IN
  /\ stage[g] = "put"
  /\ Answered(m) \/ Rejected \/ Ambiguous(m)
  /\ Goto(g, "done")
  /\ UNCHANGED <<head, directory, outcome>>

\* The kernel closes the files of a dead process, and with them the lock.
Crash(c) ==
  /\ c \in Running
  /\ Goto(c, "dead")
  /\ flock' = IF flock = c THEN None ELSE flock
  /\ UNCHANGED <<bucket, head, tmp, inode, file, outcome>>

Next ==
  \/ \E c \in Callback : Begin(c) \/ Fail(c) \/ Head(c) \/ Confirm(c) \/ Crash(c)
  \/ \E a \in Archiver : Put(a) \/ Verify(a)
  \/ \E r \in Restorer :
       \/ Lock(r) \/ MakeTmp(r) \/ Download(r) \/ Write(r) \/ Rename(r) \/ Restored(r)
       \/ Absent(r)
  \/ \E g \in Collector : Validate(g) \/ Retire(g)
  \/ \E m \in late : LateArrives(m)

Spec == Init /\ [][Next]_vars
-----------------------------------------------------------------------------
(* Properties *)

\* What PostgreSQL was told is archived stays under its name, byte for byte,
\* until retention replaces it by a tombstone: not another callback with other
\* bytes, not a PUT that arrives late, not a retry changes it (Files.Archive).
AckedDurable == \A a \in acked : object[NameOf[a]] \in {ContentOf[a], Retired}

\* A restore callback never answers "absent" (exit 1, at which PostgreSQL ends
\* recovery) for a file whose archiving was acknowledged before the callback
\* began, retired or not (Retrieve's comment on HEAD 404).
AbsenceAuthentic == \A r \in warned : result[r] # "absent"

\* Whatever is under a final name was completely written and is what the bucket
\* held under the source name; concurrent restores and crashes leave no partial
\* or foreign bytes there (Files.Restore's lock, temporary name and rename).
PublishedVerified ==
  \A t \in Target : file[t] \in Restorer =>
    LET r == file[t] IN
    /\ TargetOf[r] = t
    /\ inode[r] \in Content
    /\ object[NameOf[r]] \in {inode[r], Retired}
=============================================================================
