----------------------------- MODULE WalProofs -----------------------------
(***************************************************************************)
(* WalArchive keeps its three promises for any number of names, contents   *)
(* and callbacks.  The argument has two halves.  In the bucket a name only *)
(* ever goes from nothing to bytes and from bytes to a tombstone, since    *)
(* that is all any PUT on its way asks for; so what a callback once read   *)
(* or acknowledged stays true.  In the directory only the holder of the    *)
(* lock is past it, the temporary name is its own inode while it writes,   *)
(* and an inode that has a final name is not written to any more.          *)
(***************************************************************************)
EXTENDS WalArchive, TLAPS

\* Most leaves are first-order reasoning; those with arithmetic or records cite SMT.
USE ZenonT(30)

ArchiverStage == {"new", "put", "head", "confirm", "get", "done", "dead"}
RestorerStage == {"new", "lock", "tmp", "head", "confirm", "get", "write", "rename", "sync",
                  "absent", "done", "dead"}
CollectorStage == {"new", "put", "done"}

\* The mutations anyone sends: a creation and a retirement.
Mutation == [name : Name, match : {None}, new : Content]
            \cup [name : Name, match : Content, new : {Retired}]

WalTypeOK ==
  /\ object \in [Name -> Content \cup {None, Retired}]
  /\ late \subseteq Mutation
  /\ stage \in [Callback \cup Collector -> ArchiverStage \cup RestorerStage \cup CollectorStage]
  /\ \A a \in Archiver : stage[a] \in ArchiverStage
  /\ \A r \in Restorer : stage[r] \in RestorerStage
  /\ \A g \in Collector : stage[g] \in CollectorStage
  /\ head \in [Callback \cup Collector -> Content \cup {None}]
  /\ flock \in Restorer \cup {None}
  /\ tmp \in Restorer \cup {None}
  /\ inode \in [Restorer -> Content \cup {"empty", "partial"}]
  /\ file \in [Target -> Content \cup Restorer \cup {None}]
  /\ acked \subseteq Archiver
  /\ warned \subseteq Restorer
  /\ DOMAIN result = Restorer

\* The bytes under a name are c, or were until retention retired them.
Archived(n, c) == object[n] \in {c, Retired}

\* What HEAD announced was there, and still is unless it was retired.
HeadSound ==
  \A c \in Callback \cup Collector :
    /\ head[c] # None => Archived(NameOf[c], head[c])
    /\ c \in Collector /\ stage[c] = "put" => head[c] # None
    /\ stage[c] \in {"get", "write", "rename", "sync"} => head[c] # None

\* A restorer that began after the acknowledgment cannot get to see an absence.
WarnedSound ==
  \A r \in warned :
    /\ \E a \in acked : NameOf[a] = NameOf[r]
    /\ stage[r] # "absent" /\ result[r] # "absent"

Unanswered == \A r \in Restorer : stage[r] = "new" => result[r] = None

Locked == {"tmp", "head", "confirm", "get", "write", "rename", "sync"}
Writing == {"head", "confirm", "get", "write", "rename"}

\* One restorer at a time works in the directory, through its own inode.
DirectorySound ==
  \A r \in Restorer :
    /\ stage[r] \in Locked => flock = r
    /\ stage[r] \in Writing => tmp = r
    /\ stage[r] \in {"rename", "sync"} => inode[r] = head[r]

\* An inode under a final name is whole, and its writer has stopped writing.
FilesSound ==
  \A t \in Target : file[t] \in Restorer =>
    LET r == file[t] IN
    /\ TargetOf[r] = t
    /\ stage[r] \in {"sync", "done", "dead"}
    /\ inode[r] \in Content
    /\ Archived(NameOf[r], inode[r])

WalInv ==
  /\ WalTypeOK /\ AckedDurable /\ HeadSound /\ WarnedSound /\ Unanswered
  /\ DirectorySound /\ FilesSound

-----------------------------------------------------------------------------

LEMMA WalStarts == Init => WalInv
<1> SUFFICES ASSUME Init  PROVE WalInv
  OBVIOUS
<1> USE CallbackAssumption, PlanAssumption DEF Init
<1>1. file \in [Target -> Content \cup Restorer \cup {None}]
  OBVIOUS
<1>2. WalTypeOK
  BY <1>1 DEF WalTypeOK, ArchiverStage, RestorerStage, CollectorStage, Callback
<1>3. AckedDurable /\ HeadSound /\ WarnedSound /\ Unanswered
  BY DEF AckedDurable, HeadSound, WarnedSound, Unanswered
<1>4. DirectorySound /\ FilesSound
  BY DEF DirectorySound, FilesSound, Locked, Writing, Callback, Target
<1> QED  BY <1>2, <1>3, <1>4 DEF WalInv

\* What was archived stays so.
Grows ==
  /\ object' \in [Name -> Content \cup {None, Retired}]
  /\ \A n \in Name, c \in Content : Archived(n, c) => Archived(n, c)'

LEMMA MutationGrows ==
  ASSUME WalTypeOK, NEW m \in Mutation, object[m.name] = m.match,
         object' = [object EXCEPT ![m.name] = m.new]
  PROVE  Grows
BY CallbackAssumption DEF WalTypeOK, Mutation, Grows, Archived

LEMMA SameGrows == ASSUME WalTypeOK, UNCHANGED object  PROVE Grows
BY DEF WalTypeOK, Grows, Archived

LEMMA BeginKept ==
  ASSUME WalInv, NEW c \in Callback, Begin(c)
  PROVE  WalInv'
<1> USE CallbackAssumption DEF WalInv, Begin, Goto, bucket, directory, outcome, Callback
<1>1. WalTypeOK'
  BY SMTT(30) DEF WalTypeOK, ArchiverStage, RestorerStage, CollectorStage, Mutation
<1>2. AckedDurable' /\ HeadSound'
  BY SMTT(30) DEF AckedDurable, HeadSound, WalTypeOK, Archived
<1>3. WarnedSound' /\ Unanswered'
  BY SMTT(30) DEF WarnedSound, Unanswered, AckedDurable, WalTypeOK
<1>4. DirectorySound'
  BY DEF DirectorySound, Locked, Writing, WalTypeOK
<1>5. FilesSound'
  BY DEF FilesSound, DirectorySound, HeadSound, Locked, Writing, WalTypeOK, Archived
<1> QED  BY <1>1, <1>2, <1>3, <1>4, <1>5

LEMMA LockKept ==
  ASSUME WalInv, NEW r \in Restorer, Lock(r)
  PROVE  WalInv'
<1> USE CallbackAssumption DEF WalInv, Lock, Goto, bucket, directory, outcome, Callback
<1>1. WalTypeOK'
  BY DEF WalTypeOK, ArchiverStage, RestorerStage, CollectorStage, Mutation
<1>2. AckedDurable' /\ HeadSound'
  BY DEF AckedDurable, HeadSound, WalTypeOK, Archived
<1>3. WarnedSound' /\ Unanswered'
  BY DEF WarnedSound, Unanswered, AckedDurable, WalTypeOK
<1>4. DirectorySound'
  BY DEF DirectorySound, Locked, Writing, WalTypeOK
<1>5. FilesSound'
  BY DEF FilesSound, DirectorySound, HeadSound, Locked, Writing, WalTypeOK, Archived
<1> QED  BY <1>1, <1>2, <1>3, <1>4, <1>5

LEMMA RenameKept ==
  ASSUME WalInv, NEW r \in Restorer, Rename(r)
  PROVE  WalInv'
<1> USE CallbackAssumption DEF WalInv, Rename, Goto, bucket, directory, outcome, Callback
<1>1. WalTypeOK'
  BY DEF WalTypeOK, ArchiverStage, RestorerStage, CollectorStage, Mutation
<1>2. AckedDurable' /\ HeadSound'
  BY DEF AckedDurable, HeadSound, WalTypeOK, Archived
<1>3. WarnedSound' /\ Unanswered'
  BY DEF WarnedSound, Unanswered, AckedDurable, WalTypeOK
<1>4. DirectorySound'
  BY SMTT(30) DEF DirectorySound, Locked, Writing, WalTypeOK
<1>5. FilesSound'
  BY SMTT(30) DEF FilesSound, DirectorySound, HeadSound, Locked, Writing, WalTypeOK, Archived
<1> QED  BY <1>1, <1>2, <1>3, <1>4, <1>5

LEMMA FailKept ==
  ASSUME WalInv, NEW c \in Callback, Fatal(c), stage[c] \notin {"done", "dead"}
  PROVE  WalInv'
<1> USE CallbackAssumption DEF WalInv, Fatal, Cleanup, Answer, Goto, bucket, directory, outcome, Callback
<1>1. WalTypeOK'
  BY DEF WalTypeOK, ArchiverStage, RestorerStage, CollectorStage, Mutation
<1>2. AckedDurable' /\ HeadSound'
  BY DEF AckedDurable, HeadSound, WalTypeOK, Archived
<1>3. WarnedSound' /\ Unanswered'
  BY DEF WarnedSound, Unanswered, AckedDurable, WalTypeOK
<1>4. DirectorySound'
  BY SMTT(30) DEF DirectorySound, Locked, Writing, WalTypeOK
<1>5. FilesSound'
  BY DEF FilesSound, DirectorySound, HeadSound, Locked, Writing, WalTypeOK, Archived
<1> QED  BY <1>1, <1>2, <1>3, <1>4, <1>5

LEMMA HeadKept ==
  ASSUME WalInv, NEW c \in Callback, Head(c), ~Fatal(c)
  PROVE  WalInv'
<1> USE CallbackAssumption DEF WalInv, Head, Goto, bucket, directory, outcome, Callback
<1>1. WalTypeOK'
  BY SMTT(30) DEF WalTypeOK, ArchiverStage, RestorerStage, CollectorStage, Mutation
<1>2. AckedDurable' /\ HeadSound'
  BY SMTT(30) DEF AckedDurable, HeadSound, WalTypeOK, Archived
<1>3. WarnedSound' /\ Unanswered'
  BY SMTT(30) DEF WarnedSound, Unanswered, AckedDurable, WalTypeOK
<1>4. DirectorySound'
  BY SMTT(30) DEF DirectorySound, Locked, Writing, WalTypeOK
<1>5. FilesSound'
  BY SMTT(30) DEF FilesSound, DirectorySound, HeadSound, Locked, Writing, WalTypeOK, Archived
<1> QED  BY <1>1, <1>2, <1>3, <1>4, <1>5

LEMMA ConfirmKept ==
  ASSUME WalInv, NEW c \in Callback, Confirm(c), ~Fatal(c)
  PROVE  WalInv'
<1> USE CallbackAssumption DEF WalInv, Confirm, Cleanup, Goto, bucket, directory, outcome, Callback
<1>1. WalTypeOK'
  BY SMTT(30) DEF WalTypeOK, ArchiverStage, RestorerStage, CollectorStage, Mutation
<1>2. AckedDurable' /\ HeadSound'
  BY SMTT(30) DEF AckedDurable, HeadSound, WalTypeOK, Archived
<1>3. WarnedSound' /\ Unanswered'
  BY SMTT(30) DEF WarnedSound, Unanswered, AckedDurable, WalTypeOK
<1>4. DirectorySound'
  BY SMTT(30) DEF DirectorySound, Locked, Writing, WalTypeOK
<1>5. FilesSound'
  BY SMTT(30) DEF FilesSound, DirectorySound, HeadSound, Locked, Writing, WalTypeOK, Archived
<1> QED  BY <1>1, <1>2, <1>3, <1>4, <1>5

LEMMA CrashKept ==
  ASSUME WalInv, NEW c \in Callback, Crash(c)
  PROVE  WalInv'
<1> USE CallbackAssumption DEF WalInv, Crash, Running, Goto, bucket, directory, outcome, Callback
<1>1. WalTypeOK'
  BY SMTT(30) DEF WalTypeOK, ArchiverStage, RestorerStage, CollectorStage, Mutation
<1>2. AckedDurable' /\ HeadSound'
  BY DEF AckedDurable, HeadSound, WalTypeOK, Archived
<1>3. WarnedSound' /\ Unanswered'
  BY DEF WarnedSound, Unanswered, AckedDurable, WalTypeOK
<1>4. DirectorySound'
  BY DEF DirectorySound, Locked, Writing, WalTypeOK
<1>5. FilesSound'
  BY DEF FilesSound, DirectorySound, HeadSound, Locked, Writing, WalTypeOK, Archived
<1> QED  BY <1>1, <1>2, <1>3, <1>4, <1>5

LEMMA PutKept ==
  ASSUME WalInv, NEW a \in Archiver, Put(a)
  PROVE  WalInv'
<1> USE CallbackAssumption DEF WalInv, Put, Answered, Accepts, Rejected, Ambiguous, Goto, bucket, directory, outcome, Callback
<1>1. WalTypeOK'
  BY SMTT(30) DEF WalTypeOK, ArchiverStage, RestorerStage, CollectorStage, Mutation
<1>2. AckedDurable' /\ HeadSound'
  BY SMTT(30) DEF AckedDurable, HeadSound, WalTypeOK, Archived
<1>3. WarnedSound' /\ Unanswered'
  BY DEF WarnedSound, Unanswered, AckedDurable, WalTypeOK
<1>4. DirectorySound'
  BY SMTT(30) DEF DirectorySound, Locked, Writing, WalTypeOK
<1>5. FilesSound'
  BY SMTT(30) DEF FilesSound, DirectorySound, HeadSound, Locked, Writing, WalTypeOK, Archived
<1> QED  BY <1>1, <1>2, <1>3, <1>4, <1>5

LEMMA VerifyKept ==
  ASSUME WalInv, NEW a \in Archiver, Verify(a)
  PROVE  WalInv'
<1> USE CallbackAssumption DEF WalInv, Verify, Goto, bucket, directory, outcome, Callback
<1>1. WalTypeOK'
  BY DEF WalTypeOK, ArchiverStage, RestorerStage, CollectorStage, Mutation
<1>2. AckedDurable' /\ HeadSound'
  BY DEF AckedDurable, HeadSound, WalTypeOK, Archived
<1>3. WarnedSound' /\ Unanswered'
  BY DEF WarnedSound, Unanswered, AckedDurable, WalTypeOK
<1>4. DirectorySound'
  BY DEF DirectorySound, Locked, Writing, WalTypeOK
<1>5. FilesSound'
  BY DEF FilesSound, DirectorySound, HeadSound, Locked, Writing, WalTypeOK, Archived
<1> QED  BY <1>1, <1>2, <1>3, <1>4, <1>5

LEMMA MakeTmpKept ==
  ASSUME WalInv, NEW r \in Restorer, MakeTmp(r)
  PROVE  WalInv'
<1> USE CallbackAssumption DEF WalInv, MakeTmp, Goto, bucket, directory, outcome, Callback
<1>1. WalTypeOK'
  BY DEF WalTypeOK, ArchiverStage, RestorerStage, CollectorStage, Mutation
<1>2. AckedDurable' /\ HeadSound'
  BY DEF AckedDurable, HeadSound, WalTypeOK, Archived
<1>3. WarnedSound' /\ Unanswered'
  BY DEF WarnedSound, Unanswered, AckedDurable, WalTypeOK
<1>4. DirectorySound'
  BY DEF DirectorySound, Locked, Writing, WalTypeOK
<1>5. FilesSound'
  BY DEF FilesSound, DirectorySound, HeadSound, Locked, Writing, WalTypeOK, Archived
<1> QED  BY <1>1, <1>2, <1>3, <1>4, <1>5

LEMMA DownloadKept ==
  ASSUME WalInv, NEW r \in Restorer, Download(r), ~Fatal(r)
  PROVE  WalInv'
<1> USE CallbackAssumption DEF WalInv, Download, Goto, bucket, directory, outcome, Callback
<1>1. WalTypeOK'
  BY SMTT(30) DEF WalTypeOK, ArchiverStage, RestorerStage, CollectorStage, Mutation
<1>2. AckedDurable' /\ HeadSound'
  BY SMTT(30) DEF AckedDurable, HeadSound, WalTypeOK, Archived
<1>3. WarnedSound' /\ Unanswered'
  BY SMTT(30) DEF WarnedSound, Unanswered, AckedDurable, WalTypeOK
<1>4. DirectorySound'
  BY SMTT(30) DEF DirectorySound, Locked, Writing, WalTypeOK
<1>5. FilesSound'
  BY SMTT(30) DEF FilesSound, DirectorySound, HeadSound, Locked, Writing, WalTypeOK, Archived
<1> QED  BY <1>1, <1>2, <1>3, <1>4, <1>5

LEMMA WriteKept ==
  ASSUME WalInv, NEW r \in Restorer, Write(r)
  PROVE  WalInv'
<1> USE CallbackAssumption DEF WalInv, Write, Goto, bucket, directory, outcome, Callback
<1>1. WalTypeOK'
  BY DEF WalTypeOK, ArchiverStage, RestorerStage, CollectorStage, Mutation, HeadSound
<1>2. AckedDurable' /\ HeadSound'
  BY DEF AckedDurable, HeadSound, WalTypeOK, Archived
<1>3. WarnedSound' /\ Unanswered'
  BY DEF WarnedSound, Unanswered, AckedDurable, WalTypeOK
<1>4. DirectorySound'
  BY DEF DirectorySound, Locked, Writing, WalTypeOK
<1>5. FilesSound'
  BY DEF FilesSound, DirectorySound, HeadSound, Locked, Writing, WalTypeOK, Archived
<1> QED  BY <1>1, <1>2, <1>3, <1>4, <1>5

LEMMA RestoredKept ==
  ASSUME WalInv, NEW r \in Restorer, Restored(r)
  PROVE  WalInv'
<1> USE CallbackAssumption DEF WalInv, Restored, Cleanup, Answer, Goto, bucket, directory, outcome, Callback
<1>1. WalTypeOK'
  BY DEF WalTypeOK, ArchiverStage, RestorerStage, CollectorStage, Mutation
<1>2. AckedDurable' /\ HeadSound'
  BY DEF AckedDurable, HeadSound, WalTypeOK, Archived
<1>3. WarnedSound' /\ Unanswered'
  BY DEF WarnedSound, Unanswered, AckedDurable, WalTypeOK
<1>4. DirectorySound'
  BY DEF DirectorySound, Locked, Writing, WalTypeOK
<1>5. FilesSound'
  BY DEF FilesSound, DirectorySound, HeadSound, Locked, Writing, WalTypeOK, Archived
<1> QED  BY <1>1, <1>2, <1>3, <1>4, <1>5

LEMMA AbsentKept ==
  ASSUME WalInv, NEW r \in Restorer, Absent(r)
  PROVE  WalInv'
<1> USE CallbackAssumption DEF WalInv, Absent, Answer, Goto, bucket, directory, outcome, Callback
<1>1. WalTypeOK'
  BY DEF WalTypeOK, ArchiverStage, RestorerStage, CollectorStage, Mutation
<1>2. AckedDurable' /\ HeadSound'
  BY DEF AckedDurable, HeadSound, WalTypeOK, Archived
<1>3. WarnedSound' /\ Unanswered'
  BY DEF WarnedSound, Unanswered, AckedDurable, WalTypeOK
<1>4. DirectorySound'
  BY DEF DirectorySound, Locked, Writing, WalTypeOK
<1>5. FilesSound'
  BY DEF FilesSound, DirectorySound, HeadSound, Locked, Writing, WalTypeOK, Archived
<1> QED  BY <1>1, <1>2, <1>3, <1>4, <1>5

LEMMA ValidateKept ==
  ASSUME WalInv, NEW g \in Collector, Validate(g)
  PROVE  WalInv'
<1> USE CallbackAssumption DEF WalInv, Validate, Goto, bucket, directory, outcome, Callback
<1>1. WalTypeOK'
  BY SMTT(30) DEF WalTypeOK, ArchiverStage, RestorerStage, CollectorStage, Mutation
<1>2. AckedDurable' /\ HeadSound'
  BY DEF AckedDurable, HeadSound, WalTypeOK, Archived
<1>3. WarnedSound' /\ Unanswered'
  BY DEF WarnedSound, Unanswered, AckedDurable, WalTypeOK
<1>4. DirectorySound'
  BY DEF DirectorySound, Locked, Writing, WalTypeOK
<1>5. FilesSound'
  BY DEF FilesSound, DirectorySound, HeadSound, Locked, Writing, WalTypeOK, Archived
<1> QED  BY <1>1, <1>2, <1>3, <1>4, <1>5

LEMMA RetireKept ==
  ASSUME WalInv, NEW g \in Collector, Retire(g)
  PROVE  WalInv'
<1> USE CallbackAssumption DEF WalInv, Retire, Answered, Accepts, Rejected, Ambiguous, Goto, bucket, directory, outcome, Callback
<1>1. WalTypeOK'
  BY SMTT(30) DEF WalTypeOK, ArchiverStage, RestorerStage, CollectorStage, Mutation, HeadSound
<1>2. AckedDurable' /\ HeadSound'
  BY SMTT(30) DEF AckedDurable, HeadSound, WalTypeOK, Archived
<1>3. WarnedSound' /\ Unanswered'
  BY DEF WarnedSound, Unanswered, AckedDurable, WalTypeOK
<1>4. DirectorySound'
  BY DEF DirectorySound, Locked, Writing, WalTypeOK
<1>5. FilesSound'
  BY SMTT(30) DEF FilesSound, DirectorySound, HeadSound, Locked, Writing, WalTypeOK, Archived
<1> QED  BY <1>1, <1>2, <1>3, <1>4, <1>5

LEMMA LateArrivesKept ==
  ASSUME WalInv, NEW m \in late, LateArrives(m)
  PROVE  WalInv'
<1> USE CallbackAssumption DEF WalInv, LateArrives, Accepts, Goto, bucket, directory, outcome, Callback
<1>0. m \in Mutation /\ Grows
  BY MutationGrows, SameGrows DEF WalTypeOK
<1>1. WalTypeOK'
  BY <1>0 DEF WalTypeOK, ArchiverStage, RestorerStage, CollectorStage, Mutation
<1>2. AckedDurable' /\ HeadSound'
  <2>1. ASSUME NEW a \in acked  PROVE Archived(NameOf[a], ContentOf[a])'
    BY <1>0 DEF AckedDurable, WalTypeOK, Grows, Archived
  <2>2. ASSUME NEW c \in Callback \cup Collector, head[c] # None
        PROVE  Archived(NameOf[c], head[c])'
    BY <1>0, <2>2 DEF HeadSound, WalTypeOK, Grows
  <2> QED  BY <2>1, <2>2 DEF AckedDurable, HeadSound, Archived
<1>3. WarnedSound' /\ Unanswered'
  BY <1>0 DEF WarnedSound, Unanswered, AckedDurable, WalTypeOK
<1>4. DirectorySound'
  BY DEF DirectorySound, Locked, Writing, WalTypeOK
<1>5. FilesSound'
  BY SMTT(30), <1>0 DEF FilesSound, DirectorySound, HeadSound, Locked, Writing, WalTypeOK, Grows
<1> QED  BY <1>1, <1>2, <1>3, <1>4, <1>5

-----------------------------------------------------------------------------

LEMMA WalKept == WalInv /\ [Next]_vars => WalInv'
<1> SUFFICES ASSUME WalInv, [Next]_vars  PROVE WalInv'
  OBVIOUS
<1>1. ASSUME NEW c \in Callback, Begin(c) \/ Fail(c) \/ Head(c) \/ Confirm(c) \/ Crash(c)
      PROVE  WalInv'
  <2>1. CASE Fatal(c) /\ stage[c] \notin {"done", "dead"}
    BY <2>1, FailKept
  <2>2. CASE Head(c) /\ ~Fatal(c)
    BY <2>2, HeadKept
  <2>3. CASE Confirm(c) /\ ~Fatal(c)
    BY <2>3, ConfirmKept
  <2> QED  BY <1>1, <2>1, <2>2, <2>3, BeginKept, CrashKept DEF Fail, Head, Confirm
<1>2. ASSUME NEW a \in Archiver, Put(a) \/ Verify(a)  PROVE WalInv'
  BY <1>2, PutKept, VerifyKept
<1>3. ASSUME NEW r \in Restorer,
             \/ Lock(r) \/ MakeTmp(r) \/ Download(r) \/ Write(r) \/ Rename(r)
             \/ Restored(r) \/ Absent(r)
      PROVE  WalInv'
  <2>1. CASE Download(r) /\ Fatal(r)
    BY <2>1, FailKept DEF Download, Callback
  <2> QED  BY <1>3, <2>1, LockKept, MakeTmpKept, DownloadKept, WriteKept, RenameKept, RestoredKept, AbsentKept
<1>4. ASSUME NEW g \in Collector, Validate(g) \/ Retire(g)  PROVE WalInv'
  BY <1>4, ValidateKept, RetireKept
<1>5. CASE UNCHANGED vars
  BY <1>5 DEF vars, WalInv, WalTypeOK, AckedDurable, HeadSound, WarnedSound, Unanswered, DirectorySound,
     FilesSound, Archived
<1> QED  BY <1>1, <1>2, <1>3, <1>4, <1>5, LateArrivesKept DEF Next

LEMMA WalAlways == Spec => []WalInv
BY WalStarts, WalKept, PTL DEF Spec

\* What Archive acknowledged stays in the bucket, byte for byte or as a tombstone,
\* for any number of archivers with any contents and any mutations that are late.
THEOREM WalAckedDurable == Spec => []AckedDurable
<1>1. WalInv => AckedDurable
  BY DEF WalInv
<1> QED  BY <1>1, WalAlways, PTL

\* A restore that begins after the acknowledgment is never answered "absent".
THEOREM WalAbsenceAuthentic == Spec => []AbsenceAuthentic
<1>1. WalInv => AbsenceAuthentic
  BY DEF WalInv, WarnedSound, AbsenceAuthentic
<1> QED  BY <1>1, WalAlways, PTL

\* However many restores share the directory and die in it, a final name has the
\* whole bytes that the bucket had under the source name.
THEOREM WalPublishedVerified == Spec => []PublishedVerified
<1>1. WalInv => PublishedVerified
  BY DEF WalInv, FilesSound, PublishedVerified, Archived
<1> QED  BY <1>1, WalAlways, PTL
=============================================================================
