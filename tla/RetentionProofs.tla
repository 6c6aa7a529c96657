-------------------------- MODULE RetentionProofs --------------------------
(***************************************************************************)
(* Retention: when a manager runs it (RepositoryStatus) and what a run may *)
(* take (Retention).                                                       *)
(*                                                                         *)
(* The safety properties of RepositoryStatus hold for any number of        *)
(* managers, edits and ticks.  A pass that holds a resourceVersion sees    *)
(* the object as it is: whatever it is about to write was computed from    *)
(* the status and the generation that are still there.                     *)
(*                                                                         *)
(* Those of Retention hold for any segment size, window, minimum, number   *)
(* of backups and timelines.  A plan keeps of every path what is extreme   *)
(* in an order of the backups, and what is extreme in a set stays so in    *)
(* any smaller set that still contains it; so what is left of a batch is   *)
(* planned again as before, and serves every target as before.             *)
(***************************************************************************)
EXTENDS RepositoryStatus, Retention, TLAPS, FiniteSetTheorems

\* Most leaves are first-order reasoning; those with arithmetic or records cite SMT.
USE ZenonT(30)
-----------------------------------------------------------------------------
(* The planner.  Its inductive invariant. *)

LSN == 0..MaxLSN
Point == [id : Nat, fork : LSN]
Commit == [parent : Nat, timeline : Nat, completed : Nat, start : LSN, end : LSN]

\* A timeline's path ends with the timeline itself, and no identifier is on it twice.
PathOK(path, t) ==
  /\ path \in Seq(Point) /\ path # <<>>
  /\ path[Len(path)].id = t
  /\ \A i \in DOMAIN path : path[i].id \in 1..t
  /\ \A i, j \in DOMAIN path : path[i].id = path[j].id => i = j

\* Timelines are numbered as they arise.
HistoryOK ==
  /\ Cardinality(Timeline) \in Nat /\ Timeline = 1..Cardinality(Timeline)
  /\ written \in [Timeline -> LSN]
  /\ \A t \in Timeline : PathOK(history[t], t)

\* The archive holds whole segments of WAL that was written.
ArchiveOK ==
  \A n \in archived : /\ n \in Nat \X Nat
                      /\ n[2] + SegmentBytes <= MaxLSN

\* A parent is itself a full.
CommitOK(b) ==
  /\ b.start <= b.end
  /\ b.parent # 0 => b.parent \in 1..Len(backups) /\ backups[b.parent].parent = 0

CatalogOK ==
  /\ now \in Nat
  /\ backups \in Seq(Commit) /\ retired \subseteq 1..Len(backups)
  /\ \A b \in DOMAIN backups : CommitOK(backups[b])

RetentionInv == HistoryOK /\ ArchiveOK /\ CatalogOK /\ ChainsWhole
-----------------------------------------------------------------------------
(* Orders on finite sets.  Induction on the size of a set takes the form of a  *)
(* minimal counterexample: strict inclusion is well-founded on finite sets.    *)

\* R orders S strictly and totally.
Orders(R, S) ==
  /\ \A a \in S : <<a, a>> \notin R
  /\ \A a, b, c \in S : <<a, b>> \in R /\ <<b, c>> \in R => <<a, c>> \in R
  /\ \A a, b \in S : a # b => <<a, b>> \in R \/ <<b, a>> \in R

First(a, R, S) == a \in S /\ \A b \in S \ {a} : <<a, b>> \in R

\* A family of subsets of a finite set has a member that is minimal.
LEMMA MinimalMember ==
  ASSUME NEW S, IsFiniteSet(S), NEW F \in SUBSET SUBSET S, F # {}
  PROVE  \E U \in F : \A V \in F : V \subseteq U => V = U
<1>1. F \subseteq FiniteSubsetsOf(S)
  BY FS_Subset DEF FiniteSubsetsOf
<1>2. PICK U \in F : \A V \in F : ~ (<<V, U>> \in StrictSubsetOrdering(S))
  BY <1>1, FS_StrictSubsetOrderingWellFounded, WFMin
<1>3. ASSUME NEW V \in F, V \subseteq U, V # U PROVE FALSE
  <2>1. <<V, U>> \in (SUBSET S) \X (SUBSET S)
    BY <1>3
  <2>2. <<V, U>> \in StrictSubsetOrdering(S)
    BY SMTT(30), <2>1, <1>3 DEF StrictSubsetOrdering
  <2> QED
    BY <2>2, <1>2, <1>3
<1> QED
  BY <1>3

\* A finite set that is not empty has a first element.
LEMMA FirstExists ==
  ASSUME NEW S, IsFiniteSet(S), S # {}, NEW R, Orders(R, S)
  PROVE  \E a : First(a, R, S)
<1> DEFINE Below(a) == {c \in S : <<c, a>> \in R}
           F == {Below(a) : a \in S}
<1>1. F \in SUBSET SUBSET S /\ F # {}
  OBVIOUS
<1>2. PICK U \in F : \A V \in F : V \subseteq U => V = U
  <2>1. \A G \in SUBSET SUBSET S : G # {} => \E U \in G : \A V \in G : V \subseteq U => V = U
    BY SMTT(30), MinimalMember
  <2> HIDE DEF F
  <2> QED
    BY <1>1, <2>1
<1>3. PICK a \in S : U = Below(a)
  OBVIOUS
<1>4. ASSUME NEW c \in S, <<c, a>> \in R PROVE FALSE
  <2>1. Below(c) \subseteq Below(a)
    BY <1>4 DEF Orders
  <2>2. c \in Below(a) /\ c \notin Below(c)
    BY <1>4 DEF Orders
  <2>3. Below(c) \in F
    OBVIOUS
  <2> QED
    BY <1>2, <1>3, <2>1, <2>2, <2>3
<1>5. First(a, R, S)
  BY <1>4 DEF Orders, First
<1> QED
  BY <1>5

\* A finite set can be arranged in order.
LEMMA SortExists ==
  ASSUME NEW S, IsFiniteSet(S), NEW R, Orders(R, S)
  PROVE  \E s \in [1..Cardinality(S) -> S] :
           \A i, j \in 1..Cardinality(S) : i < j => <<s[i], s[j]>> \in R
<1> DEFINE Sorts(s, U) == \A i, j \in 1..Cardinality(U) : i < j => <<s[i], s[j]>> \in R
           F == {U \in SUBSET S : ~ \E s \in [1..Cardinality(U) -> U] : Sorts(s, U)}
<1>1. ASSUME F # {} PROVE FALSE
  <2>1. F \in SUBSET SUBSET S
    OBVIOUS
  <2>2. PICK U \in F : \A V \in F : V \subseteq U => V = U
    <3>1. \A G \in SUBSET SUBSET S : G # {} => \E U \in G : \A V \in G : V \subseteq U => V = U
      BY SMTT(30), MinimalMember
    <3> HIDE DEF F
    <3> QED
      BY <1>1, <2>1, <3>1
  <2>3. U \in SUBSET S /\ IsFiniteSet(U)
    BY FS_Subset
  <2>4. U # {}
    <3>1. SUFFICES ASSUME U = {} PROVE FALSE
      OBVIOUS
    <3>2. Cardinality(U) = 0
      BY <3>1, FS_EmptySet
    <3>3. 1..Cardinality(U) = {}
      BY SMTT(30), <3>2
    <3>4. [i \in {} |-> i] \in [1..Cardinality(U) -> U] /\ Sorts([i \in {} |-> i], U)
      BY SMTT(30), <3>3
    <3> QED
      BY <3>4
  <2>5. PICK m \in U : \A b \in U \ {m} : <<b, m>> \in R
    <3> DEFINE Rev == {p \in S \X S : <<p[2], p[1]>> \in R}
    <3>1. \A a, b \in S : <<a, b>> \in Rev <=> <<b, a>> \in R
      BY SMTT(30)
    <3> HIDE DEF Rev
    <3>2. Orders(Rev, U)
      BY <2>3, <3>1 DEF Orders
    <3>3. PICK m : First(m, Rev, U)
      BY <2>3, <2>4, <3>2, FirstExists
    <3> QED
      BY <2>3, <3>1, <3>3 DEF First
  <2> DEFINE V == U \ {m}
             k == Cardinality(U)
  <2>6. k \in Nat \ {0} /\ Cardinality(V) = k - 1
    <3>1. k \in Nat /\ k # 0
      BY <2>3, <2>4, FS_CardinalityType, FS_EmptySet
    <3>2. Cardinality(V) = IF m \in U THEN k - 1 ELSE k
      BY <2>3, FS_RemoveElement
    <3> HIDE DEF F, k, V
    <3> QED
      BY SMTT(30), <3>1, <3>2
  <2>7. V \in SUBSET S /\ V \notin F
    BY <2>2, <2>3, <2>5
  <2>8. PICK s \in [1..Cardinality(V) -> V] : Sorts(s, V)
    BY <2>7
  <2> DEFINE t == [i \in 1..k |-> IF i = k THEN m ELSE s[i]]
  <2>9. \A i \in 1..k : i # k => i \in 1..Cardinality(V) /\ s[i] \in V
    <3>1. ASSUME NEW i \in 1..k, i # k PROVE i \in 1..Cardinality(V)
      <4> HIDE DEF F, k, V
      <4> QED
        BY SMTT(30), <2>6, <3>1
    <3> QED
      BY <2>8, <3>1
  <2>10. t \in [1..k -> U]
    BY <2>9
  <2>11. Sorts(t, U)
    <3> SUFFICES ASSUME NEW i \in 1..k, NEW j \in 1..k, i < j PROVE <<t[i], t[j]>> \in R
      OBVIOUS
    <3>1. i # k
      BY SMTT(30), <2>6
    <3>2. t[i] = s[i] /\ s[i] \in V
      BY <3>1, <2>9
    <3>3. CASE j = k
      BY <3>2, <3>3, <2>5
    <3>4. CASE j # k
      BY <3>1, <3>4, <2>8, <2>9
    <3> QED
      BY <3>3, <3>4
  <2> QED
    BY <2>10, <2>11
<1> QED
  BY <1>1

\* An arrangement without repetition leaves nothing out.
LEMMA ArrangementIsAll ==
  ASSUME NEW S, IsFiniteSet(S), NEW s \in [1..Cardinality(S) -> S],
         \A i, j \in 1..Cardinality(S) : s[i] = s[j] => i = j,
         NEW a \in S
  PROVE  \E i \in 1..Cardinality(S) : s[i] = a
<1>1. SUFFICES ASSUME \A i \in 1..Cardinality(S) : s[i] # a PROVE FALSE
  OBVIOUS
<1>2. s \in [1..Cardinality(S) -> S \ {a}]
  BY <1>1
<1>3. IsFiniteSet(S \ {a}) /\ Cardinality(S) \in Nat /\ Cardinality(S \ {a}) = Cardinality(S) - 1
  BY FS_RemoveElement, FS_CardinalityType
<1>4. Cardinality(S) >= 1
  BY SMTT(30), <1>3, FS_RemoveElement, FS_CardinalityType
<1>5. IsFiniteSet(1..Cardinality(S)) /\ Cardinality(S \ {a}) < Cardinality(1..Cardinality(S))
  BY SMTT(30), <1>3, <1>4, FS_Interval
<1> QED
  <2>1. PICK i, j \in 1..Cardinality(S) : i # j /\ s[i] = s[j]
    BY SMTT(30), <1>2, <1>3, <1>5, FS_PigeonHole
  <2> QED
    BY <2>1

\* The greatest and the least of a set of naturals below a bound.
LEMMA MaxIs ==
  ASSUME NEW S \in SUBSET Nat, S # {}, NEW n \in Nat, \A x \in S : x <= n
  PROVE  Max(S) \in S /\ \A x \in S : Max(S) >= x
<1> DEFINE Rel == {p \in Nat \X Nat : p[1] > p[2]}
<1>1. \A a, b \in Nat : <<a, b>> \in Rel <=> a > b
  BY SMTT(30)
<1>2. Orders(Rel, S)
  <2> HIDE DEF Rel
  <2> QED
    BY SMTT(30), <1>1 DEF Orders
<1>3. IsFiniteSet(S)
  BY FS_BoundedSetOfNaturals
<1>4. PICK a : First(a, Rel, S)
  <2> HIDE DEF Rel
  <2> QED
    BY <1>2, <1>3, FirstExists
<1>5. ASSUME NEW b \in S PROVE a >= b
  <2> HIDE DEF Rel
  <2>1. a \in S /\ a \in Nat /\ b \in Nat
    BY <1>4 DEF First
  <2>2. a = b \/ a > b
    BY <1>1, <1>4, <2>1 DEF First
  <2> QED
    BY SMTT(30), <2>1, <2>2
<1> QED
  BY <1>4, <1>5 DEF Max, First

LEMMA MinIs ==
  ASSUME NEW S \in SUBSET Nat, S # {}, NEW n \in Nat, \A x \in S : x <= n
  PROVE  Min(S) \in S /\ \A x \in S : Min(S) <= x
<1> DEFINE Rel == {p \in Nat \X Nat : p[1] < p[2]}
<1>1. \A a, b \in Nat : <<a, b>> \in Rel <=> a < b
  BY SMTT(30)
<1>2. Orders(Rel, S)
  <2> HIDE DEF Rel
  <2> QED
    BY SMTT(30), <1>1 DEF Orders
<1>3. IsFiniteSet(S)
  BY FS_BoundedSetOfNaturals
<1>4. PICK a : First(a, Rel, S)
  <2> HIDE DEF Rel
  <2> QED
    BY <1>2, <1>3, FirstExists
<1>5. ASSUME NEW b \in S PROVE a <= b
  <2> HIDE DEF Rel
  <2>1. a \in S /\ a \in Nat /\ b \in Nat
    BY <1>4 DEF First
  <2>2. a = b \/ a < b
    BY <1>1, <1>4, <2>1 DEF First
  <2> QED
    BY SMTT(30), <2>1, <2>2
<1> QED
  BY <1>4, <1>5 DEF Min, First

\* Align rounds down, by less than a segment, and keeps the order.
LEMMA AlignIs ==
  ASSUME NEW x \in Nat
  PROVE  Align(x) \in Nat /\ Align(x) <= x /\ x < Align(x) + SegmentBytes
  BY SMTT(30), PolicyAssumption DEF Align

LEMMA AlignMonotone ==
  ASSUME NEW x \in Nat, NEW y \in Nat, x <= y
  PROVE  Align(x) <= Align(y)
  BY SMTT(30), PolicyAssumption DEF Align
-----------------------------------------------------------------------------
(* The order of the backups *)

\* Newer is a strict total order of the backups.
LEMMA NewerOrders ==
  ASSUME CatalogOK
  PROVE  \A a, b, c \in DOMAIN backups :
           /\ ~ Newer(a, a)
           /\ Newer(a, b) /\ Newer(b, c) => Newer(a, c)
           /\ a # b => Newer(a, b) \/ Newer(b, a)
<1>1. \A a \in DOMAIN backups : a \in Nat /\ backups[a].completed \in Nat
  <2>1. \A a \in DOMAIN backups : a \in Nat /\ backups[a] \in Commit
    BY SMTT(30) DEF CatalogOK
  <2> QED
    BY SMTT(30), <2>1 DEF Commit
<1> QED
  BY SMTT(30), <1>1 DEF Newer

IsNewest(a, S) == a \in S /\ \A b \in S \ {a} : Newer(a, b)
IsOldest(a, S) == a \in S /\ \A b \in S \ {a} : Newer(b, a)

LEMMA BackupsFinite ==
  ASSUME CatalogOK
  PROVE  /\ DOMAIN backups = 1..Len(backups) /\ Live \subseteq DOMAIN backups
         /\ \A S \in SUBSET DOMAIN backups : IsFiniteSet(S)
<1>1. Len(backups) \in Nat /\ DOMAIN backups = 1..Len(backups)
  BY SMTT(30) DEF CatalogOK
<1>2. IsFiniteSet(1..Len(backups))
  BY SMTT(30), <1>1, FS_Interval
<1> QED
  BY <1>1, <1>2, FS_Subset DEF Live

\* There is a newest backup of any, and it is the one that Newest chooses.
LEMMA NewestIs ==
  ASSUME CatalogOK, NEW S \in SUBSET DOMAIN backups
  PROVE  /\ S # {} => IsNewest(Newest(S), S)
         /\ \A a : IsNewest(a, S) => a = Newest(S)
<1> DEFINE Rel == {p \in S \X S : Newer(p[1], p[2])}
<1>1. \A a, b \in S : <<a, b>> \in Rel <=> Newer(a, b)
  BY SMTT(30)
<1>2. Orders(Rel, S)
  <2> HIDE DEF Rel
  <2> QED
    BY <1>1, NewerOrders DEF Orders
<1>3. IsFiniteSet(S)
  BY BackupsFinite
<1>4. ASSUME S # {} PROVE IsNewest(Newest(S), S)
  <2> HIDE DEF Rel
  <2>1. PICK a : First(a, Rel, S)
    BY <1>2, <1>3, <1>4, FirstExists
  <2>2. a \in S /\ \A b \in S \ {a} : Newer(a, b)
    BY <1>1, <2>1 DEF First
  <2> QED
    BY <2>2 DEF IsNewest, Newest
<1>5. ASSUME NEW a, IsNewest(a, S) PROVE a = Newest(S)
  <2>1. a \in S /\ IsNewest(Newest(S), S)
    BY <1>4, <1>5 DEF IsNewest
  <2> QED
    BY <1>5, <2>1, NewerOrders DEF IsNewest
<1> QED
  BY <1>4, <1>5

LEMMA OldestIs ==
  ASSUME CatalogOK, NEW S \in SUBSET DOMAIN backups
  PROVE  /\ S # {} => IsOldest(Oldest(S), S)
         /\ \A a : IsOldest(a, S) => a = Oldest(S)
<1> DEFINE Rel == {p \in S \X S : Newer(p[2], p[1])}
<1>1. \A a, b \in S : <<a, b>> \in Rel <=> Newer(b, a)
  BY SMTT(30)
<1>2. Orders(Rel, S)
  <2> HIDE DEF Rel
  <2> QED
    BY <1>1, NewerOrders DEF Orders
<1>3. IsFiniteSet(S)
  BY BackupsFinite
<1>4. ASSUME S # {} PROVE IsOldest(Oldest(S), S)
  <2> HIDE DEF Rel
  <2>1. PICK a : First(a, Rel, S)
    BY <1>2, <1>3, <1>4, FirstExists
  <2>2. a \in S /\ \A b \in S \ {a} : Newer(b, a)
    BY <1>1, <2>1 DEF First
  <2> QED
    BY <2>2 DEF IsOldest, Oldest
<1>5. ASSUME NEW a, IsOldest(a, S) PROVE a = Oldest(S)
  <2>1. a \in S /\ IsOldest(Oldest(S), S)
    BY <1>4, <1>5 DEF IsOldest
  <2> QED
    BY <1>5, <2>1, NewerOrders DEF IsOldest
<1> QED
  BY <1>4, <1>5

\* Leaving others out does not change which one is the newest, or the oldest.
LEMMA ExtremesStay ==
  ASSUME CatalogOK, NEW S \in SUBSET DOMAIN backups, NEW T \in SUBSET S, S # {}
  PROVE  /\ Newest(S) \in T => Newest(T) = Newest(S)
         /\ Oldest(S) \in T => Oldest(T) = Oldest(S)
<1>1. T \in SUBSET DOMAIN backups
  OBVIOUS
<1>2. IsNewest(Newest(S), S) /\ IsOldest(Oldest(S), S)
  BY NewestIs, OldestIs
<1>3. ASSUME Newest(S) \in T PROVE Newest(T) = Newest(S)
  <2>1. IsNewest(Newest(S), T)
    BY <1>2, <1>3 DEF IsNewest
  <2> QED
    BY <1>1, <2>1, NewestIs
<1>4. ASSUME Oldest(S) \in T PROVE Oldest(T) = Oldest(S)
  <2>1. IsOldest(Oldest(S), T)
    BY <1>2, <1>4 DEF IsOldest
  <2> QED
    BY <1>1, <2>1, OldestIs
<1> QED
  BY <1>3, <1>4

-----------------------------------------------------------------------------
(* What Plan keeps and what it expires *)

\* Before is a strict total order of the backups.
LEMMA BeforeOrders ==
  ASSUME CatalogOK
  PROVE  \A a, b, c \in DOMAIN backups :
           /\ ~ Before(a, a)
           /\ Before(a, b) /\ Before(b, c) => Before(a, c)
           /\ a # b => Before(a, b) \/ Before(b, a)
<1>1. \A a \in DOMAIN backups : a \in Nat
  BY SMTT(30) DEF CatalogOK
<1> QED
  BY SMTT(30), <1>1 DEF Before

\* Expire arranges exactly the backups that are not kept, in the order Before.
LEMMA ExpireIs ==
  ASSUME CatalogOK, NEW keep
  PROVE  /\ Len(Expire(keep)) \in Nat
         /\ Expire(keep) \in [1..Len(Expire(keep)) -> Live \ keep]
         /\ \A i, j \in 1..Len(Expire(keep)) :
              i < j => Before(Expire(keep)[i], Expire(keep)[j])
         /\ \A a \in Live \ keep : \E i \in 1..Len(Expire(keep)) : Expire(keep)[i] = a
<1> DEFINE gone == Live \ keep
           n == Cardinality(gone)
           Rel == {p \in gone \X gone : Before(p[1], p[2])}
           Sorts(s) == \A i, j \in DOMAIN s : i < j => Before(s[i], s[j])
<1>1. gone \subseteq DOMAIN backups /\ IsFiniteSet(gone)
  BY BackupsFinite
<1>2. n \in Nat
  BY <1>1, FS_CardinalityType
<1>3. \A a, b \in gone : <<a, b>> \in Rel <=> Before(a, b)
  BY SMTT(30)
<1>4. \E s \in [1..n -> gone] : Sorts(s)
  <2> HIDE DEF gone, Rel
  <2>1. Orders(Rel, gone)
    BY <1>1, <1>3, BeforeOrders DEF Orders
  <2>2. PICK s \in [1..n -> gone] : \A i, j \in 1..n : i < j => <<s[i], s[j]>> \in Rel
    BY <1>1, <2>1, SortExists
  <2> QED
    BY <1>3, <2>2
<1>5. Expire(keep) = CHOOSE s \in [1..n -> gone] : Sorts(s)
  BY DEF Expire
<1>6. PICK e : e = Expire(keep)
  OBVIOUS
<1>7. e \in [1..n -> gone] /\ Sorts(e)
  <2> HIDE DEF gone, n, Sorts
  <2> QED
    BY <1>4, <1>5, <1>6
<1>8. DOMAIN e = 1..n /\ Len(e) = n
  <2> HIDE DEF gone, n
  <2> QED
    BY SMTT(30), <1>2, <1>7
<1>9. \A i, j \in 1..n : e[i] = e[j] => i = j
  <2> SUFFICES ASSUME NEW i \in 1..n, NEW j \in 1..n, e[i] = e[j], i # j PROVE FALSE
    OBVIOUS
  <2>1. i < j \/ j < i
    BY SMTT(30), <1>2
  <2>2. Before(e[i], e[j]) \/ Before(e[j], e[i])
    BY <1>7, <1>8, <2>1
  <2>3. e[i] \in DOMAIN backups
    BY <1>1, <1>7
  <2> QED
    BY <2>2, <2>3, BeforeOrders
<1>10. \A a \in gone : \E i \in 1..n : e[i] = a
  <2> HIDE DEF gone
  <2> QED
    BY <1>1, <1>7, <1>9, ArrangementIsAll
<1> QED
  BY <1>2, <1>6, <1>7, <1>8, <1>10

\* The newest of the full roots on a path, no more than the minimum.
Roots(fulls) == {b \in fulls : Cardinality({f \in fulls : Newer(f, b)}) < Minimum}

\* A root that is left out of a smaller set counts for nothing: enough newer ones stay.
LEMMA RootsStay ==
  ASSUME CatalogOK, NEW fulls \in SUBSET DOMAIN backups, NEW some \in SUBSET fulls,
         Roots(fulls) \subseteq some
  PROVE  Roots(some) = Roots(fulls)
<1> DEFINE above(S, b) == {f \in S : Newer(f, b)}
<1>1. ASSUME NEW b \in fulls
      PROVE  /\ IsFiniteSet(above(fulls, b)) /\ IsFiniteSet(above(some, b))
             /\ Cardinality(above(fulls, b)) \in Nat /\ Cardinality(above(some, b)) \in Nat
             /\ Cardinality(above(some, b)) <= Cardinality(above(fulls, b))
  <2>1. IsFiniteSet(above(fulls, b)) /\ IsFiniteSet(above(some, b))
    BY BackupsFinite
  <2>2. above(some, b) \in SUBSET above(fulls, b)
    OBVIOUS
  <2> HIDE DEF above
  <2> QED
    BY <2>1, <2>2, FS_CardinalityType, FS_Subset
<1>2. ASSUME NEW b \in Roots(fulls) PROVE b \in Roots(some)
  <2>1. b \in some /\ b \in fulls /\ Cardinality(above(fulls, b)) < Minimum
    BY DEF Roots
  <2>2. Cardinality(above(some, b)) < Minimum
    <3> HIDE DEF above
    <3> QED
      BY SMTT(30), <1>1, <2>1, PolicyAssumption
  <2> QED
    BY <2>1, <2>2 DEF Roots
<1>3. ASSUME NEW b \in Roots(some), b \notin Roots(fulls) PROVE FALSE
  <2>1. b \in some /\ b \in fulls /\ Cardinality(above(some, b)) < Minimum
    BY DEF Roots
  <2>2. ~ (Cardinality(above(fulls, b)) < Minimum)
    BY <1>3, <2>1 DEF Roots
  <2> DEFINE lost == above(fulls, b) \ some
  <2>3. lost # {}
    <3>1. SUFFICES ASSUME lost = {} PROVE FALSE
      OBVIOUS
    <3>2. above(fulls, b) = above(some, b)
      BY <3>1
    <3> QED
      BY <2>1, <2>2, <3>2
  <2>4. lost \in SUBSET DOMAIN backups
    OBVIOUS
  <2>5. PICK x : IsNewest(x, lost)
    <3> HIDE DEF lost
    <3> QED
      BY <2>3, <2>4, NewestIs
  <2>6. x \in fulls /\ x \notin some /\ Newer(x, b)
    BY <2>5 DEF IsNewest
  <2>7. ~ (Cardinality(above(fulls, x)) < Minimum)
    BY <2>6 DEF Roots
  <2>8. above(fulls, x) \in SUBSET above(some, b)
    <3> SUFFICES ASSUME NEW f \in fulls, Newer(f, x) PROVE f \in some /\ Newer(f, b)
      OBVIOUS
    <3>1. Newer(f, b)
      BY <2>1, <2>6, NewerOrders
    <3>2. ~ Newer(x, f) /\ f # x
      BY <2>6, NewerOrders
    <3> QED
      BY <2>5, <3>1, <3>2 DEF IsNewest
  <2>9. /\ Cardinality(above(fulls, x)) \in Nat /\ Cardinality(above(some, b)) \in Nat
        /\ Cardinality(above(fulls, x)) <= Cardinality(above(some, b))
    <3>1. IsFiniteSet(above(some, b))
      BY <1>1, <2>1
    <3> HIDE DEF above
    <3> QED
      BY <1>1, <2>1, <2>6, <2>8, <3>1, FS_Subset
  <2> HIDE DEF above, lost
  <2> QED
    BY SMTT(30), <2>1, <2>7, <2>9, PolicyAssumption
<1> QED
  BY <1>2, <1>3

\* The roots are as many as the minimum asks for, or all there are.
LEMMA RootsEnough ==
  ASSUME CatalogOK, NEW fulls \in SUBSET DOMAIN backups
  PROVE  Roots(fulls) = fulls \/ Cardinality(Roots(fulls)) >= Minimum
<1> DEFINE rest == fulls \ Roots(fulls)
<1>1. SUFFICES ASSUME rest # {} PROVE Cardinality(Roots(fulls)) >= Minimum
  BY DEF Roots
<1>2. rest \in SUBSET DOMAIN backups
  OBVIOUS
<1>3. PICK x : IsNewest(x, rest)
  <2> HIDE DEF rest
  <2> QED
    BY <1>1, <1>2, NewestIs
<1>4. x \in fulls /\ ~ (Cardinality({f \in fulls : Newer(f, x)}) < Minimum)
  BY <1>3 DEF IsNewest, Roots
<1> DEFINE above == {f \in fulls : Newer(f, x)}
<1>5. above \in SUBSET Roots(fulls)
  <2> SUFFICES ASSUME NEW f \in fulls, Newer(f, x) PROVE f \in Roots(fulls)
    OBVIOUS
  <2>1. ~ Newer(x, f) /\ f # x
    BY <1>4, NewerOrders
  <2> QED
    BY <1>3, <2>1 DEF IsNewest
<1>6. IsFiniteSet(Roots(fulls)) /\ IsFiniteSet(above)
  BY BackupsFinite DEF Roots
<1>7. /\ Cardinality(above) \in Nat /\ Cardinality(Roots(fulls)) \in Nat
      /\ Cardinality(above) <= Cardinality(Roots(fulls))
  <2> HIDE DEF above
  <2> QED
    BY <1>5, <1>6, FS_CardinalityType, FS_Subset
<1> QED
  <2>1. ~ (Cardinality(above) < Minimum)
    BY <1>4
  <2> HIDE DEF above, rest
  <2> QED
    BY SMTT(30), <1>7, <2>1, PolicyAssumption

\* A plan keeps only what there is.
LEMMA KeepOnWithin ==
  ASSUME CatalogOK, NEW live \in SUBSET DOMAIN backups, NEW path, NEW cutoff
  PROVE  KeepOn(live, path, cutoff) \subseteq {b \in live : Reachable(b, path)}
<1> DEFINE can == {b \in live : Reachable(b, path)}
           anchors == {b \in can : backups[b].completed <= cutoff}
           inside == {b \in can : backups[b].completed >= cutoff}
           fulls == {b \in can : backups[b].parent = 0}
<1>1. SUFFICES ASSUME can # {} PROVE KeepOn(live, path, cutoff) \subseteq can
  BY DEF KeepOn
<1>2. KeepOn(live, path, cutoff) =
        inside \cup {IF anchors # {} THEN Newest(anchors) ELSE Oldest(can)}
        \cup Roots(fulls) \cup {Newest(can)}
  BY <1>1 DEF KeepOn, Roots
<1>3. /\ can \in SUBSET DOMAIN backups /\ anchors \in SUBSET can
      /\ inside \in SUBSET can /\ Roots(fulls) \in SUBSET can
  BY DEF Roots
<1> HIDE DEF can, anchors, inside, fulls
<1>4. Newest(can) \in can /\ Oldest(can) \in can
  BY <1>1, <1>3, NewestIs, OldestIs DEF IsNewest, IsOldest
<1>5. anchors # {} => Newest(anchors) \in can
  BY <1>3, NewestIs DEF IsNewest
<1> QED
  BY <1>2, <1>3, <1>4, <1>5

\* A path that is planned again over any set between what it kept and what there
\* was keeps the same.
LEMMA KeepOnStays ==
  ASSUME CatalogOK, NEW live \in SUBSET DOMAIN backups, NEW left \in SUBSET live,
         NEW path, NEW cutoff, KeepOn(live, path, cutoff) \subseteq left
  PROVE  KeepOn(left, path, cutoff) = KeepOn(live, path, cutoff)
<1> DEFINE can(S) == {b \in S : Reachable(b, path)}
           fulls(S) == {b \in can(S) : backups[b].parent = 0}
           anchors(S) == {b \in can(S) : backups[b].completed <= cutoff}
           inside(S) == {b \in can(S) : backups[b].completed >= cutoff}
           anchor(S) == IF anchors(S) # {} THEN Newest(anchors(S)) ELSE Oldest(can(S))
<1>1. \A S : KeepOn(S, path, cutoff) =
               IF can(S) = {} THEN {}
               ELSE inside(S) \cup {anchor(S)} \cup Roots(fulls(S)) \cup {Newest(can(S))}
  BY DEF KeepOn, Roots
<1>2. CASE can(live) = {}
  BY <1>1, <1>2
<1>3. CASE can(live) # {}
  <2>1. /\ inside(live) \subseteq left /\ anchor(live) \in left
        /\ Roots(fulls(live)) \subseteq left /\ Newest(can(live)) \in left
    <3> HIDE DEF can, inside, anchor, fulls
    <3> QED
      BY <1>1, <1>3
  <2>2. /\ can(live) \in SUBSET DOMAIN backups /\ anchors(live) \in SUBSET can(live)
        /\ can(left) = can(live) \cap left /\ anchors(left) = anchors(live) \cap left
        /\ fulls(left) = fulls(live) \cap left /\ fulls(live) \in SUBSET DOMAIN backups
    OBVIOUS
  <2>3. inside(left) = inside(live)
    BY <2>1
  <2>4. Roots(fulls(left)) = Roots(fulls(live))
    <3>1. Roots(fulls(live)) \subseteq fulls(live)
      BY DEF Roots
    <3> HIDE DEF can, inside, anchor, anchors, fulls
    <3> QED
      BY <2>1, <2>2, <3>1, RootsStay
  <2>5. Newest(can(live)) \in can(left) /\ Newest(can(left)) = Newest(can(live))
    <3> HIDE DEF can, inside, anchor, anchors, fulls
    <3>1. Newest(can(live)) \in can(live)
      BY <1>3, <2>2, NewestIs DEF IsNewest
    <3> QED
      BY <1>3, <2>1, <2>2, <3>1, ExtremesStay
  <2>6. anchor(left) = anchor(live)
    <3>1. CASE anchors(live) = {}
      <4>1. anchor(live) = Oldest(can(live)) /\ anchor(left) = Oldest(can(left))
        BY <3>1
      <4> HIDE DEF can, inside, anchor, anchors, fulls
      <4>2. Oldest(can(live)) \in can(live)
        BY <1>3, <2>2, OldestIs DEF IsOldest
      <4>3. Oldest(can(live)) \in can(left) /\ can(left) \in SUBSET can(live)
        BY <2>1, <2>2, <4>1, <4>2
      <4>4. Oldest(can(left)) = Oldest(can(live))
        BY <1>3, <2>2, <4>3, ExtremesStay
      <4> QED
        BY <4>1, <4>4
    <3>2. CASE anchors(live) # {}
      <4>1. anchor(live) = Newest(anchors(live))
        BY <3>2
      <4>2. Newest(anchors(live)) \in anchors(live)
        <5> HIDE DEF can, inside, anchor, anchors, fulls
        <5> QED
          BY <3>2, <2>2, NewestIs DEF IsNewest
      <4>3. anchors(left) # {}
        BY <2>1, <4>1, <4>2
      <4>4. anchor(left) = Newest(anchors(left))
        BY <4>3
      <4> HIDE DEF can, inside, anchor, anchors, fulls
      <4> QED
        BY <3>2, <2>1, <2>2, <4>1, <4>2, <4>4, ExtremesStay
    <3> QED
      BY <3>1, <3>2
  <2> HIDE DEF can, inside, anchor, anchors, fulls
  <2> QED
    BY <1>1, <1>3, <2>3, <2>4, <2>5, <2>6
<1> QED
  BY <1>2, <1>3

\* The same for the whole plan.
LEMMA KeepStays ==
  ASSUME CatalogOK, NEW live \in SUBSET DOMAIN backups, NEW left \in SUBSET live,
         NEW cutoff, Keep(live, cutoff) \cap live \subseteq left
  PROVE  Keep(left, cutoff) = Keep(live, cutoff)
<1>1. ASSUME NEW path \in Paths PROVE KeepOn(left, path, cutoff) = KeepOn(live, path, cutoff)
  <2>1. KeepOn(live, path, cutoff) \subseteq live
    BY KeepOnWithin
  <2>2. KeepOn(live, path, cutoff) \subseteq Keep(live, cutoff)
    BY <1>1 DEF Keep
  <2> QED
    BY <2>1, <2>2, KeepOnStays
<1> QED
  BY <1>1 DEF Keep

-----------------------------------------------------------------------------
(* The inductive invariant *)

LEMMA LsnIs == MaxLSN \in Nat /\ SegmentBytes \in Nat \ {0} /\ \A x \in LSN : x \in Nat /\ x <= MaxLSN
  BY SMTT(30), PolicyAssumption DEF LSN

\* What the invariant says of one timeline.
LEMMA PathIs ==
  ASSUME HistoryOK, NEW t \in Timeline
  PROVE  /\ t \in Nat \ {0} /\ history[t] \in Seq(Point)
         /\ Len(history[t]) \in Nat \ {0} /\ DOMAIN history[t] = 1..Len(history[t])
         /\ history[t][Len(history[t])].id = t
         /\ \A i \in DOMAIN history[t] : /\ history[t][i].id \in Nat \ {0}
                                         /\ history[t][i].fork \in LSN
         /\ \A i, j \in DOMAIN history[t] : history[t][i].id = history[t][j].id => i = j
         /\ written[t] \in LSN
<1>1. PathOK(history[t], t) /\ written[t] \in LSN
  BY DEF HistoryOK
<1>2. t \in Nat \ {0}
  <2>1. t \in 1..Cardinality(Timeline) /\ Cardinality(Timeline) \in Nat
    BY DEF HistoryOK
  <2> QED
    BY SMTT(30), <2>1
<1>3. PICK p : p = history[t]
  OBVIOUS
<1>4. p \in Seq(Point) /\ p # <<>>
  BY <1>1, <1>3 DEF PathOK
<1>5. Len(p) \in Nat \ {0} /\ DOMAIN p = 1..Len(p)
  BY SMTT(30), <1>4
<1>6. \A i \in DOMAIN p : p[i] \in Point
  BY SMTT(30), <1>4
<1>7. \A i \in DOMAIN p : p[i].fork \in LSN /\ p[i].id \in Nat
  BY SMTT(30), <1>6 DEF Point
<1>8. \A i \in DOMAIN p : p[i].id # 0
  <2>1. \A i \in DOMAIN p : p[i].id \in 1..t
    BY <1>1, <1>3 DEF PathOK
  <2> QED
    BY SMTT(30), <1>2, <2>1
<1> QED
  BY <1>1, <1>2, <1>3, <1>4, <1>5, <1>7, <1>8 DEF PathOK

\* What it says of one backup.
LEMMA CommitIs ==
  ASSUME CatalogOK, NEW b \in DOMAIN backups
  PROVE  /\ b \in Nat \ {0} /\ backups[b] \in Commit
         /\ backups[b].parent \in Nat /\ backups[b].timeline \in Nat /\ backups[b].completed \in Nat
         /\ backups[b].start \in LSN /\ backups[b].end \in LSN
         /\ backups[b].start <= backups[b].end
         /\ backups[b].parent # 0 => /\ backups[b].parent \in DOMAIN backups
                                     /\ backups[backups[b].parent].parent = 0
<1>1. b \in Nat \ {0} /\ backups[b] \in Commit
  BY SMTT(30) DEF CatalogOK
<1>2. /\ backups[b].parent \in Nat /\ backups[b].timeline \in Nat /\ backups[b].completed \in Nat
      /\ backups[b].start \in LSN /\ backups[b].end \in LSN
  BY SMTT(30), <1>1 DEF Commit
<1>3. CommitOK(backups[b])
  BY DEF CatalogOK
<1> QED
  BY <1>1, <1>2, <1>3, BackupsFinite DEF CommitOK

LEMMA RetentionInvInit == RetentionInit => RetentionInv
<1> SUFFICES ASSUME RetentionInit PROVE RetentionInv
  OBVIOUS
<1> USE DEF RetentionInit
<1>1. HistoryOK
  <2>1. Timeline = {1} /\ 1..1 = {1} /\ Cardinality({1}) = 1
    <3>1. 1..1 = {1}
      BY SMTT(30)
    <3> QED
      BY <3>1, FS_Singleton DEF Timeline
  <2>2. written \in [Timeline -> LSN]
    BY SMTT(30), <2>1, PolicyAssumption DEF LSN
  <2>3. PICK p : p = <<[id |-> 1, fork |-> 0]>>
    OBVIOUS
  <2>4. [id |-> 1, fork |-> 0] \in Point
    BY SMTT(30), PolicyAssumption DEF Point, LSN
  <2>5. p \in Seq(Point) /\ p # <<>> /\ Len(p) = 1 /\ DOMAIN p = {1} /\ p[1].id = 1
    BY SMTT(30), <2>3, <2>4
  <2>6. PathOK(p, 1)
    BY <2>1, <2>5 DEF PathOK
  <2>7. history[1] = p
    BY <2>3
  <2>8. 1 \in Nat
    BY SMTT(30)
  <2> QED
    BY <2>1, <2>2, <2>6, <2>7, <2>8 DEF HistoryOK
<1>2. ArchiveOK
  BY DEF ArchiveOK
<1>3. CatalogOK /\ ChainsWhole
  <2>1. now \in Nat /\ backups \in Seq(Commit) /\ DOMAIN backups = {} /\ 1..Len(backups) = {}
    BY SMTT(30)
  <2> QED
    BY <2>1 DEF CatalogOK, ChainsWhole, Live
<1> QED
  BY <1>1, <1>2, <1>3 DEF RetentionInv

LEMMA RetentionInvElapse == RetentionInv /\ Elapse => RetentionInv'
<1> SUFFICES ASSUME RetentionInv, Elapse PROVE RetentionInv'
  OBVIOUS
<1>1. now' \in Nat
  BY SMTT(30) DEF RetentionInv, CatalogOK, Elapse
<1> QED
  BY <1>1 DEF RetentionInv, Elapse, HistoryOK, Timeline, ArchiveOK, CatalogOK, CommitOK, ChainsWhole, Live

LEMMA RetentionInvWrite ==
  ASSUME RetentionInv, NEW t \in Timeline, Write(t)
  PROVE  RetentionInv'
<1>1. written' \in [Timeline -> LSN]
  <2>1. written[t] \in LSN /\ written[t] < MaxLSN /\ written \in [Timeline -> LSN]
    BY DEF RetentionInv, HistoryOK, Write
  <2>2. written[t] + 1 \in LSN
    BY SMTT(30), <2>1, LsnIs DEF LSN
  <2> QED
    BY <2>1, <2>2 DEF Write
<1> QED
  BY <1>1 DEF RetentionInv, Write, HistoryOK, Timeline, ArchiveOK, CatalogOK, CommitOK, ChainsWhole, Live

LEMMA RetentionInvArchive ==
  ASSUME RetentionInv, NEW t \in Timeline, Archive(t)
  PROVE  RetentionInv'
<1> DEFINE names == {n \in archived : n[1] = t}
           start == IF names = {} THEN Align(history[t][Len(history[t])].fork)
                    ELSE Max({n[2] : n \in names}) + SegmentBytes
<1>1. start \in Nat
  <2>1. CASE names = {}
    <3>1. history[t][Len(history[t])].fork \in Nat
      BY SMTT(30), PathIs, LsnIs DEF RetentionInv
    <3> QED
      BY <2>1, <3>1, AlignIs
  <2>2. CASE names # {}
    <3> DEFINE starts == {n[2] : n \in names}
    <3>1. \A n \in archived : n[2] \in Nat /\ n[2] <= MaxLSN
      BY SMTT(30), LsnIs DEF RetentionInv, ArchiveOK
    <3>2. starts \in SUBSET Nat /\ starts # {} /\ \A x \in starts : x <= MaxLSN
      BY <2>2, <3>1
    <3> HIDE DEF starts
    <3>3. Max(starts) \in Nat
      BY <3>2, MaxIs, LsnIs
    <3>4. Max(starts) + SegmentBytes \in Nat
      BY SMTT(30), <3>3, LsnIs
    <3> USE DEF starts
    <3> QED
      BY <2>2, <3>4
  <2> QED
    BY <2>1, <2>2
<1>2. start + SegmentBytes <= written[t] /\ archived' = archived \cup {<<t, start>>}
  BY DEF Archive
<1>3. t \in Nat /\ written[t] \in LSN
  BY PathIs DEF RetentionInv
<1>4. ArchiveOK'
  <2> HIDE DEF start
  <2>1. start + SegmentBytes <= MaxLSN /\ <<t, start>> \in Nat \X Nat
    BY SMTT(30), <1>1, <1>2, <1>3, LsnIs
  <2>2. PICK s : s = start
    OBVIOUS
  <2>3. ASSUME NEW n \in archived' PROVE n \in Nat \X Nat /\ n[2] + SegmentBytes <= MaxLSN
    <3>1. CASE n \in archived
      BY <3>1 DEF RetentionInv, ArchiveOK
    <3>2. CASE n = <<t, s>>
      BY SMTT(30), <2>1, <2>2, <3>2
    <3> QED
      BY <1>2, <2>2, <3>1, <3>2
  <2> QED
    BY <2>3 DEF ArchiveOK
<1> QED
  BY <1>4 DEF RetentionInv, Archive, HistoryOK, Timeline, CatalogOK, CommitOK, ChainsWhole, Live

LEMMA RetentionInvPromote ==
  ASSUME RetentionInv, NEW t \in Timeline, NEW fork \in 0..MaxLSN, Promote(t, fork)
  PROVE  RetentionInv'
<1>1. PICK n \in Nat : n = Cardinality(Timeline)
  BY DEF RetentionInv, HistoryOK
<1>2. Timeline = 1..n
  BY <1>1 DEF RetentionInv, HistoryOK
<1>3. PICK p : p = history[t]
  OBVIOUS
<1>4. PICK q : q = Append(p, [id |-> n + 1, fork |-> fork])
  OBVIOUS
<1>5. /\ history' = [u \in Timeline \cup {n + 1} |-> IF u = n + 1 THEN q ELSE history[u]]
      /\ written' = [u \in Timeline \cup {n + 1} |-> IF u = n + 1 THEN fork ELSE written[u]]
  BY <1>1, <1>3, <1>4 DEF Promote
<1>6. Timeline' = 1..(n + 1) /\ Cardinality(Timeline') = n + 1 /\ n + 1 \in Nat /\ n + 1 \notin Timeline
  <2>1. 1..(n + 1) = (1..n) \cup {n + 1} /\ n + 1 \in Nat /\ n + 1 \notin 1..n
    BY SMTT(30)
  <2>2. Timeline' = 1..(n + 1)
    BY <1>2, <1>5, <2>1 DEF Timeline
  <2>3. Cardinality(1..(n + 1)) = n + 1
    BY SMTT(30), FS_Interval
  <2> QED
    BY <1>2, <2>1, <2>2, <2>3
<1>7. written' \in [Timeline' -> LSN]
  <2>1. \A u \in Timeline : written[u] \in LSN
    BY DEF RetentionInv, HistoryOK
  <2>2. DOMAIN history' = Timeline \cup {n + 1}
    BY <1>5
  <2> QED
    BY <1>5, <2>1, <2>2 DEF LSN, Timeline
<1>8. PathOK(q, n + 1)
  <2>1. /\ p \in Seq(Point) /\ Len(p) \in Nat /\ DOMAIN p = 1..Len(p)
        /\ \A i \in DOMAIN p : p[i].id \in 1..t
        /\ \A i, j \in DOMAIN p : p[i].id = p[j].id => i = j
    <3>1. PathOK(p, t)
      BY <1>3 DEF RetentionInv, HistoryOK
    <3>2. p \in Seq(Point)
      BY <3>1 DEF PathOK
    <3>3. Len(p) \in Nat /\ DOMAIN p = 1..Len(p)
      BY SMTT(30), <3>2
    <3> QED
      BY <3>1, <3>2, <3>3 DEF PathOK
  <2>2. [id |-> n + 1, fork |-> fork] \in Point
    BY SMTT(30) DEF Point, LSN
  <2>3. /\ q \in Seq(Point) /\ Len(q) = Len(p) + 1 /\ DOMAIN q = 1..(Len(p) + 1)
        /\ q[Len(p) + 1].id = n + 1
        /\ \A i \in 1..Len(p) : q[i] = p[i]
    BY SMTT(30), <1>4, <2>1, <2>2
  <2>4. t \in 1..n
    BY <1>2
  <2>5. \A i \in 1..Len(p) : q[i].id \in 1..(n + 1) /\ q[i].id # n + 1
    <3>1. \A x \in 1..t : x \in 1..(n + 1) /\ x # n + 1
      BY SMTT(30), <2>4
    <3> QED
      BY <2>1, <2>3, <3>1
  <2>6. q # <<>>
    BY SMTT(30), <2>1, <2>3
  <2>7. \A i \in DOMAIN q : i \in 1..Len(p) \/ i = Len(p) + 1
    BY SMTT(30), <2>1, <2>3
  <2>8. n + 1 \in 1..(n + 1)
    BY SMTT(30)
  <2>9. \A i \in DOMAIN q : q[i].id \in 1..(n + 1)
    BY <2>3, <2>5, <2>7, <2>8
  <2>10. \A i, j \in DOMAIN q : q[i].id = q[j].id => i = j
    BY <2>1, <2>3, <2>5, <2>7
  <2> QED
    BY <2>3, <2>6, <2>9, <2>10 DEF PathOK
<1>9. \A u \in Timeline' : PathOK(history'[u], u)
  <2> SUFFICES ASSUME NEW u \in Timeline' PROVE PathOK(history'[u], u)
    OBVIOUS
  <2>1. u \in Timeline \cup {n + 1}
    BY <1>5 DEF Timeline
  <2>2. CASE u = n + 1
    BY <1>5, <1>8, <2>2
  <2>3. CASE u # n + 1
    BY <1>5, <2>1, <2>3 DEF RetentionInv, HistoryOK
  <2> QED
    BY <2>2, <2>3
<1>10. HistoryOK'
  BY <1>6, <1>7, <1>9 DEF HistoryOK, PathOK
<1> QED
  BY <1>10 DEF RetentionInv, Promote, ArchiveOK, CatalogOK, CommitOK, ChainsWhole, Live

LEMMA RetentionInvBackup ==
  ASSUME RetentionInv, NEW t \in Timeline, NEW parent \in {0} \cup Live, Backup(t, parent)
  PROVE  RetentionInv'
<1>1. PICK c : c = [parent |-> parent, timeline |-> t, completed |-> now,
                    start |-> written[t], end |-> written[t] + 1]
  OBVIOUS
<1>2. PICK n \in Nat : n = Len(backups)
  BY SMTT(30) DEF RetentionInv, CatalogOK
<1>3. backups \in Seq(Commit) /\ DOMAIN backups = 1..n /\ now \in Nat
  BY <1>2, BackupsFinite DEF RetentionInv, CatalogOK
<1>4. t \in Nat /\ written[t] \in LSN /\ written[t] + 1 \in LSN
  <2>1. t \in Nat /\ written[t] \in LSN /\ written[t] < MaxLSN
    BY PathIs DEF RetentionInv, Backup
  <2> QED
    BY SMTT(30), <2>1, LsnIs DEF LSN
<1>5. parent \in 0..n /\ parent \notin retired
  <2>1. parent = 0 \/ parent \in (1..n) \ retired
    BY <1>2 DEF Live
  <2>2. retired \subseteq 1..n
    BY <1>2 DEF RetentionInv, CatalogOK
  <2>3. 0 \notin 1..n
    BY SMTT(30)
  <2>4. parent \in 0..n
    BY SMTT(30), <2>1
  <2> QED
    BY <2>1, <2>2, <2>3, <2>4
<1>6. c \in Commit /\ c.parent = parent /\ c.start <= c.end
  BY SMTT(30), <1>1, <1>3, <1>4, <1>5, LsnIs DEF Commit
<1>7. backups' = Append(backups, c)
  BY <1>1 DEF Backup
<1>8. /\ backups' \in Seq(Commit) /\ Len(backups') = n + 1 /\ DOMAIN backups' = 1..(n + 1)
      /\ backups'[n + 1] = c /\ \A b \in 1..n : backups'[b] = backups[b]
  BY SMTT(30), <1>2, <1>3, <1>6, <1>7
<1>9. \A b \in 1..(n + 1) : b \in 1..n \/ b = n + 1
  BY SMTT(30)
<1>10. 1..n \subseteq 1..(n + 1) /\ n + 1 \notin 1..n /\ n + 1 \in 1..(n + 1)
  BY SMTT(30)
<1>11. retired' = retired /\ retired \subseteq 1..n
  BY <1>2 DEF RetentionInv, CatalogOK, Backup
<1>12. parent # 0 => parent \in 1..n /\ backups[parent].parent = 0
  <2>1. parent # 0 => parent \in 1..n
    BY SMTT(30), <1>5
  <2> QED
    BY <2>1 DEF Backup
<1>13. \A b \in 1..(n + 1) : CommitOK(backups[b])'
  <2> SUFFICES ASSUME NEW b \in 1..(n + 1) PROVE CommitOK(backups[b])'
    OBVIOUS
  <2>1. CASE b \in 1..n
    <3>1. CommitOK(backups[b])
      BY <1>3, <2>1 DEF RetentionInv, CatalogOK
    <3>2. backups'[b] = backups[b]
      BY <1>8, <2>1
    <3>3. backups[b].parent # 0 => backups[b].parent \in 1..n /\ backups[backups[b].parent].parent = 0
      BY <1>2, <3>1 DEF CommitOK
    <3>4. backups[b].parent # 0 => backups'[backups[b].parent].parent = 0
      BY <1>8, <3>3
    <3> QED
      BY <1>8, <1>10, <3>1, <3>2, <3>3, <3>4 DEF CommitOK
  <2>2. CASE b = n + 1
    <3>1. backups'[b] = c
      BY <1>8, <2>2
    <3>2. parent # 0 => parent \in 1..(n + 1) /\ backups'[parent].parent = 0
      BY <1>8, <1>10, <1>12
    <3> QED
      BY <1>6, <1>8, <3>1, <3>2 DEF CommitOK
  <2> QED
    BY <1>9, <2>1, <2>2
<1>14. CatalogOK'
  <2>1. now' = now
    BY DEF Backup
  <2> QED
    BY <1>3, <1>8, <1>10, <1>11, <1>13, <2>1 DEF CatalogOK
<1>15. ChainsWhole'
  <2> SUFFICES ASSUME NEW b \in (1..(n + 1)) \ retired PROVE backups'[b].parent \notin retired
    BY <1>8, <1>11 DEF ChainsWhole, Live
  <2>1. CASE b \in 1..n
    BY <1>2, <1>8, <2>1 DEF RetentionInv, ChainsWhole, Live
  <2>2. CASE b = n + 1
    BY <1>5, <1>6, <1>8, <2>2
  <2> QED
    BY <1>9, <2>1, <2>2
<1>16. HistoryOK' /\ ArchiveOK'
  <2>1. written' = [written EXCEPT ![t] = written[t] + 1] /\ UNCHANGED <<history, archived>>
    BY DEF Backup
  <2>2. written' \in [Timeline -> LSN]
    BY <1>4, <2>1 DEF RetentionInv, HistoryOK
  <2> QED
    BY <2>1, <2>2 DEF RetentionInv, HistoryOK, ArchiveOK, Timeline
<1> QED
  BY <1>14, <1>15, <1>16 DEF RetentionInv

\* Every kept backup is live, and so is its parent, which is kept as well.
LEMMA KeepWithin ==
  ASSUME RetentionInv, NEW cutoff
  PROVE  /\ Keep(Live, cutoff) \subseteq Live
         /\ \A b \in Keep(Live, cutoff) :
              backups[b].parent # 0 => backups[b].parent \in Keep(Live, cutoff)
<1> DEFINE kept == UNION {KeepOn(Live, path, cutoff) : path \in Paths}
<1>1. CatalogOK /\ Live \in SUBSET DOMAIN backups
  BY BackupsFinite DEF RetentionInv
<1>2. kept \subseteq Live
  <2>1. ASSUME NEW path \in Paths PROVE KeepOn(Live, path, cutoff) \subseteq Live
    BY <1>1, KeepOnWithin
  <2> QED
    BY <2>1
<1>3. Keep(Live, cutoff) = kept \cup ({backups[b].parent : b \in kept} \ {0})
  BY DEF Keep
<1> HIDE DEF kept
<1>4. ASSUME NEW b \in kept, backups[b].parent # 0
      PROVE  backups[b].parent \in Live /\ backups[backups[b].parent].parent = 0
  <2>1. b \in DOMAIN backups /\ b \in Live
    BY <1>1, <1>2
  <2>2. backups[b].parent \in DOMAIN backups /\ backups[backups[b].parent].parent = 0
    BY <1>1, <1>4, <2>1, CommitIs
  <2>3. backups[b].parent \notin retired
    BY <2>1 DEF RetentionInv, ChainsWhole
  <2> QED
    BY <1>1, <2>2, <2>3, BackupsFinite DEF Live
<1> QED
  BY <1>2, <1>3, <1>4

\* Where replay enters the current timeline: natural numbers below a bound.
LEMMA FloorsAre ==
  ASSUME RetentionInv, NEW keep \in SUBSET DOMAIN backups, Plannable(keep, archived \ expired)
  PROVE  /\ Current \in Leaves /\ Leaves = {Current} /\ Current \in Timeline
         /\ WalFloor(keep) \in Nat
         /\ \A x \in Floors(keep) : x \in Nat /\ WalFloor(keep) <= x
<1>1. Cardinality(Leaves) = 1 /\ Floors(keep) # {}
  BY DEF Plannable
<1>2. Leaves \subseteq Timeline
  BY DEF Leaves
<1>3. IsFiniteSet(Leaves)
  <2>1. Cardinality(Timeline) \in Nat /\ Timeline = 1..Cardinality(Timeline)
    BY DEF RetentionInv, HistoryOK
  <2>2. IsFiniteSet(1..Cardinality(Timeline))
    BY SMTT(30), <2>1, FS_Interval
  <2> QED
    BY <1>2, <2>1, <2>2, FS_Subset
<1>4. PICK l : Leaves = {l}
  BY <1>1, <1>3, FS_Singleton
<1>5. Current = l
  BY <1>4 DEF Current
<1>6. Current \in Timeline
  BY <1>2, <1>4, <1>5
<1> DEFINE path == history[Current]
           entry(b) == IF backups[b].timeline = Current THEN backups[b].start ELSE path[Len(path)].fork
<1>7. \A b \in keep : entry(b) \in LSN
  <2>1. path[Len(path)].fork \in LSN
    <3>1. Len(path) \in DOMAIN path
      BY SMTT(30), <1>6, PathIs DEF RetentionInv
    <3> QED
      BY <1>6, <3>1, PathIs DEF RetentionInv
  <2>2. \A b \in keep : backups[b].start \in LSN
    BY CommitIs DEF RetentionInv
  <2> QED
    BY <2>1, <2>2
<1>8. \A x \in LSN : Align(x) \in Nat /\ Align(x) <= MaxLSN
  <2> SUFFICES ASSUME NEW x \in LSN PROVE Align(x) \in Nat /\ Align(x) <= MaxLSN
    OBVIOUS
  <2>1. x \in Nat /\ x <= MaxLSN /\ MaxLSN \in Nat
    BY LsnIs
  <2>2. Align(x) \in Nat /\ Align(x) <= x
    BY <2>1, AlignIs
  <2> QED
    BY SMTT(30), <2>1, <2>2
<1>9. \A x \in Floors(keep) : x \in Nat /\ x <= MaxLSN
  BY <1>7, <1>8 DEF Floors
<1>10. Min(Floors(keep)) \in Floors(keep) /\ \A x \in Floors(keep) : Min(Floors(keep)) <= x
  <2>1. Floors(keep) \in SUBSET Nat
    BY <1>9
  <2> QED
    BY <1>1, <1>9, <2>1, LsnIs, MinIs
<1> QED
  BY <1>4, <1>5, <1>6, <1>9, <1>10 DEF WalFloor

\* A step of Retain, in terms of the sets it moves.
Retires(gone, upTo) ==
  /\ retired' = retired \cup gone
  /\ gone \subseteq Live \ Keep(Live, Cutoff)
  /\ \A a \in gone, b \in (Live \ Keep(Live, Cutoff)) \ gone : Before(a, b)
  /\ expired' = expired \cup {n \in archived : n[1] \in Leaves /\ n[2] < upTo}
  /\ upTo \in Nat /\ upTo <= WalFloor(Keep(Live, Cutoff))
  /\ upTo # 0 => gone = Live \ Keep(Live, Cutoff)
  /\ Plannable(Keep(Live, Cutoff), archived \ expired)
  /\ UNCHANGED <<now, history, written, archived, backups>>

LEMMA RetainIs ==
  ASSUME RetentionInv, Retain
  PROVE  \E gone, upTo : Retires(gone, upTo)
<1>1. PICK keep : keep = Keep(Live, Cutoff)
  OBVIOUS
<1>2. PICK e : e = Expire(keep)
  OBVIOUS
<1>3. Plannable(keep, archived \ expired) /\ UNCHANGED <<now, history, written, archived, backups>>
  BY <1>1 DEF Retain
<1>4. PICK batch \in 0..Len(e), upTo \in 0..WalFloor(keep) :
        /\ batch < Len(e) => upTo = 0
        /\ retired' = retired \cup {e[i] : i \in 1..batch}
        /\ expired' = expired \cup {n \in archived : n[1] \in Leaves /\ n[2] < upTo}
  <2> DEFINE Moves(k, x) ==
        \E batch \in 0..Len(x), upTo \in 0..WalFloor(k) :
          /\ batch < Len(x) => upTo = 0
          /\ retired' = retired \cup {x[i] : i \in 1..batch}
          /\ expired' = expired \cup {n \in archived : n[1] \in Leaves /\ n[2] < upTo}
  <2>1. Moves(Keep(Live, Cutoff), Expire(Keep(Live, Cutoff)))
    BY DEF Retain
  <2>2. Moves(keep, e)
    <3> HIDE DEF Moves
    <3> QED
      BY <1>1, <1>2, <2>1
  <2> QED
    BY <2>2
<1>5. /\ Len(e) \in Nat /\ e \in [1..Len(e) -> Live \ keep]
      /\ \A i, j \in 1..Len(e) : i < j => Before(e[i], e[j])
      /\ \A a \in Live \ keep : \E i \in 1..Len(e) : e[i] = a
  BY <1>2, ExpireIs DEF RetentionInv
<1>6. batch \in Nat /\ batch <= Len(e) /\ 1..batch \subseteq 1..Len(e)
  BY SMTT(30), <1>5
<1> DEFINE gone == {e[i] : i \in 1..batch}
<1>7. gone \subseteq Live \ keep
  BY <1>5, <1>6
<1>8. ASSUME NEW a \in gone, NEW b \in (Live \ keep) \ gone PROVE Before(a, b)
  <2>1. PICK i \in 1..batch : a = e[i]
    OBVIOUS
  <2>2. PICK j \in 1..Len(e) : b = e[j]
    BY <1>5
  <2>3. j \notin 1..batch
    BY <2>2
  <2>4. i < j /\ i \in 1..Len(e)
    BY SMTT(30), <1>5, <1>6, <2>3
  <2> QED
    BY <1>5, <2>1, <2>2, <2>4
<1>9. keep \in SUBSET DOMAIN backups
  BY <1>1, KeepWithin, BackupsFinite DEF RetentionInv
<1>10. WalFloor(keep) \in Nat
  BY <1>3, <1>9, FloorsAre
<1>11. upTo \in Nat /\ upTo <= WalFloor(keep)
  BY SMTT(30), <1>10
<1>12. ASSUME upTo # 0 PROVE gone = Live \ keep
  <2>1. ~ (batch < Len(e)) /\ Len(e) \in Nat /\ batch \in Nat /\ batch <= Len(e)
    BY <1>4, <1>5, <1>6, <1>12
  <2>2. batch = Len(e)
    BY SMTT(30), <2>1
  <2> QED
    BY <1>5, <1>7, <2>2
<1>13. Retires(gone, upTo)
  BY <1>1, <1>3, <1>4, <1>7, <1>8, <1>11, <1>12 DEF Retires
<1> QED
  BY <1>13

\* Retirement in the order of Expire never separates a differential from its full.
LEMMA RetentionInvRetain ==
  ASSUME RetentionInv, Retain
  PROVE  RetentionInv'
<1>1. PICK gone, upTo : Retires(gone, upTo)
  BY RetainIs
<1>2. PICK keep : keep = Keep(Live, Cutoff)
  OBVIOUS
<1>3. /\ retired' = retired \cup gone /\ gone \subseteq Live \ keep
      /\ \A a \in gone, b \in (Live \ keep) \ gone : Before(a, b)
      /\ UNCHANGED <<now, history, written, archived, backups>>
  BY <1>1, <1>2 DEF Retires
<1>4. CatalogOK /\ Live \in SUBSET DOMAIN backups /\ DOMAIN backups = 1..Len(backups)
  BY BackupsFinite DEF RetentionInv
<1>5. ChainsWhole'
  <2> SUFFICES ASSUME NEW b \in Live, b \notin gone, backups[b].parent \in retired \cup gone PROVE FALSE
    BY <1>3 DEF ChainsWhole, Live
  <2>1. PICK p : p = backups[b].parent
    OBVIOUS
  <2>2. p \in gone
    BY <2>1 DEF RetentionInv, ChainsWhole
  <2>3. p # 0
    <3>1. p \in DOMAIN backups
      BY <1>3, <1>4, <2>2
    <3> QED
      BY <1>4, <3>1, CommitIs
  <2>4. b \in DOMAIN backups /\ backups[p].parent = 0
    BY <1>4, <2>1, <2>3, CommitIs
  <2>5. CASE b \in keep
    BY <1>2, <1>3, <2>1, <2>2, <2>3, <2>5, KeepWithin
  <2>6. CASE b \notin keep
    <3>1. Before(p, b)
      BY <1>3, <2>2, <2>6
    <3> QED
      BY <2>1, <2>3, <2>4, <3>1 DEF Before
  <2> QED
    BY <2>5, <2>6
<1>6. CatalogOK'
  <2>1. retired' \subseteq 1..Len(backups)
    BY <1>3, <1>4 DEF CatalogOK
  <2> QED
    BY <1>3, <2>1 DEF RetentionInv, CatalogOK, CommitOK
<1> QED
  BY <1>3, <1>5, <1>6 DEF RetentionInv, HistoryOK, Timeline, ArchiveOK

LEMMA RetentionInvNext == RetentionInv /\ [RetentionNext]_retentionVars => RetentionInv'
<1> SUFFICES ASSUME RetentionInv, [RetentionNext]_retentionVars PROVE RetentionInv'
  OBVIOUS
<1>1. CASE Elapse
  BY <1>1, RetentionInvElapse
<1>2. ASSUME NEW t \in Timeline, Write(t) PROVE RetentionInv'
  BY <1>2, RetentionInvWrite
<1>3. ASSUME NEW t \in Timeline, Archive(t) PROVE RetentionInv'
  BY <1>3, RetentionInvArchive
<1>4. ASSUME NEW t \in Timeline, NEW f \in 0..MaxLSN, Promote(t, f) PROVE RetentionInv'
  BY <1>4, RetentionInvPromote
<1>5. ASSUME NEW t \in Timeline, NEW p \in {0} \cup Live, Backup(t, p) PROVE RetentionInv'
  BY <1>5, RetentionInvBackup
<1>6. CASE Retain
  BY <1>6, RetentionInvRetain
<1>7. CASE UNCHANGED retentionVars
  BY <1>7 DEF retentionVars, RetentionInv, HistoryOK, Timeline, ArchiveOK, CatalogOK, CommitOK,
              ChainsWhole, Live
<1> QED
  BY <1>1, <1>2, <1>3, <1>4, <1>5, <1>6, <1>7 DEF RetentionNext

LEMMA RetentionInvHolds == RetentionSpec => []RetentionInv
  BY RetentionInvInit, RetentionInvNext, PTL DEF RetentionSpec

\* A live differential always has its live full parent, however a batch is cut.
THEOREM ChainsStayWhole == RetentionSpec => []ChainsWhole
<1>1. RetentionInv => ChainsWhole
  BY DEF RetentionInv
<1> QED
  BY <1>1, RetentionInvHolds, PTL

-----------------------------------------------------------------------------
(* Paths and the WAL that replay needs *)

\* A timeline has one place on a path at most.
LEMMA PlaceIs ==
  ASSUME HistoryOK, NEW t \in Timeline, NEW u
  PROVE  /\ \A i \in DOMAIN history[t] : history[t][i].id = u => Place(u, history[t]) = i /\ i # 0
         /\ Place(u, history[t]) # 0 =>
              Place(u, history[t]) \in DOMAIN history[t] /\ history[t][Place(u, history[t])].id = u
         /\ Place(t, history[t]) = Len(history[t])
<1>1. PICK p : p = history[t]
  OBVIOUS
<1>2. /\ DOMAIN p = 1..Len(p) /\ Len(p) \in Nat \ {0} /\ p[Len(p)].id = t
      /\ \A i, j \in DOMAIN p : p[i].id = p[j].id => i = j
  BY <1>1, PathIs
<1>3. Len(p) \in DOMAIN p /\ \A i \in DOMAIN p : i # 0
  BY SMTT(30), <1>2
<1>4. ASSUME NEW v, NEW i \in DOMAIN p, p[i].id = v PROVE Place(v, p) = i
  <2>1. Place(v, p) = CHOOSE j \in DOMAIN p : p[j].id = v
    BY <1>4 DEF Place
  <2>2. Place(v, p) \in DOMAIN p /\ p[Place(v, p)].id = v
    BY <1>4, <2>1
  <2> QED
    BY <1>2, <1>4, <2>2
<1>5. Place(u, p) # 0 => Place(u, p) \in DOMAIN p /\ p[Place(u, p)].id = u
  <2>1. CASE \E i \in DOMAIN p : p[i].id = u
    BY <1>4, <2>1
  <2>2. CASE ~ \E i \in DOMAIN p : p[i].id = u
    BY <2>2 DEF Place
  <2> QED
    BY <2>1, <2>2
<1> QED
  BY <1>1, <1>2, <1>3, <1>4, <1>5

\* The test of the planner and the test of Select agree.
LEMMA EligibleIs ==
  ASSUME HistoryOK, CatalogOK, NEW t \in Timeline, NEW b \in DOMAIN backups, NEW target
  PROVE  Eligible(b, target, history[t]) <=>
           /\ Reachable(b, history[t])
           /\ target.kind = "time" => backups[b].completed < target.time
<1>1. PICK p : p = history[t]
  OBVIOUS
<1>2. PICK u : u = backups[b].timeline
  OBVIOUS
<1>3. DOMAIN p = 1..Len(p) /\ Len(p) \in Nat
  BY <1>1, PathIs
<1>4. \A i \in DOMAIN p : i < Len(p) <=> i # Len(p)
  BY SMTT(30), <1>3
<1>5. /\ \A i \in DOMAIN p : p[i].id = u => Place(u, p) = i /\ i # 0
      /\ Place(u, p) # 0 => Place(u, p) \in DOMAIN p /\ p[Place(u, p)].id = u
  BY <1>1, PlaceIs
<1>6. Reachable(b, p) <=> \E i \in DOMAIN p : /\ p[i].id = u
                                              /\ i < Len(p) => backups[b].end < p[i + 1].fork
  <2>1. Reachable(b, p) <=> /\ Place(u, p) # 0
                            /\ Place(u, p) = Len(p) \/ backups[b].end < p[Place(u, p) + 1].fork
    BY <1>2 DEF Reachable
  <2> QED
    BY <1>4, <1>5, <2>1
<1> QED
  BY <1>1, <1>2, <1>6 DEF Eligible

LEMMA FrontierIs ==
  ASSUME ArchiveOK, NEW t
  PROVE  Frontier(t) \in LSN
<1> DEFINE ends == {0} \cup {n[2] + SegmentBytes : n \in {a \in archived : a[1] = t}}
<1>1. \A n \in archived : n[2] + SegmentBytes \in LSN
  BY SMTT(30), LsnIs DEF ArchiveOK, LSN
<1>2. 0 \in LSN
  BY SMTT(30), LsnIs DEF LSN
<1>3. ends \subseteq LSN /\ ends # {}
  BY <1>1, <1>2
<1>4. Max(ends) \in ends
  <2> HIDE DEF ends
  <2>1. ends \in SUBSET Nat /\ \A x \in ends : x <= MaxLSN
    BY <1>3, LsnIs
  <2> QED
    BY <1>3, <2>1, LsnIs, MaxIs
<1> QED
  BY <1>3, <1>4 DEF Frontier

LEMMA MaxOfTwo ==
  ASSUME NEW x \in LSN, NEW y \in LSN
  PROVE  Max({x, y}) \in LSN /\ x <= Max({x, y}) /\ y <= Max({x, y})
<1>1. {x, y} \in SUBSET Nat /\ {x, y} # {} /\ \A z \in {x, y} : z <= MaxLSN
  BY LsnIs
<1>2. Max({x, y}) \in {x, y} /\ \A z \in {x, y} : Max({x, y}) >= z
  BY <1>1, LsnIs, MaxIs
<1>3. PICK m : m = Max({x, y})
  OBVIOUS
<1>4. m \in LSN /\ m >= x /\ m >= y
  BY <1>2, <1>3
<1>5. x <= m /\ y <= m
  BY SMTT(30), <1>4, LsnIs
<1> QED
  BY <1>3, <1>4, <1>5

\* What an interval of replay is, on the path of a timeline.
IntervalAt(w, b, path, i) ==
  LET from == Place(backups[b].timeline, path) IN
  /\ w.timeline = path[i].id
  /\ w.start = IF i = from THEN backups[b].end ELSE path[i].fork
  /\ w.end = IF i < Len(path) THEN path[i + 1].fork ELSE Max({w.start, Frontier(path[i].id)})
  /\ w.start \in LSN /\ w.end \in LSN

LEMMA IntervalsAre ==
  ASSUME RetentionInv, NEW b \in DOMAIN backups, NEW t \in Timeline, Reachable(b, history[t])
  PROVE  LET path == history[t]
             from == Place(backups[b].timeline, path) IN
         /\ from \in DOMAIN path /\ path[from].id = backups[b].timeline
         /\ \A w \in Intervals(b, path) : \E i \in from..Len(path) : IntervalAt(w, b, path, i)
         /\ \A i \in from..Len(path) : \E w \in Intervals(b, path) : IntervalAt(w, b, path, i)
<1>1. PICK p : p = history[t]
  OBVIOUS
<1>2. PICK from : from = Place(backups[b].timeline, p)
  OBVIOUS
<1>3. /\ DOMAIN p = 1..Len(p) /\ Len(p) \in Nat
      /\ \A i \in DOMAIN p : p[i].fork \in LSN
  BY <1>1, PathIs DEF RetentionInv
<1>4. from \in DOMAIN p /\ p[from].id = backups[b].timeline
  BY <1>1, <1>2, PlaceIs DEF RetentionInv, Reachable
<1>5. \A i \in from..Len(p) : i \in DOMAIN p /\ (i < Len(p) => i + 1 \in DOMAIN p)
  BY SMTT(30), <1>3, <1>4
<1> DEFINE start(i) == IF i = from THEN backups[b].end ELSE p[i].fork
           end(i) == IF i < Len(p) THEN p[i + 1].fork ELSE Max({start(i), Frontier(p[i].id)})
           interval(i) == [timeline |-> p[i].id, start |-> start(i), end |-> end(i)]
<1>6. Intervals(b, p) = {interval(i) : i \in from..Len(p)}
  BY <1>2 DEF Intervals
<1>7. \A i \in from..Len(p) : start(i) \in LSN /\ end(i) \in LSN
  <2>1. backups[b].end \in LSN
    BY CommitIs DEF RetentionInv
  <2>2. \A i \in from..Len(p) : start(i) \in LSN
    BY <1>3, <1>5, <2>1
  <2>3. \A i \in from..Len(p) : Max({start(i), Frontier(p[i].id)}) \in LSN
    <3> HIDE DEF start
    <3> QED
      BY <2>2, FrontierIs, MaxOfTwo DEF RetentionInv
  <2> QED
    BY <1>3, <1>5, <2>2, <2>3
<1>8. \A i \in from..Len(p) : IntervalAt(interval(i), b, p, i)
  <2> SUFFICES ASSUME NEW i \in from..Len(p) PROVE IntervalAt(interval(i), b, p, i)
    OBVIOUS
  <2>1. interval(i).timeline = p[i].id /\ interval(i).start = start(i) /\ interval(i).end = end(i)
    BY SMTT(30)
  <2>2. PICK w : w = interval(i)
    OBVIOUS
  <2>3. w.timeline = p[i].id /\ w.start = start(i) /\ w.end = end(i)
    BY <2>1, <2>2
  <2>4. IntervalAt(w, b, p, i)
    BY <1>2, <1>7, <2>3 DEF IntervalAt
  <2> QED
    BY <2>2, <2>4
<1> HIDE DEF interval
<1>9. /\ \A w \in Intervals(b, p) : \E i \in from..Len(p) : IntervalAt(w, b, p, i)
      /\ \A i \in from..Len(p) : \E w \in Intervals(b, p) : IntervalAt(w, b, p, i)
  BY <1>6, <1>8
<1> QED
  BY <1>1, <1>2, <1>4, <1>9

\* A segment that replay needs belongs to an interval that is not empty.
LEMMA SegmentIs ==
  ASSUME NEW b, NEW path, NEW n \in Needs(b, path)
  PROVE  \E w \in Intervals(b, path) :
           /\ w.end > w.start /\ n[1] = w.timeline
           /\ Align(w.start) <= n[2] /\ n[2] < w.end /\ n[2] \in Int
<1>1. PICK w \in Intervals(b, path) : w.end > w.start /\ n \in Segments(w)
  BY DEF Needs
<1>2. PICK s \in Align(w.start)..w.end : s < w.end /\ n = <<w.timeline, s>>
  BY <1>1 DEF Segments
<1>3. n[1] = w.timeline /\ n[2] = s /\ Align(w.start) <= s /\ s \in Int
  BY SMTT(30), <1>2
<1> QED
  BY <1>1, <1>2, <1>3

\* A segment below the floor is needed by no kept backup: on the current timeline,
\* which ends every path it is on, replay enters at the floor or above.
LEMMA FloorIsLow ==
  ASSUME RetentionInv, NEW keep \in SUBSET DOMAIN backups, Plannable(keep, archived \ expired),
         NEW b \in keep, NEW t \in Timeline, Reachable(b, history[t]),
         NEW n \in Needs(b, history[t]), n[1] \in Leaves
  PROVE  n[2] \in Int /\ WalFloor(keep) <= n[2]
<1>1. /\ Leaves = {Current} /\ Current \in Timeline /\ WalFloor(keep) \in Nat
      /\ \A x \in Floors(keep) : x \in Nat /\ WalFloor(keep) <= x
  BY FloorsAre
<1>2. PICK p : p = history[t]
  OBVIOUS
<1>3. PICK from : from = Place(backups[b].timeline, p)
  OBVIOUS
<1>4. b \in DOMAIN backups
  OBVIOUS
<1>5. PICK w \in Intervals(b, p) : /\ n[1] = w.timeline /\ Align(w.start) <= n[2] /\ n[2] \in Int
  BY <1>2, SegmentIs
<1>6. from \in DOMAIN p /\ p[from].id = backups[b].timeline
  BY <1>2, <1>3, <1>4, IntervalsAre
<1>7. PICK i \in from..Len(p) : IntervalAt(w, b, p, i)
  BY <1>2, <1>3, <1>4, <1>5, IntervalsAre
<1>8. /\ w.timeline = p[i].id /\ w.start = (IF i = from THEN backups[b].end ELSE p[i].fork)
      /\ w.start \in LSN
  BY <1>3, <1>7 DEF IntervalAt
<1>9. DOMAIN p = 1..Len(p) /\ Len(p) \in Nat /\ p[Len(p)].id = t
      /\ \A j, k \in DOMAIN p : p[j].id = p[k].id => j = k
  BY <1>2, PathIs DEF RetentionInv
<1>10. i \in DOMAIN p /\ Len(p) \in DOMAIN p
  BY SMTT(30), <1>6, <1>7, <1>9
<1>11. t = Current
  <2>1. p[i].id = Current
    BY <1>1, <1>5, <1>8
  <2>2. Place(Current, p) # 0
    BY <1>2, <1>10, <2>1, PlaceIs DEF RetentionInv
  <2> QED
    BY <1>1, <1>2, <2>2 DEF Leaves
<1>12. i = Len(p)
  BY <1>1, <1>5, <1>8, <1>9, <1>10, <1>11
<1> DEFINE entry == IF backups[b].timeline = Current THEN backups[b].start ELSE p[Len(p)].fork
<1>13. Align(entry) \in Floors(keep)
  BY <1>2, <1>11 DEF Floors
<1>14. entry \in LSN /\ entry <= w.start
  <2>1. backups[b].start \in LSN /\ backups[b].end \in LSN /\ backups[b].start <= backups[b].end
    BY <1>4, CommitIs DEF RetentionInv
  <2>2. CASE backups[b].timeline = Current
    <3>1. from = i
      BY <1>6, <1>9, <1>10, <1>11, <1>12, <2>2
    <3> QED
      BY <1>8, <2>1, <2>2, <3>1
  <2>3. CASE backups[b].timeline # Current
    <3>1. from # i
      BY <1>6, <1>9, <1>11, <1>12, <2>3
    <3>2. entry = w.start
      BY <1>8, <1>12, <2>3, <3>1
    <3> QED
      BY SMTT(30), <1>8, <3>2, LsnIs
  <2> QED
    BY <2>2, <2>3
<1> HIDE DEF entry
<1>15. Align(entry) <= Align(w.start) /\ Align(w.start) \in Nat /\ Align(entry) \in Nat
  BY <1>8, <1>14, LsnIs, AlignIs, AlignMonotone
<1>16. WalFloor(keep) <= Align(entry)
  BY <1>1, <1>13
<1> QED
  BY SMTT(30), <1>1, <1>5, <1>15, <1>16

\* What a batch takes away, kept backups do not need.
LEMMA PlanSucceedsAgain ==
  ASSUME RetentionInv, NEW gone, NEW upTo, Retires(gone, upTo)
  PROVE  Plannable(Keep(Live, Cutoff), archived \ expired')
<1>1. PICK keep : keep = Keep(Live, Cutoff)
  OBVIOUS
<1>2. /\ Plannable(keep, archived \ expired) /\ upTo \in Nat /\ upTo <= WalFloor(keep)
      /\ expired' = expired \cup {n \in archived : n[1] \in Leaves /\ n[2] < upTo}
  BY <1>1 DEF Retires
<1>3. keep \in SUBSET DOMAIN backups
  BY <1>1, KeepWithin, BackupsFinite DEF RetentionInv
<1>4. ASSUME NEW b \in keep, NEW path \in Paths, Reachable(b, path), NEW n \in Needs(b, path)
      PROVE  n \in archived \ expired'
  <2>1. PICK t \in Timeline : path = history[t]
    BY DEF Paths
  <2>2. n \in archived \ expired
    BY <1>2, <1>4 DEF Plannable, Covered
  <2>3. ASSUME n[1] \in Leaves PROVE ~ (n[2] < upTo)
    <3>1. n[2] \in Int /\ WalFloor(keep) <= n[2]
      BY <1>2, <1>3, <1>4, <2>1, <2>3, FloorIsLow
    <3>2. WalFloor(keep) \in Nat
      BY <1>2, <1>3, FloorsAre
    <3> QED
      BY SMTT(30), <1>2, <3>1, <3>2
  <2> QED
    BY <1>2, <2>2, <2>3
<1>5. Covered(keep, archived \ expired')
  BY <1>4 DEF Covered
<1> QED
  BY <1>1, <1>2, <1>5 DEF Plannable

\* What is left contains what is kept, so the plan repeats itself.
LEMMA PlanRepeats ==
  ASSUME RetentionInv, NEW gone, NEW upTo, Retires(gone, upTo)
  PROVE  /\ Keep((1..Len(backups)) \ retired', Cutoff) = Keep(Live, Cutoff)
         /\ Keep(Live, Cutoff) \subseteq (1..Len(backups)) \ retired'
<1>1. PICK keep : keep = Keep(Live, Cutoff)
  OBVIOUS
<1>2. retired' = retired \cup gone /\ gone \subseteq Live \ keep
  BY <1>1 DEF Retires
<1>3. PICK left : left = (1..Len(backups)) \ retired'
  OBVIOUS
<1>4. left = Live \ gone
  BY <1>2, <1>3 DEF Live
<1>5. keep \subseteq Live
  BY <1>1, KeepWithin
<1>6. keep \subseteq left
  BY <1>2, <1>4, <1>5
<1>7. CatalogOK /\ Live \in SUBSET DOMAIN backups /\ left \in SUBSET Live
  BY <1>4, BackupsFinite DEF RetentionInv
<1>8. Keep(left, Cutoff) = keep
  BY <1>1, <1>6, <1>7, KeepStays
<1> QED
  BY <1>1, <1>3, <1>6, <1>8

\* Only Retain retires anything.
LEMMA OnlyRetain ==
  ASSUME [RetentionNext]_retentionVars, Retains
  PROVE  Retain
  BY DEF RetentionNext, retentionVars, Retains, Elapse, Write, Archive, Promote, Backup

\* After any batch, complete or not, the next plan succeeds and keeps the same.
THEOREM RetentionPlanStable == RetentionSpec => PlanStable
<1>1. RetentionInv /\ [RetentionNext]_retentionVars =>
        [Retains => LET keep == Keep(Live, Cutoff)
                        left == (1..Len(backups)) \ retired'
                    IN /\ Keep(left, Cutoff) = keep
                       /\ Plannable(keep, archived \ expired')]_retentionVars
  <2> SUFFICES ASSUME RetentionInv, [RetentionNext]_retentionVars, Retains
               PROVE  /\ Keep((1..Len(backups)) \ retired', Cutoff) = Keep(Live, Cutoff)
                      /\ Plannable(Keep(Live, Cutoff), archived \ expired')
    OBVIOUS
  <2>1. PICK gone, upTo : Retires(gone, upTo)
    BY OnlyRetain, RetainIs
  <2> QED
    BY <2>1, PlanRepeats, PlanSucceedsAgain
<1> QED
  BY <1>1, RetentionInvHolds, PTL DEF RetentionSpec, PlanStable

-----------------------------------------------------------------------------
(* What a restore finds *)

LEMMA TargetTimelineIs ==
  ASSUME RetentionInv, NEW t \in Target, TargetTimeline(t) # 0
  PROVE  TargetTimeline(t) \in Timeline
<1>1. t.timeline \in {0} \cup Timeline
  BY SMTT(30) DEF Target
<1>2. CASE t.timeline # 0
  BY <1>1, <1>2 DEF TargetTimeline
<1>3. CASE t.timeline = 0
  <2>1. Cardinality(Leaves) = 1 /\ TargetTimeline(t) = Current
    BY <1>3 DEF TargetTimeline
  <2>2. Leaves # {}
    BY SMTT(30), <2>1, FS_EmptySet
  <2>3. Current \in Leaves
    BY <2>2 DEF Current
  <2> QED
    BY <2>1, <2>3 DEF Leaves
<1> QED
  BY <1>2, <1>3

\* The backup that Select takes for a target inside the window is kept.
LEMMA SelectedIsKept ==
  ASSUME RetentionInv, NEW t \in Target, t.kind = "latest" \/ t.time > Cutoff,
         TargetTimeline(t) \in Timeline, NEW S, S = EligiblesWithout(t, retired), S # {}
  PROVE  /\ S \in SUBSET DOMAIN backups /\ IsNewest(Newest(S), S)
         /\ Reachable(Newest(S), history[TargetTimeline(t)])
         /\ Newest(S) \in Keep(Live, Cutoff)
<1>1. PICK tl \in Timeline : tl = TargetTimeline(t)
  OBVIOUS
<1>2. PICK path : path = history[tl]
  OBVIOUS
<1>3. CatalogOK /\ HistoryOK /\ Live \in SUBSET DOMAIN backups
  BY BackupsFinite DEF RetentionInv
<1> DEFINE can == {b \in Live : Reachable(b, path)}
<1>4. S = {b \in can : t.kind = "time" => backups[b].completed < t.time}
  <2>1. S = {b \in Live : Eligible(b, t, path)}
    BY <1>1, <1>2 DEF EligiblesWithout, Live
  <2>2. \A b \in Live : Eligible(b, t, path) <=>
          Reachable(b, path) /\ (t.kind = "time" => backups[b].completed < t.time)
    BY <1>2, <1>3, EligibleIs
  <2> QED
    BY <2>1, <2>2
<1>5. S \in SUBSET DOMAIN backups /\ can \in SUBSET DOMAIN backups /\ S \in SUBSET can
  BY <1>3, <1>4
<1>6. PICK b : b = Newest(S)
  OBVIOUS
<1>7. IsNewest(b, S) /\ b \in S /\ b \in DOMAIN backups
  BY <1>3, <1>5, <1>6, NewestIs DEF IsNewest
<1> DEFINE anchors == {a \in can : backups[a].completed <= Cutoff}
<1>8. can # {} /\ anchors \in SUBSET DOMAIN backups
  BY <1>3, <1>5
<1>9. /\ Newest(can) \in KeepOn(Live, path, Cutoff)
      /\ anchors # {} => Newest(anchors) \in KeepOn(Live, path, Cutoff)
      /\ \A a \in can : backups[a].completed >= Cutoff => a \in KeepOn(Live, path, Cutoff)
  BY <1>8 DEF KeepOn
<1>10. b \in KeepOn(Live, path, Cutoff)
  <2>1. CASE t.kind # "time"
    <3>1. S = can
      BY <1>4, <2>1
    <3> QED
      BY <1>6, <1>9, <3>1
  <2>2. CASE t.kind = "time"
    <3>1. t.time \in Int /\ t.time > Cutoff
      <4>1. t.kind # "latest"
        BY <2>2
      <4>2. t.time \in 1..MaxTime
        BY SMTT(30), <2>2 DEF Target
      <4>3. MaxTime \in Nat
        BY SMTT(30), PolicyAssumption
      <4> QED
        BY SMTT(30), <4>1, <4>2, <4>3
    <3>2. Cutoff \in Int
      BY SMTT(30), <1>3, PolicyAssumption DEF Cutoff, CatalogOK
    <3>3. backups[b].completed \in Nat
      BY <1>3, <1>7, CommitIs
    <3>4. CASE backups[b].completed >= Cutoff
      BY <1>5, <1>7, <1>9, <3>4
    <3>5. CASE ~ (backups[b].completed >= Cutoff)
      <4>1. backups[b].completed <= Cutoff
        BY SMTT(30), <3>2, <3>3, <3>5
      <4>2. b \in anchors
        BY <1>5, <1>7, <4>1
      <4>3. \A a \in anchors : a \in S
        <5> SUFFICES ASSUME NEW a \in anchors PROVE a \in S
          OBVIOUS
        <5>1. backups[a].completed \in Nat /\ backups[a].completed <= Cutoff
          BY <1>3, <1>8, CommitIs
        <5>2. backups[a].completed < t.time
          BY SMTT(30), <3>1, <3>2, <5>1
        <5> QED
          BY <1>4, <5>2
      <4>4. IsNewest(b, anchors)
        BY <1>7, <4>2, <4>3 DEF IsNewest
      <4>5. b = Newest(anchors)
        <5> HIDE DEF anchors
        <5> QED
          BY <1>3, <1>8, <4>4, NewestIs
      <4> QED
        BY <1>9, <4>2, <4>5
    <3> QED
      BY <3>4, <3>5
  <2> QED
    BY <2>1, <2>2
<1>11. b \in Keep(Live, Cutoff)
  BY <1>1, <1>2, <1>10 DEF Keep, Paths
<1>12. Reachable(b, path)
  BY <1>5, <1>7
<1> QED
  BY <1>1, <1>2, <1>5, <1>6, <1>7, <1>11, <1>12

\* A target that can be recovered before a batch can be recovered after it.
LEMMA BatchKeepsTarget ==
  ASSUME RetentionInv, RetentionInv', NEW gone, NEW upTo, Retires(gone, upTo),
         NEW t \in Target, t.kind = "latest" \/ t.time > Cutoff,
         Recoverable(t, retired, expired)
  PROVE  Recoverable(t, retired', expired')
<1>1. PICK S : S = EligiblesWithout(t, retired)
  OBVIOUS
<1>2. PICK L : L = EligiblesWithout(t, retired')
  OBVIOUS
<1>3. PICK b : b = Newest(S)
  OBVIOUS
<1>4. TargetTimeline(t) # 0 /\ S # {}
  BY <1>1 DEF Recoverable
<1>5. TargetTimeline(t) \in Timeline
  BY <1>4, TargetTimelineIs
<1>6. /\ S \in SUBSET DOMAIN backups /\ IsNewest(b, S) /\ b \in Keep(Live, Cutoff)
      /\ Reachable(b, history[TargetTimeline(t)])
  BY <1>1, <1>3, <1>4, <1>5, SelectedIsKept
<1>7. b \in (1..Len(backups)) \ retired'
  BY <1>6, PlanRepeats
<1>8. L \in SUBSET S /\ b \in L
  <2>1. retired \subseteq retired'
    BY DEF Retires
  <2> QED
    BY <1>1, <1>2, <1>6, <1>7, <2>1 DEF EligiblesWithout, IsNewest
<1>9. Newest(L) = b
  BY <1>3, <1>4, <1>6, <1>8, ExtremesStay DEF RetentionInv
<1>10. backups[b].parent \notin retired'
  <2>1. backups' = backups
    BY DEF Retires
  <2>2. ChainsWhole'
    BY DEF RetentionInv
  <2> QED
    BY <1>7, <2>1, <2>2 DEF ChainsWhole, Live
<1>11. Needs(b, history[TargetTimeline(t)]) \subseteq archived \ expired'
  BY <1>5, <1>6, PlanSucceedsAgain DEF Plannable, Covered, Paths
<1> QED
  BY <1>2, <1>4, <1>8, <1>9, <1>10, <1>11 DEF Recoverable

\* Retention takes nothing from the recovery window: a target inside it that could
\* be recovered can still be recovered after any batch.
THEOREM RetentionWindowKept == RetentionSpec => WindowKept
<1>1. RetentionInv /\ RetentionInv' /\ [RetentionNext]_retentionVars =>
        [Retains =>
           \A t \in {u \in Target : u.kind = "latest" \/ u.time > Cutoff} :
             Recoverable(t, retired, expired) => Recoverable(t, retired', expired')]_retentionVars
  <2> SUFFICES ASSUME RetentionInv, RetentionInv', [RetentionNext]_retentionVars, Retains,
                      NEW t \in Target, t.kind = "latest" \/ t.time > Cutoff,
                      Recoverable(t, retired, expired)
               PROVE  Recoverable(t, retired', expired')
    OBVIOUS
  <2>1. PICK gone, upTo : Retires(gone, upTo)
    BY OnlyRetain, RetainIs
  <2> QED
    BY <2>1, BatchKeepsTarget
<1> QED
  BY <1>1, RetentionInvHolds, PTL DEF RetentionSpec, WindowKept

\* Absence of a segment that replay needs blocks the restore; absence of the first
\* one behind the frontier ends it.
LEMMA AbsenceIs ==
  ASSUME RetentionInv, NEW t \in Target, Resolved(t)
  PROVE  LET tl == TargetTimeline(t)
             path == history[tl]
             b == Newest(Eligibles(t))
             frontier == Max({w.end : w \in Intervals(b, path)})
             beyond == <<tl, IF frontier % SegmentBytes = 0 THEN frontier
                             ELSE Align(frontier) + SegmentBytes>>
         IN /\ \A n \in Needs(b, path) : AbsentSegment(n, t) = "blocked"
            /\ AbsentSegment(beyond, t) = "future"
<1>1. PICK tl : tl = TargetTimeline(t)
  OBVIOUS
<1>2. PICK path : path = history[tl]
  OBVIOUS
<1>3. PICK b : b = Newest(Eligibles(t))
  OBVIOUS
<1>4. tl \in Timeline /\ Eligibles(t) # {}
  BY <1>1 DEF Resolved
<1>5. CatalogOK /\ HistoryOK
  BY DEF RetentionInv
<1>6. b \in DOMAIN backups /\ Eligible(b, t, path)
  <2>1. Eligibles(t) \in SUBSET DOMAIN backups
    BY <1>5, BackupsFinite DEF Eligibles, EligiblesWithout
  <2>2. b \in Eligibles(t)
    BY <1>3, <1>4, <1>5, <2>1, NewestIs DEF IsNewest
  <2> QED
    BY <1>1, <1>2, <2>1, <2>2 DEF Eligibles, EligiblesWithout
<1>7. Reachable(b, path)
  BY <1>2, <1>4, <1>5, <1>6, EligibleIs
<1>8. PICK from : from = Place(backups[b].timeline, path)
  OBVIOUS
<1>9. /\ from \in DOMAIN path /\ path[from].id = backups[b].timeline
      /\ \A w \in Intervals(b, path) : \E i \in from..Len(path) : IntervalAt(w, b, path, i)
      /\ \A i \in from..Len(path) : \E w \in Intervals(b, path) : IntervalAt(w, b, path, i)
  BY <1>2, <1>4, <1>6, <1>7, <1>8, IntervalsAre
<1>10. \A w \in Intervals(b, path) : w.start \in LSN /\ w.end \in LSN
  BY <1>9 DEF IntervalAt
<1>11. backups[b].end \in LSN
  BY <1>5, <1>6, CommitIs
<1>12. PICK required : required = {w \in Intervals(b, path) : w.end > w.start}
  OBVIOUS
<1>13. PICK ends : ends = {w.end : w \in Intervals(b, path)}
  OBVIOUS
<1>14. PICK reach : reach = {backups[b].end} \cup {w.end : w \in required}
  OBVIOUS
<1>15. PICK bundle : bundle = [timeline |-> backups[b].timeline, start |-> backups[b].start,
                               end |-> backups[b].end]
  OBVIOUS
<1>16. bundle.timeline = backups[b].timeline /\ bundle.end = backups[b].end
  BY SMTT(30), <1>15
<1>17. ASSUME NEW n
       PROVE  AbsentSegment(n, t) =
                IF \E w \in required : Intersects(n, w) THEN "blocked"
                ELSE IF Intersects(n, bundle) THEN "bundle"
                ELSE IF n[1] = tl /\ n[2] >= Max(reach) THEN "future" ELSE "blocked"
  BY <1>1, <1>2, <1>3, <1>12, <1>14, <1>15 DEF AbsentSegment
<1>18. ASSUME NEW n \in Needs(b, path) PROVE AbsentSegment(n, t) = "blocked"
  <2>1. PICK w \in Intervals(b, path) :
          /\ w.end > w.start /\ n[1] = w.timeline
          /\ Align(w.start) <= n[2] /\ n[2] < w.end /\ n[2] \in Int
    BY SegmentIs
  <2>2. w.start \in Nat
    BY <1>10, <2>1, LsnIs
  <2>3. Align(w.start) \in Nat /\ w.start < Align(w.start) + SegmentBytes /\ SegmentBytes \in Nat
    BY <2>2, AlignIs, LsnIs
  <2>4. w.start - n[2] < SegmentBytes
    BY SMTT(30), <2>1, <2>2, <2>3
  <2>5. Intersects(n, w)
    BY <2>1, <2>4 DEF Intersects
  <2> QED
    BY <1>12, <1>17, <2>1, <2>5
<1>19. PICK frontier : frontier = Max(ends)
  OBVIOUS
<1>20. frontier \in LSN /\ \A x \in ends : x \in LSN /\ x <= frontier
  <2>1. ends \subseteq LSN
    BY <1>10, <1>13
  <2>2. from \in from..Len(path)
    BY SMTT(30), <1>2, <1>4, <1>5, <1>9, PathIs
  <2>3. ends # {}
    BY <1>9, <1>13, <2>2
  <2>4. ends \in SUBSET Nat /\ \A x \in ends : x <= MaxLSN
    BY <2>1, LsnIs
  <2>5. frontier \in ends /\ \A x \in ends : frontier >= x
    BY <1>19, <2>3, <2>4, LsnIs, MaxIs
  <2>6. \A x \in ends : x <= frontier
    BY SMTT(30), <2>4, <2>5
  <2> QED
    BY <2>1, <2>5, <2>6
<1>21. backups[b].end <= frontier
  <2>1. DOMAIN path = 1..Len(path) /\ Len(path) \in Nat /\ \A i \in DOMAIN path : path[i].fork \in LSN
    BY <1>2, <1>4, <1>5, PathIs
  <2>2. from \in from..Len(path)
    BY SMTT(30), <1>9, <2>1
  <2>3. PICK w \in Intervals(b, path) : IntervalAt(w, b, path, from)
    BY <1>9, <2>2
  <2>4. w.end \in ends /\ w.end \in LSN /\ w.end <= frontier
    BY <1>10, <1>13, <1>20
  <2>5. backups[b].end <= w.end
    <3>1. CASE from = Len(path)
      <4>1. ~ (from < Len(path))
        BY SMTT(30), <2>1, <3>1
      <4>2. w.start = backups[b].end /\ w.end = Max({w.start, Frontier(path[from].id)})
        BY <1>8, <2>3, <4>1 DEF IntervalAt
      <4>3. Frontier(path[from].id) \in LSN
        BY FrontierIs DEF RetentionInv
      <4> QED
        BY <1>11, <4>2, <4>3, MaxOfTwo
    <3>2. CASE from # Len(path)
      <4>1. from < Len(path) /\ from + 1 \in DOMAIN path
        BY SMTT(30), <1>9, <2>1, <3>2
      <4>2. w.end = path[from + 1].fork
        BY <1>8, <2>3, <4>1 DEF IntervalAt
      <4>3. backups[b].end < path[from + 1].fork
        BY <1>7, <1>8, <3>2 DEF Reachable
      <4> QED
        BY SMTT(30), <1>11, <2>4, <4>2, <4>3, LsnIs
    <3> QED
      BY <3>1, <3>2
  <2> QED
    BY SMTT(30), <1>11, <1>20, <2>4, <2>5, LsnIs
<1>22. PICK x : x = IF frontier % SegmentBytes = 0 THEN frontier ELSE Align(frontier) + SegmentBytes
  OBVIOUS
<1>23. x \in Nat /\ frontier <= x
  <2>1. frontier \in Nat /\ SegmentBytes \in Nat
    BY <1>20, LsnIs
  <2>2. Align(frontier) \in Nat /\ frontier < Align(frontier) + SegmentBytes
    BY <2>1, AlignIs
  <2> QED
    BY SMTT(30), <1>22, <2>1, <2>2
<1>24. AbsentSegment(<<tl, x>>, t) = "future"
  <2>1. PICK n : n = <<tl, x>>
    OBVIOUS
  <2>2. n[1] = tl /\ n[2] = x
    BY SMTT(30), <2>1
  <2>3. ASSUME NEW y \in LSN, y <= frontier PROVE x >= y /\ ~ (x < y)
    BY SMTT(30), <1>20, <1>23, <2>3, LsnIs
  <2>4. ~ \E w \in required : Intersects(n, w)
    <3> SUFFICES ASSUME NEW w \in required PROVE ~ (n[2] < w.end)
      BY DEF Intersects
    <3>1. w.end \in ends
      BY <1>12, <1>13
    <3> QED
      BY <1>20, <2>2, <2>3, <3>1
  <2>5. ~ Intersects(n, bundle)
    BY <1>11, <1>16, <1>21, <2>2, <2>3 DEF Intersects
  <2>6. n[2] >= Max(reach)
    <3>1. \A y \in reach : y \in LSN /\ y <= frontier
      BY <1>11, <1>12, <1>13, <1>14, <1>20, <1>21
    <3>2. reach \in SUBSET Nat /\ reach # {} /\ \A y \in reach : y <= MaxLSN
      BY <1>14, <3>1, LsnIs
    <3>3. Max(reach) \in reach
      BY <3>2, LsnIs, MaxIs
    <3> QED
      BY <2>2, <2>3, <3>1, <3>3
  <2> QED
    BY <1>17, <2>1, <2>2, <2>4, <2>5, <2>6
<1> QED
  BY <1>1, <1>2, <1>3, <1>13, <1>18, <1>19, <1>22, <1>24

\* During a restore, absence of a segment that replay needs is never answered as
\* absence, and absence of the first segment behind the frontier always is.
THEOREM RestoreAbsenceClassified == RetentionSpec => []AbsenceClassified
<1>1. RetentionInv => AbsenceClassified
  BY AbsenceIs DEF AbsenceClassified
<1> QED
  BY <1>1, RetentionInvHolds, PTL

-----------------------------------------------------------------------------
(* What other parts rely on *)

\* The full roots that can be replayed along a path.
FullsOn(S, path) == {b \in S : Reachable(b, path) /\ backups[b].parent = 0}

\* However long no backup succeeds and whatever promotions there were, a batch
\* leaves the minimum of full roots on every path, or all that the path had (Plan).
RootsLeft(path) ==
  LET left == FullsOn((1..Len(backups)) \ retired', path)
  IN left = FullsOn(Live, path) \/ Cardinality(left) >= Minimum
RootsKept == [][Retains => \A path \in Paths : RootsLeft(path)]_retentionVars

\* The batches are of the form that module Repository collects: only what is not
\* kept, no full before the last differential, and WAL only when nothing is left over
\* (the order of Expire, the last loop of Run).
BatchInOrder ==
  LET expire == Live \ Keep(Live, Cutoff)
      batch == retired' \ retired
      diffs == {b \in expire : backups[b].parent # 0}
  IN /\ batch \subseteq expire
     /\ batch \subseteq diffs \/ diffs \subseteq batch
     /\ expired' # expired => batch = expire
BatchesOrdered == [][Retains => BatchInOrder]_retentionVars

\* A batch leaves the roots of every path.
LEMMA BatchKeepsRoots ==
  ASSUME RetentionInv, NEW gone, NEW upTo, Retires(gone, upTo), NEW path \in Paths
  PROVE  RootsLeft(path)
<1>0. PICK left : left = FullsOn((1..Len(backups)) \ retired', path)
  OBVIOUS
<1>1. PICK fulls : fulls = FullsOn(Live, path)
  OBVIOUS
<1>2. fulls \in SUBSET DOMAIN backups /\ CatalogOK
  BY <1>1, BackupsFinite DEF FullsOn, RetentionInv
<1>3. left \in SUBSET fulls
  BY <1>0, <1>1 DEF FullsOn, Live, Retires
<1>4. Roots(fulls) \subseteq fulls
  BY DEF Roots
<1>5. Roots(fulls) \subseteq Keep(Live, Cutoff)
  <2>1. CASE fulls = {}
    BY <1>4, <2>1
  <2>2. CASE fulls # {}
    <3>1. fulls = {b \in {c \in Live : Reachable(c, path)} : backups[b].parent = 0}
      BY <1>1 DEF FullsOn
    <3>2. {c \in Live : Reachable(c, path)} # {}
      BY <2>2, <3>1
    <3>3. Roots(fulls) \subseteq KeepOn(Live, path, Cutoff)
      BY <3>1, <3>2 DEF KeepOn, Roots
    <3> QED
      BY <3>3 DEF Keep
  <2> QED
    BY <2>1, <2>2
<1>6. Roots(fulls) \in SUBSET left
  <2>1. Roots(fulls) \subseteq (1..Len(backups)) \ retired'
    BY <1>5, PlanRepeats
  <2> QED
    BY <1>0, <1>1, <1>4, <2>1 DEF FullsOn
<1>7. CASE Roots(fulls) = fulls
  <2>1. left = fulls
    BY <1>3, <1>6, <1>7
  <2> QED
    BY <1>0, <1>1, <2>1 DEF RootsLeft
<1>8. CASE Cardinality(Roots(fulls)) >= Minimum
  <2>1. IsFiniteSet(left)
    BY <1>2, <1>3, BackupsFinite
  <2>2. IsFiniteSet(Roots(fulls)) /\ Cardinality(Roots(fulls)) <= Cardinality(left)
    BY <1>6, <2>1, FS_Subset
  <2>3. Cardinality(left) \in Nat /\ Cardinality(Roots(fulls)) \in Nat
    BY <2>1, <2>2, FS_CardinalityType
  <2>4. Cardinality(left) >= Minimum
    BY SMTT(30), <1>8, <2>2, <2>3, PolicyAssumption
  <2> QED
    BY <1>0, <2>4 DEF RootsLeft
<1> QED
  BY <1>2, <1>7, <1>8, RootsEnough

\* A batch leaves the minimum of full roots on every path, or all that the path had.
THEOREM RetentionRootsKept == RetentionSpec => RootsKept
<1>1. RetentionInv /\ [RetentionNext]_retentionVars =>
        [Retains => \A path \in Paths : RootsLeft(path)]_retentionVars
  <2> SUFFICES ASSUME RetentionInv, [RetentionNext]_retentionVars, Retains, NEW path \in Paths
               PROVE  RootsLeft(path)
    OBVIOUS
  <2>1. PICK gone, upTo : Retires(gone, upTo)
    BY OnlyRetain, RetainIs
  <2> QED
    BY <2>1, BatchKeepsRoots
<1> QED
  BY <1>1, RetentionInvHolds, PTL DEF RetentionSpec, RootsKept

\* A batch retires no full before the last differential, and WAL only at the end.
LEMMA BatchIsOrdered ==
  ASSUME RetentionInv, NEW gone, NEW upTo, Retires(gone, upTo)
  PROVE  BatchInOrder
<1> DEFINE expire == Live \ Keep(Live, Cutoff)
           batch == retired' \ retired
           diffs == {b \in expire : backups[b].parent # 0}
<1>1. /\ retired' = retired \cup gone /\ gone \subseteq expire
      /\ \A a \in gone, b \in expire \ gone : Before(a, b)
      /\ expired' = expired \cup {n \in archived : n[1] \in Leaves /\ n[2] < upTo}
      /\ upTo # 0 => gone = expire
  BY DEF Retires
<1>2. batch = gone
  BY <1>1 DEF Live
<1>3. gone \subseteq diffs \/ diffs \subseteq gone
  <2>1. SUFFICES ASSUME NEW a \in gone, a \notin diffs, NEW b \in diffs, b \notin gone PROVE FALSE
    OBVIOUS
  <2>2. Before(a, b)
    BY <1>1, <2>1
  <2> QED
    BY <1>1, <2>1, <2>2 DEF Before
<1>4. ASSUME expired' # expired PROVE upTo # 0
  <2>1. SUFFICES ASSUME upTo = 0 PROVE FALSE
    OBVIOUS
  <2>2. \A n \in archived : n[2] \in Nat
    BY SMTT(30) DEF RetentionInv, ArchiveOK
  <2>3. \A x \in Nat : ~ (x < 0)
    BY SMTT(30)
  <2> QED
    BY <1>1, <1>4, <2>1, <2>2, <2>3
<1> QED
  BY <1>1, <1>2, <1>3, <1>4 DEF BatchInOrder

\* The batches are of the form that module Repository collects.
THEOREM RetentionBatchesOrdered == RetentionSpec => BatchesOrdered
<1>1. RetentionInv /\ [RetentionNext]_retentionVars => [Retains => BatchInOrder]_retentionVars
  <2> SUFFICES ASSUME RetentionInv, [RetentionNext]_retentionVars, Retains PROVE BatchInOrder
    OBVIOUS
  <2>1. PICK gone, upTo : Retires(gone, upTo)
    BY OnlyRetain, RetainIs
  <2> QED
    BY <2>1, BatchIsOrdered
<1> QED
  BY <1>1, RetentionInvHolds, PTL DEF RetentionSpec, BatchesOrdered
-----------------------------------------------------------------------------
(* The passes over the status *)

StatusType ==
  [observed : Int, hash : Int, warned : Int, about : Int, checked : Int,
   nextRun : Int, runHash : Int, runWarned : Int]

PassType ==
  [at : {"idle", "page", "validate", "get", "run", "patch", "event"}, now : Int, found : Int,
   generation : Int, status : StatusType, warn : BOOLEAN]

StatusTypeOK ==
  /\ clock \in Int /\ generation \in Int
  /\ status \in StatusType
  /\ pass \in [Loop -> PassType]

\* The PATCH of a checker leaves retention's part alone.
CheckerPatch(p) ==
  /\ p.status.observed = generation /\ p.status.hash \in {0, generation}
  /\ p.status.about = status.about /\ p.status.checked = status.checked
  /\ p.status.nextRun = status.nextRun /\ p.status.runHash = status.runHash
  /\ p.status.runWarned = status.runWarned
  /\ p.warn => p.now >= status.warned + Throttle

\* The PATCH of a retention pass leaves the checker's part alone.
RetainerPatch(p) ==
  /\ p.status.observed = status.observed /\ p.status.hash = status.hash
  /\ p.status.warned = status.warned
  /\ p.status.about = generation /\ p.status.runHash = generation
  /\ p.status.checked = p.now
  /\ p.warn => p.now >= status.runWarned + Throttle

\* A retention pass found the recorded run due.
RunDue(p) ==
  /\ p.found = generation
  /\ status.runHash # generation \/ p.now >= status.nextRun

CheckerSound(p) ==
  /\ p.at \in {"idle", "page", "validate", "patch", "event"}
  /\ p.at \in {"page", "validate", "patch"} => p.generation = generation
  /\ p.at \in {"page", "validate"} => p.status = status
  /\ p.at = "patch" => CheckerPatch(p)

RetainerSound(p) ==
  /\ p.at \in {"idle", "get", "run", "patch", "event"}
  /\ p.at \in {"run", "patch"} => p.generation = generation /\ RunDue(p)
  /\ p.at = "run" => p.status = status
  /\ p.at = "patch" => RetainerPatch(p)

PassesSound ==
  /\ \A l \in Checker : CheckerSound(pass[l])
  /\ \A l \in Retainer : RetainerSound(pass[l])

StatusInv == StatusTypeOK /\ StatusCoherent /\ PassesSound

-----------------------------------------------------------------------------

LEMMA IdleType == NoStatus \in StatusType /\ Idle \in PassType /\ Idle.at = "idle"
BY SMTT(30), TimeAssumption DEF NoStatus, Never, Idle, StatusType, PassType

LEMMA StatusStarts == Init => StatusInv
<1> SUFFICES ASSUME Init  PROVE StatusInv
  OBVIOUS
<1>1. StatusTypeOK
  BY SMTT(30), IdleType DEF Init, StatusTypeOK
<1>2. StatusCoherent
  BY DEF Init, NoStatus, StatusCoherent
<1>3. PassesSound
  BY IdleType DEF Init, PassesSound, CheckerSound, RetainerSound, Loop
<1> QED  BY <1>1, <1>2, <1>3 DEF StatusInv

\* A step of one pass that writes nothing.
LEMMA PassMoves ==
  ASSUME StatusInv, NEW l \in Loop, NEW p \in PassType, pass' = [pass EXCEPT ![l] = p],
         UNCHANGED <<clock, generation, status>>,
         l \in Checker => CheckerSound(p), l \in Retainer => RetainerSound(p)
  PROVE  StatusInv'
<1>1. StatusTypeOK' /\ StatusCoherent'
  BY DEF StatusInv, StatusTypeOK, StatusCoherent
<1>2. pass'[l] = p /\ \A k \in Loop \ {l} : pass'[k] = pass[k]
  BY DEF StatusInv, StatusTypeOK
<1>3. ASSUME NEW k \in Checker  PROVE CheckerSound(pass[k])'
  <2>1. CheckerSound(pass'[k])
    BY <1>2, <1>3 DEF StatusInv, PassesSound, Loop
  <2> QED  BY <2>1 DEF CheckerSound, CheckerPatch
<1>4. ASSUME NEW k \in Retainer  PROVE RetainerSound(pass[k])'
  <2>1. RetainerSound(pass'[k])
    BY <1>2, <1>4 DEF StatusInv, PassesSound, Loop
  <2> QED  BY <2>1 DEF RetainerSound, RetainerPatch, RunDue
<1> QED  BY <1>1, <1>3, <1>4 DEF StatusInv, PassesSound

LEMMA EndPassKeeps ==
  ASSUME StatusInv, NEW l \in Loop, EndPass(l), UNCHANGED <<clock, generation, status>>
  PROVE  StatusInv'
BY PassMoves, IdleType, Zenon DEF EndPass, CheckerSound, RetainerSound

\* A write that ends every pass that has read the object keeps what passes rely
\* on, whatever it writes.
LEMMA WriteKeeps ==
  ASSUME StatusInv, StatusTypeOK', StatusCoherent',
         \A k \in Loop : pass'[k].at \in {"idle", "event"} \/ (~HasRead(k) /\ pass'[k] = pass[k])
  PROVE  StatusInv'
<1>1. ASSUME NEW k \in Checker  PROVE CheckerSound(pass[k])'
  BY <1>1 DEF StatusInv, PassesSound, CheckerSound, HasRead, Loop
<1>2. ASSUME NEW k \in Retainer  PROVE RetainerSound(pass[k])'
  BY <1>2 DEF StatusInv, PassesSound, RetainerSound, HasRead, Loop
<1> QED  BY <1>1, <1>2 DEF StatusInv, PassesSound

-----------------------------------------------------------------------------
(* The checker *)

LEMMA SnapshotKeeps ==
  ASSUME StatusInv, NEW l \in Checker, Snapshot(l)
  PROVE  StatusInv'
<1> DEFINE p == [pass[l] EXCEPT !.at = "page", !.now = 0,
                                !.generation = generation, !.status = status]
<1>1. l \in Loop /\ l \notin Retainer
  BY LoopAssumption DEF Loop
<1>2. pass[l] \in PassType /\ status \in StatusType /\ 0 \in Int /\ generation \in Int
  BY SMTT(30), <1>1 DEF StatusInv, StatusTypeOK
<1>3. p \in PassType
  BY <1>2, Zenon DEF PassType
<1>4. pass' = [pass EXCEPT ![l] = p] /\ UNCHANGED <<clock, generation, status>>
  BY <1>1, Zenon DEF Snapshot, ReadObject, StatusInv, StatusTypeOK
<1>5. CheckerSound(p)
  BY <1>2 DEF CheckerSound, PassType
<1> QED  BY <1>1, <1>3, <1>4, <1>5, PassMoves, Zenon

LEMMA ListKeeps ==
  ASSUME StatusInv, NEW l \in Checker, List(l)
  PROVE  StatusInv'
<1> DEFINE p == [pass[l] EXCEPT !.at = "validate", !.now = clock]
<1>1. l \in Loop /\ l \notin Retainer
  BY LoopAssumption DEF Loop
<1>2. pass[l] \in PassType /\ clock \in Int /\ pass[l].at = "page" /\ CheckerSound(pass[l])
  BY <1>1 DEF StatusInv, StatusTypeOK, PassesSound, List
<1>3. p \in PassType
  BY <1>2, Zenon DEF PassType
<1>4. pass' = [pass EXCEPT ![l] = p] /\ UNCHANGED <<clock, generation, status>>
  BY <1>1, Zenon DEF List, StatusInv, StatusTypeOK
<1>5. CheckerSound(p)
  BY <1>2 DEF CheckerSound, PassType
<1> QED  BY <1>1, <1>3, <1>4, <1>5, PassMoves, Zenon

LEMMA ReportKeeps ==
  ASSUME StatusInv, NEW l \in Checker, pass[l].at = "validate", NEW hash \in {0, generation},
         Report(l, hash), UNCHANGED <<clock, generation, status>>
  PROVE  StatusInv'
<1> DEFINE s == Configured(l, hash)
           warn == hash = 0 /\ Due(l, s.warned)
           next == IF warn THEN [s EXCEPT !.warned = pass[l].now] ELSE s
           p == [pass[l] EXCEPT !.at = "patch", !.status = next, !.warn = warn]
<1>1. l \in Loop /\ l \notin Retainer
  BY LoopAssumption DEF Loop
<1>2. /\ pass[l] \in PassType /\ status \in StatusType /\ generation \in Int
      /\ pass[l].status = status /\ pass[l].generation = generation
  BY <1>1 DEF StatusInv, StatusTypeOK, PassesSound, CheckerSound
<1>3. s = [status EXCEPT !.observed = generation, !.hash = hash]
  BY <1>2 DEF Configured
<1>4. s \in StatusType /\ next \in StatusType /\ warn \in BOOLEAN
  <2>1. s \in StatusType
    <3>1. hash \in Int
      BY SMTT(30), <1>2
    <3>2. [status EXCEPT !.observed = generation, !.hash = hash] \in StatusType
      BY <1>2, <3>1, Zenon DEF StatusType
    <3> QED  BY <1>3, <3>2
  <2>2. warn \in BOOLEAN
    BY DEF Due
  <2>3. pass[l].now \in Int
    BY <1>2 DEF PassType
  <2>4. [s EXCEPT !.warned = pass[l].now] \in StatusType
    BY <2>1, <2>3 DEF StatusType
  <2> HIDE DEF s
  <2> QED  BY <2>1, <2>2, <2>4
<1>5. p \in PassType
  BY <1>2, <1>4, Zenon DEF PassType
<1>6. CheckerSound(p)
  <2>1. warn => pass[l].now >= status.warned + Throttle
    BY <1>2, <1>3 DEF Due, StatusType
  <2>2. /\ next.observed = generation /\ next.hash = hash /\ next.about = status.about
        /\ next.checked = status.checked /\ next.nextRun = status.nextRun
        /\ next.runHash = status.runHash /\ next.runWarned = status.runWarned
    BY <1>2, <1>3 DEF StatusType
  <2>3. /\ p.at = "patch" /\ p.status = next /\ p.warn = warn /\ p.now = pass[l].now
        /\ p.generation = generation
    BY <1>2 DEF PassType
  <2> QED  BY <2>1, <2>2, <2>3, Zenon DEF CheckerSound, CheckerPatch
<1>7. CASE EndPass(l)
  BY <1>1, <1>7, EndPassKeeps
<1>8. CASE Compute(l, next, warn)
  <2>1. pass' = [pass EXCEPT ![l] = p]
    BY <1>1, <1>8, Zenon DEF Compute, StatusInv, StatusTypeOK
  <2> QED  BY <1>1, <1>5, <1>6, <2>1, PassMoves, Zenon
<1> QED  BY <1>7, <1>8 DEF Report

-----------------------------------------------------------------------------
(* Retention *)

LEMMA ConfigureKeeps ==
  ASSUME StatusInv, NEW l \in Retainer, Configure(l)
  PROVE  StatusInv'
<1> DEFINE p == [pass[l] EXCEPT !.at = "get", !.now = clock, !.found = generation]
<1>1. l \in Loop /\ l \notin Checker
  BY LoopAssumption DEF Loop
<1>2. pass[l] \in PassType /\ clock \in Int /\ generation \in Int
  BY <1>1 DEF StatusInv, StatusTypeOK
<1>3. p \in PassType /\ RetainerSound(p)
  BY <1>2, Zenon DEF PassType, RetainerSound
<1>4. pass' = [pass EXCEPT ![l] = p] /\ UNCHANGED <<clock, generation, status>>
  BY <1>1, Zenon DEF Configure, StatusInv, StatusTypeOK
<1> QED  BY <1>1, <1>3, <1>4, PassMoves, Zenon

LEMMA GetObjectKeeps ==
  ASSUME StatusInv, NEW l \in Retainer, GetObject(l)
  PROVE  StatusInv'
<1> DEFINE p == [pass[l] EXCEPT !.at = "run", !.now = pass[l].now,
                                !.generation = generation, !.status = status]
<1>1. l \in Loop /\ l \notin Checker /\ UNCHANGED <<clock, generation, status>>
  BY LoopAssumption DEF Loop, GetObject
<1>2. pass[l] \in PassType /\ status \in StatusType /\ generation \in Int
  BY <1>1 DEF StatusInv, StatusTypeOK
<1>3. CASE EndPass(l)
  BY <1>1, <1>3, EndPassKeeps
<1>4. CASE generation = pass[l].found /\ ~Rests(l) /\ ReadObject(l, "run", pass[l].now)
  <2>1. p \in PassType
    BY <1>2, Zenon DEF PassType
  <2>2. /\ p.at = "run" /\ p.now = pass[l].now /\ p.found = pass[l].found
        /\ p.generation = generation /\ p.status = status
    BY <1>2 DEF PassType
  <2>3. RunDue(p)
    BY SMTT(30), <1>2, <1>4, <2>2 DEF RunDue, Rests, PassType, StatusType
  <2>4. RetainerSound(p)
    BY <2>2, <2>3 DEF RetainerSound
  <2>5. pass' = [pass EXCEPT ![l] = p]
    BY <1>1, <1>4, Zenon DEF ReadObject, StatusInv, StatusTypeOK
  <2> QED  BY <1>1, <2>1, <2>4, <2>5, PassMoves, Zenon
<1> QED  BY <1>3, <1>4 DEF GetObject

LEMMA RunKeeps ==
  ASSUME StatusInv, NEW l \in Retainer, Run(l)
  PROVE  StatusInv'
<1>1. /\ l \in Loop /\ l \notin Checker /\ pass[l].at = "run"
      /\ UNCHANGED <<clock, generation, status>>
  BY LoopAssumption DEF Loop, Run
<1>2. /\ pass[l] \in PassType /\ status \in StatusType /\ generation \in Int /\ clock \in Int
      /\ pass[l].status = status /\ pass[l].generation = generation /\ RunDue(pass[l])
  BY <1>1 DEF StatusInv, StatusTypeOK, PassesSound, RetainerSound
<1>3. PICK blocked \in BOOLEAN, after \in {pass[l].now + Interval, clock + 1} :
        LET warn == blocked /\ Due(l, pass[l].status.runWarned) IN
        Compute(l, [pass[l].status EXCEPT !.about = pass[l].generation,
                                          !.checked = pass[l].now,
                                          !.nextRun = after,
                                          !.runHash = pass[l].found,
                                          !.runWarned = IF warn THEN pass[l].now ELSE @],
                warn)
  BY Zenon DEF Run
<1> DEFINE warn == blocked /\ Due(l, status.runWarned)
           s == [status EXCEPT !.about = generation, !.checked = pass[l].now, !.nextRun = after,
                               !.runHash = pass[l].found,
                               !.runWarned = IF warn THEN pass[l].now ELSE @]
           p == [pass[l] EXCEPT !.at = "patch", !.status = s, !.warn = warn]
<1>4. after \in Int /\ warn \in BOOLEAN
  BY SMTT(30), <1>2, TimeAssumption DEF PassType, Due
<1>5. s \in StatusType
  <2>1. pass[l].now \in Int /\ pass[l].found \in Int /\ status.runWarned \in Int
    BY <1>2 DEF PassType, StatusType
  <2>2. (IF warn THEN pass[l].now ELSE status.runWarned) \in Int
    BY <2>1
  <2> HIDE DEF warn
  <2> QED  BY SMTT(30), <1>2, <1>4, <2>1, <2>2, ZenonT(30) DEF StatusType
<1>6. p \in PassType
  BY <1>2, <1>4, <1>5, Zenon DEF PassType
<1>7. RetainerSound(p)
  <2>1. warn => pass[l].now >= status.runWarned + Throttle
    BY DEF Due
  <2>2. /\ s.observed = status.observed /\ s.hash = status.hash /\ s.warned = status.warned
        /\ s.about = generation /\ s.checked = pass[l].now /\ s.runHash = generation
    BY <1>2 DEF StatusType, RunDue
  <2>3. /\ p.at = "patch" /\ p.status = s /\ p.warn = warn /\ p.now = pass[l].now
        /\ p.generation = generation /\ p.found = pass[l].found
    BY <1>2 DEF PassType
  <2> QED  BY <1>2, <2>1, <2>2, <2>3, Zenon DEF RetainerSound, RetainerPatch, RunDue
<1>8. pass' = [pass EXCEPT ![l] = p]
  BY <1>1, <1>2, <1>3, Zenon DEF Compute, StatusInv, StatusTypeOK
<1> QED  BY <1>1, <1>6, <1>7, <1>8, PassMoves, Zenon

-----------------------------------------------------------------------------
(* The write and the environment *)

\* What a PATCH that is applied does.
LEMMA PatchApplied ==
  ASSUME StatusInv, NEW l \in Loop, Patch(l), status' # status
  PROVE  /\ pass[l].at = "patch" /\ status' = pass[l].status
         /\ l \in Checker => CheckerPatch(pass[l])
         /\ l \in Retainer => RetainerPatch(pass[l]) /\ RunDue(pass[l])
BY DEF Patch, StatusInv, PassesSound, CheckerSound, RetainerSound

LEMMA PatchKeeps ==
  ASSUME StatusInv, NEW l \in Loop, Patch(l)
  PROVE  StatusInv'
<1>1. CASE EndPass(l) /\ UNCHANGED status
  BY <1>1, EndPassKeeps DEF Patch
<1>2. CASE /\ status' = pass[l].status
           /\ \E at \in {"idle"} \cup (IF pass[l].warn THEN {"event"} ELSE {}) :
                pass' = [k \in Loop |-> IF k = l THEN [Idle EXCEPT !.at = at]
                                        ELSE IF Dooms(k) THEN Idle ELSE pass[k]]
  <2>1. PICK at \in {"idle", "event"} :
          pass' = [k \in Loop |-> IF k = l THEN [Idle EXCEPT !.at = at]
                                  ELSE IF Dooms(k) THEN Idle ELSE pass[k]]
    BY <1>2
  <2>2. [Idle EXCEPT !.at = at] \in PassType /\ [Idle EXCEPT !.at = at].at = at
    BY IdleType DEF PassType
  <2>3. StatusTypeOK'
    BY <1>2, <2>1, <2>2, IdleType DEF Patch, StatusInv, StatusTypeOK, PassType
  <2>4. StatusCoherent'
    <3>1. pass[l].at = "patch" /\ status' = pass[l].status
      BY <1>2 DEF Patch
    <3>2. CASE l \in Checker
      BY <3>1, <3>2 DEF StatusInv, PassesSound, CheckerSound, CheckerPatch, StatusCoherent
    <3>3. CASE l \in Retainer
      BY <3>1, <3>3 DEF StatusInv, PassesSound, RetainerSound, RetainerPatch, StatusCoherent
    <3> QED  BY <3>2, <3>3 DEF Loop
  <2>5. \A k \in Loop : pass'[k].at \in {"idle", "event"} \/ (~HasRead(k) /\ pass'[k] = pass[k])
    BY <2>1, <2>2, IdleType DEF Dooms
  <2> QED  BY <2>3, <2>4, <2>5, WriteKeeps
<1> QED  BY <1>1, <1>2 DEF Patch

LEMMA EditKeeps ==
  ASSUME StatusInv, Edit
  PROVE  StatusInv'
<1>1. StatusTypeOK'
  BY SMTT(30), IdleType DEF Edit, StatusInv, StatusTypeOK
<1>2. StatusCoherent'
  BY DEF Edit, StatusInv, StatusCoherent
<1>3. \A k \in Loop : pass'[k].at \in {"idle", "event"} \/ (~HasRead(k) /\ pass'[k] = pass[k])
  BY IdleType DEF Edit, Dooms
<1> QED  BY <1>1, <1>2, <1>3, WriteKeeps

LEMMA TickKeeps ==
  ASSUME StatusInv, clock' \in Int, UNCHANGED <<generation, status, pass>>
  PROVE  StatusInv'
BY DEF StatusInv, StatusTypeOK, StatusCoherent, PassesSound, CheckerSound, RetainerSound,
       CheckerPatch, RetainerPatch, RunDue

LEMMA StatusKept ==
  ASSUME StatusInv, [Next]_vars
  PROVE  StatusInv'
<1>1. CASE UNCHANGED vars \/ Tick
  BY SMTT(30), <1>1, TickKeeps DEF vars, Tick, StatusInv, StatusTypeOK
<1>2. ASSUME NEW l \in Checker, CheckerStep(l)  PROVE StatusInv'
  <2>1. l \in Loop
    BY DEF Loop
  <2>2. CASE Validate(l)
    BY <2>2, ReportKeeps DEF Validate
  <2>3. CASE Warn(l)
    BY <2>1, <2>3, EndPassKeeps DEF Warn
  <2> QED  BY <1>2, <2>1, <2>2, <2>3, SnapshotKeeps, ListKeeps, PatchKeeps DEF CheckerStep
<1>3. ASSUME NEW l \in Retainer, RetainerStep(l)  PROVE StatusInv'
  <2>1. l \in Loop
    BY DEF Loop
  <2>2. CASE Warn(l)
    BY <2>1, <2>2, EndPassKeeps DEF Warn
  <2> QED  BY <1>3, <2>1, <2>2, ConfigureKeeps, GetObjectKeeps, RunKeeps, PatchKeeps
           DEF RetainerStep
<1>4. ASSUME NEW l \in Loop, CutShort(l)  PROVE StatusInv'
  BY <1>4, EndPassKeeps DEF CutShort
<1> QED  BY <1>1, <1>2, <1>3, <1>4, EditKeeps DEF Next

-----------------------------------------------------------------------------
(***************************************************************************)
(* The parts of the status that are written together stay together, with   *)
(* any number of managers writing the one Repository object: a             *)
(* configurationHash or a retention hash is never paired with the          *)
(* generation of another pass (cnpgi/status.go, cnpgi/retention.go).       *)
(***************************************************************************)
THEOREM StatusIsCoherent == Spec => []StatusCoherent
<1>1. Init => StatusInv
  BY StatusStarts
<1>2. StatusInv /\ [Next]_vars => StatusInv'
  BY StatusKept
<1>3. StatusInv => StatusCoherent
  BY DEF StatusInv
<1> QED  BY <1>1, <1>2, <1>3, PTL DEF Spec

\* The applied PATCH is the only step that changes the status.
LEMMA StatusWrites ==
  ASSUME StatusInv, [Next]_vars, status' # status
  PROVE  \E l \in Loop : Patch(l)
<1>1. \E l \in Loop : CheckerStep(l) \/ RetainerStep(l) \/ CutShort(l)
  BY DEF Next, vars, Edit, Tick, Loop
<1> QED  BY <1>1, Zenon DEF CheckerStep, RetainerStep, CutShort, Snapshot, List, Validate, Warn, Configure,
                     GetObject, Run

(***************************************************************************)
(* Two retention runs of one configuration that are both recorded are      *)
(* apart by the interval of the first: a pass that read a stale nextRun    *)
(* loses its PATCH (cnpgi/retention.go:131, :167).                         *)
(***************************************************************************)
THEOREM RunsAreSpaced == Spec => RunsSpaced
<1>1. Init => StatusInv
  BY StatusStarts
<1>2. StatusInv /\ [Next]_vars => StatusInv'
  BY StatusKept
<1>3. StatusInv /\ [Next]_vars =>
        [status'.checked # status.checked =>
           status'.runHash # status.runHash \/ status'.checked >= status.nextRun]_vars
  <2> SUFFICES ASSUME StatusInv, [Next]_vars, status'.checked # status.checked
               PROVE  status'.runHash # status.runHash \/ status'.checked >= status.nextRun
    OBVIOUS
  <2>1. PICK l \in Loop : Patch(l)
    BY StatusWrites
  <2>2. l \in Retainer
    BY <2>1, PatchApplied DEF CheckerPatch, Loop
  <2>3. status' = pass[l].status /\ RetainerPatch(pass[l]) /\ RunDue(pass[l])
    BY <2>1, <2>2, PatchApplied
  <2> QED  BY <2>3 DEF RetainerPatch, RunDue
<1> QED  BY <1>1, <1>2, <1>3, PTL DEF Spec, RunsSpaced

\* A pass reaches its warning only by its own applied PATCH.
LEMMA WarningFollowsPatch ==
  ASSUME StatusInv, [Next]_vars, NEW l \in Loop,
         pass[l].at = "patch", pass'[l].at = "event"
  PROVE  Patch(l) /\ pass[l].warn
<1>1. Idle.at = "idle" /\ pass \in [Loop -> PassType]
  BY IdleType DEF StatusInv, StatusTypeOK
<1>2. ASSUME NEW k \in Loop, EndPass(k)  PROVE pass'[l].at # "event"
  BY <1>1, <1>2 DEF EndPass
<1>3. ASSUME NEW k \in Loop, Patch(k)  PROVE k = l /\ pass[l].warn
  <2>1. ~EndPass(k)
    BY <1>2
  <2>2. PICK at \in {"idle"} \cup (IF pass[k].warn THEN {"event"} ELSE {}) :
          pass' = [j \in Loop |-> IF j = k THEN [Idle EXCEPT !.at = at]
                                  ELSE IF Dooms(j) THEN Idle ELSE pass[j]]
    BY <1>3, <2>1 DEF Patch
  <2>3. [Idle EXCEPT !.at = at].at = at
    BY IdleType DEF PassType
  <2>4. k = l
    BY <1>1, <2>2
  <2> QED  BY <2>2, <2>3, <2>4, Zenon
<1>4. ~Edit /\ ~Tick /\ ~UNCHANGED vars
  BY <1>1 DEF Edit, Tick, vars
<1>5. ASSUME NEW k \in Checker  PROVE ~Snapshot(k) /\ ~List(k) /\ ~Validate(k)
  <2>1. k \in Loop
    BY DEF Loop
  <2>2. pass[k] \in PassType
    BY <1>1, <2>1
  <2>3. ~Snapshot(k) /\ ~List(k)
    BY <1>1, <2>1, <2>2 DEF Snapshot, List, ReadObject, PassType
  <2>4. ASSUME NEW s, NEW w, pass[k].at = "validate"  PROVE ~Compute(k, s, w)
    BY <1>1, <2>1, <2>2, <2>4 DEF Compute, PassType
  <2> QED  BY <1>2, <2>1, <2>3, <2>4 DEF Validate, Report
<1>6. ASSUME NEW k \in Retainer  PROVE ~Configure(k) /\ ~GetObject(k) /\ ~Run(k)
  <2>1. k \in Loop
    BY DEF Loop
  <2>2. pass[k] \in PassType
    BY <1>1, <2>1
  <2>3. ~Configure(k)
    BY <1>1, <2>1, <2>2 DEF Configure, PassType
  <2>4. ~GetObject(k)
    BY <1>1, <1>2, <2>1, <2>2 DEF GetObject, ReadObject, PassType
  <2>5. ~Run(k)
    BY <1>1, <2>1, <2>2, Zenon DEF Run, Compute, PassType
  <2> QED  BY <2>3, <2>4, <2>5
<1> QED  BY <1>2, <1>3, <1>4, <1>5, <1>6
         DEF Next, CheckerStep, RetainerStep, Warn, CutShort, Loop

(***************************************************************************)
(* A pass posts its warning Event only Throttle after the last warning of  *)
(* its kind that any manager recorded (cnpgi/status.go:84,                 *)
(* cnpgi/retention.go:177), restarts and concurrent managers included.     *)
(***************************************************************************)
THEOREM WarningsAreApart == Spec => WarningsApart
<1>1. Init => StatusInv
  BY StatusStarts
<1>2. StatusInv /\ [Next]_vars => StatusInv'
  BY StatusKept
<1> DEFINE Apart ==
      \A l \in Loop : pass[l].at = "patch" /\ pass'[l].at = "event" =>
        LET last == IF l \in Checker THEN status.warned ELSE status.runWarned
        IN pass[l].now >= last + Throttle
<1>3. StatusInv /\ [Next]_vars => [Apart]_vars
  <2> SUFFICES ASSUME StatusInv, [Next]_vars, NEW l \in Loop,
                      pass[l].at = "patch", pass'[l].at = "event"
               PROVE  pass[l].now >= (IF l \in Checker THEN status.warned
                                      ELSE status.runWarned) + Throttle
    OBVIOUS
  <2>1. pass[l].warn
    BY WarningFollowsPatch
  <2>2. CASE l \in Checker
    BY <2>1, <2>2 DEF StatusInv, PassesSound, CheckerSound, CheckerPatch
  <2>3. CASE l \in Retainer /\ l \notin Checker
    BY <2>1, <2>3 DEF StatusInv, PassesSound, RetainerSound, RetainerPatch
  <2> QED  BY <2>2, <2>3 DEF Loop
<1> QED  BY <1>1, <1>2, <1>3, PTL DEF Spec, WarningsApart
=============================================================================
