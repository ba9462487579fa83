--------------------------- MODULE SnapshotProofs ---------------------------
(***************************************************************************)
(* Proofs about snapshots: the types of RaftSnapshot, which say that no    *)
(* index wraps and no transfer goes past the end of a snapshot; that the   *)
(* log of every node begins where its snapshot ends; and that an entry is  *)
(* only held at the index the leader gave it.                              *)
(***************************************************************************)
EXTENDS RaftSnapshot, FiniteSetTheorems, SequenceTheorems, TLAPS

-----------------------------------------------------------------------------
(***************************************************************************)
(* Highest and lowest indexes.                                             *)
(***************************************************************************)
\* A set of naturals has a least element: "less than" is well founded.
LEMMA LeastElement ==
  ASSUME NEW S \in SUBSET Nat, S # {}
  PROVE  \E n \in S : \A k \in S : n <= k
<1> DEFINE R == {p \in Nat \X Nat : p[1] < p[2]}
<1>1. IsWellFoundedOn(R, Nat)
  BY NatLessThanWellFounded DEF OpToRel
<1>2. \A x, y \in Nat : <<y, x>> \in R <=> y < x
  OBVIOUS
<1>3. PICK n \in S : \A y \in S : <<y, n>> \notin R
  <2> HIDE DEF R
  <2> QED BY <1>1, WFMin
<1> HIDE DEF R
<1>4. \A y \in S : ~(y < n)
  BY <1>2, <1>3
<1> QED
  BY <1>4

\* Lowest is an index, of the set when there is one.
LEMMA LowestType ==
  ASSUME NEW S \in SUBSET Nat
  PROVE  Lowest(S) \in Nat /\ (S # {} => Lowest(S) \in S /\ \A k \in S : Lowest(S) <= k)
<1>1. ASSUME S # {} PROVE Lowest(S) \in S /\ \A k \in S : Lowest(S) <= k
  BY <1>1, LeastElement DEF Lowest
<1>2. S = {} => Lowest(S) = 0
  BY DEF Lowest
<1>3. CASE S = {}
  BY <1>2, <1>3
<1>4. CASE S # {}
  BY <1>1, <1>4
<1> QED
  BY <1>3, <1>4

\* Highest is what its name says of indexes that have a bound.
LEMMA HighestType ==
  ASSUME NEW S \in SUBSET Nat, NEW b \in Nat, \A k \in S : k <= b
  PROVE  /\ Highest(S) \in Nat
         /\ \A k \in S : k <= Highest(S)
         /\ S # {} => Highest(S) \in S
<1> DEFINE T == {n \in Nat : \A k \in S : k <= n}
<1>1. T \in SUBSET Nat /\ b \in T
  OBVIOUS
<1>2. PICK n \in T : \A k \in T : n <= k
  <2> HIDE DEF T
  <2> QED BY <1>1, LeastElement
<1>3. ASSUME S # {} PROVE n \in S
  <2>1. SUFFICES ASSUME n \notin S PROVE FALSE
    OBVIOUS
  <2>2. \A k \in S : k < n
    BY <1>2, <2>1
  <2>3. n # 0 /\ n - 1 \in Nat
    <3>1. PICK k \in S : TRUE
      BY <1>3
    <3>2. k \in Nat /\ n \in Nat /\ k < n
      BY <1>2, <2>2, <3>1
    <3> QED
      BY <3>2
  <2>4. n - 1 \in T
    BY <2>2, <2>3
  <2> QED
    BY <1>2, <2>4
<1>4. \A k \in S : k <= n
  BY <1>2
<1>5. ASSUME S # {} PROVE Highest(S) \in S /\ \A k \in S : k <= Highest(S)
  BY <1>3, <1>4, <1>5 DEF Highest
<1>6. S = {} => Highest(S) = 0
  BY DEF Highest
<1>7. CASE S = {}
  BY <1>6, <1>7
<1>8. CASE S # {}
  BY <1>5, <1>8
<1> QED
  BY <1>7, <1>8

\* Of two indexes.
LEMMA HighestOfTwo ==
  ASSUME NEW j \in Nat, NEW k \in Nat
  PROVE  Highest({j, k}) \in Nat /\ j <= Highest({j, k}) /\ k <= Highest({j, k})
<1>1. {j, k} \in SUBSET Nat /\ j + k \in Nat /\ \A n \in {j, k} : n <= j + k
  OBVIOUS
<1> QED
  BY <1>1, HighestType

\* The last chunk of every snapshot that is sent has an offset.
LEMMA OffsetsType ==
  0 \in Offsets /\ Offsets \subseteq Nat
  /\ \A k \in 0 .. MaxIndex : \A o \in Nat : o < Chunks[k] => o \in Offsets
<1> DEFINE CountTo(n) == {Chunks[k] : k \in 0 .. n}
           Unbounded == {n \in 0 .. MaxIndex : \A b \in Nat : \E c \in CountTo(n) : ~(c <= b)}
<1>1. MaxIndex \in Nat /\ \A k \in 0 .. MaxIndex : Chunks[k] \in Nat /\ Chunks[k] > 0
  BY SnapshotAssumption
<1>2. MaxIndex \notin Unbounded
  <2>1. SUFFICES ASSUME Unbounded # {} PROVE FALSE
    OBVIOUS
  <2>2. Unbounded \in SUBSET Nat
    BY <1>1
  <2>3. PICK n \in Unbounded : \A k \in Unbounded : n <= k
    <3> HIDE DEF Unbounded
    <3> QED BY <2>1, <2>2, LeastElement
  <2>4. n \in 0 .. MaxIndex /\ n \in Nat
    BY <1>1
  <2>5. CASE n = 0
    <3>1. \A c \in CountTo(0) : c = Chunks[0]
      OBVIOUS
    <3>2. Chunks[0] \in Nat
      BY <1>1
    <3>3. \A c \in CountTo(n) : c <= Chunks[0]
      BY <2>5, <3>1, <3>2
    <3> QED
      BY <3>2, <3>3
  <2>6. CASE n > 0
    <3>1. n - 1 \in 0 .. MaxIndex /\ ~(n <= n - 1)
      BY <1>1, <2>4, <2>6
    <3>2. n - 1 \notin Unbounded
      <4> HIDE DEF Unbounded
      <4> QED BY <2>3, <3>1
    <3>3. PICK b \in Nat : \A c \in CountTo(n - 1) : c <= b
      BY <3>1, <3>2
    <3>4. Chunks[n] \in Nat /\ b + Chunks[n] \in Nat
      BY <1>1, <2>4
    <3>5. ASSUME NEW k \in 0 .. n PROVE Chunks[k] <= b + Chunks[n]
      <4>1. CASE k = n
        BY <3>4, <4>1
      <4>2. CASE k \in 0 .. n - 1
        <5>1. Chunks[k] <= b /\ Chunks[k] \in Nat
          BY <1>1, <2>4, <3>3, <4>2
        <5> QED
          BY <3>4, <5>1
      <4> QED
        BY <2>4, <4>1, <4>2
    <3>6. \A c \in CountTo(n) : c <= b + Chunks[n]
      BY <3>5
    <3> QED
      BY <3>4, <3>6
  <2> QED
    BY <2>4, <2>5, <2>6
<1>3. PICK b \in Nat : \A c \in CountTo(MaxIndex) : c <= b
  BY <1>1, <1>2
<1>4. CountTo(MaxIndex) \in SUBSET Nat
  BY <1>1
<1> DEFINE h == Highest(CountTo(MaxIndex))
<1>5. h \in Nat /\ \A c \in CountTo(MaxIndex) : c <= h
  <2> HIDE DEF CountTo
  <2> QED BY <1>3, <1>4, HighestType
<1>6. Offsets = 0 .. h - 1
  BY DEF Offsets
<1>7. \A k \in 0 .. MaxIndex : Chunks[k] <= h
  BY <1>5
<1> HIDE DEF h
<1>8. 0 \in 0 .. MaxIndex
  BY <1>1
<1> QED
  BY <1>1, <1>5, <1>6, <1>7, <1>8
-----------------------------------------------------------------------------
(***************************************************************************)
(* Operators on compacted logs.                                            *)
(***************************************************************************)
LogType == [base : Nat, entries : Seq(Entry)]

\* The last index of a log, and what lies between its base and that.
LEMMA LastIndexType ==
  ASSUME NEW l \in LogType
  PROVE  /\ LastIndex(l) \in Nat /\ l.base <= LastIndex(l)
         /\ \A k \in Int : Holds(l, k) =>
              k \in Nat /\ k - l.base \in 1 .. Len(l.entries) /\ At(l, k) \in Entry
         /\ l.entries = <<>> => LastIndex(l) = l.base
<1>1. l.base \in Nat /\ l.entries \in Seq(Entry) /\ Len(l.entries) \in Nat
  BY DEF LogType
<1>2. l.entries = <<>> => Len(l.entries) = 0
  OBVIOUS
<1>3. LastIndex(l) \in Nat /\ l.base <= LastIndex(l) /\ (l.entries = <<>> => LastIndex(l) = l.base)
  BY <1>1, <1>2 DEF LastIndex
<1>4. ASSUME NEW k \in Int, Holds(l, k)
      PROVE  k \in Nat /\ k - l.base \in 1 .. Len(l.entries)
  BY <1>1, <1>4 DEF Holds, LastIndex
<1>5. ASSUME NEW k \in Int, Holds(l, k) PROVE At(l, k) \in Entry
  BY <1>1, <1>4, <1>5 DEF At
<1> QED
  BY <1>3, <1>4, <1>5

\* Appending leaves the base where it is.
LEMMA ExtendType ==
  ASSUME NEW l \in LogType, NEW es \in Seq(Entry)
  PROVE  /\ Extend(l, es) \in LogType /\ Extend(l, es).base = l.base
         /\ LastIndex(Extend(l, es)) = LastIndex(l) + Len(es)
<1>1. l.base \in Nat /\ l.entries \in Seq(Entry) /\ Len(l.entries) \in Nat /\ Len(es) \in Nat
  BY DEF LogType
<1>2. l.entries \o es \in Seq(Entry) /\ Len(l.entries \o es) = Len(l.entries) + Len(es)
  BY <1>1
<1> QED
  BY <1>1, <1>2 DEF Extend, LogType, LastIndex

\* raft_log_truncate_after leaves the base where it is.
LEMMA TruncateAfterType ==
  ASSUME NEW l \in LogType, NEW k \in Int
  PROVE  TruncateAfter(l, k) \in LogType /\ TruncateAfter(l, k).base = l.base
<1>1. l.base \in Nat /\ l.entries \in Seq(Entry) /\ Len(l.entries) \in Nat /\ k - l.base \in Int
  BY DEF LogType
<1>2. CASE k >= LastIndex(l)
  BY <1>2 DEF TruncateAfter
<1>3. CASE ~(k >= LastIndex(l))
  <2>1. k - l.base <= Len(l.entries)
    BY <1>1, <1>3, LastIndexType DEF LastIndex
  <2>2. SubSeq(l.entries, 1, k - l.base) \in Seq(Entry)
    BY <1>1, <2>1, SubSeqProperties
  <2> QED
    BY <1>1, <1>3, <2>2 DEF TruncateAfter, LogType
<1> QED
  BY <1>2, <1>3

\* raft_log_truncate_before: a base that is not below the log's becomes the base,
\* and the log ends no later than it did, or at its base.
LEMMA TruncateBeforeType ==
  ASSUME NEW l \in LogType, NEW k \in Nat
  PROVE  /\ TruncateBefore(l, k) \in LogType
         /\ l.base <= k => TruncateBefore(l, k).base = k
         /\ LastIndex(TruncateBefore(l, k)) \in {LastIndex(l), k}
<1>1. l.base \in Nat /\ l.entries \in Seq(Entry) /\ Len(l.entries) \in Nat
  BY DEF LogType
<1>2. CASE l.entries = <<>> \/ k >= LastIndex(l)
  <2>1. EmptyLog(k) \in LogType /\ EmptyLog(k).base = k /\ LastIndex(EmptyLog(k)) = k
    BY DEF EmptyLog, LogType, LastIndex
  <2> QED
    BY <1>2, <2>1 DEF TruncateBefore
<1>3. CASE ~(l.entries = <<>> \/ k >= LastIndex(l)) /\ k <= l.base
  BY <1>1, <1>3 DEF TruncateBefore
<1>4. CASE ~(l.entries = <<>> \/ k >= LastIndex(l)) /\ ~(k <= l.base)
  <2>1. k - l.base + 1 \in 1 .. Len(l.entries) /\ Len(l.entries) \in 1 .. Len(l.entries)
    BY <1>1, <1>4 DEF LastIndex
  <2>2. /\ SubSeq(l.entries, k - l.base + 1, Len(l.entries)) \in Seq(Entry)
        /\ Len(SubSeq(l.entries, k - l.base + 1, Len(l.entries)))
             = Len(l.entries) - (k - l.base + 1) + 1
    BY <1>1, <2>1, SubSeqProperties
  <2>3. k + (Len(l.entries) - (k - l.base + 1) + 1) = l.base + Len(l.entries)
    BY <1>1
  <2> QED
    BY <1>4, <2>2, <2>3 DEF TruncateBefore, LogType, LastIndex
<1> QED
  BY <1>2, <1>3, <1>4

\* raft_log_copy_range copies entries, no further than the log goes.
LEMMA CopyRangeType ==
  ASSUME NEW l \in LogType, NEW k \in Int, NEW max \in Int
  PROVE  /\ CopyRange(l, k, max) \in Seq(Entry)
         /\ CopyRange(l, k, max) = <<>> \/ k - 1 + Len(CopyRange(l, k, max)) <= LastIndex(l)
<1>1. l.base \in Nat /\ l.entries \in Seq(Entry) /\ Len(l.entries) \in Nat
  BY DEF LogType
<1>2. CASE ~Holds(l, k)
  BY <1>2 DEF CopyRange
<1>3. CASE Holds(l, k)
  <2> DEFINE a == k - l.base
             b == IF a + max - 1 < Len(l.entries) THEN a + max - 1 ELSE Len(l.entries)
  <2>1. a \in 1 .. Len(l.entries) /\ k = a + l.base
    BY <1>1, <1>3, LastIndexType
  <2>2. b \in Int /\ b <= Len(l.entries)
    BY <1>1
  <2>3. CopyRange(l, k, max) = SubSeq(l.entries, a, b)
    BY <1>3 DEF CopyRange
  <2> HIDE DEF a, b
  <2>4. CASE a <= b
    <3>1. SubSeq(l.entries, a, b) \in Seq(Entry) /\ Len(SubSeq(l.entries, a, b)) = b - a + 1
      BY <1>1, <2>1, <2>2, <2>4, SubSeqProperties
    <3>2. k - 1 + (b - a + 1) <= l.base + Len(l.entries)
      BY <1>1, <2>1, <2>2, SMTT(30)
    <3> QED
      BY <2>3, <3>1, <3>2 DEF LastIndex
  <2>5. CASE ~(a <= b)
    <3>1. SubSeq(l.entries, a, b) = <<>>
      BY <1>1, <2>1, <2>2, <2>5, SubSeqProperties
    <3> QED
      BY <2>3, <3>1
  <2> QED
    BY <2>4, <2>5
<1> QED
  BY <1>2, <1>3

\* The term searches of raft_log.c find an index, or 0.
LEMMA IndexesOfTermType ==
  ASSUME NEW l \in LogType, NEW t
  PROVE  Lowest(IndexesOfTerm(l, t)) \in Nat /\ Highest(IndexesOfTerm(l, t)) \in Nat
<1>1. LastIndex(l) \in Nat /\ l.base \in Nat
  BY LastIndexType DEF LogType
<1>2. /\ IndexesOfTerm(l, t) \in SUBSET Nat
      /\ \A k \in IndexesOfTerm(l, t) : k <= LastIndex(l)
  BY <1>1 DEF IndexesOfTerm
<1> QED
  BY <1>1, <1>2, LowestType, HighestType

\* The term that goes with an index is a term.
LEMMA PrevTermType ==
  ASSUME NEW nd \in NodeType, NEW k \in Int
  PROVE  PrevTerm(nd, k) \in Nat
<1>1. nd.log \in LogType /\ nd.snapshot.term \in Nat
  BY DEF NodeType, LogType, Mark
<1>2. Holds(nd.log, k) => At(nd.log, k).term \in Nat
  BY <1>1, LastIndexType DEF Entry
<1> QED
  BY <1>1, <1>2 DEF PrevTerm
-----------------------------------------------------------------------------
(***************************************************************************)
(* Rules 3 and 4 of raft_recv_appendentries.                               *)
(***************************************************************************)
\* Storing one entry leaves the base where it is.
LEMMA StoredOneType ==
  ASSUME NEW l \in LogType, NEW k \in Nat, NEW e \in Entry
  PROVE  StoredOne(l, k, e) \in LogType /\ StoredOne(l, k, e).base = l.base
<1>1. <<e>> \in Seq(Entry)
  OBVIOUS
<1>2. TruncateAfter(l, k - 1) \in LogType /\ TruncateAfter(l, k - 1).base = l.base
  BY TruncateAfterType
<1>3. CASE Holds(l, k) /\ At(l, k).term = e.term
  BY <1>3 DEF StoredOne
<1>4. CASE Holds(l, k) /\ At(l, k).term # e.term
  BY <1>1, <1>2, <1>4, ExtendType DEF StoredOne
<1>5. CASE ~Holds(l, k)
  BY <1>1, <1>5, ExtendType DEF StoredOne
<1> QED
  BY <1>3, <1>4, <1>5

\* The loop can be run to its end, whatever it stores: the function in the
\* definition of Stored exists.  It is built up one entry at a time.
LEMMA StoredRuns ==
  ASSUME NEW l \in LogType, NEW prev \in Nat, NEW es \in Seq(Entry)
  PROVE  \E f : f = [n \in 0 .. Len(es) |->
                       IF n = 0 THEN l ELSE StoredOne(f[n - 1], prev + n, es[n])]
<1> DEFINE Runs(f, m) == f = [n \in 0 .. m |->
                                IF n = 0 THEN l ELSE StoredOne(f[n - 1], prev + n, es[n])]
           Stuck == {m \in 0 .. Len(es) : ~\E f : Runs(f, m)}
<1>1. Len(es) \in Nat
  OBVIOUS
<1>2. Stuck = {}
  <2>1. SUFFICES ASSUME Stuck # {} PROVE FALSE
    OBVIOUS
  <2>2. PICK m \in Stuck : \A k \in Stuck : m <= k
    <3>1. Stuck \in SUBSET Nat
      BY <1>1
    <3> HIDE DEF Stuck
    <3> QED BY <2>1, <3>1, LeastElement
  <2>3. m \in 0 .. Len(es) /\ m \in Nat
    BY <1>1
  <2>4. CASE m = 0
    <3> DEFINE g == [n \in 0 .. 0 |-> l]
    <3>1. g = [n \in 0 .. 0 |-> IF n = 0 THEN l ELSE StoredOne(g[n - 1], prev + n, es[n])]
      OBVIOUS
    <3>2. Runs(g, m)
      BY <2>4, <3>1
    <3> QED
      BY <3>2
  <2>5. CASE m > 0
    <3>1. m - 1 \in 0 .. Len(es) /\ ~(m <= m - 1)
      BY <1>1, <2>3, <2>5
    <3>2. m - 1 \notin Stuck
      <4> HIDE DEF Stuck
      <4> QED BY <2>2, <3>1
    <3>3. PICK f : Runs(f, m - 1)
      BY <3>1, <3>2
    <3> DEFINE g == [n \in 0 .. m |-> IF n = m THEN StoredOne(f[m - 1], prev + m, es[m]) ELSE f[n]]
    <3>4. ASSUME NEW n \in 0 .. m
          PROVE  g[n] = IF n = 0 THEN l ELSE StoredOne(g[n - 1], prev + n, es[n])
      <4>1. CASE n = m
        <5>1. m - 1 \in 0 .. m /\ m - 1 # m /\ n # 0
          BY <2>3, <2>5, <4>1
        <5>2. g[m - 1] = f[m - 1]
          BY <5>1
        <5> QED
          BY <4>1, <5>1, <5>2
      <4>2. CASE n = 0 /\ n # m
        <5>1. n \in 0 .. m - 1
          BY <2>3, <2>5, <4>2
        <5> QED
          BY <3>3, <4>2, <5>1
      <4>3. CASE n # 0 /\ n # m
        <5>1. n \in 0 .. m - 1 /\ n - 1 \in 0 .. m /\ n - 1 # m
          BY <2>3, <2>5, <4>3
        <5>2. g[n - 1] = f[n - 1] /\ g[n] = f[n]
          BY <4>3, <5>1
        <5> QED
          BY <3>3, <4>3, <5>1, <5>2
      <4> QED
        BY <4>1, <4>2, <4>3
    <3>5. g = [n \in 0 .. m |-> g[n]]
      OBVIOUS
    <3>6. Runs(g, m)
      <4> HIDE DEF g
      <4> QED BY <3>4, <3>5
    <3> QED
      BY <3>6
  <2> QED
    BY <2>3, <2>4, <2>5
<1>3. Len(es) \in 0 .. Len(es)
  BY <1>1
<1> QED
  BY <1>2, <1>3

\* Storing a request leaves the base where it is, also where it appends entries
\* that were compacted.
LEMMA StoredType ==
  ASSUME NEW l \in LogType, NEW prev \in Nat, NEW es \in Seq(Entry)
  PROVE  Stored(l, prev, es) \in LogType /\ Stored(l, prev, es).base = l.base
<1> DEFINE Runs(f) == f = [n \in 0 .. Len(es) |->
                             IF n = 0 THEN l ELSE StoredOne(f[n - 1], prev + n, es[n])]
           upTo == CHOOSE f : Runs(f)
           Wrong == {n \in 0 .. Len(es) : ~(upTo[n] \in LogType /\ upTo[n].base = l.base)}
<1>1. Len(es) \in Nat
  OBVIOUS
<1>2. Stored(l, prev, es) = upTo[Len(es)]
  BY DEF Stored
<1>3. Runs(upTo)
  <2>1. \E f : Runs(f)
    BY StoredRuns
  <2> HIDE DEF Runs
  <2> QED
    BY <2>1
<1>4. \A n \in 0 .. Len(es) :
        upTo[n] = IF n = 0 THEN l ELSE StoredOne(upTo[n - 1], prev + n, es[n])
  <2> HIDE DEF upTo
  <2> QED
    BY <1>3
<1> HIDE DEF upTo
<1>5. Wrong = {}
  <2>1. SUFFICES ASSUME Wrong # {} PROVE FALSE
    OBVIOUS
  <2>2. PICK n \in Wrong : \A k \in Wrong : n <= k
    <3>1. Wrong \in SUBSET Nat
      BY <1>1
    <3> HIDE DEF Wrong
    <3> QED BY <2>1, <3>1, LeastElement
  <2>3. n \in 0 .. Len(es) /\ n \in Nat
    BY <1>1
  <2>4. n # 0
    BY <1>4, <2>3
  <2>5. n - 1 \in 0 .. Len(es) /\ ~(n <= n - 1) /\ n \in 1 .. Len(es) /\ prev + n \in Nat
    BY <1>1, <2>3, <2>4
  <2>6. n - 1 \notin Wrong
    <3> HIDE DEF Wrong
    <3> QED BY <2>2, <2>5
  <2>7. upTo[n - 1] \in LogType /\ upTo[n - 1].base = l.base
    BY <2>5, <2>6
  <2>8. es[n] \in Entry
    BY <2>5
  <2>9. upTo[n] = StoredOne(upTo[n - 1], prev + n, es[n])
    BY <1>4, <2>3, <2>4
  <2>10. /\ StoredOne(upTo[n - 1], prev + n, es[n]) \in LogType
         /\ StoredOne(upTo[n - 1], prev + n, es[n]).base = upTo[n - 1].base
    <3> HIDE DEF Wrong
    <3> QED BY <2>5, <2>7, <2>8, StoredOneType
  <2> QED
    BY <2>7, <2>9, <2>10
<1>6. Len(es) \in 0 .. Len(es)
  BY <1>1
<1> QED
  BY <1>2, <1>5, <1>6
-----------------------------------------------------------------------------
(***************************************************************************)
(* What a tick and raft_snapshot_create do to a node.                      *)
(***************************************************************************)
\* Nothing the leader has is of an index beyond the last one proposed.
Bounded(nd) ==
  /\ LastIndex(nd.log) <= MaxIndex /\ nd.last_applied <= MaxIndex
  /\ nd.snapshot.index <= MaxIndex /\ nd.stored.index <= MaxIndex
  /\ nd.pending # None => nd.pending.index <= MaxIndex

\* The log of a node begins where its snapshot ends, and a snapshot in progress
\* will not change that: it is no older than the completed one.
Follows(nd) == nd.log.base = nd.snapshot.index /\ nd.snapshot.index <= nd.last_applied
Ready(nd) ==
  nd.pending # None => nd.log.base <= nd.pending.index /\ nd.pending.index <= nd.last_applied
Sane(n, nd) == Follows(nd) /\ (n \in Polls => Ready(nd))

Keeps(n, nd, after) ==
  /\ after \in NodeType
  /\ Bounded(nd) => Bounded(after)
  /\ Sane(n, nd) => Sane(n, after)

\* The parts of a node.
LEMMA NodeParts ==
  ASSUME NEW nd \in NodeType
  PROVE  /\ nd.log \in LogType /\ nd.commit_index \in Nat /\ nd.last_applied \in Nat
         /\ nd.machine \in Machine /\ nd.snapshot \in Mark
         /\ nd.snapshot.index \in Nat /\ nd.snapshot.term \in Nat
         /\ nd.stored \in Snapshot /\ nd.stored.index \in Nat
         /\ nd.stored.machine \in Machine
         /\ nd.pending # None => nd.pending \in Snapshot /\ nd.pending.index \in Nat
         /\ nd.log.base \in Nat
  BY DEF NodeType, LogType, Snapshot, Mark

\* Several steps keep what each of them keeps.
LEMMA KeepsTransitive ==
  ASSUME NEW n, NEW nd, NEW mid, NEW after, Keeps(n, nd, mid), Keeps(n, mid, after)
  PROVE  Keeps(n, nd, after)
  BY DEF Keeps

\* raft_snapshot_finish.
LEMMA FinishedType ==
  ASSUME NEW nd \in NodeType, nd.pending \in Snapshot, NEW stored \in Snapshot
  PROVE  /\ Finished(nd, stored) \in NodeType
         /\ Finished(nd, stored).pending = None
         /\ Finished(nd, stored).last_applied = nd.last_applied
         /\ Finished(nd, stored).snapshot = MarkOf(nd.pending)
         /\ Finished(nd, stored).snapshot.index = nd.pending.index
         /\ Finished(nd, stored).stored = stored
         /\ nd.log.base <= nd.pending.index =>
              Finished(nd, stored).log.base = nd.pending.index
         /\ LastIndex(Finished(nd, stored).log) \in {LastIndex(nd.log), nd.pending.index}
<1>1. nd.pending.index \in Nat /\ nd.pending.term \in Nat /\ nd.log \in LogType
  BY NodeParts DEF Snapshot
<1>2. PICK l : l = TruncateBefore(nd.log, nd.pending.index)
  OBVIOUS
<1>3. /\ l \in LogType
      /\ nd.log.base <= nd.pending.index => l.base = nd.pending.index
      /\ LastIndex(l) \in {LastIndex(nd.log), nd.pending.index}
  BY <1>1, <1>2, TruncateBeforeType
<1>4. PICK mark : mark = MarkOf(nd.pending)
  OBVIOUS
<1>5. mark \in Mark /\ mark.index = nd.pending.index
  BY <1>1, <1>4 DEF MarkOf, Mark
<1>6. PICK after : after = Finished(nd, stored)
  OBVIOUS
<1>7. after = [nd EXCEPT !.snapshot = mark, !.stored = stored, !.log = l, !.pending = None]
  BY <1>2, <1>4, <1>6 DEF Finished
<1>8. /\ after.log = l /\ after.snapshot = mark /\ after.stored = stored
      /\ after.pending = None /\ after.last_applied = nd.last_applied
  BY <1>7 DEF NodeType
<1>9. after \in NodeType
  BY <1>3, <1>5, <1>7 DEF NodeType, LogType
<1> QED
  BY <1>3, <1>4, <1>5, <1>6, <1>8, <1>9

\* raft_snapshot_poll.
LEMMA PolledKeeps ==
  ASSUME NEW n, NEW nd \in NodeType, NEW done, NEW after \in Polled(n, nd, done)
  PROVE  Keeps(n, nd, after)
<1>1. CASE n \in Polls /\ nd.pending # None /\ done
  <2>1. PICK stored \in {nd.pending, nd.stored} : after = Finished(nd, stored)
    BY <1>1 DEF Polled
  <2>2. /\ nd.pending \in Snapshot /\ nd.pending.index \in Nat /\ nd.stored \in Snapshot
        /\ stored \in Snapshot
    BY <1>1, <2>1, NodeParts
  <2>3. /\ after \in NodeType /\ after.pending = None /\ after.last_applied = nd.last_applied
        /\ after.snapshot.index = nd.pending.index /\ after.stored = stored
        /\ nd.log.base <= nd.pending.index => after.log.base = nd.pending.index
        /\ LastIndex(after.log) \in {LastIndex(nd.log), nd.pending.index}
    BY <2>1, <2>2, FinishedType
  <2>4. Bounded(nd) => Bounded(after)
    BY <1>1, <2>1, <2>3 DEF Bounded
  <2>5. Sane(n, nd) => Sane(n, after)
    BY <1>1, <2>2, <2>3 DEF Sane, Follows, Ready
  <2> QED
    BY <2>3, <2>4, <2>5 DEF Keeps
<1>2. CASE ~(n \in Polls /\ nd.pending # None /\ done)
  BY <1>2 DEF Polled, Keeps
<1> QED
  BY <1>1, <1>2

\* The apply loop of raft_tick.
LEMMA AppliedKeeps ==
  ASSUME NEW n, NEW nd \in NodeType
  PROVE  Keeps(n, nd, Applied(nd))
<1>1. nd.log \in LogType /\ nd.last_applied \in Nat /\ nd.commit_index \in Nat
      /\ nd.machine \in Machine /\ nd.log.base \in Nat /\ nd.snapshot.index \in Nat
      /\ (nd.pending # None => nd.pending.index \in Nat)
  BY NodeParts
<1>2. PICK more : more = CopyRange(nd.log, nd.last_applied + 1, nd.commit_index - nd.last_applied)
  OBVIOUS
<1>3. CASE nd.commit_index <= nd.last_applied
  BY <1>3 DEF Applied, Keeps
<1>4. CASE ~(nd.commit_index <= nd.last_applied)
  <2>1. Applied(nd) = [nd EXCEPT !.last_applied = nd.last_applied + Len(more),
                                 !.machine = nd.machine \o more]
    BY <1>2, <1>4 DEF Applied
  <2>2. /\ more \in Seq(Entry)
        /\ more = <<>> \/ nd.last_applied + 1 - 1 + Len(more) <= LastIndex(nd.log)
    BY <1>1, <1>2, CopyRangeType
  <2>3. Len(more) \in Nat /\ nd.last_applied + Len(more) \in Nat
        /\ (more = <<>> => Len(more) = 0)
    BY <1>1, <2>2
  <2>4. nd.machine \o more \in Machine
    <3>1. more \in Seq(Entry \cup {None})
      BY <2>2
    <3> QED
      BY <1>1, <3>1 DEF Machine
  <2>5. Applied(nd) \in NodeType
    BY <2>1, <2>3, <2>4 DEF NodeType
  <2>6. /\ Applied(nd).log = nd.log /\ Applied(nd).snapshot = nd.snapshot
        /\ Applied(nd).pending = nd.pending /\ Applied(nd).stored = nd.stored
        /\ Applied(nd).last_applied = nd.last_applied + Len(more)
    BY <2>1 DEF NodeType
  <2>7. nd.last_applied + Len(more) <= LastIndex(nd.log)
        \/ nd.last_applied + Len(more) = nd.last_applied
    BY <1>1, <2>2, <2>3
  <2>8. LastIndex(nd.log) \in Nat /\ MaxIndex \in Nat
    BY <1>1, LastIndexType, SnapshotAssumption
  <2>9. Bounded(nd) => Bounded(Applied(nd))
    BY <1>1, <2>3, <2>6, <2>7, <2>8 DEF Bounded
  <2>10. Sane(n, nd) => Sane(n, Applied(nd))
    BY <1>1, <2>3, <2>6 DEF Sane, Follows, Ready
  <2> QED
    BY <2>5, <2>9, <2>10 DEF Keeps
<1> QED
  BY <1>3, <1>4

\* What raft_snapshot_create is to save.
LEMMA SnapshotOfType ==
  ASSUME NEW nd \in NodeType
  PROVE  SnapshotOf(nd) \in Snapshot /\ SnapshotOf(nd).index = nd.last_applied
<1>1. nd.last_applied \in Nat /\ nd.machine \in Machine
  BY NodeParts
<1>2. PrevTerm(nd, nd.last_applied) \in Nat
  BY <1>1, PrevTermType
<1> QED
  BY <1>1, <1>2 DEF SnapshotOf, Snapshot

\* raft_snapshot_create, each way it may end.
LEMMA CreateKeeps ==
  ASSUME NEW n, NEW nd \in NodeType, NEW after \in Create(n, nd)
  PROVE  Keeps(n, nd, after)
<1>1. PICK started : started = [nd EXCEPT !.pending = SnapshotOf(nd)]
  OBVIOUS
<1>2. after = nd \/ (after = started /\ n \in Polls)
      \/ after = Finished(started, started.pending)
  BY <1>1 DEF Create
<1>3. SnapshotOf(nd) \in Snapshot /\ SnapshotOf(nd).index = nd.last_applied
  BY SnapshotOfType
<1>4. /\ nd.log \in LogType /\ nd.last_applied \in Nat /\ nd.log.base \in Nat
      /\ nd.snapshot.index \in Nat
  BY NodeParts
<1>5. /\ started \in NodeType /\ started.pending = SnapshotOf(nd)
      /\ started.log = nd.log /\ started.snapshot = nd.snapshot
      /\ started.stored = nd.stored /\ started.last_applied = nd.last_applied
  BY <1>1, <1>3 DEF NodeType
<1>6. Keeps(n, nd, started)
  BY <1>3, <1>4, <1>5 DEF Keeps, Bounded, Sane, Follows, Ready
<1>7. ASSUME after = Finished(started, started.pending) PROVE Keeps(n, nd, after)
  <2>1. /\ after \in NodeType /\ after.pending = None
        /\ after.last_applied = nd.last_applied
        /\ after.snapshot.index = nd.last_applied /\ after.stored.index = nd.last_applied
        /\ nd.log.base <= nd.last_applied => after.log.base = nd.last_applied
        /\ LastIndex(after.log) \in {LastIndex(nd.log), nd.last_applied}
    BY <1>3, <1>5, <1>7, FinishedType
  <2> QED
    BY <1>4, <2>1 DEF Keeps, Bounded, Sane, Follows, Ready
<1>8. Keeps(n, nd, nd)
  BY DEF Keeps
<1> QED
  BY <1>2, <1>6, <1>7, <1>8

\* A tick: the poll, the apply loop and raft_maybe_snapshot.
LEMMA TickKeeps ==
  ASSUME NEW n, NEW nd \in NodeType, NEW done,
         NEW polled \in Polled(n, nd, done), NEW after \in MaybeSnapshot(n, Applied(polled))
  PROVE  Keeps(n, nd, after)
<1>1. PICK applied : applied = Applied(polled)
  OBVIOUS
<1>2. Keeps(n, nd, polled) /\ polled \in NodeType
  BY <1>1, PolledKeeps DEF Keeps
<1>3. Keeps(n, polled, applied) /\ applied \in NodeType
  BY <1>1, <1>2, AppliedKeeps DEF Keeps
<1>4. Keeps(n, applied, after)
  <2>1. after \in Create(n, applied) \/ after = applied
    BY <1>1 DEF MaybeSnapshot
  <2>2. Keeps(n, applied, applied)
    BY <1>3 DEF Keeps
  <2> QED
    BY <1>3, <2>1, <2>2, CreateKeeps
<1>5. Keeps(n, nd, applied)
  BY <1>2, <1>3, KeepsTransitive
<1> QED
  BY <1>4, <1>5, KeepsTransitive
-----------------------------------------------------------------------------
(***************************************************************************)
(* The invariant behind TypeOK.  That a transfer stays within the snapshot *)
(* is not a matter of the leader's records alone: a reply gives the offset *)
(* to go on from, and it has it from a request.  So requests and replies   *)
(* are bounded too, and so are the indexes a snapshot may be of.           *)
(***************************************************************************)
\* After a chunk that is not the last there is another one.
GoodRequest ==
  {m \in Request : m.type = "InstallSnapshot" =>
     m.offset \in Offsets /\ (~m.done => m.offset + m.len \in Offsets)}
GoodReply ==
  {m \in Reply : m.type = "SnapshotReply" =>
     (m.success /\ ~m.done => m.last_offset \in Offsets)}

NodesInv == node \in [Node -> NodeType] /\ Bounded(node[Lead])
TermsInv ==
  /\ current_term \in [Node -> Nat] /\ leading \in BOOLEAN
  /\ leading => current_term[Lead] = Term
PeersInv ==
  /\ next_index \in [Peer -> Nat] /\ match_index \in [Peer -> Nat]
  /\ snapshot_send \in [Peer -> [in_progress : BOOLEAN, offset : Offsets]]
ReceivedInv == received \in [Peer -> [Offsets -> Machine \cup {None}]]
LinksInv == to_peer \in [Peer -> Seq(GoodRequest)] /\ to_leader \in [Peer -> Seq(GoodReply)]

TransferInv ==
  NodesInv /\ TermsInv /\ PeersInv /\ ReceivedInv /\ LinksInv /\ crashed \subseteq CrashPeers

\* The leader and its peers are nodes.
LEMMA NodesAre == Lead \in Node /\ Peer \subseteq Node /\ \A p \in Peer : p # Lead
  BY SnapshotAssumption DEF Node

\* A part of the state that a step leaves alone stays well typed.
LEMMA PartsUnchanged ==
  ASSUME TransferInv
  PROVE  /\ UNCHANGED node => NodesInv'
         /\ UNCHANGED <<current_term, leading>> => TermsInv'
         /\ UNCHANGED <<next_index, match_index, snapshot_send>> => PeersInv'
         /\ UNCHANGED received => ReceivedInv'
         /\ UNCHANGED <<to_peer, to_leader>> => LinksInv'
         /\ UNCHANGED crashed => crashed' \subseteq CrashPeers
  BY DEF TransferInv, NodesInv, TermsInv, PeersInv, ReceivedInv, LinksInv, Bounded

\* A node that changes keeps its type, and the leader its bounds.
LEMMA NodeChanges ==
  ASSUME NodesInv, NEW n \in Node, NEW after \in NodeType,
         n = Lead => Bounded(after), node' = [node EXCEPT ![n] = after]
  PROVE  NodesInv'
<1>1. node' \in [Node -> NodeType]
  BY DEF NodesInv
<1>2. node'[Lead] = IF n = Lead THEN after ELSE node[Lead]
  BY NodesAre DEF NodesInv
<1>3. PICK nd : nd = node'[Lead]
  OBVIOUS
<1>4. Bounded(nd)
  BY <1>2, <1>3 DEF NodesInv
<1> QED
  BY <1>1, <1>3, <1>4 DEF NodesInv, Bounded

\* The fields of the messages.
LEMMA RequestFields ==
  ASSUME NEW m \in GoodRequest
  PROVE  /\ m.term \in Nat
         /\ m.type \in {"AppendEntries", "InstallSnapshot"}
         /\ m.type = "AppendEntries" =>
              /\ m.prev_index \in Nat /\ m.prev_term \in Nat
              /\ m.entries \in Seq(Entry) /\ m.leader_commit \in Nat
         /\ m.type = "InstallSnapshot" =>
              /\ m.snapshot \in Snapshot /\ m.offset \in Offsets
              /\ m.len \in {0, 1} /\ m.done \in BOOLEAN
              /\ ~m.done => m.offset + m.len \in Offsets
  BY DEF GoodRequest, Request
\* Likewise of the replies.
LEMMA ReplyFields ==
  ASSUME NEW m \in GoodReply
  PROVE  /\ m.term \in Nat /\ m.success \in BOOLEAN
         /\ m.type \in {"AppendReply", "SnapshotReply"}
         /\ m.type = "AppendReply" =>
              /\ m.match_index \in Nat /\ m.conflict_term \in Nat /\ m.conflict_index \in Nat
         /\ m.type = "SnapshotReply" =>
              m.done \in BOOLEAN /\ (m.success /\ ~m.done => m.last_offset \in Offsets)
  BY DEF GoodReply, Reply

\* The replies that a peer makes.
LEMMA AppendReplyType ==
  ASSUME TermsInv, NEW p \in Peer, NEW success \in BOOLEAN, NEW k \in Nat, NEW t \in Nat, NEW c \in Nat
  PROVE  AppendReply(p, success, k, t, c) \in GoodReply
<1>1. current_term[p] \in Nat
  BY NodesAre DEF TermsInv
<1> QED
  BY <1>1 DEF AppendReply, GoodReply, Reply
\* Likewise to a chunk: where another is due, its offset is one.
LEMMA SnapshotReplyType ==
  ASSUME TermsInv, NEW p \in Peer, NEW success \in BOOLEAN, NEW o \in Nat, NEW done \in BOOLEAN,
         success /\ ~done => o \in Offsets
  PROVE  SnapshotReply(p, success, o, done) \in GoodReply
<1>1. current_term[p] \in Nat
  BY NodesAre DEF TermsInv
<1> QED
  BY <1>1 DEF SnapshotReply, GoodReply, Reply

\* A peer takes a request and answers.
LEMMA AnswerLinks ==
  ASSUME LinksInv, NEW p \in Peer, to_peer[p] # <<>>, NEW reply \in GoodReply, Answer(p, reply)
  PROVE  LinksInv'
<1>1. Tail(to_peer[p]) \in Seq(GoodRequest) /\ Append(to_leader[p], reply) \in Seq(GoodReply)
  BY DEF LinksInv
<1> QED
  BY <1>1 DEF LinksInv, Answer

\* The oldest request is one.
LEMMA HeadRequest ==
  ASSUME LinksInv, NEW p \in Peer, to_peer[p] # <<>>
  PROVE  Head(to_peer[p]) \in GoodRequest
<1>1. to_peer[p] \in Seq(GoodRequest)
  BY DEF LinksInv
<1> QED
  BY <1>1

\* So is the oldest reply, and the leader may take it.
LEMMA HeadReply ==
  ASSUME LinksInv, NEW p \in Peer, to_leader[p] # <<>>
  PROVE  /\ Head(to_leader[p]) \in GoodReply
         /\ TakeReply(p) /\ UNCHANGED to_peer => LinksInv'
<1>1. to_leader[p] \in Seq(GoodReply)
  BY DEF LinksInv
<1>2. Head(to_leader[p]) \in GoodReply /\ Tail(to_leader[p]) \in Seq(GoodReply)
  BY <1>1
<1> QED
  BY <1>2 DEF LinksInv, TakeReply
-----------------------------------------------------------------------------
(***************************************************************************)
(* What the leader does on its own.                                        *)
(***************************************************************************)
\* A chunk of a snapshot of count chunks, with another one after it or none.
LEMMA GoodChunk ==
  ASSUME NEW t \in Nat, NEW s \in Snapshot, NEW o \in Offsets, NEW len \in {0, 1},
         NEW count \in Nat, ~(o + 1 >= count) => o + len \in Offsets
  PROVE  [type |-> "InstallSnapshot", term |-> t, snapshot |-> s, offset |-> o, len |-> len,
          done |-> o + 1 >= count] \in GoodRequest
<1> DEFINE chunk(last) == [type |-> "InstallSnapshot", term |-> t, snapshot |-> s, offset |-> o,
                           len |-> len, done |-> last]
<1>1. o \in Nat
  BY OffsetsType
<1>2. chunk(TRUE) \in GoodRequest
  BY <1>1 DEF GoodRequest, Request
<1>3. o + len \in Offsets => chunk(FALSE) \in GoodRequest
  BY <1>1 DEF GoodRequest, Request
<1>4. (o + 1 >= count) = TRUE \/ ((o + 1 >= count) = FALSE /\ o + len \in Offsets)
  BY <1>1
<1> QED
  BY <1>2, <1>3, <1>4, Zenon

\* raft_send_installsnapshot reads within the snapshot, or knows it is at its end.
LEMMA ChunkRequestType ==
  ASSUME TransferInv, NEW nd \in NodeType, nd.stored.index <= MaxIndex, NEW p \in Peer
  PROVE  ChunkRequest(nd, p) \in GoodRequest
<1>1. PICK o, count, s :
        /\ o = snapshot_send[p].offset /\ count = Chunks[nd.stored.index]
        /\ s = [index |-> nd.snapshot.index, term |-> nd.snapshot.term,
                machine |-> nd.stored.machine]
  OBVIOUS
<1>2. nd.stored.index \in 0 .. MaxIndex /\ s \in Snapshot
  BY <1>1, NodeParts, SnapshotAssumption DEF Snapshot
<1>3. count \in Nat /\ \A k \in Nat : k < count => k \in Offsets
  BY <1>1, <1>2, OffsetsType, SnapshotAssumption
<1>4. o \in Offsets /\ o \in Nat
  BY <1>1, OffsetsType DEF TransferInv, PeersInv
<1>5. current_term[Lead] \in Nat
  BY NodesAre DEF TransferInv, TermsInv
<1>6. PICK len \in {0, 1} : len = (IF o < count THEN 1 ELSE 0)
  OBVIOUS
<1>7. ~(o + 1 >= count) => o + len \in Offsets
  <2>1. ASSUME ~(o + 1 >= count) PROVE o + len \in Offsets
    <3>1. o + 1 < count /\ o < count /\ o + 1 \in Nat
      BY <1>3, <1>4, <2>1
    <3>2. len = 1
      BY <1>6, <3>1
    <3> QED
      BY <1>3, <3>1, <3>2
  <2> QED
    BY <2>1
<1>8. ChunkRequest(nd, p) = [type |-> "InstallSnapshot", term |-> current_term[Lead],
        snapshot |-> s, offset |-> o, len |-> len, done |-> o + 1 >= count]
  BY <1>1, <1>6 DEF ChunkRequest
<1>9. s \in Snapshot /\ count \in Nat /\ o \in Offsets
  BY <1>2, <1>3, <1>4
<1> QED
  BY <1>5, <1>7, <1>8, <1>9, GoodChunk

\* A peer that needs no snapshot is past the leader's base: next_index - 1 is an index.
LEMMA AppendRequestType ==
  ASSUME TransferInv, NEW nd \in NodeType, NEW p \in Peer, ~NeedsSnapshot(nd, p)
  PROVE  AppendRequest(nd, p) \in GoodRequest
<1>1. next_index[p] \in Nat /\ nd.log.base \in Nat /\ nd.log \in LogType /\ nd.commit_index \in Nat
  BY NodeParts DEF TransferInv, PeersInv
<1>2. next_index[p] - 1 \in Nat
  BY <1>1 DEF NeedsSnapshot
<1>3. PrevTerm(nd, next_index[p] - 1) \in Nat
  BY <1>2, PrevTermType
<1>4. CopyRange(nd.log, next_index[p], MaxEntries) \in Seq(Entry)
  BY <1>1, CopyRangeType, SnapshotAssumption
<1>5. current_term[Lead] \in Nat
  BY NodesAre DEF TransferInv, TermsInv
<1> QED
  BY <1>1, <1>2, <1>3, <1>4, <1>5 DEF AppendRequest, GoodRequest, Request

\* raft_send_heartbeats.
LEMMA RoundType ==
  ASSUME TransferInv, NEW nd \in NodeType, nd.stored.index <= MaxIndex, Round(nd),
         UNCHANGED <<next_index, match_index, to_leader>>
  PROVE  LinksInv' /\ PeersInv'
<1> DEFINE due(p) ==
             NeedsSnapshot(nd, p) /\ ~snapshot_send[p].in_progress /\ nd.stored.index > 0
           sent(p) == IF due(p) THEN <<ChunkRequest(nd, p)>>
                      ELSE IF NeedsSnapshot(nd, p) THEN <<>> ELSE <<AppendRequest(nd, p)>>
<1>1. ASSUME NEW p \in Peer PROVE to_peer[p] \o sent(p) \in Seq(GoodRequest)
  <2>1. ChunkRequest(nd, p) \in GoodRequest
    BY ChunkRequestType
  <2>2. ~NeedsSnapshot(nd, p) => AppendRequest(nd, p) \in GoodRequest
    BY AppendRequestType
  <2>3. sent(p) \in Seq(GoodRequest)
    BY <2>1, <2>2
  <2>4. to_peer[p] \in Seq(GoodRequest)
    BY DEF TransferInv, LinksInv
  <2> HIDE DEF sent
  <2> QED
    BY <2>3, <2>4
<1>2. to_peer' = [p \in Peer |-> to_peer[p] \o sent(p)]
  BY DEF Round
<1>3. snapshot_send' = [p \in Peer |->
        IF due(p) THEN [snapshot_send[p] EXCEPT !.in_progress = TRUE] ELSE snapshot_send[p]]
  BY DEF Round
<1> HIDE DEF due, sent
<1>4. LinksInv'
  BY <1>1, <1>2 DEF TransferInv, LinksInv
<1>5. PeersInv'
  BY <1>3 DEF TransferInv, PeersInv
<1> QED
  BY <1>4, <1>5

\* A tick of the leader that sends a round of heartbeats.
LEMMA TickHeartbeatTypes ==
  ASSUME TransferInv, TickHeartbeat
  PROVE  TransferInv'
<1>1. PICK done, nd, after :
        /\ nd \in Polled(Lead, node[Lead], done) /\ Round(nd)
        /\ after \in MaybeSnapshot(Lead, Applied(nd))
        /\ node' = [node EXCEPT ![Lead] = after]
  BY DEF TickHeartbeat
<1>2. node[Lead] \in NodeType /\ Bounded(node[Lead]) /\ Lead \in Node
  BY NodesAre DEF TransferInv, NodesInv
<1>3. Keeps(Lead, node[Lead], nd)
  BY <1>1, <1>2, PolledKeeps
<1>4. nd \in NodeType /\ nd.stored.index <= MaxIndex
  BY <1>2, <1>3 DEF Keeps, Bounded
<1>5. Keeps(Lead, node[Lead], after)
  BY <1>1, <1>2, TickKeeps
<1>6. NodesInv'
  BY <1>1, <1>2, <1>5, NodeChanges DEF TransferInv, Keeps
<1>7. /\ UNCHANGED <<next_index, match_index, to_leader>>
      /\ UNCHANGED <<current_term, leading, received, crashed>>
  BY DEF TickHeartbeat
<1>8. LinksInv' /\ PeersInv'
  BY <1>1, <1>4, <1>7, RoundType
<1> QED
  BY <1>6, <1>7, <1>8, PartsUnchanged DEF TransferInv

\* raft_propose.
LEMMA ProposeTypes ==
  ASSUME TransferInv, Propose
  PROVE  TransferInv'
<1>1. PICK k, e, l, nd :
        /\ k = LastIndex(node[Lead].log) + 1 /\ e = [term |-> current_term[Lead], data |-> k]
        /\ l = Extend(node[Lead].log, <<e>>)
        /\ nd = [node[Lead] EXCEPT !.log = l]
  OBVIOUS
<1>2. /\ node[Lead] \in NodeType /\ Bounded(node[Lead]) /\ Lead \in Node
      /\ node[Lead].log \in LogType
  BY NodesAre, NodeParts DEF TransferInv, NodesInv
<1>3. /\ leading /\ k <= MaxIndex /\ node' = [node EXCEPT ![Lead] = nd] /\ Round(nd)
      /\ UNCHANGED <<current_term, leading, next_index, match_index, received, crashed, to_leader>>
  BY <1>1 DEF Propose
<1>4. LastIndex(node[Lead].log) \in Nat /\ k \in 1 .. MaxIndex
  BY <1>1, <1>2, <1>3, LastIndexType, SnapshotAssumption
<1>5. e \in Entry
  BY <1>1, <1>3, <1>4, SnapshotAssumption DEF TransferInv, TermsInv, Entry
<1>6. <<e>> \in Seq(Entry) /\ Len(<<e>>) = 1
  BY <1>5
<1>7. l \in LogType /\ LastIndex(l) = k
  BY <1>1, <1>2, <1>4, <1>6, ExtendType
<1>8. nd \in NodeType /\ Bounded(nd) /\ nd.stored.index <= MaxIndex
  BY <1>1, <1>2, <1>3, <1>7 DEF NodeType, LogType, Bounded
<1>9. NodesInv'
  BY <1>2, <1>3, <1>8, NodeChanges DEF TransferInv
<1>10. LinksInv' /\ PeersInv'
  BY <1>3, <1>8, RoundType
<1> QED
  BY <1>3, <1>9, <1>10, PartsUnchanged DEF TransferInv

\* A tick without heartbeats, and raft_snapshot_create by the program.
LEMMA TickTypes ==
  ASSUME TransferInv, NEW n \in Node, NEW done \in BOOLEAN, Tick(n, done) \/ SnapshotCreate(n)
  PROVE  TransferInv'
<1>1. node[n] \in NodeType /\ (n = Lead => Bounded(node[n]))
  BY DEF TransferInv, NodesInv
<1>2. PICK after : Keeps(n, node[n], after) /\ node' = [node EXCEPT ![n] = after]
  BY <1>1, TickKeeps, CreateKeeps DEF Tick, SnapshotCreate
<1>3. NodesInv'
  BY <1>1, <1>2, NodeChanges DEF TransferInv, Keeps
<1>4. UNCHANGED <<current_term, leaderVars, received, crashed, links>>
  BY DEF Tick, SnapshotCreate
<1> QED
  BY <1>3, <1>4, PartsUnchanged DEF TransferInv, leaderVars, links
-----------------------------------------------------------------------------
(***************************************************************************)
(* What a peer does with requests.                                         *)
(***************************************************************************)
\* Requests that change nothing at the peer but the answer.
LEMMA RefuseTypes ==
  ASSUME TransferInv, NEW p \in Peer,
         RefuseStaleTerm(p) \/ RefuseMissingPrev(p) \/ IgnoreOldSnapshot(p)
  PROVE  TransferInv'
<1>1. to_peer[p] # <<>>
  BY DEF RefuseStaleTerm, RefuseMissingPrev, IgnoreOldSnapshot, HeadIs
<1>2. PICK m \in GoodRequest : m = Head(to_peer[p])
  BY <1>1, HeadRequest DEF TransferInv
<1>3. p \in Node /\ node[p] \in NodeType /\ node[p].snapshot.index \in Nat
      /\ LastIndex(node[p].log) \in Nat
  BY NodesAre, NodeParts, LastIndexType DEF TransferInv, NodesInv
<1>4. RefusedAt(node[p], m) \in Nat
  BY <1>3 DEF RefusedAt
<1>5. m.type = "InstallSnapshot" => m.offset \in Offsets /\ m.offset \in Nat
  BY RequestFields, OffsetsType
<1>6. \E reply \in GoodReply : Answer(p, reply)
  <2>1. CASE RefuseStaleTerm(p)
    <3>1. PICK junk \in BOOLEAN : Answer(p, IF m.type = "AppendEntries" THEN AppendReply(p, FALSE, 0, 0, 0)
                                            ELSE SnapshotReply(p, FALSE, m.offset, junk))
      BY <1>2, <2>1 DEF RefuseStaleTerm
    <3>2. AppendReply(p, FALSE, 0, 0, 0) \in GoodReply
      BY AppendReplyType DEF TransferInv
    <3>3. m.type # "AppendEntries" => SnapshotReply(p, FALSE, m.offset, junk) \in GoodReply
      BY <1>5, RequestFields, SnapshotReplyType DEF TransferInv
    <3> QED
      BY <3>1, <3>2, <3>3
  <2>2. CASE RefuseMissingPrev(p)
    <3>1. Answer(p, AppendReply(p, FALSE, RefusedAt(node[p], m), 0, 0))
      BY <1>2, <2>2 DEF RefuseMissingPrev
    <3> QED
      BY <1>4, <3>1, AppendReplyType DEF TransferInv
  <2>3. CASE IgnoreOldSnapshot(p)
    <3>1. PICK junk \in BOOLEAN : Answer(p, SnapshotReply(p, TRUE, m.offset, junk))
      BY <1>2, <2>3 DEF IgnoreOldSnapshot
    <3>2. m.offset \in Offsets /\ m.offset \in Nat
      BY <1>2, <1>5, <2>3 DEF IgnoreOldSnapshot, HeadIs
    <3> QED
      BY <3>1, <3>2, SnapshotReplyType DEF TransferInv
  <2> QED
    BY <2>1, <2>2, <2>3
<1>7. LinksInv'
  BY <1>1, <1>6, AnswerLinks DEF TransferInv
<1>8. UNCHANGED <<node, current_term, leaderVars, received, crashed>>
  BY DEF RefuseStaleTerm, RefuseMissingPrev, IgnoreOldSnapshot
<1> QED
  BY <1>7, <1>8, PartsUnchanged DEF TransferInv, leaderVars

\* A peer that changes, and answers.
LEMMA PeerAnswers ==
  ASSUME TransferInv, NEW p \in Peer, to_peer[p] # <<>>, NEW after \in NodeType,
         node' = [node EXCEPT ![p] = after], NEW reply \in GoodReply, Answer(p, reply)
  PROVE  NodesInv' /\ LinksInv'
  BY NodesAre, NodeChanges, AnswerLinks DEF TransferInv

\* Rule 2: the log is cut before the conflict.
LEMMA RefuseConflictTypes ==
  ASSUME TransferInv, NEW p \in Peer, RefuseConflictingPrev(p)
  PROVE  TransferInv'
<1>1. to_peer[p] # <<>>
  BY DEF RefuseConflictingPrev, HeadIs
<1>2. PICK m \in GoodRequest : m = Head(to_peer[p])
  BY <1>1, HeadRequest DEF TransferInv
<1>3. PICK nd \in NodeType : nd = node[p]
  BY NodesAre DEF TransferInv, NodesInv
<1>4. nd.log \in LogType /\ nd.snapshot.index \in Nat
  BY NodeParts
<1>5. m.type = "AppendEntries" /\ Conflicts(nd, m)
  BY <1>2, <1>3 DEF RefuseConflictingPrev, HeadIs
<1>6. m.prev_index \in Nat /\ m.prev_index - 1 \in Nat
  BY <1>4, <1>5, RequestFields DEF Conflicts
<1>7. PICK t, low, l :
        /\ t = At(nd.log, m.prev_index).term /\ low = Lowest(IndexesOfTerm(nd.log, t))
        /\ l = TruncateAfter(nd.log, m.prev_index - 1)
  OBVIOUS
<1>8. t \in Nat
  BY <1>4, <1>5, <1>6, <1>7, LastIndexType DEF Conflicts, Entry
<1>9. low \in Nat
  BY <1>4, <1>7, IndexesOfTermType
<1>10. l \in LogType
  BY <1>4, <1>6, <1>7, TruncateAfterType
<1>11. PICK reply : reply = AppendReply(p, FALSE, m.prev_index - 1, t, low)
  OBVIOUS
<1>12. reply \in GoodReply
  BY <1>6, <1>8, <1>9, <1>11, AppendReplyType DEF TransferInv
<1>13. PICK after : after = [nd EXCEPT !.log = l]
  OBVIOUS
<1>14. after \in NodeType
  BY <1>10, <1>13 DEF NodeType, LogType
<1>15. node' = [node EXCEPT ![p] = after] /\ Answer(p, reply)
  BY <1>2, <1>3, <1>7, <1>11, <1>13 DEF RefuseConflictingPrev
<1>16. NodesInv' /\ LinksInv'
  BY <1>1, <1>12, <1>14, <1>15, PeerAnswers
<1>17. UNCHANGED <<current_term, leaderVars, received, crashed>>
  BY DEF RefuseConflictingPrev
<1> QED
  BY <1>16, <1>17, PartsUnchanged DEF TransferInv, leaderVars

\* Rules 3 to 5: the request is stored, and what is committed advances.
LEMMA AcceptTypes ==
  ASSUME TransferInv, NEW p \in Peer, AcceptAppend(p)
  PROVE  TransferInv'
<1>1. to_peer[p] # <<>>
  BY DEF AcceptAppend, HeadIs
<1>2. PICK m \in GoodRequest : m = Head(to_peer[p])
  BY <1>1, HeadRequest DEF TransferInv
<1>3. PICK nd \in NodeType : nd = node[p]
  BY NodesAre DEF TransferInv, NodesInv
<1>4. nd.log \in LogType /\ nd.commit_index \in Nat
  BY NodeParts
<1>5. m.prev_index \in Nat /\ m.entries \in Seq(Entry) /\ m.leader_commit \in Nat
  BY <1>2, RequestFields DEF AcceptAppend, HeadIs
<1>6. PICK l : l = Stored(nd.log, m.prev_index, m.entries)
  OBVIOUS
<1>7. l \in LogType
  BY <1>4, <1>5, <1>6, StoredType
<1>8. PICK c : c = Lowest({m.leader_commit, m.prev_index + Len(m.entries), LastIndex(l)})
  OBVIOUS
<1>9. LastIndex(l) \in Nat /\ c \in Nat
  <2>1. LastIndex(l) \in Nat /\ Len(m.entries) \in Nat
    BY <1>5, <1>7, LastIndexType
  <2>2. {m.leader_commit, m.prev_index + Len(m.entries), LastIndex(l)} \in SUBSET Nat
    BY <1>5, <2>1
  <2> QED
    BY <1>8, <2>1, <2>2, LowestType
<1>10. PICK reply : reply = AppendReply(p, TRUE, LastIndex(l), 0, 0)
  OBVIOUS
<1>11. reply \in GoodReply
  BY <1>9, <1>10, AppendReplyType DEF TransferInv
<1>12. PICK commit \in Nat : commit = IF m.leader_commit > nd.commit_index THEN c ELSE nd.commit_index
  BY <1>4, <1>9
<1>13. PICK after : after = [nd EXCEPT !.log = l, !.commit_index = commit]
  OBVIOUS
<1>14. after \in NodeType
  BY <1>7, <1>13 DEF NodeType, LogType
<1>15. node' = [node EXCEPT ![p] = after] /\ Answer(p, reply)
  <2>1. /\ node' = [node EXCEPT ![p].log = l,
                                ![p].commit_index = IF m.leader_commit > @ THEN c ELSE @]
        /\ Answer(p, reply)
    BY <1>2, <1>3, <1>6, <1>8, <1>10 DEF AcceptAppend
  <2>2. node \in [Node -> NodeType] /\ p \in Node
    BY NodesAre DEF TransferInv, NodesInv
  <2> QED
    BY <1>3, <1>12, <1>13, <2>1, <2>2 DEF NodeType
<1>16. NodesInv' /\ LinksInv'
  BY <1>1, <1>11, <1>14, <1>15, PeerAnswers
<1>17. UNCHANGED <<current_term, leaderVars, received, crashed>>
  BY DEF AcceptAppend
<1> QED
  BY <1>16, <1>17, PartsUnchanged DEF TransferInv, leaderVars

\* The chunks that a peer has are chunks once another is written.
LEMMA WrittenType ==
  ASSUME ReceivedInv, NEW p \in Peer, NEW m \in GoodRequest, m.type = "InstallSnapshot"
  PROVE  /\ Written(p, m) \in [Offsets -> Machine \cup {None}]
         /\ received' = [received EXCEPT ![p] = Written(p, m)] => ReceivedInv'
<1>1. received[p] \in [Offsets -> Machine \cup {None}]
  BY DEF ReceivedInv
<1>2. m.snapshot.machine \in Machine
  BY RequestFields DEF Snapshot
<1>3. Written(p, m) \in [Offsets -> Machine \cup {None}]
  BY <1>1, <1>2 DEF Written
<1> QED
  BY <1>3 DEF ReceivedInv

\* What a chunk says of where it belongs.
LEMMA ChunkFields ==
  ASSUME NEW m \in GoodRequest, m.type = "InstallSnapshot"
  PROVE  /\ m.snapshot \in Snapshot
         /\ m.offset \in Offsets /\ m.offset \in Nat /\ m.offset + m.len \in Nat
         /\ ~m.done => m.offset + m.len \in Offsets
<1>1. /\ m.snapshot \in Snapshot /\ m.offset \in Offsets /\ m.len \in {0, 1}
      /\ ~m.done => m.offset + m.len \in Offsets
  BY RequestFields
<1>2. m.offset \in Nat
  BY <1>1, OffsetsType
<1>3. m.offset + m.len \in Nat
  BY <1>1, <1>2
<1> QED
  BY <1>1, <1>2, <1>3

\* A chunk that is stored, or one that a callback fails on.
LEMMA ChunkTypes ==
  ASSUME TransferInv, NEW p \in Peer, StoreChunk(p) \/ FailChunk(p)
  PROVE  TransferInv'
<1>1. to_peer[p] # <<>> /\ NewChunk(p)
  BY DEF StoreChunk, FailChunk, NewChunk, HeadIs
<1>2. PICK m \in GoodRequest : m = Head(to_peer[p])
  BY <1>1, HeadRequest DEF TransferInv
<1>3. m.type = "InstallSnapshot"
  BY <1>1, <1>2 DEF NewChunk, HeadIs
<1>4. /\ m.offset \in Offsets /\ m.offset \in Nat /\ m.offset + m.len \in Nat
      /\ ~m.done => m.offset + m.len \in Offsets
  BY <1>3, ChunkFields
<1>5. (\E reply \in GoodReply : Answer(p, reply)) /\ ReceivedInv'
  <2>1. CASE StoreChunk(p)
    <3>1. /\ ~m.done /\ received' = [received EXCEPT ![p] = Written(p, m)]
          /\ Answer(p, SnapshotReply(p, TRUE, m.offset + m.len, FALSE))
      BY <1>2, <2>1 DEF StoreChunk
    <3>2. SnapshotReply(p, TRUE, m.offset + m.len, FALSE) \in GoodReply
      BY <1>4, <3>1, SnapshotReplyType DEF TransferInv
    <3> QED
      BY <1>3, <3>1, <3>2, WrittenType DEF TransferInv
  <2>2. ASSUME NEW junk \in BOOLEAN, Answer(p, SnapshotReply(p, FALSE, m.offset, junk)),
               UNCHANGED received
        PROVE  (\E reply \in GoodReply : Answer(p, reply)) /\ ReceivedInv'
    <3>1. SnapshotReply(p, FALSE, m.offset, junk) \in GoodReply
      BY <1>4, SnapshotReplyType DEF TransferInv
    <3> QED
      BY <2>2, <3>1, PartsUnchanged
  <2>3. ASSUME Answer(p, SnapshotReply(p, FALSE, m.offset + m.len, TRUE)),
               received' = [received EXCEPT ![p] = Written(p, m)]
        PROVE  (\E reply \in GoodReply : Answer(p, reply)) /\ ReceivedInv'
    <3>1. SnapshotReply(p, FALSE, m.offset + m.len, TRUE) \in GoodReply
      BY <1>4, SnapshotReplyType DEF TransferInv
    <3> QED
      BY <1>3, <2>3, <3>1, WrittenType DEF TransferInv
  <2> QED
    BY <1>2, <2>1, <2>2, <2>3 DEF FailChunk
<1>6. LinksInv'
  BY <1>1, <1>5, AnswerLinks DEF TransferInv
<1>7. UNCHANGED <<node, current_term, leaderVars, crashed>>
  BY DEF StoreChunk, FailChunk
<1> QED
  BY <1>5, <1>6, <1>7, PartsUnchanged DEF TransferInv, leaderVars

\* snapshot_restore makes a state machine of any chunks.
LEMMA RestoredType ==
  ASSUME NEW chunks \in [Offsets -> Machine \cup {None}], NEW k \in Nat
  PROVE  Restored(chunks, k) \in Machine
<1>1. chunks[0] # None => chunks[0] \in Machine
  BY OffsetsType
<1>2. [n \in 1 .. k |-> None] \in Machine
  BY DEF Machine
<1> QED
  BY <1>1, <1>2 DEF Restored

\* raft_recv_installsnapshot with the last chunk.
LEMMA InstallTypes ==
  ASSUME TransferInv, NEW p \in Peer, InstallSnapshot(p)
  PROVE  TransferInv'
<1>1. to_peer[p] # <<>> /\ NewChunk(p)
  BY DEF InstallSnapshot, NewChunk, HeadIs
<1>2. PICK m \in GoodRequest : m = Head(to_peer[p])
  BY <1>1, HeadRequest DEF TransferInv
<1>3. m.type = "InstallSnapshot" /\ m.done
  BY <1>1, <1>2 DEF NewChunk, HeadIs, InstallSnapshot
<1>4. m.offset \in Nat /\ m.offset + m.len \in Nat /\ m.snapshot \in Snapshot
  BY <1>3, ChunkFields
<1>5. PICK k \in Nat : k = m.snapshot.index
  BY <1>4 DEF Snapshot
<1>6. PICK nd \in NodeType : nd = node[p]
  BY NodesAre DEF TransferInv, NodesInv
<1>7. PICK machine \in Machine : machine = Restored(Written(p, m), k)
  BY <1>3, WrittenType, RestoredType DEF TransferInv
<1>8. PICK commit \in Nat, applied \in Nat :
        commit = Highest({nd.commit_index, k}) /\ applied = Highest({nd.last_applied, k})
  BY NodeParts, HighestOfTwo
<1>9. PICK after : after = [nd EXCEPT !.snapshot = MarkOf(m.snapshot),
                                      !.stored = [m.snapshot EXCEPT !.machine = machine],
                                      !.machine = machine, !.log = EmptyLog(k),
                                      !.commit_index = commit, !.last_applied = applied]
  OBVIOUS
<1>10. after \in NodeType
  <2>1. [m.snapshot EXCEPT !.machine = machine] \in Snapshot /\ MarkOf(m.snapshot) \in Mark
    BY <1>4 DEF Snapshot, Mark, MarkOf
  <2>2. EmptyLog(k) \in LogType
    BY DEF EmptyLog, LogType
  <2> QED
    BY <1>9, <2>1, <2>2 DEF NodeType, LogType
<1>11. PICK reply : reply = SnapshotReply(p, TRUE, m.offset + m.len, TRUE)
  OBVIOUS
<1>12. reply \in GoodReply
  BY <1>4, <1>11, SnapshotReplyType DEF TransferInv
<1>13. node' = [node EXCEPT ![p] = after] /\ Answer(p, reply)
  <2>1. PICK new : new = [nd EXCEPT !.snapshot = MarkOf(m.snapshot),
                                    !.stored = [m.snapshot EXCEPT !.machine = machine],
                                    !.machine = machine,
                                    !.log = EmptyLog(k),
                                    !.commit_index = Highest({@, k}),
                                    !.last_applied = Highest({@, k})]
    OBVIOUS
  <2>2. new = after
    BY <1>8, <1>9, <2>1
  <2>3. node' = [node EXCEPT ![p] = new] /\ Answer(p, reply)
    BY <1>2, <1>5, <1>6, <1>7, <1>11, <2>1 DEF InstallSnapshot
  <2> QED
    BY <2>2, <2>3
<1>14. NodesInv' /\ LinksInv'
  BY <1>1, <1>10, <1>12, <1>13, PeerAnswers
<1>15. ReceivedInv'
  <2>1. received' = [received EXCEPT ![p] = [o \in DOMAIN received[p] |-> None]]
    BY DEF InstallSnapshot
  <2> QED
    BY <2>1 DEF TransferInv, ReceivedInv
<1>16. UNCHANGED <<current_term, leaderVars, crashed>>
  BY DEF InstallSnapshot
<1> QED
  BY <1>14, <1>15, <1>16, PartsUnchanged DEF TransferInv, leaderVars
-----------------------------------------------------------------------------
(***************************************************************************)
(* What the leader makes of replies, and the surroundings.                 *)
(***************************************************************************)
\* raft_step_down on a reply of a later term.
LEMMA StepDownTypes ==
  ASSUME TransferInv, NEW p \in Peer, StepDown(p)
  PROVE  TransferInv'
<1>1. to_leader[p] # <<>>
  BY DEF StepDown
<1>2. PICK m \in GoodReply : m = Head(to_leader[p])
  BY <1>1, HeadReply DEF TransferInv
<1>3. m.term \in Nat
  BY ReplyFields
<1>4. TermsInv'
  <2>1. /\ ~leading' /\ leading' \in BOOLEAN
        /\ current_term' = [current_term EXCEPT ![Lead] = m.term]
    BY <1>2 DEF StepDown
  <2>2. current_term' \in [Node -> Nat]
    BY <1>3, <2>1 DEF TransferInv, TermsInv
  <2> QED
    BY <2>1, <2>2 DEF TermsInv
<1>5. LinksInv'
  BY <1>1, HeadReply DEF StepDown, TransferInv
<1>6. UNCHANGED <<node, next_index, match_index, snapshot_send, received, crashed>>
  BY DEF StepDown
<1> QED
  BY <1>4, <1>5, <1>6, PartsUnchanged DEF TransferInv

\* The commit index that the match indexes allow is one of the leader's log.
LEMMA AdvancedCommitType ==
  ASSUME NEW nd \in NodeType, NEW match
  PROVE  AdvancedCommit(nd, match) \in Nat
<1> DEFINE covered(k) == 2 * Cardinality({Lead} \cup {p \in Peer : match[p] >= k}) > ClusterSize
           candidates == {k \in nd.commit_index + 1 .. LastIndex(nd.log) :
                            Holds(nd.log, k) /\ At(nd.log, k).term = current_term[Lead] /\ covered(k)}
<1>1. nd.commit_index \in Nat /\ LastIndex(nd.log) \in Nat
  BY NodeParts, LastIndexType
<1>2. candidates \in SUBSET Nat /\ \A k \in candidates : k <= LastIndex(nd.log)
  BY <1>1
<1>3. AdvancedCommit(nd, match) = Highest({nd.commit_index} \cup candidates)
  BY DEF AdvancedCommit
<1> HIDE DEF candidates
<1>4. PICK b \in Nat : b = nd.commit_index + LastIndex(nd.log)
  BY <1>1
<1>5. /\ {nd.commit_index} \cup candidates \in SUBSET Nat
      /\ \A k \in {nd.commit_index} \cup candidates : k <= b
  <2>1. PICK c \in Nat, last \in Nat : c = nd.commit_index /\ last = LastIndex(nd.log)
    BY <1>1
  <2>2. c <= b /\ last <= b
    BY <1>4, <2>1
  <2>3. \A k \in candidates : k \in Nat /\ k <= last
    BY <1>2, <2>1
  <2>4. \A k \in candidates : k <= b
    BY <2>2, <2>3
  <2> QED
    BY <2>1, <2>2, <2>3, <2>4
<1> QED
  BY <1>3, <1>5, HighestType

\* A success: the match index, and what is committed with it.
LEMMA SuccessTypes ==
  ASSUME TransferInv, NEW p \in Peer, RecvAppendSuccess(p)
  PROVE  TransferInv'
<1>1. to_leader[p] # <<>>
  BY DEF RecvAppendSuccess, HeadIs
<1>2. PICK m \in GoodReply : m = Head(to_leader[p])
  BY <1>1, HeadReply DEF TransferInv
<1>3. m.match_index \in Nat /\ m.match_index + 1 \in Nat
  <2>1. m.match_index \in Nat
    BY <1>2, ReplyFields DEF RecvAppendSuccess, HeadIs
  <2> QED
    BY <2>1
<1>4. Idle \in [in_progress : BOOLEAN, offset : Offsets]
  BY OffsetsType DEF Idle
<1>5. PeersInv'
  <2>1. CASE m.match_index > match_index[p]
    <3>1. /\ match_index' = [match_index EXCEPT ![p] = m.match_index]
          /\ next_index' = [next_index EXCEPT ![p] = m.match_index + 1]
          /\ snapshot_send' = [snapshot_send EXCEPT ![p] = Idle]
      BY <1>2, <2>1 DEF RecvAppendSuccess
    <3> QED
      BY <1>3, <1>4, <3>1 DEF TransferInv, PeersInv
  <2>2. CASE ~(m.match_index > match_index[p])
    <3>1. UNCHANGED <<match_index, next_index, snapshot_send>>
      BY <1>2, <2>2 DEF RecvAppendSuccess
    <3> QED
      BY <3>1, PartsUnchanged
  <2> QED
    BY <2>1, <2>2
<1>6. PICK nd \in NodeType : nd = node[Lead] /\ Bounded(nd)
  BY NodesAre DEF TransferInv, NodesInv
<1>7. PICK c \in Nat : c = AdvancedCommit(nd, match_index')
  BY AdvancedCommitType
<1>8. PICK after : after = [nd EXCEPT !.commit_index = c]
  OBVIOUS
<1>9. after \in NodeType /\ Bounded(after)
  BY <1>6, <1>8 DEF NodeType, Bounded
<1>10. node' = [node EXCEPT ![Lead] = after]
  <2>1. node' = [node EXCEPT ![Lead].commit_index = AdvancedCommit(node[Lead], match_index')]
    BY DEF RecvAppendSuccess
  <2>2. node' = [node EXCEPT ![Lead].commit_index = c]
    BY <1>6, <1>7, <2>1
  <2> QED
    BY <1>6, <1>8, <2>2
<1>11. NodesInv'
  BY <1>9, <1>10, NodesAre, NodeChanges DEF TransferInv
<1>12. LinksInv'
  BY <1>1, HeadReply DEF RecvAppendSuccess, TransferInv
<1>13. UNCHANGED <<current_term, leading, received, crashed>>
  BY DEF RecvAppendSuccess
<1> QED
  BY <1>5, <1>11, <1>12, <1>13, PartsUnchanged DEF TransferInv

\* A refusal: the next index never goes below zero.
LEMMA RefusalTypes ==
  ASSUME TransferInv, NEW p \in Peer, RecvAppendRefusal(p)
  PROVE  TransferInv'
<1>1. to_leader[p] # <<>>
  BY DEF RecvAppendRefusal, HeadIs
<1>2. PICK m \in GoodReply : m = Head(to_leader[p])
  BY <1>1, HeadReply DEF TransferInv
<1>3. m.match_index \in Nat /\ m.conflict_term \in Nat /\ m.conflict_index \in Nat
  BY <1>2, ReplyFields DEF RecvAppendRefusal, HeadIs
<1>4. PICK l : l = node[Lead].log
  OBVIOUS
<1>5. PICK next \in Nat : next = next_index[p]
  BY DEF TransferInv, PeersInv
<1>6. RolledBack(l, next, m) \in Nat
  <2>1. l \in LogType
    BY <1>4, NodeParts, NodesAre DEF TransferInv, NodesInv
  <2>2. PICK mine \in Nat : mine = Highest(IndexesOfTerm(l, m.conflict_term))
    BY <2>1, IndexesOfTermType
  <2> QED
    BY <1>3, <2>2 DEF RolledBack
<1>7. next_index' = [next_index EXCEPT ![p] = RolledBack(l, next, m)]
  BY <1>2, <1>4, <1>5 DEF RecvAppendRefusal
<1>8. UNCHANGED <<node, current_term, leading, match_index, snapshot_send, received, crashed>>
  BY DEF RecvAppendRefusal
<1>9. PeersInv'
  BY <1>6, <1>7, <1>8 DEF TransferInv, PeersInv
<1>10. LinksInv'
  BY <1>1, HeadReply DEF RecvAppendRefusal, TransferInv
<1> QED
  BY <1>8, <1>9, <1>10, PartsUnchanged DEF TransferInv

\* The reply to a chunk says where the transfer goes on.
LEMMA SnapshotReplyTypes ==
  ASSUME TransferInv, NEW p \in Peer, RecvSnapshotReply(p)
  PROVE  TransferInv'
<1>1. to_leader[p] # <<>>
  BY DEF RecvSnapshotReply, HeadIs
<1>2. PICK m \in GoodReply : m = Head(to_leader[p])
  BY <1>1, HeadReply DEF TransferInv
<1>3. m.success /\ ~m.done => m.last_offset \in Offsets
  BY <1>2, ReplyFields DEF RecvSnapshotReply, HeadIs
<1>4. Progress(m) \in [in_progress : BOOLEAN, offset : Offsets]
  BY <1>3, OffsetsType DEF Progress
<1>5. PICK k \in Nat : k = node[Lead].snapshot.index
  BY NodesAre, NodeParts DEF TransferInv, NodesInv
<1>6. k + 1 \in Nat
  OBVIOUS
<1>7. /\ snapshot_send' = [snapshot_send EXCEPT ![p] = Progress(m)]
      /\ \/ /\ next_index' = [next_index EXCEPT ![p] = k + 1]
            /\ match_index' = [match_index EXCEPT ![p] = k]
         \/ UNCHANGED <<next_index, match_index>>
  BY <1>2, <1>5 DEF RecvSnapshotReply
<1>8. PeersInv'
  BY <1>4, <1>6, <1>7 DEF TransferInv, PeersInv
<1>9. LinksInv'
  BY <1>1, HeadReply DEF RecvSnapshotReply, TransferInv
<1>10. UNCHANGED <<node, current_term, leading, received, crashed>>
  BY DEF RecvSnapshotReply
<1> QED
  BY <1>8, <1>9, <1>10, PartsUnchanged DEF TransferInv

\* raft_create with raft_snapshot_restore: what a peer has then is what it stored.
LEMMA RestartTypes ==
  ASSUME TransferInv, NEW p \in Peer, Restart(p)
  PROVE  TransferInv'
<1>1. PICK s : s = node[p].stored
  OBVIOUS
<1>2. s \in Snapshot /\ s.index \in Nat /\ s.machine \in Machine /\ MarkOf(s) \in Mark
  BY <1>1, NodesAre, NodeParts DEF TransferInv, NodesInv, MarkOf, Mark, Snapshot
<1>3. PICK after : after = [log |-> EmptyLog(s.index), commit_index |-> s.index,
        last_applied |-> s.index, machine |-> s.machine, snapshot |-> MarkOf(s),
        stored |-> s, pending |-> None]
  OBVIOUS
<1>4. EmptyLog(s.index) \in LogType
  BY <1>2 DEF EmptyLog, LogType
<1>5. after \in NodeType
  BY <1>2, <1>3, <1>4 DEF NodeType, LogType
<1>6. node' = [node EXCEPT ![p] = after]
  BY <1>1, <1>3 DEF Restart
<1>7. NodesInv'
  BY <1>5, <1>6, NodesAre, NodeChanges DEF TransferInv
<1>8. /\ crashed' \subseteq CrashPeers
      /\ UNCHANGED <<current_term, leaderVars, received, links>>
  BY DEF Restart, TransferInv
<1> QED
  BY <1>7, <1>8, PartsUnchanged DEF TransferInv, leaderVars, links

\* A later term at a peer, and a message that is lost.
LEMMA SurroundingsTypes ==
  ASSUME TransferInv, NEW p \in Peer, HearLaterTerm(p) \/ Lose(p)
  PROVE  TransferInv'
<1>1. CASE HearLaterTerm(p)
  <2>1. Term + 1 \in Nat /\ p # Lead
    BY SnapshotAssumption, NodesAre
  <2>2. TermsInv'
    <3>1. current_term' = [current_term EXCEPT ![p] = Term + 1] /\ UNCHANGED leading
      BY <1>1 DEF HearLaterTerm, leaderVars
    <3>2. /\ current_term \in [Node -> Nat] /\ leading \in BOOLEAN
          /\ leading => current_term[Lead] = Term
      BY DEF TransferInv, TermsInv
    <3>3. current_term' \in [Node -> Nat]
      BY <2>1, <3>1, <3>2
    <3>4. current_term'[Lead] = current_term[Lead]
      BY <2>1, <3>1, <3>2
    <3> QED
      BY <3>1, <3>2, <3>3, <3>4 DEF TermsInv
  <2> QED
    BY <1>1, <2>2, PartsUnchanged DEF TransferInv, HearLaterTerm, leaderVars, links
<1>2. CASE Lose(p)
  <2>1. ASSUME to_peer[p] # <<>>, to_peer' = [to_peer EXCEPT ![p] = Tail(@)], UNCHANGED to_leader
        PROVE  LinksInv'
    <3>1. Tail(to_peer[p]) \in Seq(GoodRequest)
      BY <2>1 DEF TransferInv, LinksInv
    <3> QED
      BY <2>1, <3>1 DEF TransferInv, LinksInv
  <2>2. ASSUME to_leader[p] # <<>>, TakeReply(p), UNCHANGED to_peer
        PROVE  LinksInv'
    BY <2>2, HeadReply DEF TransferInv
  <2>3. LinksInv'
    BY <1>2, <2>1, <2>2 DEF Lose
  <2> QED
    BY <1>2, <2>3, PartsUnchanged DEF Lose, TransferInv, leaderVars
<1> QED
  BY <1>1, <1>2
-----------------------------------------------------------------------------
(***************************************************************************)
(* Type correctness.                                                       *)
(***************************************************************************)
\* The leader starts within the bound, everybody else with whatever it has, and
\* no transfer is under way.
LEMMA TransferInit == Init => TransferInv
<1> SUFFICES ASSUME Init PROVE TransferInv
  OBVIOUS
<1>1. PICK lead : lead = Started[Lead]
  OBVIOUS
<1>2. lead \in NodeType /\ Bounded(lead) /\ Started \in [Node -> NodeType]
  BY <1>1, StartAssumption, NodesAre DEF Bounded
<1>3. NodesInv
  BY <1>1, <1>2 DEF Init, NodesInv
<1>4. TermsInv
  BY SnapshotAssumption, NodesAre DEF Init, TermsInv
<1>5. LastIndex(lead.log) \in Nat
  BY <1>2, NodeParts, LastIndexType
<1>6. Idle \in [in_progress : BOOLEAN, offset : Offsets]
  BY OffsetsType DEF Idle
<1>7. PeersInv
  BY <1>1, <1>5, <1>6 DEF Init, PeersInv
<1>8. ReceivedInv
  BY DEF Init, ReceivedInv
<1>9. <<>> \in Seq(GoodRequest) /\ <<>> \in Seq(GoodReply)
  OBVIOUS
<1>10. LinksInv
  BY <1>9 DEF Init, LinksInv
<1> QED
  BY <1>3, <1>4, <1>7, <1>8, <1>10 DEF Init, TransferInv

\* Every step keeps types and offsets.
LEMMA TransferStep == TransferInv /\ [Next]_vars => TransferInv'
<1> SUFFICES ASSUME TransferInv, [Next]_vars PROVE TransferInv'
  OBVIOUS
<1>1. CASE TickHeartbeat \/ Propose
  BY <1>1, TickHeartbeatTypes, ProposeTypes
<1>2. CASE \E n \in Node : SnapshotCreate(n) \/ \E done \in BOOLEAN : Tick(n, done)
  BY <1>2, TickTypes
<1>3. ASSUME NEW p \in Peer, RecvRequest(p) PROVE TransferInv'
  BY <1>3, RefuseTypes, RefuseConflictTypes, AcceptTypes, ChunkTypes, InstallTypes DEF RecvRequest
<1>4. ASSUME NEW p \in Peer, RecvReply(p) PROVE TransferInv'
  BY <1>4, StepDownTypes, SuccessTypes, RefusalTypes, SnapshotReplyTypes DEF RecvReply
<1>5. ASSUME NEW p \in Peer, FailChunk(p) \/ Restart(p) \/ HearLaterTerm(p) \/ Lose(p)
      PROVE  TransferInv'
  BY <1>5, ChunkTypes, RestartTypes, SurroundingsTypes
<1>6. CASE UNCHANGED vars
  BY <1>6, PartsUnchanged DEF vars, leaderVars, links, TransferInv
<1> QED
  BY <1>1, <1>2, <1>3, <1>4, <1>5, <1>6 DEF Next

\* Good requests and replies are requests and replies.
LEMMA TransferTypes == TransferInv => TypeOK
<1> SUFFICES ASSUME TransferInv PROVE TypeOK
  OBVIOUS
<1>1. GoodRequest \subseteq Request /\ GoodReply \subseteq Reply
  BY DEF GoodRequest, GoodReply
<1>2. ASSUME NEW p \in Peer PROVE to_peer[p] \in Seq(Request) /\ to_leader[p] \in Seq(Reply)
  BY <1>1 DEF TransferInv, LinksInv
<1>3. to_peer \in [Peer -> Seq(Request)] /\ to_leader \in [Peer -> Seq(Reply)]
  BY <1>2 DEF TransferInv, LinksInv
<1> QED
  BY <1>3 DEF TransferInv, NodesInv, TermsInv, PeersInv, ReceivedInv, TypeOK

\* Whatever chunks are lost, fail or are answered late, indexes stay naturals and
\* a transfer stays within the snapshot: raft_send_installsnapshot never asks
\* snapshot_read for what lies past the end, also of a snapshot that is shorter
\* than the one the transfer began with.
THEOREM SnapshotTypeCorrect == Spec => []TypeOK
<1> QED
  BY TransferInit, TransferStep, TransferTypes, PTL DEF Spec
-----------------------------------------------------------------------------
(***************************************************************************)
(* The log follows the snapshot, where no peer is given a snapshot while   *)
(* one of its own is in progress: one that ends after a newer one was      *)
(* installed is completed all the same, and the log begins beyond it.      *)
(***************************************************************************)
NotOvertaken == \A p \in Peer : InstallSnapshot(p) => node[p].pending = None

FollowInv == \A n \in Node : Sane(n, node[n])

\* A node that changes and stays sane.
LEMMA FollowChanges ==
  ASSUME TransferInv, FollowInv, NEW n \in Node, NEW after, Sane(n, after),
         node' = [node EXCEPT ![n] = after]
  PROVE  FollowInv'
<1>1. ASSUME NEW o \in Node PROVE Sane(o, node[o])'
  <2>1. node'[o] = IF o = n THEN after ELSE node[o]
    BY DEF TransferInv, NodesInv
  <2>2. PICK nd : nd = node'[o]
    OBVIOUS
  <2>3. Sane(o, nd)
    BY <2>1, <2>2 DEF FollowInv
  <2> QED
    BY <2>2, <2>3 DEF Sane, Follows, Ready
<1> QED
  BY <1>1 DEF FollowInv

\* The leader and the programs: ticks, proposals and snapshots on demand.
LEMMA FollowOwn ==
  ASSUME TransferInv, FollowInv,
         \/ TickHeartbeat \/ Propose
         \/ \E n \in Node : SnapshotCreate(n) \/ \E done \in BOOLEAN : Tick(n, done)
  PROVE  FollowInv'
<1>1. \A n \in Node : node[n] \in NodeType /\ Sane(n, node[n])
  BY DEF TransferInv, NodesInv, FollowInv
<1>2. Lead \in Node
  BY NodesAre
<1>3. ASSUME NEW n \in Node, NEW after, Keeps(n, node[n], after), node' = [node EXCEPT ![n] = after]
      PROVE  FollowInv'
  BY <1>1, <1>3, FollowChanges DEF Keeps
<1>4. CASE TickHeartbeat
  <2>1. PICK done, nd, after :
          /\ nd \in Polled(Lead, node[Lead], done) /\ after \in MaybeSnapshot(Lead, Applied(nd))
          /\ node' = [node EXCEPT ![Lead] = after]
    BY <1>4 DEF TickHeartbeat
  <2> QED
    BY <1>1, <1>2, <1>3, <2>1, TickKeeps
<1>5. CASE Propose
  <2>1. PICK es, l, after :
          /\ es = <<[term |-> current_term[Lead], data |-> LastIndex(node[Lead].log) + 1]>>
          /\ l = Extend(node[Lead].log, es) /\ after = [node[Lead] EXCEPT !.log = l]
    OBVIOUS
  <2>2. node' = [node EXCEPT ![Lead] = after]
    BY <1>5, <2>1 DEF Propose
  <2>3. l.base = node[Lead].log.base
    BY <2>1 DEF Extend
  <2>4. /\ after.log = l /\ after.snapshot = node[Lead].snapshot
        /\ after.pending = node[Lead].pending /\ after.last_applied = node[Lead].last_applied
    BY <1>1, <1>2, <2>1 DEF NodeType
  <2>5. Sane(Lead, after)
    BY <1>1, <1>2, <2>3, <2>4 DEF Sane, Follows, Ready
  <2> QED
    BY <1>2, <2>2, <2>5, FollowChanges
<1>6. CASE \E n \in Node : SnapshotCreate(n) \/ \E done \in BOOLEAN : Tick(n, done)
  <2>1. PICK n \in Node : SnapshotCreate(n) \/ \E done \in BOOLEAN : Tick(n, done)
    BY <1>6
  <2>2. PICK after : Keeps(n, node[n], after) /\ node' = [node EXCEPT ![n] = after]
    BY <1>1, <2>1, TickKeeps, CreateKeeps DEF Tick, SnapshotCreate
  <2> QED
    BY <1>3, <2>2
<1> QED
  BY <1>4, <1>5, <1>6

\* A peer that stores entries, or drops some: its base stays, also where entries
\* that were compacted are appended again.
LEMMA FollowAppend ==
  ASSUME TransferInv, FollowInv, NEW p \in Peer, RefuseConflictingPrev(p) \/ AcceptAppend(p)
  PROVE  FollowInv'
<1>1. to_peer[p] # <<>>
  BY DEF RefuseConflictingPrev, AcceptAppend, HeadIs
<1>2. PICK m \in GoodRequest : m = Head(to_peer[p])
  BY <1>1, HeadRequest DEF TransferInv
<1>3. PICK nd \in NodeType : nd = node[p]
  BY NodesAre DEF TransferInv, NodesInv
<1>4. p \in Node /\ node \in [Node -> NodeType] /\ nd.log \in LogType /\ Sane(p, nd)
  BY <1>3, NodesAre, NodeParts DEF TransferInv, NodesInv, FollowInv
<1>5. m.prev_index \in Nat /\ m.entries \in Seq(Entry)
  BY <1>2, RequestFields DEF RefuseConflictingPrev, AcceptAppend, HeadIs
<1>6. ASSUME NEW l, l.base = nd.log.base, NEW c,
             node' = [node EXCEPT ![p] = [nd EXCEPT !.log = l, !.commit_index = c]]
      PROVE  FollowInv'
  <2>1. PICK after : after = [nd EXCEPT !.log = l, !.commit_index = c]
    OBVIOUS
  <2>2. /\ after.log = l /\ after.snapshot = nd.snapshot
        /\ after.pending = nd.pending /\ after.last_applied = nd.last_applied
    BY <2>1 DEF NodeType
  <2>3. Sane(p, after)
    BY <1>4, <1>6, <2>2 DEF Sane, Follows, Ready
  <2> QED
    BY <1>4, <1>6, <2>1, <2>3, FollowChanges
<1>7. CASE RefuseConflictingPrev(p)
  <2>1. PICK l : l = TruncateAfter(nd.log, m.prev_index - 1)
    OBVIOUS
  <2>2. l.base = nd.log.base
    <3>1. PICK k \in Int : k = m.prev_index - 1
      BY <1>5
    <3> QED
      BY <1>4, <2>1, <3>1, TruncateAfterType
  <2>3. node' = [node EXCEPT ![p].log = l]
    BY <1>2, <1>3, <1>7, <2>1 DEF RefuseConflictingPrev
  <2>4. [nd EXCEPT !.log = l] = [nd EXCEPT !.log = l, !.commit_index = nd.commit_index]
    BY DEF NodeType
  <2> QED
    BY <1>3, <1>6, <2>2, <2>3, <2>4, Zenon
<1>8. CASE AcceptAppend(p)
  <2>1. PICK l : l = Stored(nd.log, m.prev_index, m.entries)
    OBVIOUS
  <2>2. l.base = nd.log.base
    BY <1>4, <1>5, <2>1, StoredType
  <2>3. PICK d : d = Lowest({m.leader_commit, m.prev_index + Len(m.entries), LastIndex(l)})
    OBVIOUS
  <2>4. PICK c : c = IF m.leader_commit > nd.commit_index THEN d ELSE nd.commit_index
    OBVIOUS
  <2>5. node' = [node EXCEPT ![p].log = l,
                             ![p].commit_index = IF m.leader_commit > @ THEN d ELSE @]
    BY <1>2, <1>3, <1>8, <2>1, <2>3 DEF AcceptAppend
  <2>6. node' = [node EXCEPT ![p] = [nd EXCEPT !.log = l, !.commit_index = c]]
    BY <1>3, <1>4, <2>4, <2>5 DEF NodeType
  <2> QED
    BY <1>6, <2>2, <2>6, Zenon
<1> QED
  BY <1>7, <1>8

\* A peer that installs a snapshot, or is created again from its own, has none
\* in progress.
LEMMA FollowReplaced ==
  ASSUME TransferInv, FollowInv, NEW p \in Peer, NotOvertaken,
         InstallSnapshot(p) \/ Restart(p)
  PROVE  FollowInv'
<1>1. p \in Node
  BY NodesAre
<1>2. PICK nd \in NodeType : nd = node[p]
  BY <1>1 DEF TransferInv, NodesInv
<1>3. ASSUME NEW after, NEW k \in Nat, after.log = EmptyLog(k), after.snapshot.index = k,
             k <= after.last_applied, after.pending = None, node' = [node EXCEPT ![p] = after]
      PROVE  FollowInv'
  <2>1. Sane(p, after)
    BY <1>3 DEF Sane, Follows, Ready, EmptyLog
  <2> QED
    BY <1>1, <1>3, <2>1, FollowChanges
<1>4. CASE InstallSnapshot(p)
  <2>1. to_peer[p] # <<>> /\ NewChunk(p)
    BY <1>4 DEF InstallSnapshot, NewChunk, HeadIs
  <2>2. PICK m \in GoodRequest : m = Head(to_peer[p])
    BY <2>1, HeadRequest DEF TransferInv
  <2>3. m.snapshot \in Snapshot
    BY <2>1, <2>2, ChunkFields DEF NewChunk, HeadIs
  <2>4. PICK k \in Nat : k = m.snapshot.index
    BY <2>3 DEF Snapshot
  <2>5. PICK machine : machine = Restored(Written(p, m), k)
    OBVIOUS
  <2>6. PICK after : after = [nd EXCEPT !.snapshot = MarkOf(m.snapshot),
                                        !.stored = [m.snapshot EXCEPT !.machine = machine],
                                        !.machine = machine,
                                        !.log = EmptyLog(k),
                                        !.commit_index = Highest({@, k}),
                                        !.last_applied = Highest({@, k})]
    OBVIOUS
  <2>7. node' = [node EXCEPT ![p] = after]
    BY <1>2, <1>4, <2>2, <2>4, <2>5, <2>6 DEF InstallSnapshot
  <2>8. after.log = EmptyLog(k) /\ after.last_applied = Highest({nd.last_applied, k})
        /\ after.snapshot = MarkOf(m.snapshot)
        /\ after.pending = nd.pending
    BY <2>6 DEF NodeType
  <2>9. after.snapshot.index = k
    BY <2>4, <2>8 DEF MarkOf
  <2>10. k <= after.last_applied
    BY <2>8, NodeParts, HighestOfTwo
  <2>11. after.pending = None
    BY <1>2, <1>4, <2>8 DEF NotOvertaken
  <2> QED
    BY <1>3, <2>7, <2>8, <2>9, <2>10, <2>11
<1>5. CASE Restart(p)
  <2>1. PICK s : s = nd.stored
    OBVIOUS
  <2>2. s.index \in Nat
    BY <2>1, NodeParts
  <2>3. PICK after : after = [log |-> EmptyLog(s.index), commit_index |-> s.index,
          last_applied |-> s.index, machine |-> s.machine, snapshot |-> MarkOf(s),
          stored |-> s, pending |-> None]
    OBVIOUS
  <2>4. node' = [node EXCEPT ![p] = after]
    BY <1>2, <1>5, <2>1, <2>3 DEF Restart
  <2>5. PICK k \in Nat : k = s.index
    BY <2>2
  <2>6. /\ after.log = EmptyLog(k) /\ after.snapshot.index = k
        /\ after.last_applied = k /\ k <= k /\ after.pending = None
    BY <2>3, <2>5 DEF MarkOf
  <2> QED
    BY <1>3, <2>4, <2>6
<1> QED
  BY <1>4, <1>5

\* A leader that commits.
LEMMA FollowCommit ==
  ASSUME TransferInv, FollowInv, NEW p \in Peer, RecvAppendSuccess(p)
  PROVE  FollowInv'
<1>1. PICK nd \in NodeType : nd = node[Lead] /\ Sane(Lead, nd)
  BY NodesAre DEF TransferInv, NodesInv, FollowInv
<1>2. PICK c : c = AdvancedCommit(node[Lead], match_index')
  OBVIOUS
<1>3. PICK after : after = [nd EXCEPT !.commit_index = c]
  OBVIOUS
<1>4. node' = [node EXCEPT ![Lead].commit_index = c]
  BY <1>2 DEF RecvAppendSuccess
<1>5. node' = [node EXCEPT ![Lead] = after]
  BY <1>1, <1>3, <1>4
<1>6. Sane(Lead, after)
  BY <1>1, <1>3 DEF NodeType, Sane, Follows, Ready
<1> QED
  BY <1>5, <1>6, NodesAre, FollowChanges

\* Every step leaves the log of every node where its snapshot ends.
LEMMA FollowStep == TransferInv /\ FollowInv /\ [Next]_vars /\ [NotOvertaken]_vars => FollowInv'
<1> SUFFICES ASSUME TransferInv, FollowInv, [Next]_vars, [NotOvertaken]_vars PROVE FollowInv'
  OBVIOUS
<1>1. ASSUME UNCHANGED node PROVE FollowInv'
  BY <1>1 DEF FollowInv, Sane, Follows, Ready
<1>2. ASSUME NotOvertaken, NEW p \in Peer, RecvRequest(p) PROVE FollowInv'
  <2>1. CASE RefuseStaleTerm(p) \/ RefuseMissingPrev(p) \/ IgnoreOldSnapshot(p) \/ StoreChunk(p)
    BY <1>1, <2>1 DEF RefuseStaleTerm, RefuseMissingPrev, IgnoreOldSnapshot, StoreChunk
  <2> QED
    BY <1>2, <2>1, FollowAppend, FollowReplaced DEF RecvRequest
<1>3. ASSUME NEW p \in Peer, RecvReply(p) PROVE FollowInv'
  <2>1. CASE StepDown(p) \/ RecvAppendRefusal(p) \/ RecvSnapshotReply(p)
    BY <1>1, <2>1 DEF StepDown, RecvAppendRefusal, RecvSnapshotReply
  <2> QED
    BY <1>3, <2>1, FollowCommit DEF RecvReply
<1>4. ASSUME NotOvertaken, NEW p \in Peer,
             FailChunk(p) \/ Restart(p) \/ HearLaterTerm(p) \/ Lose(p)
      PROVE  FollowInv'
  <2>1. CASE FailChunk(p) \/ HearLaterTerm(p) \/ Lose(p)
    BY <1>1, <2>1 DEF FailChunk, HearLaterTerm, Lose
  <2> QED
    BY <1>4, <2>1, FollowReplaced
<1>5. CASE UNCHANGED vars
  BY <1>1, <1>5 DEF vars
<1> QED
  BY <1>2, <1>3, <1>4, <1>5, FollowOwn DEF Next

\* The log begins where the snapshot ends: compaction, transfers and restarts do
\* not leave a gap between them or let them overlap, where nodes start that way
\* and no snapshot of a peer is overtaken by one it is given.
THEOREM LogsFollowSnapshots ==
  ASSUME \A n \in Node : Sane(n, Started[n])
  PROVE  Spec /\ [][NotOvertaken]_vars => []LogFollowsSnapshot
<1>1. Init => FollowInv
  BY DEF Init, FollowInv
<1>2. FollowInv => LogFollowsSnapshot
  BY DEF FollowInv, Sane, Follows, LogFollowsSnapshot
<1>3. TransferInv /\ FollowInv /\ [Next]_vars /\ [NotOvertaken]_vars => FollowInv'
  BY FollowStep
<1> QED
  BY <1>1, <1>2, <1>3, TransferInit, TransferStep, PTL DEF Spec

-----------------------------------------------------------------------------
(***************************************************************************)
(* Operators on compacted logs, entry by entry.                            *)
(***************************************************************************)
\* The indexes a log has entries for.
Indexes(l) == l.base + 1 .. LastIndex(l)

\* They are those between the base and the last index, and name entries.
LEMMA IndexesType ==
  ASSUME NEW l \in LogType
  PROVE  /\ l.base \in Nat /\ LastIndex(l) \in Nat /\ l.base <= LastIndex(l)
         /\ \A k \in Int : Holds(l, k) <=> k \in Indexes(l)
         /\ \A k \in Indexes(l) :
              k \in Nat /\ k > 0 /\ k > l.base /\ k <= LastIndex(l) /\ At(l, k) \in Entry
<1>1. l.base \in Nat /\ LastIndex(l) \in Nat /\ l.base <= LastIndex(l)
  BY LastIndexType DEF LogType
<1>2. \A k \in Int : Holds(l, k) <=> k \in Indexes(l)
  BY <1>1 DEF Holds, Indexes
<1>3. ASSUME NEW k \in Indexes(l)
      PROVE  k \in Nat /\ k > 0 /\ k > l.base /\ k <= LastIndex(l) /\ At(l, k) \in Entry
  <2>1. k \in Int /\ k > l.base /\ k <= LastIndex(l) /\ k > 0
    BY <1>1 DEF Indexes
  <2> QED
    BY <1>2, <2>1, LastIndexType
<1> QED
  BY <1>1, <1>2, <1>3

\* A log without entries.
LEMMA EmptyLogIs ==
  ASSUME NEW k \in Nat
  PROVE  EmptyLog(k) \in LogType /\ EmptyLog(k).base = k /\ LastIndex(EmptyLog(k)) = k
         /\ Indexes(EmptyLog(k)) = {}
<1>1. EmptyLog(k) \in LogType /\ EmptyLog(k).base = k /\ LastIndex(EmptyLog(k)) = k
  BY DEF EmptyLog, LogType, LastIndex
<1>2. k + 1 .. k = {}
  OBVIOUS
<1> QED
  BY <1>1, <1>2 DEF Indexes

\* Appending one entry leaves the others where they are.
LEMMA ExtendIs ==
  ASSUME NEW l \in LogType, NEW e \in Entry
  PROVE  LET x == Extend(l, <<e>>)
         IN /\ x \in LogType /\ x.base = l.base /\ LastIndex(x) = LastIndex(l) + 1
            /\ \A k \in Indexes(l) : k \in Indexes(x) /\ At(x, k) = At(l, k)
            /\ LastIndex(l) + 1 \in Indexes(x) /\ At(x, LastIndex(l) + 1) = e
            /\ \A k \in Indexes(x) : k \in Indexes(l) \/ k = LastIndex(l) + 1
<1>1. PICK x : x = Extend(l, <<e>>)
  OBVIOUS
<1>2. <<e>> \in Seq(Entry) /\ Len(<<e>>) = 1 /\ <<e>>[1] = e
  OBVIOUS
<1>3. x \in LogType /\ x.base = l.base /\ LastIndex(x) = LastIndex(l) + 1
  BY <1>1, <1>2, ExtendType
<1>4. l.base \in Nat /\ LastIndex(l) \in Nat /\ l.base <= LastIndex(l)
  BY IndexesType
<1>5. l.entries \in Seq(Entry) /\ Len(l.entries) \in Nat /\ LastIndex(l) = l.base + Len(l.entries)
  BY DEF LogType, LastIndex
<1>6. \A i \in 1 .. Len(l.entries) + 1 :
        x.entries[i] = IF i <= Len(l.entries) THEN l.entries[i] ELSE e
  BY <1>1, <1>2, <1>5 DEF Extend
<1>7. ASSUME NEW k \in Indexes(l) PROVE k \in Indexes(x) /\ At(x, k) = At(l, k)
  <2>1. k \in Int /\ k - l.base \in 1 .. Len(l.entries) + 1 /\ k - l.base <= Len(l.entries)
    BY <1>4, <1>5 DEF Indexes
  <2> QED
    BY <1>3, <1>4, <1>6, <2>1 DEF Indexes, At
<1>8. LastIndex(l) + 1 \in Indexes(x) /\ At(x, LastIndex(l) + 1) = e
  <2>1. PICK k \in Nat : k = LastIndex(l) + 1
    BY <1>4
  <2>2. k - l.base \in 1 .. Len(l.entries) + 1 /\ ~(k - l.base <= Len(l.entries))
    BY <1>4, <1>5, <2>1
  <2>3. k \in Indexes(x)
    BY <1>3, <1>4, <2>1 DEF Indexes
  <2>4. x.entries[k - l.base] = e
    BY <1>6, <2>2
  <2> QED
    BY <1>3, <2>1, <2>3, <2>4 DEF At
<1>9. \A k \in Indexes(x) : k \in Indexes(l) \/ k = LastIndex(l) + 1
  BY <1>3, <1>4 DEF Indexes
<1> QED
  BY <1>1, <1>3, <1>7, <1>8, <1>9

\* raft_log_truncate_after keeps what is not after k.
LEMMA TruncateAfterIs ==
  ASSUME NEW l \in LogType, NEW k \in Int, k >= l.base
  PROVE  LET x == TruncateAfter(l, k)
         IN /\ x \in LogType /\ x.base = l.base
            /\ LastIndex(x) = IF k >= LastIndex(l) THEN LastIndex(l) ELSE k
            /\ Indexes(x) = {j \in Indexes(l) : j <= k}
            /\ \A j \in Indexes(x) : At(x, j) = At(l, j)
<1>1. PICK x : x = TruncateAfter(l, k)
  OBVIOUS
<1>2. l.base \in Nat /\ LastIndex(l) \in Nat /\ l.base <= LastIndex(l)
  BY IndexesType
<1>3. x \in LogType /\ x.base = l.base
  BY <1>1, TruncateAfterType
<1>4. CASE k >= LastIndex(l)
  BY <1>1, <1>2, <1>3, <1>4 DEF TruncateAfter, Indexes
<1>5. CASE ~(k >= LastIndex(l))
  <2>1. x = [base |-> l.base, entries |-> SubSeq(l.entries, 1, k - l.base)]
    BY <1>1, <1>5 DEF TruncateAfter
  <2>2. l.entries \in Seq(Entry) /\ Len(l.entries) \in Nat /\ LastIndex(l) = l.base + Len(l.entries)
    BY DEF LogType, LastIndex
  <2>3. k - l.base \in Nat /\ k - l.base <= Len(l.entries)
    BY <1>2, <1>5, <2>2
  <2>4. /\ Len(x.entries) = k - l.base
        /\ \A i \in 1 .. k - l.base : x.entries[i] = l.entries[i]
    BY <2>1, <2>2, <2>3
  <2>5. LastIndex(x) = k
    BY <1>2, <1>3, <2>4 DEF LastIndex
  <2>6. Indexes(x) = {j \in Indexes(l) : j <= k}
    BY <1>2, <1>3, <1>5, <2>5 DEF Indexes
  <2>7. ASSUME NEW j \in Indexes(x) PROVE At(x, j) = At(l, j)
    <3>1. j - l.base \in 1 .. k - l.base
      BY <1>2, <1>3, <2>5 DEF Indexes
    <3> QED
      BY <1>3, <2>4, <3>1 DEF At
  <2> QED
    BY <1>1, <1>3, <1>5, <2>5, <2>6, <2>7
<1> QED
  BY <1>4, <1>5

\* raft_log_truncate_before keeps what is after k.
LEMMA TruncateBeforeIs ==
  ASSUME NEW l \in LogType, NEW k \in Nat, l.base <= k
  PROVE  LET x == TruncateBefore(l, k)
         IN /\ x \in LogType /\ x.base = k
            /\ k <= LastIndex(l) => LastIndex(x) = LastIndex(l)
            /\ Indexes(x) = {j \in Indexes(l) : j > k}
            /\ \A j \in Indexes(x) : At(x, j) = At(l, j)
<1>1. PICK x : x = TruncateBefore(l, k)
  OBVIOUS
<1>2. l.base \in Nat /\ LastIndex(l) \in Nat /\ l.base <= LastIndex(l)
  BY IndexesType
<1>3. x \in LogType /\ x.base = k
  BY <1>1, TruncateBeforeType
<1>4. l.entries \in Seq(Entry) /\ Len(l.entries) \in Nat /\ LastIndex(l) = l.base + Len(l.entries)
      /\ (l.entries = <<>> => Len(l.entries) = 0)
  BY DEF LogType, LastIndex
<1>5. CASE l.entries = <<>> \/ k >= LastIndex(l)
  <2>1. x = EmptyLog(k)
    BY <1>1, <1>5 DEF TruncateBefore
  <2>2. LastIndex(x) = k /\ Indexes(x) = {}
    BY <2>1, EmptyLogIs
  <2>3. {j \in Indexes(l) : j > k} = {}
    BY <1>2, <1>4, <1>5 DEF Indexes
  <2>4. k <= LastIndex(l) => LastIndex(l) = k
    BY <1>2, <1>4, <1>5
  <2> QED
    BY <1>1, <1>3, <2>2, <2>3, <2>4
<1>6. CASE ~(l.entries = <<>> \/ k >= LastIndex(l)) /\ k <= l.base
  <2>1. x = l /\ k = l.base
    BY <1>1, <1>2, <1>6 DEF TruncateBefore
  <2>2. {j \in Indexes(l) : j > k} = Indexes(l)
    BY <1>2, <2>1 DEF Indexes
  <2> QED
    BY <1>1, <1>3, <2>1, <2>2
<1>7. CASE ~(l.entries = <<>> \/ k >= LastIndex(l)) /\ ~(k <= l.base)
  <2> DEFINE a == k - l.base + 1
             n == Len(l.entries)
  <2>1. x = [base |-> k, entries |-> SubSeq(l.entries, a, n)]
    BY <1>1, <1>7 DEF TruncateBefore
  <2>2. a \in 1 .. n /\ n \in Nat /\ a \in Nat
    BY <1>2, <1>4, <1>7
  <2>3. /\ Len(x.entries) = n - a + 1
        /\ \A i \in 1 .. n - a + 1 : x.entries[i] = l.entries[a + i - 1]
    <3> HIDE DEF a, n
    <3>1. \A i \in a .. n : l.entries[i] \in Entry
      <4>1. \A i \in a .. n : i \in 1 .. Len(l.entries)
        BY <2>2 DEF n
      <4> QED
        BY <1>4, <4>1
    <3>2. x.entries = SubSeq(l.entries, a, n) /\ a <= n
      BY <2>1, <2>2
    <3> QED
      BY <2>2, <3>1, <3>2, SubSeqProperties
  <2>4. LastIndex(x) = LastIndex(l)
    BY <1>2, <1>3, <1>4, <2>3 DEF LastIndex
  <2>5. Indexes(x) = {j \in Indexes(l) : j > k}
    BY <1>2, <1>3, <1>7, <2>4 DEF Indexes
  <2>6. ASSUME NEW j \in Indexes(x) PROVE At(x, j) = At(l, j)
    <3>1. j - k \in 1 .. n - a + 1 /\ a + (j - k) - 1 = j - l.base
      BY <1>2, <1>3, <1>4, <2>4 DEF Indexes
    <3>2. x.entries[j - k] = l.entries[j - l.base]
      BY <2>3, <3>1
    <3> QED
      BY <1>3, <3>2 DEF At
  <2> QED
    BY <1>1, <1>3, <2>4, <2>5, <2>6
<1> QED
  BY <1>5, <1>6, <1>7

\* Where it stops: at the end of the log, or when it has copied what it may.
LEMMA CopyEnd ==
  ASSUME NEW a \in Nat, NEW n \in Nat, NEW max \in Nat, NEW b, a <= n, a >= 1,
         b = IF a + max - 1 < n THEN a + max - 1 ELSE n
  PROVE  b \in Int /\ b <= n /\ b - a + 1 \in Nat /\ b - a + 1 <= max /\ (max >= n - a + 1 => b = n)
  OBVIOUS

\* raft_log_copy_range copies consecutive entries, and all there are if it may.
LEMMA CopyRangeIs ==
  ASSUME NEW l \in LogType, NEW k \in Nat, NEW max \in Nat
  PROVE  LET es == CopyRange(l, k, max)
         IN /\ es \in Seq(Entry) /\ Len(es) \in Nat /\ Len(es) <= max
            /\ \A j \in 1 .. Len(es) : k + j - 1 \in Indexes(l) /\ es[j] = At(l, k + j - 1)
            /\ k \notin Indexes(l) => es = <<>>
            /\ k \in Indexes(l) /\ max >= LastIndex(l) - k + 1 => k + Len(es) - 1 = LastIndex(l)
<1>1. PICK es : es = CopyRange(l, k, max)
  OBVIOUS
<1>2. l.base \in Nat /\ LastIndex(l) \in Nat /\ l.base <= LastIndex(l) /\ (Holds(l, k) <=> k \in Indexes(l))
  BY IndexesType
<1>3. l.entries \in Seq(Entry) /\ Len(l.entries) \in Nat /\ LastIndex(l) = l.base + Len(l.entries)
  BY DEF LogType, LastIndex
<1>4. CASE k \notin Indexes(l)
  <2>1. es = <<>>
    BY <1>1, <1>2, <1>4 DEF CopyRange
  <2>2. es \in Seq(Entry) /\ Len(es) = 0
    BY <2>1
  <2> QED
    BY <1>1, <1>4, <2>1, <2>2
<1>5. CASE k \in Indexes(l)
  <2>1. PICK n \in Nat, c \in Nat : n = Len(l.entries) /\ c = l.base
    BY <1>2, <1>3
  <2>2. k >= c + 1 /\ k <= c + n /\ LastIndex(l) = c + n
    BY <1>2, <1>3, <1>5, <2>1 DEF Indexes
  <2>3. PICK a \in Nat : a = k - c
    BY <2>2
  <2>4. a >= 1 /\ a <= n /\ k = a + c
    BY <2>2, <2>3
  <2>5. PICK b : b = IF a + max - 1 < n THEN a + max - 1 ELSE n
    OBVIOUS
  <2>6. /\ b \in Int /\ b <= n /\ b - a + 1 \in Nat /\ b - a + 1 <= max
        /\ max >= n - a + 1 => b = n
    BY <2>4, <2>5, CopyEnd
  <2>7. es = SubSeq(l.entries, a, b)
    BY <1>1, <1>2, <1>5, <2>1, <2>3, <2>5 DEF CopyRange
  <2>8. \A i \in a .. b : l.entries[i] \in Entry
    <3>1. \A i \in a .. b : i \in 1 .. n
      BY <2>4, <2>6
    <3> QED
      BY <1>3, <2>1, <3>1
  <2>9. /\ es \in Seq(Entry) /\ Len(es) = IF a <= b THEN b - a + 1 ELSE 0
        /\ \A i \in 1 .. b - a + 1 : es[i] = l.entries[a + i - 1]
    BY <2>6, <2>7, <2>8, SubSeqProperties
  <2>10. Len(es) = b - a + 1
    BY <2>6, <2>9
  <2>11. ASSUME NEW j \in 1 .. Len(es)
         PROVE  k + j - 1 \in Indexes(l) /\ es[j] = At(l, k + j - 1)
    <3>1. j \in 1 .. b - a + 1 /\ j \in Nat
      BY <2>6, <2>10
    <3>2. PICK i \in Nat : i = k + j - 1
      BY <2>4, <3>1
    <3>3. i - c = a + j - 1 /\ i \in c + 1 .. c + n
      BY <2>4, <2>6, <3>1, <3>2
    <3>4. es[j] = l.entries[i - l.base]
      BY <2>1, <2>9, <3>1, <3>3
    <3>5. i \in Indexes(l)
      BY <2>1, <2>2, <3>3 DEF Indexes
    <3> QED
      BY <3>2, <3>4, <3>5 DEF At
  <2>12. max >= LastIndex(l) - k + 1 => k + Len(es) - 1 = LastIndex(l)
    BY <2>2, <2>4, <2>6, <2>10
  <2> QED
    BY <1>1, <1>5, <2>6, <2>9, <2>10, <2>11, <2>12
<1> QED
  BY <1>4, <1>5

-----------------------------------------------------------------------------
(***************************************************************************)
(* Rules 3 and 4, entry by entry.                                          *)
(***************************************************************************)
\* An entry for an index of the log, or for the one after it.
LEMMA StoredOneIs ==
  ASSUME NEW l \in LogType, NEW k \in Nat, NEW e \in Entry, l.base < k, k <= LastIndex(l) + 1
  PROVE  LET x == StoredOne(l, k, e)
             same == k \in Indexes(l) /\ At(l, k).term = e.term
         IN /\ same => x = l
            /\ ~same => /\ x \in LogType /\ x.base = l.base /\ LastIndex(x) = k
                        /\ k \in Indexes(x) /\ At(x, k) = e
                        /\ \A j \in Indexes(x) : j < k => j \in Indexes(l) /\ At(x, j) = At(l, j)
<1>1. PICK x : x = StoredOne(l, k, e)
  OBVIOUS
<1>2. l.base \in Nat /\ LastIndex(l) \in Nat /\ l.base <= LastIndex(l) /\ (Holds(l, k) <=> k \in Indexes(l))
  BY IndexesType
<1>3. ASSUME k \in Indexes(l) /\ At(l, k).term = e.term PROVE x = l
  BY <1>1, <1>2, <1>3 DEF StoredOne
<1>4. ASSUME ~(k \in Indexes(l) /\ At(l, k).term = e.term)
      PROVE  /\ x \in LogType /\ x.base = l.base /\ LastIndex(x) = k
             /\ k \in Indexes(x) /\ At(x, k) = e
             /\ \A j \in Indexes(x) : j < k => j \in Indexes(l) /\ At(x, j) = At(l, j)
  <2>1. PICK y : y = IF k \in Indexes(l) THEN TruncateAfter(l, k - 1) ELSE l
    OBVIOUS
  <2>2. x = Extend(y, <<e>>)
    BY <1>1, <1>2, <1>4, <2>1 DEF StoredOne
  <2>3. /\ y \in LogType /\ y.base = l.base /\ LastIndex(y) = k - 1
        /\ \A j \in Indexes(y) : j \in Indexes(l) /\ At(y, j) = At(l, j)
    <3>1. CASE k \in Indexes(l)
      <4>1. k - 1 \in Int /\ k - 1 >= l.base /\ ~(k - 1 >= LastIndex(l))
        BY <1>2, <3>1, IndexesType
      <4> QED
        BY <2>1, <3>1, <4>1, TruncateAfterIs
    <3>2. CASE k \notin Indexes(l)
      <4>1. k - 1 = LastIndex(l)
        BY <1>2, <3>2 DEF Indexes
      <4> QED
        BY <2>1, <3>2, <4>1
    <3> QED
      BY <3>1, <3>2
  <2>4. LastIndex(y) + 1 = k
    BY <2>3
  <2>5. /\ x \in LogType /\ x.base = y.base /\ LastIndex(x) = k
        /\ \A j \in Indexes(y) : j \in Indexes(x) /\ At(x, j) = At(y, j)
        /\ k \in Indexes(x) /\ At(x, k) = e
        /\ \A j \in Indexes(x) : j \in Indexes(y) \/ j = k
    BY <2>2, <2>3, <2>4, ExtendIs
  <2>6. \A j \in Indexes(x) : j < k => j \in Indexes(y)
    BY <2>5
  <2> QED
    BY <2>3, <2>5, <2>6
<1> QED
  BY <1>1, <1>3, <1>4

\* What comes of log l when the first n entries of es are stored after prev: l
\* itself when it has them, else what it has before the first that is missing
\* or of another term, and es from there.
Overwritten(l, prev, es, n, x) ==
  \/ /\ x = l /\ prev + n <= LastIndex(l)
     /\ \A i \in 1 .. n : At(l, prev + i).term = es[i].term
  \/ \E c \in 1 .. n :
       /\ x \in LogType /\ x.base = l.base /\ LastIndex(x) = prev + n
       /\ prev + c <= LastIndex(l) + 1
       /\ \A i \in 1 .. c - 1 : At(l, prev + i).term = es[i].term
       /\ prev + c \in Indexes(l) => At(l, prev + c).term # es[c].term
       /\ \A j \in Indexes(x) : j < prev + c => j \in Indexes(l) /\ At(x, j) = At(l, j)
       /\ \A i \in c .. n : At(x, prev + i) = es[i]

\* One more entry.
LEMMA OverwrittenStep ==
  ASSUME NEW l \in LogType, NEW prev \in Nat, NEW es \in Seq(Entry), NEW n \in 1 .. Len(es),
         l.base <= prev, NEW y, y \in LogType, y.base = l.base, Overwritten(l, prev, es, n - 1, y)
  PROVE  Overwritten(l, prev, es, n, StoredOne(y, prev + n, es[n]))
<1>1. PICK x, k : x = StoredOne(y, k, es[n]) /\ k = prev + n
  OBVIOUS
<1>2. n \in Nat /\ n >= 1 /\ k \in Nat /\ es[n] \in Entry /\ l.base < k /\ k = prev + n
      /\ l.base \in Nat /\ LastIndex(l) \in Nat
  BY <1>1, IndexesType
<1>3. CASE /\ y = l /\ prev + (n - 1) <= LastIndex(l)
           /\ \A i \in 1 .. n - 1 : At(l, prev + i).term = es[i].term
  <2>1. k <= LastIndex(l) + 1
    BY <1>2, <1>3
  <2>2. CASE k \in Indexes(l) /\ At(l, k).term = es[n].term
    <3>1. x = l
      BY <1>1, <1>2, <1>3, <2>1, <2>2, StoredOneIs
    <3>2. k <= LastIndex(l)
      BY <2>2, IndexesType
    <3>3. \A i \in 1 .. n : At(l, prev + i).term = es[i].term
      <4>1. \A i \in 1 .. n : i \in 1 .. n - 1 \/ i = n
        BY <1>2
      <4> QED
        BY <1>2, <1>3, <2>2, <4>1
    <3> QED
      BY <1>1, <1>2, <3>1, <3>2, <3>3 DEF Overwritten
  <2>3. CASE ~(k \in Indexes(l) /\ At(l, k).term = es[n].term)
    <3>1. /\ x \in LogType /\ x.base = l.base /\ LastIndex(x) = k
          /\ k \in Indexes(x) /\ At(x, k) = es[n]
          /\ \A j \in Indexes(x) : j < k => j \in Indexes(l) /\ At(x, j) = At(l, j)
      BY <1>1, <1>2, <1>3, <2>1, <2>3, StoredOneIs
    <3>2. \A i \in n .. n : At(x, prev + i) = es[i]
      <4>1. \A i \in n .. n : i = n
        BY <1>2
      <4> QED
        BY <1>2, <3>1, <4>1
    <3>3. n \in 1 .. n
      BY <1>2
    <3>4. \E c \in 1 .. n :
            /\ x \in LogType /\ x.base = l.base /\ LastIndex(x) = prev + n
            /\ prev + c <= LastIndex(l) + 1
            /\ \A i \in 1 .. c - 1 : At(l, prev + i).term = es[i].term
            /\ prev + c \in Indexes(l) => At(l, prev + c).term # es[c].term
            /\ \A j \in Indexes(x) : j < prev + c => j \in Indexes(l) /\ At(x, j) = At(l, j)
            /\ \A i \in c .. n : At(x, prev + i) = es[i]
      BY <1>2, <1>3, <2>1, <2>3, <3>1, <3>2, <3>3
    <3> QED
      BY <1>1, <3>4 DEF Overwritten
  <2> QED
    BY <2>2, <2>3
<1>4. ASSUME NEW c \in 1 .. n - 1,
             /\ LastIndex(y) = prev + (n - 1)
             /\ prev + c <= LastIndex(l) + 1
             /\ \A i \in 1 .. c - 1 : At(l, prev + i).term = es[i].term
             /\ prev + c \in Indexes(l) => At(l, prev + c).term # es[c].term
             /\ \A j \in Indexes(y) : j < prev + c => j \in Indexes(l) /\ At(y, j) = At(l, j)
             /\ \A i \in c .. n - 1 : At(y, prev + i) = es[i]
      PROVE  Overwritten(l, prev, es, n, x)
  <2>1. LastIndex(y) + 1 = k /\ k \notin Indexes(y) /\ y.base < k /\ c \in 1 .. n /\ prev + c < k
    BY <1>2, <1>4, IndexesType
  <2>2. k <= LastIndex(y) + 1
    BY <1>2, <2>1
  <2>3. /\ x \in LogType /\ x.base = l.base /\ LastIndex(x) = k
        /\ k \in Indexes(x) /\ At(x, k) = es[n]
        /\ \A j \in Indexes(x) : j < k => j \in Indexes(y) /\ At(x, j) = At(y, j)
    BY <1>1, <1>2, <2>1, <2>2, StoredOneIs
  <2>4. ASSUME NEW j \in Indexes(x), j < prev + c PROVE j \in Indexes(l) /\ At(x, j) = At(l, j)
    <3>1. j < k /\ j \in Nat
      BY <1>2, <2>1, <2>3, <2>4, IndexesType
    <3> QED
      BY <1>4, <2>3, <2>4, <3>1
  <2>5. ASSUME NEW i \in c .. n PROVE At(x, prev + i) = es[i]
    <3>1. CASE i = n
      BY <1>2, <2>3, <3>1
    <3>2. CASE i # n
      <4>1. PICK j \in Nat : j = prev + i
        BY <1>2
      <4>2. i \in c .. n - 1 /\ j < k /\ j >= x.base + 1 /\ j <= LastIndex(x)
        BY <1>2, <1>4, <2>3, <3>2, <4>1
      <4>3. j \in Indexes(x)
        <5>1. x.base \in Nat /\ LastIndex(x) \in Nat
          BY <2>3, IndexesType
        <5> QED
          BY <4>2, <5>1 DEF Indexes
      <4>4. At(x, j) = At(y, j)
        BY <2>3, <4>2, <4>3
      <4> QED
        BY <1>4, <4>1, <4>2, <4>4
    <3> QED
      BY <3>1, <3>2
  <2> QED
    BY <1>2, <1>4, <2>1, <2>3, <2>4, <2>5 DEF Overwritten
<1> QED
  BY <1>1, <1>3, <1>4 DEF Overwritten

\* The whole loop.
LEMMA StoredIs ==
  ASSUME NEW l \in LogType, NEW prev \in Nat, NEW es \in Seq(Entry),
         l.base <= prev, prev <= LastIndex(l)
  PROVE  Overwritten(l, prev, es, Len(es), Stored(l, prev, es))
<1> DEFINE Runs(f) == f = [n \in 0 .. Len(es) |->
                             IF n = 0 THEN l ELSE StoredOne(f[n - 1], prev + n, es[n])]
           upTo == CHOOSE f : Runs(f)
           Right(n) == /\ upTo[n] \in LogType /\ upTo[n].base = l.base
                       /\ Overwritten(l, prev, es, n, upTo[n])
           Wrong == {n \in 0 .. Len(es) : ~Right(n)}
<1>1. Len(es) \in Nat
  OBVIOUS
<1>2. Stored(l, prev, es) = upTo[Len(es)]
  BY DEF Stored
<1>3. Runs(upTo)
  <2>1. \E f : Runs(f)
    BY StoredRuns
  <2> HIDE DEF Runs
  <2> QED
    BY <2>1
<1>4. \A n \in 0 .. Len(es) :
        upTo[n] = IF n = 0 THEN l ELSE StoredOne(upTo[n - 1], prev + n, es[n])
  <2> HIDE DEF upTo
  <2> QED
    BY <1>3
<1> HIDE DEF upTo
<1>5. Wrong = {}
  <2>1. SUFFICES ASSUME Wrong # {} PROVE FALSE
    OBVIOUS
  <2>2. PICK n \in Wrong : \A k \in Wrong : n <= k
    <3>1. Wrong \in SUBSET Nat
      BY <1>1
    <3> HIDE DEF Wrong
    <3> QED BY <2>1, <3>1, LeastElement
  <2>3. n \in 0 .. Len(es) /\ n \in Nat /\ ~Right(n)
    BY <1>1
  <2>4. n # 0
    <3>1. 0 \in 0 .. Len(es)
      BY <1>1
    <3>2. upTo[0] = l
      BY <1>4, <3>1
    <3>3. LastIndex(l) \in Nat /\ prev + 0 <= LastIndex(l) /\ 1 .. 0 = {}
      BY IndexesType
    <3>4. Overwritten(l, prev, es, 0, l)
      BY <3>3 DEF Overwritten
    <3> QED
      BY <2>3, <3>2, <3>4
  <2>5. n - 1 \in 0 .. Len(es) /\ ~(n <= n - 1) /\ n \in 1 .. Len(es) /\ prev + n \in Nat
    BY <1>1, <2>3, <2>4
  <2>6. Right(n - 1)
    <3>1. n - 1 \notin Wrong
      <4> HIDE DEF Wrong
      <4> QED BY <2>2, <2>5
    <3> HIDE DEF Right
    <3> QED
      BY <2>5, <3>1
  <2>7. upTo[n] = StoredOne(upTo[n - 1], prev + n, es[n])
    BY <1>4, <2>3, <2>4
  <2>8. es[n] \in Entry
    BY <2>5
  <2>9. PICK y : y = upTo[n - 1]
    OBVIOUS
  <2>10. y \in LogType /\ y.base = l.base /\ Overwritten(l, prev, es, n - 1, y)
    BY <2>6, <2>9
  <2>11. upTo[n] = StoredOne(y, prev + n, es[n])
    BY <2>7, <2>9
  <2>12. Right(n)
    <3> HIDE DEF Wrong
    <3>1. StoredOne(y, prev + n, es[n]) \in LogType /\ StoredOne(y, prev + n, es[n]).base = l.base
      BY <2>5, <2>8, <2>10, StoredOneType
    <3>2. Overwritten(l, prev, es, n, StoredOne(y, prev + n, es[n]))
      BY <2>5, <2>10, OverwrittenStep
    <3> QED
      BY <2>11, <3>1, <3>2
  <2> QED
    BY <2>3, <2>12
<1>6. Len(es) \in 0 .. Len(es)
  BY <1>1
<1> QED
  BY <1>2, <1>5, <1>6

-----------------------------------------------------------------------------
(***************************************************************************)
(* A history: the entries the leader was elected with, those it compacted  *)
(* included, and those it appended since.  Machines and snapshots are to   *)
(* be prefixes of it, and logs match it as Raft's logs match each other.   *)
(***************************************************************************)
Prefix(m, h) == Len(m) <= Len(h) /\ \A k \in 1 .. Len(m) : m[k] = h[k]

TermIn(h, k) == IF k = 0 THEN 0 ELSE h[k].term

MarkAgrees(s, h) == s.index <= Len(h) /\ s.term = TermIn(h, s.index)
SnapshotAgrees(s, h) ==
  s.index = Len(s.machine) /\ Prefix(s.machine, h) /\ s.term = TermIn(h, s.index)

\* Log matching: where a term is the same, so are the entries up to there.
Matches(l, h) ==
  \A k \in Indexes(l) : k <= Len(h) /\ At(l, k).term = h[k].term =>
    \A j \in Indexes(l) : j <= k => At(l, j) = h[j]

\* Entries of the leader's term come from the leader.
OwnTerm(l, h) == \A k \in Indexes(l) : At(l, k).term = Term => k <= Len(h)

\* Entries that a node has committed or applied.
Known(nd, h) ==
  \A k \in Indexes(nd.log) : k <= nd.commit_index \/ k <= nd.last_applied =>
    k <= Len(h) /\ At(nd.log, k) = h[k]

\* A part of a log matches what the log matches.
LEMMA PartMatches ==
  ASSUME NEW l, NEW x, NEW h, Matches(l, h), OwnTerm(l, h),
         \A k \in Indexes(x) : k \in Indexes(l) /\ At(x, k) = At(l, k)
  PROVE  Matches(x, h) /\ OwnTerm(x, h)
<1>1. Matches(x, h)
  BY DEF Matches
<1>2. OwnTerm(x, h)
  BY DEF OwnTerm
<1> QED
  BY <1>1, <1>2

\* What a log that matches the history becomes when a part of the history is
\* stored in it: it has that part then, and keeps what it had of the history.
LEMMA OverwrittenAgrees ==
  ASSUME NEW h \in Seq(Entry), NEW l \in LogType, NEW prev \in Nat, NEW es \in Seq(Entry),
         NEW n \in Nat, n <= Len(es), NEW x, x \in LogType, x.base = l.base,
         Overwritten(l, prev, es, n, x),
         Matches(l, h), l.base <= prev, prev <= LastIndex(l),
         \A j \in Indexes(l) : j <= prev => At(l, j) = h[j],
         prev + n <= Len(h), \A i \in 1 .. n : es[i] = h[prev + i]
  PROVE  /\ \A j \in Indexes(x) : j <= prev + n => At(x, j) = h[j]
         /\ prev + n <= LastIndex(x) /\ (x = l \/ LastIndex(x) = prev + n)
         /\ \A k \in Indexes(l) : k <= Len(h) /\ At(l, k) = h[k] => k \in Indexes(x) /\ At(x, k) = h[k]
<1>1. /\ l.base \in Nat /\ LastIndex(l) \in Nat /\ LastIndex(x) \in Nat /\ Len(h) \in Nat
      /\ \A k \in Indexes(l) : k \in Nat /\ k > l.base /\ k <= LastIndex(l)
      /\ \A k \in Indexes(x) : k \in Nat /\ k > l.base /\ k <= LastIndex(x)
  BY IndexesType
<1>2. \A k \in Nat : k > l.base /\ k <= LastIndex(l) => k \in Indexes(l)
  BY <1>1 DEF Indexes
<1>3. \A k \in Nat : k > l.base /\ k <= LastIndex(x) => k \in Indexes(x)
  BY <1>1 DEF Indexes
<1>4. ASSUME NEW m \in 0 .. n, prev + m <= LastIndex(l), m > 0 => At(l, prev + m).term = es[m].term,
             NEW j \in Indexes(l), j <= prev + m
      PROVE  At(l, j) = h[j]
  <2>1. CASE m = 0
    BY <1>1, <1>4, <2>1
  <2>2. CASE m > 0
    <3>1. PICK k \in Nat : k = prev + m
      BY <2>2
    <3>2. k \in Indexes(l) /\ k <= Len(h) /\ es[m] = h[k]
      BY <1>1, <1>2, <1>4, <2>2, <3>1
    <3> QED
      BY <1>4, <2>2, <3>1, <3>2 DEF Matches
  <2> QED
    BY <2>1, <2>2
<1>5. CASE /\ x = l /\ prev + n <= LastIndex(l)
           /\ \A i \in 1 .. n : At(l, prev + i).term = es[i].term
  <2>1. n \in 0 .. n /\ (n > 0 => n \in 1 .. n)
    OBVIOUS
  <2>2. \A j \in Indexes(x) : j <= prev + n => At(x, j) = h[j]
    BY <1>4, <1>5, <2>1
  <2> QED
    BY <1>5, <2>2
<1>6. ASSUME NEW c \in 1 .. n,
             /\ LastIndex(x) = prev + n
             /\ prev + c <= LastIndex(l) + 1
             /\ \A i \in 1 .. c - 1 : At(l, prev + i).term = es[i].term
             /\ prev + c \in Indexes(l) => At(l, prev + c).term # es[c].term
             /\ \A j \in Indexes(x) : j < prev + c => j \in Indexes(l) /\ At(x, j) = At(l, j)
             /\ \A i \in c .. n : At(x, prev + i) = es[i]
      PROVE  /\ \A j \in Indexes(x) : j <= prev + n => At(x, j) = h[j]
             /\ \A k \in Indexes(l) : k <= Len(h) /\ At(l, k) = h[k] => k \in Indexes(x) /\ At(x, k) = h[k]
  <2>1. ASSUME NEW j \in Indexes(x), j < prev + c PROVE At(x, j) = h[j]
    <3>1. c - 1 \in 0 .. n /\ prev + (c - 1) <= LastIndex(l) /\ (c - 1 > 0 => c - 1 \in 1 .. c - 1)
      BY <1>1, <1>6, SMTT(30)
    <3>2. j \in Indexes(l) /\ At(x, j) = At(l, j) /\ j <= prev + (c - 1)
      BY <1>1, <1>6, <2>1
    <3>3. c - 1 > 0 => At(l, prev + (c - 1)).term = es[c - 1].term
      BY <1>6, <3>1
    <3> QED
      BY <1>4, <3>1, <3>2, <3>3
  <2>2. ASSUME NEW j \in Indexes(x), ~(j < prev + c) PROVE At(x, j) = h[j]
    <3>1. PICK i \in Nat : i = j - prev
      BY <1>1, <2>2
    <3>2. i \in c .. n /\ i \in 1 .. n /\ j = prev + i
      BY <1>1, <1>6, <2>2, <3>1
    <3> QED
      BY <1>6, <3>2
  <2>3. ASSUME NEW k \in Indexes(l), k <= Len(h), At(l, k) = h[k]
        PROVE  k \in Indexes(x) /\ At(x, k) = h[k]
    <3>1. k < prev + c
      <4>1. SUFFICES ASSUME prev + c <= k PROVE FALSE
        BY <1>1
      <4>2. PICK d \in Nat : d = prev + c
        OBVIOUS
      <4>3. d \in Indexes(l) /\ es[c] = h[d]
        <5>1. es[c] = h[prev + c]
          OBVIOUS
        <5>2. l.base < d /\ d <= LastIndex(l)
          BY <1>1, <4>1, <4>2
        <5> QED
          BY <1>2, <4>2, <5>1, <5>2
      <4>4. At(l, d) = h[d]
        BY <2>3, <4>1, <4>2, <4>3 DEF Matches
      <4>5. prev + c \in Indexes(l)
        BY <4>2, <4>3
      <4>6. At(l, prev + c).term # es[c].term
        BY <1>6, <4>5
      <4> QED
        BY <4>2, <4>3, <4>4, <4>6, Zenon
    <3>2. k \in Indexes(x)
      BY <1>1, <1>3, <1>6, <3>1
    <3> QED
      BY <1>6, <2>3, <3>1, <3>2
  <2> QED
    BY <2>1, <2>2, <2>3
<1> QED
  <2>1. CASE /\ x = l /\ prev + n <= LastIndex(l)
             /\ \A i \in 1 .. n : At(l, prev + i).term = es[i].term
    <3>1. \A j \in Indexes(x) : j <= prev + n => At(x, j) = h[j]
      BY <1>5, <2>1
    <3> QED
      BY <2>1, <3>1
  <2>2. CASE \E c \in 1 .. n :
               /\ x \in LogType /\ x.base = l.base /\ LastIndex(x) = prev + n
               /\ prev + c <= LastIndex(l) + 1
               /\ \A i \in 1 .. c - 1 : At(l, prev + i).term = es[i].term
               /\ prev + c \in Indexes(l) => At(l, prev + c).term # es[c].term
               /\ \A j \in Indexes(x) : j < prev + c => j \in Indexes(l) /\ At(x, j) = At(l, j)
               /\ \A i \in c .. n : At(x, prev + i) = es[i]
    <3>1. LastIndex(x) = prev + n /\ prev + n <= LastIndex(x)
      BY <2>2
    <3> QED
      BY <1>6, <2>2, <3>1
  <2> QED
    BY <2>1, <2>2 DEF Overwritten

\* The same log, for the parts of the invariant.
LEMMA OverwrittenMatches ==
  ASSUME NEW h \in Seq(Entry), NEW l \in LogType, NEW x \in LogType, NEW upTo \in Nat, upTo <= Len(h),
         Matches(l, h), OwnTerm(l, h),
         \A j \in Indexes(x) : j <= upTo => At(x, j) = h[j],
         x = l \/ LastIndex(x) = upTo
  PROVE  Matches(x, h) /\ OwnTerm(x, h)
<1>1. CASE x = l
  BY <1>1
<1>2. CASE LastIndex(x) = upTo
  <2>1. \A k \in Indexes(x) : k <= upTo /\ k <= Len(h) /\ At(x, k) = h[k]
    BY <1>2, IndexesType
  <2> QED
    BY <2>1 DEF Matches, OwnTerm
<1> QED
  BY <1>1, <1>2

-----------------------------------------------------------------------------
\* Entries are in place when each says the index it is held at.
InPlace(l) == \A k \in Indexes(l) : At(l, k).data = k

\* Storing entries that are in place leaves a log in place.
LEMMA OverwrittenInPlace ==
  ASSUME NEW l \in LogType, NEW prev \in Nat, NEW es \in Seq(Entry), NEW n \in Nat, n <= Len(es),
         NEW x, x \in LogType, x.base = l.base, Overwritten(l, prev, es, n, x),
         InPlace(l), l.base <= prev, \A i \in 1 .. n : es[i].data = prev + i
  PROVE  InPlace(x)
<1>1. CASE x = l
  BY <1>1
<1>2. ASSUME NEW c \in 1 .. n,
             /\ LastIndex(x) = prev + n
             /\ \A j \in Indexes(x) : j < prev + c => j \in Indexes(l) /\ At(x, j) = At(l, j)
             /\ \A i \in c .. n : At(x, prev + i) = es[i]
      PROVE  InPlace(x)
  <2>1. ASSUME NEW j \in Indexes(x) PROVE At(x, j).data = j
    <3>1. j \in Nat /\ j <= prev + n
      BY <1>2, IndexesType
    <3>2. CASE j < prev + c
      BY <1>2, <3>2 DEF InPlace
    <3>3. CASE ~(j < prev + c)
      <4>1. PICK i \in Nat : i = j - prev
        BY <3>1, <3>3
      <4>2. i \in c .. n /\ i \in 1 .. n /\ j = prev + i
        BY <1>2, <3>1, <3>3, <4>1
      <4> QED
        BY <1>2, <4>2
    <3> QED
      BY <3>2, <3>3
  <2> QED
    BY <2>1 DEF InPlace
<1> QED
  BY <1>1, <1>2 DEF Overwritten

-----------------------------------------------------------------------------
(***************************************************************************)
(* What ticks and raft_snapshot_create leave of a node.                    *)
(***************************************************************************)
\* A node agrees with history h.
NodeAgrees(nd, h) ==
  /\ nd.last_applied = Len(nd.machine) /\ Prefix(nd.machine, h)
  /\ MarkAgrees(nd.snapshot, h) /\ SnapshotAgrees(nd.stored, h)
  /\ nd.pending # None => SnapshotAgrees(nd.pending, h)
  /\ Matches(nd.log, h) /\ OwnTerm(nd.log, h) /\ Known(nd, h)

\* The program has stored the snapshot that the log was compacted to.
HasStored(nd) == nd.snapshot = MarkOf(nd.stored)

\* State machines are as large as the indexes kept with them say.
Sized(nd) ==
  /\ Len(nd.machine) = nd.last_applied /\ Len(nd.stored.machine) = nd.stored.index
  /\ nd.pending # None => Len(nd.pending.machine) = nd.pending.index

\* No entry changes, none goes that no snapshot covers, and what is applied
\* stays within what the log had.
Tended(n, nd, after) ==
  /\ after \in NodeType /\ Sane(n, after)
  /\ after.commit_index = nd.commit_index
  /\ nd.snapshot.index <= after.snapshot.index
  /\ \A k \in Indexes(after.log) : k \in Indexes(nd.log) /\ At(after.log, k) = At(nd.log, k)
  /\ \A k \in Indexes(nd.log) : k \in Indexes(after.log) \/ k <= after.snapshot.index
  /\ nd.last_applied <= LastIndex(nd.log) =>
       after.last_applied <= LastIndex(after.log) /\ LastIndex(after.log) = LastIndex(nd.log)
  /\ \A b \in Nat : LastIndex(nd.log) <= b /\ nd.last_applied <= b =>
       LastIndex(after.log) <= b /\ after.last_applied <= b
  /\ HasStored(nd) /\ <<n, "poll">> \notin Failing => HasStored(after)
  /\ Sized(nd) => Sized(after)
  /\ \A h \in Seq(Entry) : NodeAgrees(nd, h) => NodeAgrees(after, h)

\* Several steps of tending are one.
LEMMA TendedTransitive ==
  ASSUME NEW n, NEW nd \in NodeType, NEW mid, NEW after, Tended(n, nd, mid), Tended(n, mid, after)
  PROVE  Tended(n, nd, after)
<1>1. /\ nd.snapshot.index \in Nat /\ mid.snapshot.index \in Nat /\ after.snapshot.index \in Nat
      /\ mid \in NodeType /\ after \in NodeType
  BY NodeParts DEF Tended
<1>2. \A k \in Indexes(nd.log) : k \in Nat
  BY IndexesType, NodeParts
<1>3. nd.snapshot.index <= after.snapshot.index
  BY <1>1 DEF Tended
<1>4. \A k \in Indexes(nd.log) : k \in Indexes(after.log) \/ k <= after.snapshot.index
  <2>1. SUFFICES ASSUME NEW k \in Indexes(nd.log), k \notin Indexes(after.log)
                 PROVE  k <= after.snapshot.index
    OBVIOUS
  <2>2. CASE k \in Indexes(mid.log)
    BY <2>1, <2>2 DEF Tended
  <2>3. CASE k <= mid.snapshot.index
    BY <1>1, <1>2, <2>3 DEF Tended
  <2> QED
    BY <2>2, <2>3 DEF Tended
<1>5. \A k \in Indexes(after.log) : k \in Indexes(nd.log) /\ At(after.log, k) = At(nd.log, k)
  BY DEF Tended
<1>6. nd.last_applied <= LastIndex(nd.log) =>
        after.last_applied <= LastIndex(after.log) /\ LastIndex(after.log) = LastIndex(nd.log)
  BY DEF Tended
<1>7. \A b \in Nat : LastIndex(nd.log) <= b /\ nd.last_applied <= b =>
        LastIndex(after.log) <= b /\ after.last_applied <= b
  BY DEF Tended
<1>8. \A h \in Seq(Entry) : NodeAgrees(nd, h) => NodeAgrees(after, h)
  BY DEF Tended
<1>9. /\ HasStored(nd) /\ <<n, "poll">> \notin Failing => HasStored(after)
      /\ Sized(nd) => Sized(after)
  BY DEF Tended
<1> QED
  BY <1>3, <1>4, <1>5, <1>6, <1>7, <1>8, <1>9 DEF Tended

\* A node that is left as it is.
LEMMA TendedSame ==
  ASSUME NEW n, NEW nd \in NodeType, Sane(n, nd)
  PROVE  Tended(n, nd, nd)
<1>1. nd.snapshot.index \in Nat
  BY NodeParts
<1> QED
  BY <1>1 DEF Tended

\* raft_snapshot_finish, of a snapshot that is not behind the log, stored or not.
LEMMA FinishedTended ==
  ASSUME NEW n, NEW nd \in NodeType, Follows(nd), nd.pending # None,
         nd.log.base <= nd.pending.index, nd.pending.index <= nd.last_applied,
         NEW stored, stored = nd.pending \/ (stored = nd.stored /\ <<n, "poll">> \in Failing)
  PROVE  Tended(n, nd, Finished(nd, stored))
<1>1. /\ nd.log \in LogType /\ nd.pending \in Snapshot /\ nd.last_applied \in Nat
      /\ nd.pending.index \in Nat /\ nd.snapshot.index \in Nat /\ nd.log.base \in Nat
  BY NodeParts
<1>2. PICK l : l = TruncateBefore(nd.log, nd.pending.index)
  OBVIOUS
<1>3. /\ l \in LogType /\ l.base = nd.pending.index
      /\ nd.pending.index <= LastIndex(nd.log) => LastIndex(l) = LastIndex(nd.log)
      /\ Indexes(l) = {j \in Indexes(nd.log) : j > nd.pending.index}
      /\ \A j \in Indexes(l) : At(l, j) = At(nd.log, j)
  BY <1>1, <1>2, TruncateBeforeIs
<1>4. LastIndex(l) \in {LastIndex(nd.log), nd.pending.index}
  BY <1>1, <1>2, TruncateBeforeType
<1>5. PICK after : after = Finished(nd, stored)
  OBVIOUS
<1>6. /\ after \in NodeType /\ after.log = l
      /\ after.snapshot = MarkOf(nd.pending) /\ after.snapshot.index = nd.pending.index
      /\ after.stored = stored /\ after.pending = None
      /\ after.last_applied = nd.last_applied /\ after.commit_index = nd.commit_index
      /\ after.machine = nd.machine
  <2>1. stored \in Snapshot
    BY <1>1, NodeParts
  <2>2. /\ after \in NodeType /\ after.snapshot = MarkOf(nd.pending)
        /\ after.snapshot.index = nd.pending.index
    BY <1>1, <1>5, <2>1, FinishedType
  <2>3. /\ after.log = l /\ after.stored = stored /\ after.pending = None
        /\ after.last_applied = nd.last_applied /\ after.commit_index = nd.commit_index
        /\ after.machine = nd.machine
    BY <1>2, <1>5 DEF Finished, NodeType
  <2> QED
    BY <2>2, <2>3
<1>7. Sane(n, after)
  BY <1>3, <1>6 DEF Sane, Follows, Ready
<1>8. LastIndex(nd.log) \in Nat /\ \A j \in Indexes(nd.log) : j \in Nat
  BY <1>1, IndexesType
<1>9. nd.snapshot.index <= after.snapshot.index
  BY <1>6 DEF Follows
<1>10. \A k \in Indexes(after.log) : k \in Indexes(nd.log) /\ At(after.log, k) = At(nd.log, k)
  BY <1>3, <1>6
<1>11. \A k \in Indexes(nd.log) : k \in Indexes(after.log) \/ k <= after.snapshot.index
  BY <1>1, <1>3, <1>6, <1>8
<1>12. nd.last_applied <= LastIndex(nd.log) =>
         after.last_applied <= LastIndex(after.log) /\ LastIndex(after.log) = LastIndex(nd.log)
  BY <1>1, <1>3, <1>6, <1>8
<1>13. \A b \in Nat : LastIndex(nd.log) <= b /\ nd.last_applied <= b =>
         LastIndex(after.log) <= b /\ after.last_applied <= b
  BY <1>1, <1>4, <1>6, <1>8
<1>14. ASSUME NEW h \in Seq(Entry), NodeAgrees(nd, h) PROVE NodeAgrees(after, h)
  <2>1. Matches(after.log, h) /\ OwnTerm(after.log, h)
    BY <1>10, <1>14, PartMatches DEF NodeAgrees
  <2>2. Known(after, h)
    BY <1>6, <1>10, <1>14 DEF NodeAgrees, Known
  <2>3. SnapshotAgrees(nd.pending, h) /\ SnapshotAgrees(nd.stored, h)
    BY <1>14 DEF NodeAgrees
  <2>4. MarkAgrees(after.snapshot, h)
    BY <1>6, <2>3 DEF MarkAgrees, MarkOf, SnapshotAgrees, Prefix
  <2> QED
    BY <1>6, <1>14, <2>1, <2>2, <2>3, <2>4 DEF NodeAgrees
<1>15. /\ <<n, "poll">> \notin Failing => HasStored(after)
       /\ Sized(nd) => Sized(after)
  BY <1>6 DEF HasStored, Sized
<1> QED
  BY <1>5, <1>6, <1>7, <1>9, <1>10, <1>11, <1>12, <1>13, <1>14, <1>15 DEF Tended

\* The end of a list of entries that continues a machine.
LEMMA PrefixGrows ==
  ASSUME NEW h \in Seq(Entry), NEW m \in Machine, Prefix(m, h), NEW more \in Seq(Entry),
         Len(m) + Len(more) <= Len(h), \A j \in 1 .. Len(more) : more[j] = h[Len(m) + j]
  PROVE  /\ m \o more \in Machine /\ Len(m \o more) = Len(m) + Len(more)
         /\ Prefix(m \o more, h)
<1>1. m \in Seq(Entry \cup {None}) /\ more \in Seq(Entry \cup {None})
  BY DEF Machine
<1>2. m \o more \in Machine /\ Len(m \o more) = Len(m) + Len(more) /\ Len(m) \in Nat /\ Len(more) \in Nat
      /\ \A k \in 1 .. Len(m) + Len(more) :
           (m \o more)[k] = IF k <= Len(m) THEN m[k] ELSE more[k - Len(m)]
  BY <1>1 DEF Machine
<1>3. ASSUME NEW k \in 1 .. Len(m) + Len(more) PROVE (m \o more)[k] = h[k]
  <2>1. CASE k <= Len(m)
    BY <1>2, <2>1 DEF Prefix
  <2>2. CASE ~(k <= Len(m))
    <3>1. PICK a \in Nat, b \in Nat : a = Len(m) /\ b = Len(more)
      BY <1>2
    <3>2. k \in 1 .. a + b /\ k > a
      BY <2>2, <3>1
    <3>3. PICK j \in Nat : j = k - a
      BY <3>2
    <3>4. j \in 1 .. Len(more) /\ k = Len(m) + j
      BY <3>1, <3>2, <3>3
    <3>5. (m \o more)[k] = more[j]
      BY <1>2, <2>2, <3>1, <3>3
    <3> QED
      BY <3>4, <3>5
  <2> QED
    BY <2>1, <2>2
<1> QED
  BY <1>2, <1>3 DEF Prefix

\* The apply loop of raft_tick: what it applies is committed.
LEMMA AppliedTended ==
  ASSUME NEW n, NEW nd \in NodeType, Sane(n, nd)
  PROVE  Tended(n, nd, Applied(nd))
<1>1. CASE nd.commit_index <= nd.last_applied
  BY <1>1, TendedSame DEF Applied
<1>2. CASE ~(nd.commit_index <= nd.last_applied)
  <2>1. PICK a \in Nat, c \in Nat : a = nd.last_applied /\ c = nd.commit_index
    BY NodeParts
  <2>2. PICK k \in Nat, max \in Nat : k = a + 1 /\ max = c - a
    BY <1>2, <2>1
  <2>3. PICK more : more = CopyRange(nd.log, k, max)
    OBVIOUS
  <2>4. nd.log \in LogType /\ nd.machine \in Machine /\ LastIndex(nd.log) \in Nat /\ nd.snapshot.index \in Nat
    BY NodeParts, IndexesType
  <2>5. /\ more \in Seq(Entry) /\ Len(more) \in Nat /\ Len(more) <= max
        /\ \A j \in 1 .. Len(more) : k + j - 1 \in Indexes(nd.log) /\ more[j] = At(nd.log, k + j - 1)
    <3>1. PICK l \in LogType : l = nd.log
      BY <2>4
    <3>2. more = CopyRange(l, k, max)
      BY <2>3, <3>1
    <3> QED
      BY <3>1, <3>2, CopyRangeIs
  <2>6. PICK size \in Nat : size = Len(more)
    BY <2>5
  <2>7. PICK after : after = Applied(nd)
    OBVIOUS
  <2>8. after = [nd EXCEPT !.last_applied = a + size, !.machine = nd.machine \o more]
    BY <1>2, <2>1, <2>2, <2>3, <2>6, <2>7 DEF Applied
  <2>9. /\ after.log = nd.log /\ after.snapshot = nd.snapshot /\ after.pending = nd.pending
        /\ after.stored = nd.stored /\ after.commit_index = nd.commit_index
        /\ after.last_applied = a + size /\ after.machine = nd.machine \o more
    BY <2>8 DEF NodeType
  <2>10. after \in NodeType /\ Sane(n, after)
    BY <2>7, AppliedKeeps DEF Keeps
  <2>11. size = 0 \/ (a + size \in Indexes(nd.log) /\ a + size <= LastIndex(nd.log))
    <3>1. CASE size # 0
      <4>1. size \in 1 .. Len(more) /\ k + size - 1 = a + size
        BY <2>2, <2>6, <3>1
      <4>2. a + size \in Indexes(nd.log)
        BY <2>5, <4>1
      <4> QED
        BY <2>4, <4>2, IndexesType
    <3> QED
      BY <3>1
  <2>12. a <= LastIndex(nd.log) => a + size <= LastIndex(nd.log)
    BY <2>11
  <2>13. \A b \in Nat : LastIndex(nd.log) <= b /\ a <= b => a + size <= b
    BY <2>4, <2>11
  <2>14. ASSUME NEW h \in Seq(Entry), NodeAgrees(nd, h) PROVE NodeAgrees(after, h)
    <3>1. a = Len(nd.machine) /\ Prefix(nd.machine, h) /\ a <= Len(h) /\ Len(h) \in Nat
      BY <2>1, <2>14 DEF NodeAgrees, Prefix
    <3>2. ASSUME NEW j \in 1 .. Len(more)
          PROVE  a + j <= Len(h) /\ more[j] = h[a + j]
      <4>1. PICK i \in Nat : i = a + j
        OBVIOUS
      <4>2. i = k + j - 1 /\ i <= c
        BY <2>2, <2>5, <2>6, <4>1
      <4>3. i \in Indexes(nd.log) /\ more[j] = At(nd.log, i)
        BY <2>5, <4>2
      <4>4. i <= Len(h) /\ At(nd.log, i) = h[i]
        BY <2>1, <2>14, <4>2, <4>3 DEF NodeAgrees, Known
      <4> QED
        BY <4>1, <4>3, <4>4
    <3>3. a + size <= Len(h)
      <4>1. CASE size # 0
        <5>1. size \in 1 .. Len(more)
          BY <2>6, <4>1
        <5> QED
          BY <3>2, <5>1
      <4> QED
        BY <3>1, <4>1
    <3>4. Len(after.machine) = a + size /\ Prefix(after.machine, h)
      BY <2>4, <2>5, <2>6, <2>9, <3>1, <3>2, <3>3, PrefixGrows
    <3>5. Known(after, h)
      <4>1. a + size <= c
        BY <2>2, <2>5, <2>6
      <4>2. ASSUME NEW j \in Indexes(nd.log), j <= c \/ j <= a + size
            PROVE  j <= c
        <5>1. j \in Nat
          BY <2>4, IndexesType
        <5> QED
          BY <4>1, <4>2, <5>1
      <4> QED
        BY <2>1, <2>9, <2>14, <4>2 DEF NodeAgrees, Known
    <3> QED
      BY <2>9, <2>14, <3>4, <3>5 DEF NodeAgrees
  <2>15. Sized(nd) => Sized(after)
    <3>1. Len(nd.machine \o more) = Len(nd.machine) + size
      BY <2>4, <2>5, <2>6 DEF Machine
    <3> QED
      BY <2>1, <2>9, <3>1 DEF Sized
  <2>16. HasStored(nd) => HasStored(after)
    BY <2>9 DEF HasStored
  <2> QED
    BY <2>1, <2>4, <2>7, <2>9, <2>10, <2>12, <2>13, <2>14, <2>15, <2>16 DEF Tended
<1> QED
  BY <1>1, <1>2

\* The snapshot that raft_snapshot_create saves agrees with the history when the
\* node does, and knows the term of its last index.
LEMMA SnapshotOfAgrees ==
  ASSUME NEW h \in Seq(Entry), NEW nd \in NodeType, NodeAgrees(nd, h),
         Holds(nd.log, nd.last_applied) \/ nd.last_applied = nd.snapshot.index
  PROVE  SnapshotAgrees(SnapshotOf(nd), h)
<1>1. PICK a \in Nat : a = nd.last_applied
  BY NodeParts
<1>2. nd.log \in LogType /\ nd.snapshot.index \in Nat
  BY NodeParts
<1>3. PrevTerm(nd, a) = TermIn(h, a)
  <2>1. CASE Holds(nd.log, a)
    <3>1. a \in Indexes(nd.log) /\ a > 0
      BY <1>2, <2>1, IndexesType
    <3>2. At(nd.log, a) = h[a]
      BY <1>1, <3>1 DEF NodeAgrees, Known
    <3> QED
      BY <2>1, <3>1, <3>2 DEF PrevTerm, TermIn
  <2>2. CASE ~Holds(nd.log, a)
    BY <1>1, <2>2 DEF PrevTerm, NodeAgrees, MarkAgrees
  <2> QED
    BY <2>1, <2>2
<1> QED
  BY <1>1, <1>3 DEF SnapshotOf, SnapshotAgrees, NodeAgrees

\* raft_snapshot_create, each way it may end.
LEMMA CreateTended ==
  ASSUME NEW n, NEW nd \in NodeType, Sane(n, nd), NEW after \in Create(n, nd)
  PROVE  /\ Tended(n, nd, after)
         /\ n \in Polls => after.snapshot = nd.snapshot /\ after.stored = nd.stored
<1>1. PICK started : started = [nd EXCEPT !.pending = SnapshotOf(nd)]
  OBVIOUS
<1>2. PICK known : known = (Holds(nd.log, nd.last_applied) \/ nd.last_applied = nd.snapshot.index)
  OBVIOUS
<1>3. \/ after = nd
      \/ /\ known /\ nd.pending = None
         /\ after = IF n \in Polls THEN started ELSE Finished(started, started.pending)
  BY <1>1, <1>2 DEF Create
<1>4. SnapshotOf(nd) \in Snapshot /\ SnapshotOf(nd).index = nd.last_applied
  BY SnapshotOfType
<1>5. /\ nd.log \in LogType /\ nd.last_applied \in Nat /\ nd.log.base \in Nat
      /\ nd.snapshot.index \in Nat /\ Follows(nd)
  BY NodeParts DEF Sane
<1>6. /\ started \in NodeType /\ started.pending = SnapshotOf(nd)
      /\ started.log = nd.log /\ started.snapshot = nd.snapshot /\ started.stored = nd.stored
      /\ started.last_applied = nd.last_applied /\ started.commit_index = nd.commit_index
      /\ started.machine = nd.machine
  BY <1>1, <1>4 DEF NodeType
<1>7. Follows(started) /\ Sane(n, started)
  BY <1>4, <1>5, <1>6 DEF Sane, Follows, Ready
<1>8. ASSUME known PROVE Tended(n, nd, started)
  <2>1. ASSUME NEW h \in Seq(Entry), NodeAgrees(nd, h) PROVE NodeAgrees(started, h)
    <3>1. SnapshotAgrees(SnapshotOf(nd), h)
      BY <1>2, <1>8, <2>1, SnapshotOfAgrees
    <3> QED
      BY <1>6, <2>1, <3>1 DEF NodeAgrees, Known
  <2>2. nd.snapshot.index <= started.snapshot.index
    BY <1>5, <1>6
  <2>3. Sized(nd) => Sized(started)
    BY <1>6 DEF Sized, SnapshotOf
  <2> QED
    BY <1>6, <1>7, <2>1, <2>2, <2>3 DEF Tended, HasStored
<1>9. CASE after = nd
  BY <1>9, TendedSame
<1>10. CASE known /\ nd.pending = None /\ n \in Polls /\ after = started
  BY <1>6, <1>8, <1>10
<1>11. CASE known /\ nd.pending = None /\ n \notin Polls
           /\ after = Finished(started, started.pending)
  <2>1. started.pending # None
    <3>1. SnapshotOf(nd) # None
      BY <1>4, NoneAssumption
    <3> QED
      BY <1>6, <3>1
  <2>2. started.log.base <= started.pending.index /\ started.pending.index <= started.last_applied
    BY <1>4, <1>5, <1>6 DEF Follows
  <2>3. Tended(n, started, after)
    BY <1>6, <1>7, <1>11, <2>1, <2>2, FinishedTended
  <2> QED
    BY <1>8, <1>11, <2>3, TendedTransitive
<1> QED
  BY <1>3, <1>9, <1>10, <1>11

\* raft_snapshot_poll.
LEMMA PolledTended ==
  ASSUME NEW n, NEW nd \in NodeType, Sane(n, nd), NEW done, NEW after \in Polled(n, nd, done)
  PROVE  Tended(n, nd, after) /\ (n \notin Polls => after = nd)
<1>1. CASE n \in Polls /\ nd.pending # None /\ done
  <2>1. PICK stored : /\ after = Finished(nd, stored)
                      /\ stored = nd.pending \/ (stored = nd.stored /\ <<n, "poll">> \in Failing)
    BY <1>1 DEF Polled
  <2> QED
    BY <1>1, <2>1, FinishedTended DEF Sane, Ready
<1>2. CASE ~(n \in Polls /\ nd.pending # None /\ done)
  BY <1>2, TendedSame DEF Polled
<1> QED
  BY <1>1, <1>2

\* A tick: the poll, the apply loop and raft_maybe_snapshot.  It does not change
\* the snapshot twice.
LEMMA TickTended ==
  ASSUME NEW n, NEW nd \in NodeType, Sane(n, nd), NEW done,
         NEW polled \in Polled(n, nd, done), NEW after \in MaybeSnapshot(n, Applied(polled))
  PROVE  /\ Tended(n, nd, polled) /\ Tended(n, polled, after) /\ Tended(n, nd, after)
         /\ \/ polled.snapshot = nd.snapshot /\ polled.stored = nd.stored
            \/ polled.snapshot = after.snapshot /\ polled.stored = after.stored
<1>1. PICK applied : applied = Applied(polled)
  OBVIOUS
<1>2. Tended(n, nd, polled) /\ (n \notin Polls => polled = nd)
  BY PolledTended
<1>3. polled \in NodeType /\ Sane(n, polled)
  BY <1>2 DEF Tended
<1>4. Tended(n, polled, applied)
  BY <1>1, <1>3, AppliedTended
<1>5. applied \in NodeType /\ Sane(n, applied)
      /\ applied.snapshot = polled.snapshot /\ applied.stored = polled.stored
  BY <1>1, <1>3, <1>4 DEF Tended, Applied, NodeType
<1>6. after \in Create(n, applied) \/ after = applied
  BY <1>1 DEF MaybeSnapshot
<1>7. /\ Tended(n, applied, after)
      /\ n \in Polls => after.snapshot = applied.snapshot /\ after.stored = applied.stored
  BY <1>5, <1>6, CreateTended, TendedSame
<1>8. Tended(n, polled, after)
  BY <1>3, <1>4, <1>7, TendedTransitive
<1>9. Tended(n, nd, after)
  BY <1>2, <1>8, TendedTransitive
<1> QED
  BY <1>1, <1>2, <1>5, <1>7, <1>8, <1>9

-----------------------------------------------------------------------------
(***************************************************************************)
(* What each action does, in the words the invariants are put in.          *)
(***************************************************************************)
\* The messages of a link, without their order.
LEMMA RangeIs ==
  ASSUME NEW S, NEW q \in Seq(S)
  PROVE  /\ Range(q) \subseteq S
         /\ \A m \in S : Range(Append(q, m)) = Range(q) \cup {m}
         /\ q # <<>> => Head(q) \in Range(q) /\ Range(Tail(q)) \subseteq Range(q)
<1>1. DOMAIN q = 1 .. Len(q) /\ Len(q) \in Nat
  OBVIOUS
<1>2. Range(q) \subseteq S
  BY <1>1 DEF Range
<1>3. ASSUME NEW m \in S PROVE Range(Append(q, m)) = Range(q) \cup {m}
  <2>1. /\ DOMAIN Append(q, m) = 1 .. Len(q) + 1
        /\ \A i \in 1 .. Len(q) : Append(q, m)[i] = q[i]
        /\ Append(q, m)[Len(q) + 1] = m
    OBVIOUS
  <2>2. 1 .. Len(q) + 1 = 1 .. Len(q) \cup {Len(q) + 1}
    BY <1>1
  <2> QED
    BY <1>1, <2>1, <2>2 DEF Range
<1>4. ASSUME q # <<>> PROVE Head(q) \in Range(q) /\ Range(Tail(q)) \subseteq Range(q)
  <2>1. 1 \in DOMAIN q /\ Head(q) = q[1]
    BY <1>4
  <2>2. /\ DOMAIN Tail(q) = 1 .. Len(q) - 1
        /\ \A i \in 1 .. Len(q) - 1 : Tail(q)[i] = q[i + 1]
    BY <1>4
  <2>3. \A i \in 1 .. Len(q) - 1 : i + 1 \in DOMAIN q
    BY <1>1
  <2> QED
    BY <2>1, <2>2, <2>3 DEF Range
<1> QED
  BY <1>2, <1>3, <1>4

\* The oldest request, when it is taken off the link or lost.
LEMMA RequestTaken ==
  ASSUME TransferInv, NEW p \in Peer, to_peer[p] # <<>>
  PROVE  /\ to_peer[p] \in Seq(GoodRequest)
         /\ Head(to_peer[p]) \in GoodRequest /\ Head(to_peer[p]) \in Range(to_peer[p])
         /\ Range(Tail(to_peer[p])) \subseteq Range(to_peer[p])
<1>1. to_peer[p] \in Seq(GoodRequest)
  BY DEF TransferInv, LinksInv
<1> QED
  BY <1>1, RangeIs

\* Likewise the oldest reply.
LEMMA ReplyTaken ==
  ASSUME TransferInv, NEW p \in Peer, to_leader[p] # <<>>
  PROVE  /\ to_leader[p] \in Seq(GoodReply)
         /\ Head(to_leader[p]) \in GoodReply /\ Head(to_leader[p]) \in Range(to_leader[p])
         /\ Range(Tail(to_leader[p])) \subseteq Range(to_leader[p])
<1>1. to_leader[p] \in Seq(GoodReply)
  BY DEF TransferInv, LinksInv
<1> QED
  BY <1>1, RangeIs

\* raft_send_heartbeats by a leader that keeps nd: every peer is sent a chunk, a
\* request or nothing.
LEMMA RoundIs ==
  ASSUME TransferInv, NEW nd \in NodeType, Round(nd), NEW p \in Peer
  PROVE  /\ \/ to_peer'[p] = to_peer[p]
            \/ NeedsSnapshot(nd, p) /\ to_peer'[p] = Append(to_peer[p], ChunkRequest(nd, p))
            \/ ~NeedsSnapshot(nd, p) /\ to_peer'[p] = Append(to_peer[p], AppendRequest(nd, p))
         /\ snapshot_send'[p].offset = snapshot_send[p].offset
<1> DEFINE due(o) ==
             NeedsSnapshot(nd, o) /\ ~snapshot_send[o].in_progress /\ nd.stored.index > 0
           sent(o) == IF due(o) THEN <<ChunkRequest(nd, o)>>
                      ELSE IF NeedsSnapshot(nd, o) THEN <<>> ELSE <<AppendRequest(nd, o)>>
<1>1. to_peer[p] \in Seq(GoodRequest)
  BY DEF TransferInv, LinksInv
<1>2. to_peer'[p] = to_peer[p] \o sent(p)
  BY DEF Round
<1>3. snapshot_send'[p] = IF due(p) THEN [snapshot_send[p] EXCEPT !.in_progress = TRUE]
                          ELSE snapshot_send[p]
  BY DEF Round
<1>4. snapshot_send'[p].offset = snapshot_send[p].offset
  BY <1>3 DEF TransferInv, PeersInv
<1>5. CASE due(p)
  <2>1. to_peer'[p] = to_peer[p] \o <<ChunkRequest(nd, p)>>
    BY <1>2, <1>5
  <2>2. to_peer'[p] = Append(to_peer[p], ChunkRequest(nd, p))
    BY <1>1, <2>1
  <2> QED
    BY <1>4, <1>5, <2>2
<1>6. CASE ~due(p) /\ NeedsSnapshot(nd, p)
  <2>1. to_peer'[p] = to_peer[p] \o <<>>
    BY <1>2, <1>6
  <2>2. to_peer'[p] = to_peer[p]
    BY <1>1, <2>1
  <2> QED
    BY <1>4, <2>2
<1>7. CASE ~NeedsSnapshot(nd, p)
  <2>1. to_peer'[p] = to_peer[p] \o <<AppendRequest(nd, p)>>
    BY <1>2, <1>7
  <2>2. to_peer'[p] = Append(to_peer[p], AppendRequest(nd, p))
    BY <1>1, <2>1
  <2> QED
    BY <1>4, <1>7, <2>2
<1> QED
  BY <1>5, <1>6, <1>7

\* So what is on the links was there or is sent by nd.
Sends(nd) ==
  \A p \in Peer : \A m \in Range(to_peer'[p]) :
    \/ m \in Range(to_peer[p])
    \/ NeedsSnapshot(nd, p) /\ m = ChunkRequest(nd, p)
    \/ ~NeedsSnapshot(nd, p) /\ m = AppendRequest(nd, p)
Quiet == \A p \in Peer : Range(to_peer'[p]) \subseteq Range(to_peer[p])

\* A round puts nothing else on the links.
LEMMA RoundSends ==
  ASSUME TransferInv, NEW nd \in NodeType, nd.stored.index <= MaxIndex, Round(nd)
  PROVE  Sends(nd)
<1> SUFFICES ASSUME NEW p \in Peer, NEW m \in Range(to_peer'[p])
             PROVE  \/ m \in Range(to_peer[p])
                    \/ NeedsSnapshot(nd, p) /\ m = ChunkRequest(nd, p)
                    \/ ~NeedsSnapshot(nd, p) /\ m = AppendRequest(nd, p)
  BY DEF Sends
<1>1. to_peer[p] \in Seq(GoodRequest)
  BY DEF TransferInv, LinksInv
<1>2. CASE to_peer'[p] = to_peer[p]
  BY <1>2
<1>3. CASE NeedsSnapshot(nd, p) /\ to_peer'[p] = Append(to_peer[p], ChunkRequest(nd, p))
  <2>1. PICK c \in GoodRequest : c = ChunkRequest(nd, p)
    BY ChunkRequestType
  <2>2. Range(Append(to_peer[p], c)) = Range(to_peer[p]) \cup {c}
    BY <1>1, RangeIs
  <2> QED
    BY <1>3, <2>1, <2>2
<1>4. CASE ~NeedsSnapshot(nd, p) /\ to_peer'[p] = Append(to_peer[p], AppendRequest(nd, p))
  <2>1. PICK c \in GoodRequest : c = AppendRequest(nd, p)
    BY <1>4, AppendRequestType
  <2>2. Range(Append(to_peer[p], c)) = Range(to_peer[p]) \cup {c}
    BY <1>1, RangeIs
  <2> QED
    BY <1>4, <2>1, <2>2
<1> QED
  BY <1>2, <1>3, <1>4, RoundIs

\* No other action puts a request on a link.
LEMMA QuietStep ==
  ASSUME TransferInv, [Next]_vars
  PROVE  TickHeartbeat \/ Propose \/ Quiet
<1>1. ASSUME UNCHANGED to_peer PROVE Quiet
  BY <1>1 DEF Quiet
<1>2. ASSUME NEW p \in Peer, to_peer[p] # <<>>, to_peer' = [to_peer EXCEPT ![p] = Tail(@)]
      PROVE  Quiet
  <2>1. Range(Tail(to_peer[p])) \subseteq Range(to_peer[p])
    BY <1>2, RequestTaken
  <2>2. \A o \in Peer : to_peer'[o] = IF o = p THEN Tail(to_peer[p]) ELSE to_peer[o]
    BY <1>2 DEF TransferInv, LinksInv
  <2> QED
    BY <2>1, <2>2 DEF Quiet
<1>3. ASSUME NEW n \in Node, NEW done, SnapshotCreate(n) \/ Tick(n, done) PROVE Quiet
  BY <1>1, <1>3 DEF SnapshotCreate, Tick, links
<1>4. ASSUME NEW p \in Peer, RecvRequest(p) \/ FailChunk(p) PROVE Quiet
  <2>1. to_peer[p] # <<>> /\ to_peer' = [to_peer EXCEPT ![p] = Tail(@)]
    BY <1>4 DEF RecvRequest, FailChunk, RefuseStaleTerm, RefuseMissingPrev, RefuseConflictingPrev,
         AcceptAppend, IgnoreOldSnapshot, StoreChunk, InstallSnapshot, NewChunk, HeadIs, Answer
  <2> QED
    BY <1>2, <2>1
<1>5. ASSUME NEW p \in Peer, RecvReply(p) \/ Restart(p) \/ HearLaterTerm(p) PROVE Quiet
  BY <1>1, <1>5 DEF RecvReply, StepDown, RecvAppendSuccess, RecvAppendRefusal, RecvSnapshotReply,
       Restart, HearLaterTerm, links
<1>6. ASSUME NEW p \in Peer, Lose(p) PROVE Quiet
  BY <1>1, <1>2, <1>6 DEF Lose
<1>7. CASE UNCHANGED vars
  BY <1>1, <1>7 DEF vars, links
<1> QED
  BY <1>3, <1>4, <1>5, <1>6, <1>7 DEF Next

\* A tick without heartbeats, and raft_snapshot_create by the program.
LEMMA OwnEffect ==
  ASSUME TransferInv, FollowInv, NEW n \in Node, NEW done, Tick(n, done) \/ SnapshotCreate(n)
  PROVE  \E after : Tended(n, node[n], after) /\ node' = [node EXCEPT ![n] = after]
<1>1. PICK nd \in NodeType : nd = node[n] /\ Sane(n, nd)
  BY DEF TransferInv, NodesInv, FollowInv
<1>2. CASE Tick(n, done)
  <2>1. PICK polled \in Polled(n, nd, done) : \E after \in MaybeSnapshot(n, Applied(polled)) :
          node' = [node EXCEPT ![n] = after]
    BY <1>1, <1>2 DEF Tick
  <2> QED
    BY <1>1, <2>1, TickTended
<1>3. CASE SnapshotCreate(n)
  BY <1>1, <1>3, CreateTended DEF SnapshotCreate
<1> QED
  BY <1>2, <1>3

\* A tick with heartbeats: nd is what they are made of.  A snapshot that ends
\* before them is the one the tick leaves.
LEMMA HeartbeatEffect ==
  ASSUME TransferInv, FollowInv, TickHeartbeat
  PROVE  \E nd \in NodeType, after \in NodeType :
           /\ Tended(Lead, node[Lead], nd) /\ Tended(Lead, nd, after)
           /\ Tended(Lead, node[Lead], after)
           /\ \/ nd.snapshot = node[Lead].snapshot /\ nd.stored = node[Lead].stored
              \/ nd.snapshot = after.snapshot /\ nd.stored = after.stored
           /\ nd.stored.index <= MaxIndex
           /\ Round(nd) /\ node' = [node EXCEPT ![Lead] = after]
<1>1. PICK was \in NodeType : was = node[Lead] /\ Sane(Lead, was) /\ Bounded(was)
  BY NodesAre DEF TransferInv, NodesInv, FollowInv
<1>2. PICK done, nd, after :
        /\ nd \in Polled(Lead, was, done) /\ Round(nd)
        /\ after \in MaybeSnapshot(Lead, Applied(nd))
        /\ node' = [node EXCEPT ![Lead] = after]
  BY <1>1 DEF TickHeartbeat
<1>3. nd \in NodeType /\ nd.stored.index <= MaxIndex
  BY <1>1, <1>2, PolledKeeps DEF Keeps, Bounded
<1>4. /\ Tended(Lead, was, nd) /\ Tended(Lead, nd, after)
      /\ \/ nd.snapshot = was.snapshot /\ nd.stored = was.stored
         \/ nd.snapshot = after.snapshot /\ nd.stored = after.stored
  BY <1>1, <1>2, TickTended
<1>5. Tended(Lead, was, after) /\ after \in NodeType
  BY <1>4, TendedTransitive DEF Tended
<1> QED
  BY <1>1, <1>2, <1>3, <1>4, <1>5

\* raft_propose.
LEMMA ProposeEffect ==
  ASSUME TransferInv, FollowInv, Propose
  PROVE  \E was \in NodeType, nd \in NodeType, e \in Entry, k \in Nat :
           /\ was = node[Lead] /\ k = LastIndex(was.log) + 1
           /\ e = [term |-> Term, data |-> k]
           /\ nd.log = Extend(was.log, <<e>>) /\ nd.snapshot = was.snapshot
           /\ nd.stored = was.stored /\ nd.pending = was.pending /\ nd.machine = was.machine
           /\ nd.last_applied = was.last_applied /\ nd.commit_index = was.commit_index
           /\ nd.stored.index <= MaxIndex
           /\ Round(nd) /\ node' = [node EXCEPT ![Lead] = nd]
<1>1. PICK was \in NodeType : was = node[Lead] /\ Bounded(was)
  BY NodesAre DEF TransferInv, NodesInv
<1>2. was.log \in LogType /\ LastIndex(was.log) \in Nat
  BY NodeParts, IndexesType
<1>3. PICK k \in Nat : k = LastIndex(was.log) + 1
  BY <1>2
<1>4. PICK e : e = [term |-> current_term[Lead], data |-> k]
  OBVIOUS
<1>5. PICK l, nd : l = Extend(was.log, <<e>>) /\ nd = [was EXCEPT !.log = l]
  OBVIOUS
<1>6. leading /\ k <= MaxIndex /\ node' = [node EXCEPT ![Lead] = nd] /\ Round(nd)
  BY <1>1, <1>3, <1>4, <1>5 DEF Propose
<1>7. e \in Entry /\ e = [term |-> Term, data |-> k]
  <2>1. current_term[Lead] = Term /\ Term \in 1 .. Term
    BY <1>6, SnapshotAssumption DEF TransferInv, TermsInv
  <2>2. k \in 1 .. MaxIndex
    BY <1>2, <1>3, <1>6, SnapshotAssumption
  <2> QED
    BY <1>4, <2>1, <2>2 DEF Entry
<1>8. l \in LogType
  BY <1>2, <1>5, <1>7, ExtendIs
<1>9. /\ nd \in NodeType /\ nd.log = l /\ nd.snapshot = was.snapshot /\ nd.pending = was.pending /\ nd.stored = was.stored
      /\ nd.machine = was.machine /\ nd.last_applied = was.last_applied
      /\ nd.commit_index = was.commit_index
  BY <1>5, <1>8 DEF NodeType, LogType
<1>10. nd.stored.index <= MaxIndex
  BY <1>1, <1>9 DEF Bounded
<1>11. /\ was = node[Lead] /\ k = LastIndex(was.log) + 1
       /\ e = [term |-> Term, data |-> k]
       /\ nd.log = Extend(was.log, <<e>>) /\ nd.snapshot = was.snapshot
       /\ nd.stored = was.stored /\ nd.pending = was.pending /\ nd.machine = was.machine
       /\ nd.last_applied = was.last_applied /\ nd.commit_index = was.commit_index
       /\ nd.stored.index <= MaxIndex
       /\ Round(nd) /\ node' = [node EXCEPT ![Lead] = nd]
  BY <1>1, <1>3, <1>5, <1>6, <1>7, <1>9, <1>10
<1> QED
  BY <1>1, <1>3, <1>7, <1>9, <1>11

\* A request with entries from the first on is not stored by a peer that has
\* compacted its log meanwhile.
NotRepeated ==
  \A p \in Peer : AcceptAppend(p) /\ Head(to_peer[p]).prev_index = 0 => node[p].log.base = 0

\* Rules 3 to 5 of raft_recv_appendentries: node nd becomes after, with log l, and
\* what is committed does not go beyond what the request covers.
Accepts(p, m, nd, l, after) ==
  /\ to_peer[p] # <<>> /\ m = Head(to_peer[p]) /\ m.type = "AppendEntries"
  /\ m.prev_index \in Nat /\ m.prev_term \in Nat /\ m.entries \in Seq(Entry)
  /\ nd = node[p] /\ HasPrev(nd, m) /\ nd.log.base = nd.snapshot.index
  /\ nd.log.base <= m.prev_index /\ m.prev_index <= LastIndex(nd.log)
  /\ l.base = nd.log.base
  /\ Overwritten(nd.log, m.prev_index, m.entries, Len(m.entries), l)
  /\ after.log = l /\ after.snapshot = nd.snapshot /\ after.pending = nd.pending /\ after.stored = nd.stored
  /\ after.machine = nd.machine /\ after.last_applied = nd.last_applied
  /\ \/ after.commit_index = nd.commit_index
     \/ after.commit_index <= m.prev_index + Len(m.entries)

\* That is what the action does, where nothing is repeated.
LEMMA AcceptEffect ==
  ASSUME TransferInv, FollowInv, NEW p \in Peer, AcceptAppend(p), NotRepeated
  PROVE  \E m \in GoodRequest, nd \in NodeType, l \in LogType, after \in NodeType :
           /\ Accepts(p, m, nd, l, after)
           /\ node' = [node EXCEPT ![p] = after]
           /\ Answer(p, AppendReply(p, TRUE, LastIndex(l), 0, 0))
<1>1. to_peer[p] # <<>>
  BY DEF AcceptAppend, HeadIs
<1>2. PICK m \in GoodRequest : m = Head(to_peer[p])
  BY <1>1, HeadRequest DEF TransferInv
<1>3. PICK nd \in NodeType : nd = node[p] /\ Sane(p, nd)
  BY NodesAre DEF TransferInv, NodesInv, FollowInv
<1>4. nd.log \in LogType /\ nd.commit_index \in Nat /\ nd.log.base = nd.snapshot.index
  BY <1>3, NodeParts DEF Sane, Follows
<1>5. /\ m.type = "AppendEntries" /\ m.prev_index \in Nat /\ m.prev_term \in Nat
      /\ m.entries \in Seq(Entry) /\ m.leader_commit \in Nat /\ HasPrev(nd, m)
  BY <1>2, <1>3, RequestFields DEF AcceptAppend, HeadIs
<1>6. PICK prev \in Nat, es \in Seq(Entry) : prev = m.prev_index /\ es = m.entries
  BY <1>5
<1>7. nd.log.base <= prev /\ prev <= LastIndex(nd.log)
  <2>1. nd.log.base \in Nat /\ LastIndex(nd.log) \in Nat /\ nd.log.base <= LastIndex(nd.log)
    BY <1>4, IndexesType
  <2>2. CASE prev = 0
    BY <1>2, <1>3, <1>6, <2>1, <2>2 DEF NotRepeated
  <2>3. CASE prev = nd.snapshot.index
    BY <1>4, <2>1, <2>3
  <2>4. CASE Holds(nd.log, prev)
    BY <2>1, <2>4 DEF Holds
  <2> QED
    BY <1>5, <1>6, <2>2, <2>3, <2>4 DEF HasPrev
<1>8. PICK l : l = Stored(nd.log, prev, es)
  OBVIOUS
<1>9. l \in LogType /\ l.base = nd.log.base
  BY <1>4, <1>8, StoredType
<1>10. Overwritten(nd.log, prev, es, Len(es), l)
  BY <1>4, <1>7, <1>8, StoredIs
<1>11. PICK c : c = Lowest({m.leader_commit, prev + Len(es), LastIndex(l)})
  OBVIOUS
<1>12. c \in Nat /\ c <= prev + Len(es)
  <2>1. LastIndex(l) \in Nat /\ Len(es) \in Nat
    BY <1>9, IndexesType
  <2>2. {m.leader_commit, prev + Len(es), LastIndex(l)} \in SUBSET Nat
    BY <1>5, <2>1
  <2> QED
    BY <1>11, <2>2, LowestType
<1>13. PICK commit \in Nat : commit = IF m.leader_commit > nd.commit_index THEN c ELSE nd.commit_index
  BY <1>4, <1>12
<1>14. PICK after : after = [nd EXCEPT !.log = l, !.commit_index = commit]
  OBVIOUS
<1>15. /\ after \in NodeType /\ after.log = l /\ after.snapshot = nd.snapshot
       /\ after.stored = nd.stored /\ after.pending = nd.pending /\ after.machine = nd.machine
       /\ after.last_applied = nd.last_applied /\ after.commit_index = commit
  BY <1>9, <1>14 DEF NodeType, LogType
<1>16. node' = [node EXCEPT ![p] = after] /\ Answer(p, AppendReply(p, TRUE, LastIndex(l), 0, 0))
  <2>1. /\ node' = [node EXCEPT ![p].log = l,
                                ![p].commit_index = IF m.leader_commit > @ THEN c ELSE @]
        /\ Answer(p, AppendReply(p, TRUE, LastIndex(l), 0, 0))
    BY <1>2, <1>3, <1>6, <1>8, <1>11 DEF AcceptAppend
  <2>2. node \in [Node -> NodeType] /\ p \in Node
    BY NodesAre DEF TransferInv, NodesInv
  <2> QED
    BY <1>3, <1>13, <1>14, <2>1, <2>2 DEF NodeType
<1>17. commit = nd.commit_index \/ commit <= m.prev_index + Len(m.entries)
  BY <1>6, <1>12, <1>13
<1>18. /\ nd.log.base <= m.prev_index /\ m.prev_index <= LastIndex(nd.log)
       /\ Overwritten(nd.log, m.prev_index, m.entries, Len(m.entries), l)
  BY <1>6, <1>7, <1>10
<1>19. Accepts(p, m, nd, l, after)
  BY <1>1, <1>2, <1>3, <1>4, <1>5, <1>9, <1>15, <1>17, <1>18 DEF Accepts
<1> QED
  BY <1>9, <1>15, <1>16, <1>19

\* Rule 2: what is left of the log is what was before the conflict.
Cuts(p, m, nd, l, after) ==
  /\ to_peer[p] # <<>> /\ m = Head(to_peer[p]) /\ m.type = "AppendEntries"
  /\ nd = node[p]
  /\ m.prev_index \in Indexes(nd.log) /\ At(nd.log, m.prev_index).term # m.prev_term
  /\ Indexes(l) = {k \in Indexes(nd.log) : k < m.prev_index}
  /\ LastIndex(l) = m.prev_index - 1 /\ l.base = nd.log.base
  /\ \A k \in Indexes(l) : At(l, k) = At(nd.log, k)
  /\ after.log = l /\ after.snapshot = nd.snapshot /\ after.pending = nd.pending /\ after.stored = nd.stored
  /\ after.machine = nd.machine /\ after.last_applied = nd.last_applied
  /\ after.commit_index = nd.commit_index

\* The refusal names the first entry of the conflicting term.
LEMMA ConflictEffect ==
  ASSUME TransferInv, FollowInv, NEW p \in Peer, RefuseConflictingPrev(p)
  PROVE  \E m \in GoodRequest, nd \in NodeType, l \in LogType, after \in NodeType :
           /\ Cuts(p, m, nd, l, after)
           /\ node' = [node EXCEPT ![p] = after]
           /\ Answer(p, AppendReply(p, FALSE, m.prev_index - 1, At(nd.log, m.prev_index).term,
                       Lowest(IndexesOfTerm(nd.log, At(nd.log, m.prev_index).term))))
<1>1. to_peer[p] # <<>>
  BY DEF RefuseConflictingPrev, HeadIs
<1>2. PICK m \in GoodRequest : m = Head(to_peer[p])
  BY <1>1, HeadRequest DEF TransferInv
<1>3. PICK nd \in NodeType : nd = node[p] /\ Sane(p, nd)
  BY NodesAre DEF TransferInv, NodesInv, FollowInv
<1>4. nd.log \in LogType
  BY NodeParts
<1>5. m.type = "AppendEntries" /\ Conflicts(nd, m) /\ m.prev_index \in Nat
  BY <1>2, <1>3, RequestFields DEF RefuseConflictingPrev, HeadIs
<1>6. PICK prev \in Nat : prev = m.prev_index
  BY <1>5
<1>7. prev \in Indexes(nd.log) /\ At(nd.log, prev).term # m.prev_term
  BY <1>4, <1>5, <1>6, IndexesType DEF Conflicts
<1>8. PICK l : l = TruncateAfter(nd.log, prev - 1)
  OBVIOUS
<1>9. /\ l \in LogType /\ l.base = nd.log.base /\ LastIndex(l) = prev - 1
      /\ Indexes(l) = {k \in Indexes(nd.log) : k < prev}
      /\ \A k \in Indexes(l) : At(l, k) = At(nd.log, k)
  <2>1. /\ nd.log.base \in Nat /\ LastIndex(nd.log) \in Nat /\ prev > nd.log.base
        /\ prev <= LastIndex(nd.log) /\ \A k \in Indexes(nd.log) : k \in Nat
    BY <1>4, <1>7, IndexesType
  <2>2. PICK k \in Int : k = prev - 1
    OBVIOUS
  <2>3. k >= nd.log.base /\ ~(k >= LastIndex(nd.log))
    BY <2>1, <2>2
  <2>4. /\ l \in LogType /\ l.base = nd.log.base /\ LastIndex(l) = k
        /\ Indexes(l) = {j \in Indexes(nd.log) : j <= k}
        /\ \A j \in Indexes(l) : At(l, j) = At(nd.log, j)
    BY <1>4, <1>8, <2>2, <2>3, TruncateAfterIs
  <2>5. \A j \in Nat : j <= k <=> j < prev
    BY <2>2
  <2> QED
    BY <2>1, <2>2, <2>4, <2>5
<1>10. PICK after : after = [nd EXCEPT !.log = l]
  OBVIOUS
<1>11. /\ after \in NodeType /\ after.log = l /\ after.snapshot = nd.snapshot
       /\ after.stored = nd.stored /\ after.pending = nd.pending /\ after.machine = nd.machine
       /\ after.last_applied = nd.last_applied /\ after.commit_index = nd.commit_index
  BY <1>9, <1>10 DEF NodeType, LogType
<1>12. /\ node' = [node EXCEPT ![p] = after]
       /\ Answer(p, AppendReply(p, FALSE, m.prev_index - 1, At(nd.log, m.prev_index).term,
                   Lowest(IndexesOfTerm(nd.log, At(nd.log, m.prev_index).term))))
  BY <1>2, <1>3, <1>6, <1>8, <1>10 DEF RefuseConflictingPrev
<1>13. Cuts(p, m, nd, l, after)
  BY <1>1, <1>2, <1>3, <1>5, <1>6, <1>7, <1>9, <1>11 DEF Cuts
<1> QED
  BY <1>9, <1>11, <1>12, <1>13

\* The last chunk of a snapshot: node nd becomes after.
Installs(p, m, nd, k, machine, after) ==
  /\ to_peer[p] # <<>> /\ m = Head(to_peer[p]) /\ m.type = "InstallSnapshot" /\ m.done
  /\ m.snapshot \in Snapshot /\ m.offset \in Offsets
  /\ nd = node[p] /\ k = m.snapshot.index /\ k > nd.snapshot.index
  /\ machine = Restored(Written(p, m), k)
  /\ after.log = EmptyLog(k) /\ after.machine = machine
  /\ after.snapshot = MarkOf(m.snapshot)
  /\ after.stored = [m.snapshot EXCEPT !.machine = machine]
  /\ after.pending = nd.pending
  /\ after.commit_index = Highest({nd.commit_index, k})
  /\ after.last_applied = Highest({nd.last_applied, k})

\* Nothing is left of the chunks.
LEMMA InstallEffect ==
  ASSUME TransferInv, NEW p \in Peer, InstallSnapshot(p)
  PROVE  \E m \in GoodRequest, nd \in NodeType, k \in Nat, machine \in Machine, after \in NodeType :
           /\ Installs(p, m, nd, k, machine, after)
           /\ node' = [node EXCEPT ![p] = after]
           /\ received' = [received EXCEPT ![p] = [o \in Offsets |-> None]]
           /\ Answer(p, SnapshotReply(p, TRUE, m.offset + m.len, TRUE))
<1>1. to_peer[p] # <<>> /\ NewChunk(p)
  BY DEF InstallSnapshot, NewChunk, HeadIs
<1>2. PICK m \in GoodRequest : m = Head(to_peer[p])
  BY <1>1, HeadRequest DEF TransferInv
<1>3. m.type = "InstallSnapshot" /\ m.done
  BY <1>1, <1>2 DEF NewChunk, HeadIs, InstallSnapshot
<1>4. m.offset \in Offsets /\ m.snapshot \in Snapshot
  BY <1>3, ChunkFields
<1>5. PICK k \in Nat : k = m.snapshot.index
  BY <1>4 DEF Snapshot
<1>6. PICK nd \in NodeType : nd = node[p]
  BY NodesAre DEF TransferInv, NodesInv
<1>7. PICK machine \in Machine : machine = Restored(Written(p, m), k)
  BY <1>3, WrittenType, RestoredType DEF TransferInv
<1>8. PICK commit \in Nat, applied \in Nat :
        commit = Highest({nd.commit_index, k}) /\ applied = Highest({nd.last_applied, k})
  BY NodeParts, HighestOfTwo
<1>9. PICK s : s = [m.snapshot EXCEPT !.machine = machine]
  OBVIOUS
<1>10. PICK after : after = [nd EXCEPT !.snapshot = MarkOf(m.snapshot), !.stored = s,
                                       !.machine = machine, !.log = EmptyLog(k),
                                       !.commit_index = commit, !.last_applied = applied]
  OBVIOUS
<1>11. /\ after \in NodeType /\ after.log = EmptyLog(k) /\ after.machine = machine
       /\ after.snapshot = MarkOf(m.snapshot) /\ after.stored = s /\ after.pending = nd.pending
       /\ after.commit_index = commit /\ after.last_applied = applied
  <2>1. s \in Snapshot /\ MarkOf(m.snapshot) \in Mark
    BY <1>4, <1>9 DEF Snapshot, Mark, MarkOf
  <2>2. EmptyLog(k) \in LogType
    BY EmptyLogIs
  <2> QED
    BY <1>10, <2>1, <2>2 DEF NodeType, LogType
<1>12. /\ node' = [node EXCEPT ![p] = after]
       /\ Answer(p, SnapshotReply(p, TRUE, m.offset + m.len, TRUE))
  <2>1. PICK new : new = [nd EXCEPT !.snapshot = MarkOf(m.snapshot),
                                    !.stored = [m.snapshot EXCEPT !.machine = machine],
                                    !.machine = machine,
                                    !.log = EmptyLog(k),
                                    !.commit_index = Highest({@, k}),
                                    !.last_applied = Highest({@, k})]
    OBVIOUS
  <2>2. new = after
    BY <1>8, <1>9, <1>10, <2>1
  <2>3. /\ node' = [node EXCEPT ![p] = new]
        /\ Answer(p, SnapshotReply(p, TRUE, m.offset + m.len, TRUE))
    BY <1>2, <1>5, <1>6, <1>7, <2>1 DEF InstallSnapshot
  <2> QED
    BY <2>2, <2>3
<1>13. received' = [received EXCEPT ![p] = [o \in Offsets |-> None]]
  <2>1. received' = [received EXCEPT ![p] = [o \in DOMAIN received[p] |-> None]]
    BY DEF InstallSnapshot
  <2>2. DOMAIN received[p] = Offsets
    BY DEF TransferInv, ReceivedInv
  <2> QED
    BY <2>1, <2>2
<1>14. k > nd.snapshot.index
  BY <1>1, <1>2, <1>5, <1>6 DEF NewChunk
<1>15. /\ to_peer[p] # <<>> /\ m = Head(to_peer[p]) /\ m.type = "InstallSnapshot" /\ m.done
       /\ m.snapshot \in Snapshot /\ m.offset \in Offsets
       /\ nd = node[p] /\ k = m.snapshot.index /\ k > nd.snapshot.index
       /\ machine = Restored(Written(p, m), k)
  BY <1>1, <1>2, <1>3, <1>4, <1>5, <1>6, <1>7, <1>14
<1>16. /\ after.snapshot = MarkOf(m.snapshot)
       /\ after.stored = [m.snapshot EXCEPT !.machine = machine]
       /\ after.commit_index = Highest({nd.commit_index, k})
       /\ after.last_applied = Highest({nd.last_applied, k})
  BY <1>8, <1>9, <1>11
<1>17. Installs(p, m, nd, k, machine, after)
  BY <1>11, <1>15, <1>16 DEF Installs
<1> QED
  BY <1>11, <1>12, <1>13, <1>17

\* raft_create with raft_snapshot_restore.
Restarts(p, nd, k, after) ==
  /\ nd = node[p] /\ k = nd.stored.index
  /\ after.log = EmptyLog(k) /\ after.machine = nd.stored.machine
  /\ after.snapshot = MarkOf(nd.stored) /\ after.stored = nd.stored /\ after.pending = None
  /\ after.commit_index = k /\ after.last_applied = k

\* Everything but what was stored is new.
LEMMA RestartEffect ==
  ASSUME TransferInv, NEW p \in Peer, Restart(p)
  PROVE  \E nd \in NodeType, k \in Nat, after \in NodeType :
           Restarts(p, nd, k, after) /\ node' = [node EXCEPT ![p] = after]
<1>1. PICK nd \in NodeType : nd = node[p]
  BY NodesAre DEF TransferInv, NodesInv
<1>2. PICK s \in Snapshot, k \in Nat : s = nd.stored /\ k = s.index /\ s.machine \in Machine
  BY NodeParts
<1>3. PICK after : after = [log |-> EmptyLog(k), commit_index |-> k, last_applied |-> k,
        machine |-> s.machine, snapshot |-> MarkOf(s), stored |-> s, pending |-> None]
  OBVIOUS
<1>4. EmptyLog(k) \in LogType /\ MarkOf(s) \in Mark
  BY EmptyLogIs DEF MarkOf, Mark, Snapshot
<1>5. after \in NodeType
  BY <1>2, <1>3, <1>4 DEF NodeType, LogType
<1>6. node' = [node EXCEPT ![p] = after]
  BY <1>1, <1>2, <1>3 DEF Restart
<1>7. Restarts(p, nd, k, after)
  BY <1>1, <1>2, <1>3 DEF Restarts
<1> QED
  BY <1>5, <1>6, <1>7

\* A success: all that changes at the leader is what is committed.
LEMMA SuccessEffect ==
  ASSUME TransferInv, NEW p \in Peer, RecvAppendSuccess(p)
  PROVE  \E nd \in NodeType, after \in NodeType :
           /\ nd = node[Lead]
           /\ after.log = nd.log /\ after.snapshot = nd.snapshot /\ after.pending = nd.pending /\ after.stored = nd.stored
           /\ after.machine = nd.machine /\ after.last_applied = nd.last_applied
           /\ node' = [node EXCEPT ![Lead] = after]
<1>1. PICK nd \in NodeType : nd = node[Lead]
  BY NodesAre DEF TransferInv, NodesInv
<1>2. PICK c \in Nat : c = AdvancedCommit(nd, match_index')
  BY AdvancedCommitType
<1>3. PICK after : after = [nd EXCEPT !.commit_index = c]
  OBVIOUS
<1>4. /\ after \in NodeType /\ after.log = nd.log /\ after.snapshot = nd.snapshot
      /\ after.stored = nd.stored /\ after.pending = nd.pending /\ after.machine = nd.machine
      /\ after.last_applied = nd.last_applied
  BY <1>3 DEF NodeType
<1>5. node' = [node EXCEPT ![Lead] = after]
  BY <1>1, <1>2, <1>3 DEF RecvAppendSuccess
<1> QED
  BY <1>1, <1>4, <1>5

\* A node that changes, and all others, which do not.
LEMMA NodeIs ==
  ASSUME TransferInv, NEW n \in Node, NEW after, node' = [node EXCEPT ![n] = after]
  PROVE  node'[n] = after /\ \A o \in Node : o # n => node'[o] = node[o]
  BY DEF TransferInv, NodesInv

\* What a peer does with a message it does to itself.
LEMMA OthersStay ==
  ASSUME TransferInv, NEW p \in Peer,
         AcceptAppend(p) \/ RefuseConflictingPrev(p) \/ InstallSnapshot(p) \/ Restart(p),
         NEW o \in Node, o # p
  PROVE  node'[o] = node[o]
<1>1. node \in [Node -> NodeType] /\ p \in Node
  BY NodesAre DEF TransferInv, NodesInv
<1>2. CASE AcceptAppend(p)
  BY <1>1, <1>2 DEF AcceptAppend
<1>3. CASE RefuseConflictingPrev(p)
  BY <1>1, <1>3 DEF RefuseConflictingPrev
<1>4. CASE InstallSnapshot(p)
  BY <1>1, <1>4 DEF InstallSnapshot
<1>5. CASE Restart(p)
  BY <1>1, <1>5 DEF Restart
<1> QED
  BY <1>2, <1>3, <1>4, <1>5

\* What is left leaves the nodes alone.
StillStep == UNCHANGED node
\* The steps that change a node, and the others.
LEMMA WhichStep ==
  ASSUME [Next]_vars
  PROVE  \/ TickHeartbeat \/ Propose
         \/ \E n \in Node, done \in BOOLEAN : Tick(n, done) \/ SnapshotCreate(n)
         \/ \E p \in Peer : \/ AcceptAppend(p) \/ RefuseConflictingPrev(p)
                            \/ InstallSnapshot(p) \/ Restart(p) \/ RecvAppendSuccess(p)
         \/ StillStep
<1>1. CASE UNCHANGED vars
  BY <1>1 DEF vars, StillStep
<1>2. ASSUME NEW p \in Peer,
             \/ RefuseStaleTerm(p) \/ RefuseMissingPrev(p) \/ IgnoreOldSnapshot(p) \/ StoreChunk(p)
             \/ StepDown(p) \/ RecvAppendRefusal(p) \/ RecvSnapshotReply(p)
             \/ FailChunk(p) \/ HearLaterTerm(p) \/ Lose(p)
      PROVE  StillStep
  BY <1>2 DEF RefuseStaleTerm, RefuseMissingPrev, IgnoreOldSnapshot, StoreChunk, StepDown,
       RecvAppendRefusal, RecvSnapshotReply, FailChunk, HearLaterTerm, Lose, StillStep
<1>3. ASSUME NEW n \in Node, SnapshotCreate(n)
      PROVE  \E o \in Node, done \in BOOLEAN : Tick(o, done) \/ SnapshotCreate(o)
  <2>1. TRUE \in BOOLEAN
    OBVIOUS
  <2> QED
    BY <1>3, <2>1
<1> QED
  BY <1>1, <1>2, <1>3 DEF Next, RecvRequest, RecvReply

-----------------------------------------------------------------------------
(***************************************************************************)
(* Entries in place.                                                       *)
(***************************************************************************)
\* The entries of a request are for the indexes after prev_index.
EntriesFollow(m) ==
  m.type = "AppendEntries" => \A j \in 1 .. Len(m.entries) : m.entries[j].data = m.prev_index + j

RequestsInPlace == \A p \in Peer : \A m \in Range(to_peer[p]) : EntriesFollow(m)
PlaceInv == (\A n \in Node : InPlace(node[n].log)) /\ RequestsInPlace

\* A log with fewer entries.
LEMMA PartInPlace ==
  ASSUME NEW l, InPlace(l), NEW x, \A k \in Indexes(x) : k \in Indexes(l) /\ At(x, k) = At(l, k)
  PROVE  InPlace(x)
  BY DEF InPlace

\* What raft_send_heartbeats puts into a request.
LEMMA RequestInPlace ==
  ASSUME TransferInv, NEW nd \in NodeType, NEW p \in Peer, ~NeedsSnapshot(nd, p), InPlace(nd.log)
  PROVE  EntriesFollow(AppendRequest(nd, p))
<1>1. PICK next \in Nat, max \in Nat : next = next_index[p] /\ max = MaxEntries
  BY SnapshotAssumption DEF TransferInv, PeersInv
<1>2. PICK l \in LogType : l = nd.log
  BY NodeParts
<1>3. PICK es, m : es = CopyRange(l, next, max) /\ m = AppendRequest(nd, p)
  OBVIOUS
<1>4. m.entries = es /\ m.prev_index = next - 1
  BY <1>1, <1>2, <1>3 DEF AppendRequest
<1>5. /\ Len(es) \in Nat
      /\ \A j \in 1 .. Len(es) : next + j - 1 \in Indexes(l) /\ es[j] = At(l, next + j - 1)
  BY <1>3, CopyRangeIs
<1>6. ASSUME NEW j \in 1 .. Len(es) PROVE es[j].data = next - 1 + j
  <2>1. es[j].data = next + j - 1
    BY <1>2, <1>5 DEF InPlace
  <2> QED
    BY <1>5, <2>1
<1> QED
  BY <1>3, <1>4, <1>6 DEF EntriesFollow

\* Requests stay in place when new ones are made of a log that is.
LEMMA RequestsStayInPlace ==
  ASSUME TransferInv, RequestsInPlace,
         Quiet \/ \E nd \in NodeType : InPlace(nd.log) /\ Sends(nd)
  PROVE  RequestsInPlace'
<1>1. SUFFICES ASSUME NEW p \in Peer, NEW m \in Range(to_peer'[p]) PROVE EntriesFollow(m)
  BY DEF RequestsInPlace
<1>2. CASE m \in Range(to_peer[p])
  BY <1>2 DEF RequestsInPlace
<1>3. ASSUME NEW nd \in NodeType, InPlace(nd.log), Sends(nd) PROVE EntriesFollow(m)
  <2>1. EntriesFollow(ChunkRequest(nd, p))
    BY DEF EntriesFollow, ChunkRequest
  <2>2. ~NeedsSnapshot(nd, p) => EntriesFollow(AppendRequest(nd, p))
    BY <1>3, RequestInPlace
  <2> QED
    BY <1>1, <1>2, <1>3, <2>1, <2>2 DEF Sends
<1>4. Quiet => m \in Range(to_peer[p])
  BY <1>1 DEF Quiet
<1> QED
  BY <1>2, <1>3, <1>4

\* A node whose log changes and stays in place.
LEMMA PlaceChanges ==
  ASSUME TransferInv, PlaceInv, NEW n \in Node, NEW after, InPlace(after.log),
         node' = [node EXCEPT ![n] = after], RequestsInPlace'
  PROVE  PlaceInv'
<1>1. ASSUME NEW o \in Node PROVE InPlace(node'[o].log)
  BY NodeIs DEF PlaceInv
<1> QED
  BY <1>1 DEF PlaceInv

\* What peers do with requests leaves entries in place: nothing is appended after
\* a log that was compacted beyond it.
LEMMA PlaceStored ==
  ASSUME TransferInv, FollowInv, PlaceInv, NEW p \in Peer, NotRepeated, RequestsInPlace',
         AcceptAppend(p) \/ RefuseConflictingPrev(p) \/ InstallSnapshot(p) \/ Restart(p)
  PROVE  PlaceInv'
<1>1. p \in Node
  BY NodesAre
<1>2. CASE AcceptAppend(p)
  <2>1. PICK m \in GoodRequest, nd \in NodeType, l \in LogType, after \in NodeType :
          Accepts(p, m, nd, l, after) /\ node' = [node EXCEPT ![p] = after]
    BY <1>2, AcceptEffect
  <2>2. PICK prev \in Nat, es \in Seq(Entry) : prev = m.prev_index /\ es = m.entries
    BY <2>1 DEF Accepts
  <2>3. /\ nd = node[p] /\ nd.log.base <= prev /\ l.base = nd.log.base
        /\ Overwritten(nd.log, prev, es, Len(es), l) /\ after.log = l
    BY <2>1, <2>2 DEF Accepts
  <2>4. nd.log \in LogType /\ InPlace(nd.log)
    BY <1>1, <2>3, NodeParts DEF PlaceInv
  <2>5. \A i \in 1 .. Len(es) : es[i].data = prev + i
    BY <2>1, <2>2, RequestTaken DEF Accepts, PlaceInv, RequestsInPlace, EntriesFollow
  <2>6. Len(es) \in Nat /\ Len(es) <= Len(es)
    OBVIOUS
  <2>7. InPlace(l)
    BY <2>3, <2>4, <2>5, <2>6, OverwrittenInPlace
  <2> QED
    BY <1>1, <2>1, <2>3, <2>7, PlaceChanges
<1>3. CASE RefuseConflictingPrev(p)
  <2>1. PICK m \in GoodRequest, nd \in NodeType, l \in LogType, after \in NodeType :
          Cuts(p, m, nd, l, after) /\ node' = [node EXCEPT ![p] = after]
    BY <1>3, ConflictEffect
  <2>2. InPlace(l) /\ after.log = l
    BY <1>1, <2>1, PartInPlace DEF Cuts, PlaceInv
  <2> QED
    BY <1>1, <2>1, <2>2, PlaceChanges
<1>4. ASSUME NEW k \in Nat PROVE InPlace(EmptyLog(k))
  BY EmptyLogIs DEF InPlace
<1>5. CASE InstallSnapshot(p)
  <2>1. PICK m \in GoodRequest, nd \in NodeType, k \in Nat, machine \in Machine, after \in NodeType :
          /\ Installs(p, m, nd, k, machine, after)
          /\ node' = [node EXCEPT ![p] = after]
          /\ received' = [received EXCEPT ![p] = [o \in Offsets |-> None]]
          /\ Answer(p, SnapshotReply(p, TRUE, m.offset + m.len, TRUE))
    BY <1>5, InstallEffect
  <2>2. InPlace(after.log)
    BY <1>4, <2>1 DEF Installs
  <2> QED
    BY <1>1, <2>1, <2>2, PlaceChanges
<1>6. CASE Restart(p)
  <2>1. PICK nd \in NodeType, k \in Nat, after \in NodeType :
          Restarts(p, nd, k, after) /\ node' = [node EXCEPT ![p] = after]
    BY <1>6, RestartEffect
  <2>2. InPlace(after.log)
    BY <1>4, <2>1 DEF Restarts
  <2> QED
    BY <1>1, <2>1, <2>2, PlaceChanges
<1> QED
  BY <1>2, <1>3, <1>5, <1>6

\* Every step leaves entries in place.
LEMMA PlaceStep ==
  TransferInv /\ FollowInv /\ PlaceInv /\ [Next]_vars /\ [NotRepeated]_vars => PlaceInv'
<1> SUFFICES ASSUME TransferInv, FollowInv, PlaceInv, [Next]_vars, [NotRepeated]_vars
             PROVE  PlaceInv'
  OBVIOUS
<1>1. Lead \in Node /\ Peer \subseteq Node /\ \A n \in Node : node[n] \in NodeType
  BY NodesAre DEF TransferInv, NodesInv
<1>2. ASSUME NEW n, NEW nd \in NodeType, NEW after, Tended(n, nd, after), InPlace(nd.log)
      PROVE  InPlace(after.log)
  BY <1>2, PartInPlace DEF Tended
<1>3. CASE TickHeartbeat
  <2>1. PICK nd \in NodeType, after \in NodeType :
          /\ Tended(Lead, node[Lead], nd) /\ Tended(Lead, node[Lead], after)
          /\ nd.stored.index <= MaxIndex
          /\ Round(nd) /\ node' = [node EXCEPT ![Lead] = after]
    BY <1>3, HeartbeatEffect
  <2>2. InPlace(nd.log) /\ InPlace(after.log)
    BY <1>1, <1>2, <2>1 DEF PlaceInv
  <2>3. RequestsInPlace'
    BY <2>1, <2>2, RoundSends, RequestsStayInPlace DEF PlaceInv
  <2> QED
    BY <1>1, <2>1, <2>2, <2>3, PlaceChanges
<1>4. CASE Propose
  <2>1. PICK was \in NodeType, nd \in NodeType, e \in Entry, k \in Nat :
          /\ was = node[Lead] /\ k = LastIndex(was.log) + 1
          /\ e = [term |-> Term, data |-> k]
          /\ nd.log = Extend(was.log, <<e>>) /\ nd.snapshot = was.snapshot
          /\ nd.stored = was.stored /\ nd.pending = was.pending /\ nd.machine = was.machine
          /\ nd.last_applied = was.last_applied /\ nd.commit_index = was.commit_index
          /\ nd.stored.index <= MaxIndex
          /\ Round(nd) /\ node' = [node EXCEPT ![Lead] = nd]
    BY <1>4, ProposeEffect
  <2>2. PICK l \in LogType : l = was.log
    BY NodeParts
  <2>3. PICK x : x = Extend(l, <<e>>)
    OBVIOUS
  <2>4. /\ \A j \in Indexes(l) : At(x, j) = At(l, j)
        /\ At(x, LastIndex(l) + 1) = e
        /\ \A j \in Indexes(x) : j \in Indexes(l) \/ j = LastIndex(l) + 1
    BY <2>3, ExtendIs
  <2>5. InPlace(l)
    BY <1>1, <2>1, <2>2 DEF PlaceInv
  <2>6. e.data = LastIndex(l) + 1
    BY <2>1, <2>2
  <2>7. InPlace(nd.log)
    BY <2>1, <2>2, <2>3, <2>4, <2>5, <2>6 DEF InPlace
  <2>8. RequestsInPlace'
    BY <2>1, <2>7, RoundSends, RequestsStayInPlace DEF PlaceInv
  <2> QED
    BY <1>1, <2>1, <2>7, <2>8, PlaceChanges
<1>5. ASSUME Quiet PROVE RequestsInPlace'
  BY <1>5, RequestsStayInPlace DEF PlaceInv
<1>6. ASSUME Quiet, NEW n \in Node, NEW done \in BOOLEAN, Tick(n, done) \/ SnapshotCreate(n)
      PROVE  PlaceInv'
  <2>1. PICK after : Tended(n, node[n], after) /\ node' = [node EXCEPT ![n] = after]
    BY <1>6, OwnEffect
  <2>2. InPlace(after.log)
    BY <1>1, <1>2, <2>1 DEF PlaceInv
  <2> QED
    BY <1>5, <1>6, <2>1, <2>2, PlaceChanges
<1>7. ASSUME Quiet, NEW p \in Peer, RecvAppendSuccess(p) PROVE PlaceInv'
  <2>1. PICK nd \in NodeType, after \in NodeType :
          nd = node[Lead] /\ after.log = nd.log /\ node' = [node EXCEPT ![Lead] = after]
    BY <1>7, SuccessEffect
  <2>2. InPlace(after.log)
    BY <1>1, <2>1 DEF PlaceInv
  <2> QED
    BY <1>1, <1>5, <1>7, <2>1, <2>2, PlaceChanges
<1>8. ASSUME Quiet, StillStep PROVE PlaceInv'
  BY <1>5, <1>8 DEF StillStep, PlaceInv
<1>9. ASSUME Quiet, NEW p \in Peer,
             AcceptAppend(p) \/ RefuseConflictingPrev(p) \/ InstallSnapshot(p) \/ Restart(p)
      PROVE  PlaceInv'
  <2>1. CASE NotRepeated
    BY <1>5, <1>9, <2>1, PlaceStored
  <2>2. CASE UNCHANGED vars
    BY <1>5, <1>9, <2>2 DEF vars, PlaceInv
  <2> QED
    BY <2>1, <2>2
<1>10. TickHeartbeat \/ Propose \/ Quiet
  BY QuietStep
<1> QED
  BY <1>3, <1>4, <1>6, <1>7, <1>8, <1>9, <1>10, WhichStep

\* Every log holds each entry at the index the leader gave it, through compaction,
\* transfers and restarts: where nodes start that way, no snapshot of a peer is
\* overtaken, and no peer is sent again, from the first index on, what it has
\* compacted since.
THEOREM EntriesStayInPlace ==
  ASSUME \A n \in Node : Sane(n, Started[n]) /\ InPlace(Started[n].log)
  PROVE  Spec /\ [][NotOvertaken]_vars /\ [][NotRepeated]_vars => []EntriesInPlace
<1>1. Init => FollowInv
  BY DEF Init, FollowInv
<1>2. Init => PlaceInv
  <2>1. SUFFICES ASSUME Init PROVE PlaceInv
    OBVIOUS
  <2>2. ASSUME NEW p \in Peer PROVE Range(to_peer[p]) = {}
    BY <2>1 DEF Init, Range
  <2> QED
    BY <2>1, <2>2 DEF Init, PlaceInv, RequestsInPlace
<1>3. PlaceInv => EntriesInPlace
  BY DEF PlaceInv, InPlace, Indexes, EntriesInPlace
<1> QED
  BY <1>1, <1>2, <1>3, TransferInit, TransferStep, FollowStep, PlaceStep, PTL DEF Spec

-----------------------------------------------------------------------------
\* A leader that has compacted its log when it is elected sends nothing from the
\* first index on.
NoneFromFirst ==
  /\ node[Lead].log.base > 0
  /\ \A p \in Peer : \A m \in Range(to_peer[p]) : m.type = "AppendEntries" => m.prev_index > 0

\* It goes on like that: a base never goes back, and neither does a request.
LEMMA NoneFromFirstStep ==
  TransferInv /\ FollowInv /\ NoneFromFirst /\ [Next]_vars /\ [NotOvertaken]_vars => NoneFromFirst'
<1> SUFFICES ASSUME TransferInv, FollowInv, NoneFromFirst, [Next]_vars, [NotOvertaken]_vars
             PROVE  NoneFromFirst'
  OBVIOUS
<1> DEFINE Later(m) == m.type = "AppendEntries" => m.prev_index > 0
           LaterOnly == \A p \in Peer : \A m \in Range(to_peer[p]) : Later(m)
<1>1. /\ Lead \in Node /\ Peer \subseteq Node /\ Lead \notin Peer
      /\ \A n \in Node : node[n] \in NodeType /\ node[n].log.base = node[n].snapshot.index
  BY NodesAre DEF TransferInv, NodesInv, FollowInv, Sane, Follows
<1>2. ASSUME NEW nd \in NodeType, NEW after, Tended(Lead, nd, after), nd.log.base > 0,
             nd.log.base = nd.snapshot.index
      PROVE  after.log.base > 0 /\ after.log.base = after.snapshot.index
  <2>1. after \in NodeType /\ after.log.base = after.snapshot.index
    BY <1>2 DEF Tended, Sane, Follows
  <2>2. nd.snapshot.index \in Nat /\ after.snapshot.index \in Nat
    BY <2>1, NodeParts
  <2> QED
    BY <1>2, <2>1, <2>2 DEF Tended
<1>3. ASSUME NEW nd \in NodeType, nd.log.base > 0, Sends(nd) PROVE LaterOnly'
  <2>1. SUFFICES ASSUME NEW p \in Peer, NEW m \in Range(to_peer'[p]) PROVE Later(m)
    OBVIOUS
  <2>2. next_index[p] \in Nat /\ nd.log.base \in Nat
    BY NodeParts DEF TransferInv, PeersInv
  <2>3. CASE m \in Range(to_peer[p])
    BY <2>3 DEF NoneFromFirst
  <2>4. CASE m = ChunkRequest(nd, p)
    BY <2>4 DEF ChunkRequest
  <2>5. CASE ~NeedsSnapshot(nd, p) /\ m = AppendRequest(nd, p)
    <3>1. m.prev_index = next_index[p] - 1
      BY <2>5 DEF AppendRequest
    <3> QED
      BY <1>3, <2>2, <2>5, <3>1 DEF NeedsSnapshot
  <2> QED
    BY <1>3, <2>1, <2>3, <2>4, <2>5 DEF Sends
<1>4. ASSUME Quiet PROVE LaterOnly'
  BY <1>4 DEF Quiet, NoneFromFirst
<1>5. ASSUME NEW after, after.log.base > 0, node' = [node EXCEPT ![Lead] = after], LaterOnly'
      PROVE  NoneFromFirst'
  BY <1>1, <1>5, NodeIs DEF NoneFromFirst
<1>6. ASSUME node'[Lead] = node[Lead], LaterOnly' PROVE NoneFromFirst'
  BY <1>6 DEF NoneFromFirst
<1> HIDE DEF LaterOnly
<1>7. CASE TickHeartbeat
  <2>1. PICK nd \in NodeType, after \in NodeType :
          /\ Tended(Lead, node[Lead], nd) /\ Tended(Lead, node[Lead], after)
          /\ nd.stored.index <= MaxIndex
          /\ Round(nd) /\ node' = [node EXCEPT ![Lead] = after]
    BY <1>7, HeartbeatEffect
  <2>2. nd.log.base > 0 /\ after.log.base > 0
    BY <1>1, <1>2, <2>1 DEF NoneFromFirst
  <2> QED
    BY <1>3, <1>5, <2>1, <2>2, RoundSends
<1>8. CASE Propose
  <2>1. PICK was \in NodeType, nd \in NodeType, e \in Entry :
          /\ was = node[Lead] /\ nd.log = Extend(was.log, <<e>>) /\ nd.stored.index <= MaxIndex
          /\ Round(nd) /\ node' = [node EXCEPT ![Lead] = nd]
    BY <1>8, ProposeEffect
  <2>2. nd.log.base > 0
    BY <2>1 DEF Extend, NoneFromFirst
  <2> QED
    BY <1>3, <1>5, <2>1, <2>2, RoundSends
<1>9. ASSUME Quiet, NEW n \in Node, NEW done \in BOOLEAN, Tick(n, done) \/ SnapshotCreate(n)
      PROVE  NoneFromFirst'
  <2>1. PICK after : Tended(n, node[n], after) /\ node' = [node EXCEPT ![n] = after]
    BY <1>9, OwnEffect
  <2>2. CASE n = Lead
    <3>1. after.log.base > 0
      BY <1>1, <1>2, <2>1, <2>2 DEF NoneFromFirst
    <3> QED
      BY <1>4, <1>5, <1>9, <2>1, <2>2, <3>1
  <2>3. CASE n # Lead
    BY <1>1, <1>4, <1>6, <1>9, <2>1, <2>3, NodeIs
  <2> QED
    BY <2>2, <2>3
<1>10. ASSUME Quiet, NEW p \in Peer, RecvAppendSuccess(p) PROVE NoneFromFirst'
  <2>1. PICK nd \in NodeType, after \in NodeType :
          nd = node[Lead] /\ after.log = nd.log /\ node' = [node EXCEPT ![Lead] = after]
    BY <1>10, SuccessEffect
  <2> QED
    BY <1>4, <1>5, <1>10, <2>1 DEF NoneFromFirst
<1>11. ASSUME Quiet, NEW p \in Peer,
              AcceptAppend(p) \/ RefuseConflictingPrev(p) \/ InstallSnapshot(p) \/ Restart(p)
       PROVE  NoneFromFirst'
  <2>1. node'[Lead] = node[Lead]
    BY <1>1, <1>11, OthersStay
  <2> QED
    BY <1>4, <1>6, <1>11, <2>1
<1>12. ASSUME Quiet, StillStep PROVE NoneFromFirst'
  BY <1>4, <1>6, <1>12 DEF StillStep
<1>13. TickHeartbeat \/ Propose \/ Quiet
  BY QuietStep
<1> QED
  BY <1>7, <1>8, <1>9, <1>10, <1>11, <1>12, <1>13, WhichStep

\* So one of the conditions is always met under a leader that was elected with
\* a snapshot.
THEOREM NothingIsRepeated ==
  ASSUME \A n \in Node : Sane(n, Started[n]), Started[Lead].log.base > 0
  PROVE  Spec /\ [][NotOvertaken]_vars => [][NotRepeated]_vars
<1>1. Init => FollowInv
  BY DEF Init, FollowInv
<1>2. Init => NoneFromFirst
  <2>1. SUFFICES ASSUME Init PROVE NoneFromFirst
    OBVIOUS
  <2>2. ASSUME NEW p \in Peer PROVE Range(to_peer[p]) = {}
    BY <2>1 DEF Init, Range
  <2> QED
    BY <2>1, <2>2 DEF Init, NoneFromFirst
<1>3. TransferInv /\ NoneFromFirst => NotRepeated
  <2>1. SUFFICES ASSUME TransferInv, NoneFromFirst, NEW p \in Peer, AcceptAppend(p),
                        Head(to_peer[p]).prev_index = 0
                 PROVE  FALSE
    BY DEF NotRepeated
  <2>2. to_peer[p] # <<>> /\ Head(to_peer[p]).type = "AppendEntries"
    BY <2>1 DEF AcceptAppend, HeadIs
  <2>3. Head(to_peer[p]) \in Range(to_peer[p])
    BY <2>1, <2>2, RequestTaken
  <2>4. Head(to_peer[p]).prev_index > 0
    BY <2>1, <2>2, <2>3 DEF NoneFromFirst
  <2> QED
    BY <2>1, <2>4
<1> QED
  BY <1>1, <1>2, <1>3, TransferInit, TransferStep, FollowStep, NoneFromFirstStep, PTL DEF Spec
=============================================================================
