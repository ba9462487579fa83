--------------------------- MODULE RaftLogProofs ----------------------------
(***************************************************************************)
(* Proofs that the array of raft_log.c is the log its callers see, for     *)
(* every capacity, every chunk and every order of calls.                   *)
(***************************************************************************)
EXTENDS RaftLog, SequenceTheorems, TLAPS

LiveSlot == [index : Nat, term : Term, data : Data]
Array(n) == [0 .. n - 1 -> SlotType \cup {Junk}]

\* The entries in the first n slots of array a.
Seen(a, n) == [k \in 1 .. n |-> Live(a[k - 1])]

\* IndexFieldRight, offset by offset, for n live slots of a after base b.
IndexesRight(a, n, b) == \A o \in 0 .. n - 1 : a[o].index = b + o + 1
-----------------------------------------------------------------------------
(***************************************************************************)
(* Arrays and what callers see of them.                                    *)
(***************************************************************************)
LEMMA ChunkType ==
  ASSUME NEW es \in Chunks
  PROVE  es \in Seq(Entry) /\ Len(es) \in Nat
BY LogAssumption

LEMMA SeenType ==
  ASSUME NEW n \in Nat, NEW a, \A o \in 0 .. n - 1 : a[o] \in LiveSlot
  PROVE  /\ Seen(a, n) \in Seq(Entry) /\ Len(Seen(a, n)) = n
         /\ \A k \in 1 .. n : Seen(a, n)[k] = Live(a[k - 1])
<1>1. \A s \in LiveSlot : Live(s) \in Entry
  BY DEF LiveSlot, Live, Entry
<1>2. \A k \in 1 .. n : k - 1 \in 0 .. n - 1
  OBVIOUS
<1>3. \A k \in 1 .. n : Live(a[k - 1]) \in Entry
  BY <1>1, <1>2
<1> QED
  BY <1>3 DEF Seen

\* Slots that are alike show the same entries.
LEMMA SeenSame ==
  ASSUME NEW n \in Nat, NEW a, NEW b, \A o \in 0 .. n - 1 : b[o] = a[o]
  PROVE  Seen(b, n) = Seen(a, n)
<1>1. \A k \in 1 .. n : k - 1 \in 0 .. n - 1
  OBVIOUS
<1> QED
  BY <1>1 DEF Seen

LEMMA SeenConcat ==
  ASSUME NEW n \in Nat, NEW a, NEW b, NEW es \in Seq(Entry),
         \A o \in 0 .. n - 1 : a[o] \in LiveSlot /\ b[o] = a[o],
         \A m \in 1 .. Len(es) : b[n + m - 1] \in LiveSlot /\ Live(b[n + m - 1]) = es[m]
  PROVE  Seen(b, n + Len(es)) = Seen(a, n) \o es
<1>1. Len(es) \in Nat
  OBVIOUS
<1>2. \A o \in 0 .. n + Len(es) - 1 : b[o] \in LiveSlot
  <2> TAKE o \in 0 .. n + Len(es) - 1
  <2>1. CASE o < n
    BY <2>1
  <2>2. CASE o >= n
    <3>1. o - n + 1 \in 1 .. Len(es) /\ n + (o - n + 1) - 1 = o
      BY <1>1, <2>2
    <3> QED
      BY <3>1
  <2> QED
    BY <1>1, <2>1, <2>2
<1>3. /\ Seen(a, n) \in Seq(Entry) /\ Len(Seen(a, n)) = n
      /\ \A k \in 1 .. n : Seen(a, n)[k] = Live(a[k - 1])
  BY SeenType
<1>4. /\ Seen(b, n + Len(es)) \in Seq(Entry) /\ Len(Seen(b, n + Len(es))) = n + Len(es)
      /\ \A k \in 1 .. n + Len(es) : Seen(b, n + Len(es))[k] = Live(b[k - 1])
  BY <1>1, <1>2, SeenType
<1>5. /\ Seen(a, n) \o es \in Seq(Entry) /\ Len(Seen(a, n) \o es) = n + Len(es)
      /\ \A k \in 1 .. n + Len(es) :
           (Seen(a, n) \o es)[k] = IF k <= n THEN Seen(a, n)[k] ELSE es[k - n]
  <2> DEFINE s == Seen(a, n)
  <2>1. /\ s \o es \in Seq(Entry) /\ Len(s \o es) = Len(s) + Len(es)
        /\ \A k \in 1 .. Len(s) + Len(es) :
             (s \o es)[k] = IF k <= Len(s) THEN s[k] ELSE es[k - Len(s)]
    <3> HIDE DEF s
    <3> QED BY <1>3, ConcatProperties DEF s
  <2>2. Len(s) = n
    BY <1>3
  <2> QED
    BY <2>1, <2>2
<1>6. ASSUME NEW k \in 1 .. n + Len(es)
      PROVE  Seen(b, n + Len(es))[k] = (Seen(a, n) \o es)[k]
  <2>1. CASE k <= n
    <3>1. k - 1 \in 0 .. n - 1 /\ k \in 1 .. n
      BY <1>1, <2>1
    <3> QED
      BY <1>3, <1>4, <1>5, <2>1, <3>1
  <2>2. CASE ~(k <= n)
    <3>1. k - n \in 1 .. Len(es) /\ n + (k - n) - 1 = k - 1
      BY <1>1, <2>2
    <3>2. Live(b[k - 1]) = es[k - n]
      BY <3>1
    <3> QED
      BY <1>4, <1>5, <2>2, <3>2
  <2> QED
    BY <2>1, <2>2
<1> QED
  BY <1>1, <1>4, <1>5, <1>6, SeqEqual

LEMMA SeenPrefix ==
  ASSUME NEW n \in Nat, NEW m \in 0 .. n, NEW a, NEW b,
         \A o \in 0 .. n - 1 : a[o] \in LiveSlot, \A o \in 0 .. m - 1 : b[o] = a[o]
  PROVE  Seen(b, m) = SubSeq(Seen(a, n), 1, m)
<1>1. \A k \in 1 .. m : k - 1 \in 0 .. m - 1 /\ k \in 1 .. n /\ k + 1 - 1 = k
  OBVIOUS
<1>2. SubSeq(Seen(a, n), 1, m) = [k \in 1 .. m |-> Seen(a, n)[k]]
  BY <1>1, SeenType, SubSeqProperties
<1> QED
  BY <1>1, <1>2 DEF Seen

LEMMA SeenSuffix ==
  ASSUME NEW n \in Nat, NEW r \in 0 .. n, NEW a, NEW b,
         \A o \in 0 .. n - 1 : a[o] \in LiveSlot, \A o \in 0 .. n - r - 1 : b[o] = a[o + r]
  PROVE  Seen(b, n - r) = SubSeq(Seen(a, n), r + 1, n)
<1>1. \A k \in 1 .. n - r :
        /\ k - 1 \in 0 .. n - r - 1 /\ (k - 1) + r = (k + r) - 1
        /\ k + r \in 1 .. n /\ k + (r + 1) - 1 = k + r
  OBVIOUS
<1>2. /\ Seen(a, n) \in Seq(Entry) /\ Len(Seen(a, n)) = n
      /\ \A k \in 1 .. n : Seen(a, n)[k] = Live(a[k - 1])
  BY SeenType
<1>3. SubSeq(Seen(a, n), r + 1, n) = [k \in 1 .. n - r |-> Seen(a, n)[k + r]]
  BY <1>1, <1>2, SubSeqProperties
<1>4. \A k \in 1 .. n - r : Live(b[k - 1]) = Seen(a, n)[k + r]
  BY <1>1, <1>2, SMTT(30)
<1> QED
  BY <1>3, <1>4 DEF Seen

LEMMA IndexByOffset ==
  ASSUME NEW n \in Nat, NEW b \in Nat, NEW a
  PROVE  IndexesRight(a, n, b) <=> \A k \in b + 1 .. b + n : a[k - b - 1].index = k
<1>1. \A k \in b + 1 .. b + n : k - b - 1 \in 0 .. n - 1 /\ b + (k - b - 1) + 1 = k
  OBVIOUS
<1>2. \A o \in 0 .. n - 1 : b + o + 1 \in b + 1 .. b + n /\ (b + o + 1) - b - 1 = o
  OBVIOUS
<1>3. ASSUME IndexesRight(a, n, b), NEW k \in b + 1 .. b + n
      PROVE  a[k - b - 1].index = k
  BY <1>1, <1>3 DEF IndexesRight
<1>4. ASSUME \A k \in b + 1 .. b + n : a[k - b - 1].index = k, NEW o \in 0 .. n - 1
      PROVE  a[o].index = b + o + 1
  <2>1. a[(b + o + 1) - b - 1].index = b + o + 1
    BY <1>2, <1>4
  <2> QED
    BY <1>2, <2>1
<1> QED
  BY <1>3, <1>4 DEF IndexesRight

\* What TypeOK says of the live slots, in this module's terms.
LEMMA LiveSlots ==
  TypeOK <=> /\ capacity \in Nat \ {0} /\ base_index \in Nat
             /\ count \in 0 .. capacity
             /\ entries \in Array(capacity)
             /\ \A o \in 0 .. count - 1 : entries[o] \in LiveSlot
BY DEF TypeOK, Array, LiveSlot

LEMMA LastIndexIs ==
  ASSUME count \in Nat, base_index \in Nat
  PROVE  last_index = base_index + count /\ (count # 0 => first_index = base_index + 1)
BY DEF last_index, offset_to_index, first_index

LEMMA IndexFieldIs ==
  ASSUME count \in Nat, base_index \in Nat
  PROVE  IndexFieldRight <=> IndexesRight(entries, count, base_index)
BY LastIndexIs, IndexByOffset DEF IndexFieldRight, Slot, index_to_offset

LEMMA InitOK == Init => TypeOK /\ IndexFieldRight /\ Abstract!Init
<1> SUFFICES ASSUME Init PROVE TypeOK /\ IndexFieldRight /\ Abstract!Init
  OBVIOUS
<1>1. TypeOK
  BY LogAssumption DEF Init, TypeOK
<1>2. IndexFieldRight
  BY IndexFieldIs DEF Init, IndexesRight
<1>3. AbstractLog = [base |-> 0, entries |-> <<>>]
  BY DEF Init, AbstractLog
<1> QED
  BY <1>1, <1>2, <1>3 DEF Abstract!Init, Abstract!EmptyLog
-----------------------------------------------------------------------------
(***************************************************************************)
(* What the operations do to the slots.                                    *)
(***************************************************************************)
\* Growing the array keeps its live slots.
LEMMA ResizedType ==
  ASSUME TypeOK, NEW needed \in Nat, needed >= count,
         NEW c \in 0 .. MaxCapacity, Grown(needed, c)
  PROVE  /\ c \in Nat \ {0} /\ c >= needed
         /\ Resized(c) \in Array(c)
         /\ \A o \in 0 .. count - 1 : Resized(c)[o] = entries[o]
<1>1. /\ capacity \in Nat \ {0} /\ MaxCapacity \in Nat /\ c \in Nat
      /\ count \in Nat /\ count <= capacity
      /\ \A o \in 0 .. capacity - 1 : entries[o] \in SlotType \cup {Junk}
  BY LogAssumption DEF TypeOK
<1>2. c >= needed /\ c # 0
  BY <1>1 DEF Grown
<1>3. Resized(c) \in Array(c)
  BY <1>1 DEF Resized, Array
<1>4. \A o \in 0 .. count - 1 : o \in 0 .. c - 1 /\ o < capacity
  BY <1>1, <1>2
<1> QED
  BY <1>1, <1>2, <1>3, <1>4 DEF Resized

\* Writing entries after the live slots leaves those alone.
LEMMA WrittenType ==
  ASSUME count \in Nat, base_index \in Nat, NEW c \in Nat, NEW a \in Array(c),
         NEW es \in Seq(Entry), count + Len(es) <= c
  PROVE  /\ Written(a, es) \in Array(c)
         /\ \A o \in 0 .. count - 1 : Written(a, es)[o] = a[o]
         /\ \A m \in 1 .. Len(es) :
              /\ Written(a, es)[count + m - 1] \in LiveSlot
              /\ Written(a, es)[count + m - 1].index = base_index + (count + m - 1) + 1
              /\ Live(Written(a, es)[count + m - 1]) = es[m]
<1> DEFINE slot(o) == [index |-> offset_to_index(o), term |-> es[o - count + 1].term,
                       data |-> es[o - count + 1].data]
<1>1. Len(es) \in Nat /\ DOMAIN a = 0 .. c - 1
  BY DEF Array
<1>2. \A m \in 1 .. Len(es) : es[m] = [term |-> es[m].term, data |-> es[m].data]
                              /\ es[m].term \in Term /\ es[m].data \in Data
  <2>1. \A m \in 1 .. Len(es) : es[m] \in Entry
    OBVIOUS
  <2>2. \A e \in Entry : e = [term |-> e.term, data |-> e.data]
                         /\ e.term \in Term /\ e.data \in Data
    BY DEF Entry
  <2> QED
    BY <2>1, <2>2
<1>3. \A m \in 1 .. Len(es) :
        /\ count + m - 1 \in count .. count + Len(es) - 1
        /\ count + m - 1 \in DOMAIN a
        /\ (count + m - 1) - count + 1 = m
        /\ offset_to_index(count + m - 1) = base_index + (count + m - 1) + 1
  BY <1>1 DEF offset_to_index
<1>4. \A o \in count .. count + Len(es) - 1 : o \in DOMAIN a /\ slot(o) \in LiveSlot
  <2> TAKE o \in count .. count + Len(es) - 1
  <2>1. o - count + 1 \in 1 .. Len(es) /\ o \in 0 .. c - 1 /\ offset_to_index(o) \in Nat
    BY <1>1 DEF offset_to_index
  <2>2. es[o - count + 1].term \in Term /\ es[o - count + 1].data \in Data
    BY <1>2, <2>1
  <2> QED
    BY <1>1, <2>1, <2>2 DEF LiveSlot
<1>5. Written(a, es) = [o \in 0 .. c - 1 |->
                          IF o \in count .. count + Len(es) - 1 THEN slot(o) ELSE a[o]]
  BY <1>1 DEF Written
<1> HIDE DEF slot
<1>6. Written(a, es) \in Array(c)
  <2>1. \A o \in 0 .. c - 1 : a[o] \in SlotType \cup {Junk}
    BY DEF Array
  <2>2. LiveSlot \subseteq SlotType
    BY DEF LiveSlot, SlotType
  <2> QED
    BY <1>4, <1>5, <2>1, <2>2 DEF Array
<1>7. \A o \in 0 .. count - 1 : o \in 0 .. c - 1 /\ o \notin count .. count + Len(es) - 1
  BY <1>1
<1>8. \A m \in 1 .. Len(es) :
        Written(a, es)[count + m - 1] = [index |-> base_index + (count + m - 1) + 1,
                                         term |-> es[m].term, data |-> es[m].data]
  <2> TAKE m \in 1 .. Len(es)
  <2>1. PICK o \in count .. count + Len(es) - 1 :
          /\ o = count + m - 1 /\ o \in DOMAIN a /\ o - count + 1 = m
          /\ offset_to_index(o) = base_index + o + 1
    BY <1>3
  <2>2. Written(a, es)[o] = slot(o)
    BY <1>1, <1>5, <2>1
  <2> QED
    BY <2>1, <2>2 DEF slot
<1>9. \A m \in 1 .. Len(es) : Written(a, es)[count + m - 1] \in LiveSlot
  BY <1>1, <1>3, <1>4, <1>5
<1>10. \A o \in 0 .. count - 1 : Written(a, es)[o] = a[o]
  BY <1>5, <1>7
<1>11. \A m \in 1 .. Len(es) :
        /\ Written(a, es)[count + m - 1].index = base_index + (count + m - 1) + 1
        /\ Live(Written(a, es)[count + m - 1]) = es[m]
  <2> TAKE m \in 1 .. Len(es)
  <2> DEFINE s == Written(a, es)[count + m - 1]
  <2>1. s = [index |-> base_index + (count + m - 1) + 1, term |-> es[m].term, data |-> es[m].data]
    BY <1>8
  <2>2. es[m] = [term |-> es[m].term, data |-> es[m].data]
    BY <1>2
  <2> HIDE DEF s
  <2>3. s.index = base_index + (count + m - 1) + 1 /\ Live(s) = es[m]
    BY <2>1, <2>2 DEF Live
  <2> QED
    BY <2>3 DEF s
<1> QED
  BY <1>6, <1>9, <1>10, <1>11

\* Freeing touches only slots that hold something.
LEMMA FreedType ==
  ASSUME NEW c \in Nat, NEW a \in Array(c), NEW first \in Int, NEW last \in Int,
         \A o \in 0 .. c - 1 : o \in first .. last => a[o] \in SlotType
  PROVE  /\ Freed(a, first, last) \in Array(c)
         /\ \A o \in 0 .. c - 1 : o \notin first .. last => Freed(a, first, last)[o] = a[o]
<1>1. Freed(a, first, last) =
        [o \in 0 .. c - 1 |-> IF o \in first .. last THEN [a[o] EXCEPT !.data = Junk] ELSE a[o]]
  BY DEF Freed, Array
<1>2. \A s \in SlotType : [s EXCEPT !.data = Junk] \in SlotType
  BY DEF SlotType
<1>3. \A o \in 0 .. c - 1 : a[o] \in SlotType \cup {Junk}
  BY DEF Array
<1> QED
  BY <1>1, <1>2, <1>3 DEF Array

\* Moving the last slots to the front.
LEMMA ShiftedType ==
  ASSUME count \in Nat, NEW c \in Nat, count <= c, NEW a \in Array(c), NEW n \in 0 .. count
  PROVE  /\ Shifted(a, n) \in Array(c)
         /\ \A o \in 0 .. count - n - 1 : Shifted(a, n)[o] = a[o + n]
<1>1. Shifted(a, n) = [o \in 0 .. c - 1 |-> IF o < count - n THEN a[o + n] ELSE a[o]]
  BY DEF Shifted, Array
<1>2. \A o \in 0 .. c - 1 : a[o] \in SlotType \cup {Junk}
  BY DEF Array
<1>3. \A o \in 0 .. c - 1 : o < count - n => o + n \in 0 .. c - 1
  OBVIOUS
<1>4. \A o \in 0 .. count - n - 1 : o \in 0 .. c - 1 /\ o < count - n
  OBVIOUS
<1> QED
  BY <1>1, <1>2, <1>3, <1>4 DEF Array
-----------------------------------------------------------------------------
(***************************************************************************)
(* One lemma per operation: it keeps the type and the index stored with    *)
(* every entry, and does to the log callers see what LogSpec says.         *)
(***************************************************************************)
LogInv == TypeOK /\ IndexFieldRight

LEMMA Facts ==
  ASSUME LogInv
  PROVE  /\ capacity \in Nat \ {0} /\ base_index \in Nat
         /\ count \in Nat /\ count <= capacity
         /\ entries \in Array(capacity)
         /\ \A o \in 0 .. count - 1 :
              /\ entries[o] \in LiveSlot /\ entries[o] \in SlotType
              /\ entries[o].index = base_index + o + 1
         /\ last_index = base_index + count /\ (count # 0 => first_index = base_index + 1)
<1>1. /\ capacity \in Nat \ {0} /\ base_index \in Nat /\ count \in 0 .. capacity
      /\ entries \in Array(capacity)
      /\ \A o \in 0 .. count - 1 : entries[o] \in LiveSlot
  BY LiveSlots DEF LogInv
<1>2. LiveSlot \subseteq SlotType
  BY DEF LiveSlot, SlotType
<1>3. IndexesRight(entries, count, base_index)
  BY <1>1, IndexFieldIs DEF LogInv
<1> QED
  BY <1>1, <1>2, <1>3, LastIndexIs DEF IndexesRight

LEMMA TypeParts ==
  ASSUME NEW c \in Nat \ {0}, NEW b \in Nat, NEW n \in 0 .. c, NEW a \in Array(c),
         \A o \in 0 .. n - 1 : a[o] \in LiveSlot
  PROVE  /\ c \in Nat \ {0} /\ b \in Nat /\ n \in 0 .. c
         /\ a \in [0 .. c - 1 -> SlotType \cup {Junk}]
         /\ \A o \in 0 .. n - 1 : a[o] \in [index : Nat, term : Term, data : Data]
BY DEF Array, LiveSlot

LEMMA LastIs ==
  ASSUME NEW n \in Nat, NEW b \in Nat
  PROVE  (IF n = 0 THEN b ELSE b + (n - 1) + 1) = b + n
OBVIOUS

LEMMA Reached ==
  ASSUME capacity' \in Nat \ {0}, base_index' \in Nat, count' \in Nat, count' <= capacity',
         entries' \in Array(capacity'),
         \A o \in 0 .. count' - 1 : entries'[o] \in LiveSlot,
         IndexesRight(entries', count', base_index')
  PROVE  LogInv'
<1>0. count' \in 0 .. capacity'
  OBVIOUS
<1>1. TypeOK'
  BY <1>0, TypeParts DEF TypeOK
<1>2. IndexesRight(entries', count', base_index')
  OBVIOUS
<1>3. \A k \in base_index' + 1 .. base_index' + count' : entries'[k - base_index' - 1].index = k
  BY <1>2, IndexByOffset
<1>4. IndexFieldRight'
  <2>1. (IF count' = 0 THEN base_index' ELSE base_index' + (count' - 1) + 1)
          = base_index' + count'
    BY LastIs
  <2> QED
    BY <1>3, <2>1 DEF IndexFieldRight, last_index, offset_to_index, Slot, index_to_offset
<1> QED
  BY <1>1, <1>4 DEF LogInv

LEMMA AbstractIs ==
  /\ AbstractLog = [base |-> base_index, entries |-> Seen(entries, count)]
  /\ AbstractLog' = [base |-> base_index', entries |-> Seen(entries', count')]
BY DEF AbstractLog, Seen

LEMMA AppendStep ==
  ASSUME LogInv, NEW es \in Chunks, AppendChunk(es)
  PROVE  LogInv' /\ AbstractLog' = Extend(AbstractLog, es)
<1>1. es \in Seq(Entry) /\ Len(es) \in Nat
  BY ChunkType
<1>2. /\ base_index \in Nat /\ count \in Nat
      /\ \A o \in 0 .. count - 1 : entries[o] \in LiveSlot
                                   /\ entries[o].index = base_index + o + 1
  BY Facts
<1>3. PICK c \in 0 .. MaxCapacity :
        Grown(count + Len(es), c) /\ capacity' = c /\ entries' = Written(Resized(c), es)
  BY DEF AppendChunk
<1>4. count' = count + Len(es) /\ base_index' = base_index
  BY DEF AppendChunk
<1>5. /\ c \in Nat \ {0} /\ c >= count + Len(es)
      /\ Resized(c) \in Array(c)
      /\ \A o \in 0 .. count - 1 : Resized(c)[o] = entries[o]
  <2>1. count + Len(es) \in Nat /\ count + Len(es) >= count
    BY <1>1, <1>2
  <2> QED
    BY <1>3, <2>1, ResizedType DEF LogInv
<1>6. /\ entries' \in Array(c)
      /\ \A o \in 0 .. count - 1 : entries'[o] = entries[o]
      /\ \A m \in 1 .. Len(es) :
           /\ entries'[count + m - 1] \in LiveSlot
           /\ entries'[count + m - 1].index = base_index + (count + m - 1) + 1
           /\ Live(entries'[count + m - 1]) = es[m]
  BY <1>1, <1>2, <1>3, <1>5, WrittenType
<1>7. \A o \in 0 .. count + Len(es) - 1 :
        entries'[o] \in LiveSlot /\ entries'[o].index = base_index + o + 1
  <2> TAKE o \in 0 .. count + Len(es) - 1
  <2>1. CASE o < count
    BY <1>2, <1>6, <2>1, SMTT(30)
  <2>2. CASE ~(o < count)
    <3>1. o - count + 1 \in 1 .. Len(es) /\ count + (o - count + 1) - 1 = o
      BY <1>1, <1>2, <2>2
    <3> QED
      BY <1>6, <3>1
  <2> QED
    BY <2>1, <2>2
<1>8. LogInv'
  <2>1. IndexesRight(entries', count', base_index')
    BY <1>1, <1>2, <1>4, <1>7 DEF IndexesRight
  <2>2. \A o \in 0 .. count' - 1 : entries'[o] \in LiveSlot
    BY <1>1, <1>2, <1>4, <1>7
  <2>3. count' \in Nat /\ count' <= capacity' /\ base_index' \in Nat
    BY <1>1, <1>2, <1>3, <1>4, <1>5
  <2> QED
    BY <1>3, <1>5, <1>6, <2>1, <2>2, <2>3, Reached
<1>9. Seen(entries', count') = Seen(entries, count) \o es
  BY <1>1, <1>2, <1>4, <1>6, SeenConcat
<1> QED
  BY <1>4, <1>8, <1>9, AbstractIs DEF Extend

\* An append that fails leaves what callers see alone.
LEMMA AppendFailsStep ==
  ASSUME LogInv, NEW es \in Chunks, NEW n \in DOMAIN es, AppendFails(es, n)
  PROVE  LogInv' /\ AbstractLog' = AbstractLog
<1> DEFINE first == SubSeq(es, 1, n - 1)
<1>1. es \in Seq(Entry) /\ Len(es) \in Nat /\ n \in 1 .. Len(es)
  BY ChunkType
<1>2. /\ base_index \in Nat /\ count \in Nat
      /\ \A o \in 0 .. count - 1 : entries[o] \in LiveSlot
                                   /\ entries[o].index = base_index + o + 1
  BY Facts
<1>3. PICK c \in 0 .. MaxCapacity :
        /\ Grown(count + Len(es), c) /\ capacity' = c
        /\ entries' = Freed(Written(Resized(c), first), count, count + n - 2)
  BY DEF AppendFails
<1>4. count' = count /\ base_index' = base_index
  BY DEF AppendFails
<1>5. /\ c \in Nat \ {0} /\ c >= count + Len(es)
      /\ Resized(c) \in Array(c)
      /\ \A o \in 0 .. count - 1 : Resized(c)[o] = entries[o]
  <2>1. count + Len(es) \in Nat /\ count + Len(es) >= count
    BY <1>1, <1>2
  <2> QED
    BY <1>3, <2>1, ResizedType DEF LogInv
<1>6. first \in Seq(Entry) /\ Len(first) = n - 1
  <2>1. \A k \in 1 .. n - 1 : es[k] \in Entry
    BY <1>1
  <2> QED
    BY <1>1, <2>1, SubSeqProperties
<1> DEFINE w == Written(Resized(c), first)
<1> HIDE DEF first
<1>7. /\ w \in Array(c)
      /\ \A o \in 0 .. count - 1 : w[o] = entries[o]
      /\ \A m \in 1 .. n - 1 : w[count + m - 1] \in LiveSlot
  BY <1>1, <1>2, <1>5, <1>6, WrittenType, SMTT(30)
<1> HIDE DEF w
<1>8. \A o \in 0 .. c - 1 : o \in count .. count + n - 2 => w[o] \in SlotType
  <2> TAKE o \in 0 .. c - 1
  <2> HAVE o \in count .. count + n - 2
  <2>1. o - count + 1 \in 1 .. n - 1 /\ count + (o - count + 1) - 1 = o
    BY <1>1, <1>2
  <2>2. w[o] \in LiveSlot
    BY <1>7, <2>1
  <2> QED
    BY <2>2 DEF LiveSlot, SlotType
<1>9. /\ entries' \in Array(c)
      /\ \A o \in 0 .. c - 1 : o \notin count .. count + n - 2 => entries'[o] = w[o]
  <2>1. count \in Int /\ count + n - 2 \in Int
    BY <1>1, <1>2
  <2> QED
    BY <1>3, <1>5, <1>7, <1>8, <2>1, FreedType DEF w
<1>10. \A o \in 0 .. count - 1 : entries'[o] = entries[o]
  BY <1>1, <1>2, <1>5, <1>7, <1>9
<1>11. LogInv'
  <2>1. IndexesRight(entries', count', base_index')
    BY <1>2, <1>4, <1>10 DEF IndexesRight
  <2>2. \A o \in 0 .. count' - 1 : entries'[o] \in LiveSlot
    BY <1>2, <1>4, <1>10
  <2>3. count' \in Nat /\ count' <= capacity' /\ base_index' \in Nat
    BY <1>1, <1>2, <1>3, <1>4, <1>5
  <2> QED
    BY <1>3, <1>5, <1>9, <2>1, <2>2, <2>3, Reached
<1>12. Seen(entries', count') = Seen(entries, count)
  BY <1>2, <1>4, <1>10, SeenSame
<1> QED
  BY <1>4, <1>11, <1>12, AbstractIs

\* Freeing all slots from offset n on leaves the first n.
LEMMA CutStep ==
  ASSUME LogInv, NEW n \in 0 .. count,
         count' = n, base_index' = base_index, capacity' = capacity,
         entries' = Freed(entries, n, count - 1)
  PROVE  LogInv' /\ Seen(entries', count') = SubSeq(Seen(entries, count), 1, n)
<1>1. /\ capacity \in Nat \ {0} /\ base_index \in Nat /\ count \in Nat /\ count <= capacity
      /\ entries \in Array(capacity)
      /\ \A o \in 0 .. count - 1 : /\ entries[o] \in LiveSlot /\ entries[o] \in SlotType
                                   /\ entries[o].index = base_index + o + 1
  BY Facts
<1>2. /\ entries' \in Array(capacity)
      /\ \A o \in 0 .. capacity - 1 : o \notin n .. count - 1 => entries'[o] = entries[o]
  <2>1. \A o \in 0 .. capacity - 1 : o \in n .. count - 1 => entries[o] \in SlotType
    BY <1>1
  <2>2. n \in Int /\ count - 1 \in Int
    BY <1>1
  <2> QED
    BY <1>1, <2>1, <2>2, FreedType
<1>3. \A o \in 0 .. n - 1 : entries'[o] = entries[o]
  BY <1>1, <1>2
<1>4. LogInv'
  <2>1. IndexesRight(entries', count', base_index')
    BY <1>1, <1>3 DEF IndexesRight
  <2>2. \A o \in 0 .. count' - 1 : entries'[o] \in LiveSlot
    BY <1>1, <1>3
  <2>3. count' \in Nat /\ count' <= capacity' /\ base_index' \in Nat
    BY <1>1
  <2> QED
    BY <1>1, <1>2, <2>1, <2>2, <2>3, Reached
<1>5. Seen(entries', n) = SubSeq(Seen(entries, count), 1, n)
  BY <1>1, <1>3, SeenPrefix
<1> QED
  BY <1>4, <1>5

\* Freeing every slot leaves an empty log, at any base.
LEMMA EmptyStep ==
  ASSUME LogInv, NEW k \in Nat, count' = 0, base_index' = k, capacity' = capacity,
         entries' = Freed(entries, 0, count - 1)
  PROVE  LogInv' /\ AbstractLog' = EmptyLog(k)
<1>1. /\ capacity \in Nat \ {0} /\ count \in Nat /\ count <= capacity
      /\ entries \in Array(capacity)
      /\ \A o \in 0 .. count - 1 : entries[o] \in SlotType
  BY Facts
<1>2. entries' \in Array(capacity)
  <2>1. \A o \in 0 .. capacity - 1 : o \in 0 .. count - 1 => entries[o] \in SlotType
    BY <1>1
  <2>2. 0 \in Int /\ count - 1 \in Int
    BY <1>1
  <2> QED
    BY <1>1, <2>1, <2>2, FreedType
<1>3. LogInv'
  <2>1. IndexesRight(entries', count', base_index')
    BY DEF IndexesRight
  <2> QED
    BY <1>1, <1>2, <2>1, Reached
<1>4. Seen(entries', 0) = <<>>
  BY DEF Seen
<1> QED
  BY <1>3, <1>4, AbstractIs DEF EmptyLog

LEMMA TruncateAfterStep ==
  ASSUME LogInv, NEW k \in Index, TruncateLogAfter(k)
  PROVE  LogInv' /\ AbstractLog' = TruncateAfter(AbstractLog, k)
<1>1. k \in Nat
  BY LogAssumption
<1>2. /\ base_index \in Nat /\ count \in Nat /\ last_index = base_index + count
      /\ \A o \in 0 .. count - 1 : entries[o] \in LiveSlot
  BY Facts
<1> DEFINE n == KeptAfter(k)
           e == Seen(entries, count)
<1>3. /\ n \in 0 .. count
      /\ k >= base_index + count => n = count \/ count = 0
      /\ ~(k >= base_index + count) => n = IF k <= base_index THEN 0 ELSE k - base_index
  BY <1>1, <1>2 DEF KeptAfter, index_to_offset
<1>4. /\ count' = n /\ base_index' = base_index /\ capacity' = capacity
      /\ entries' = Freed(entries, n, count - 1)
  BY DEF TruncateLogAfter
<1> HIDE DEF n
<1>5. LogInv' /\ Seen(entries', count') = SubSeq(e, 1, n)
  BY <1>3, <1>4, CutStep
<1>6. e \in Seq(Entry) /\ Len(e) = count
  BY <1>2, SeenType
<1>7. LastIndex(AbstractLog) = base_index + count
  BY <1>6, AbstractIs DEF LastIndex
<1>8. AbstractLog' = [base |-> base_index, entries |-> SubSeq(e, 1, n)]
  BY <1>4, <1>5, AbstractIs
<1>9. CASE k >= base_index + count
  <2>1. n = Len(e)
    BY <1>3, <1>6, <1>9
  <2>2. SubSeq(e, 1, n) = e
    <3> HIDE DEF e
    <3> QED BY <1>6, <2>1
  <2> QED
    BY <1>5, <1>7, <1>8, <1>9, <2>2, AbstractIs DEF TruncateAfter
<1>10. CASE ~(k >= base_index + count)
  <2>1. SubSeq(e, 1, n) = SubSeq(e, 1, k - base_index)
    <3>1. CASE k <= base_index
      <4>1. n = 0 /\ k - base_index \in Int /\ k - base_index < 1
        BY <1>1, <1>2, <1>3, <1>10, <3>1
      <4> QED
        BY <4>1, SubSeqEmpty
    <3>2. CASE ~(k <= base_index)
      BY <1>3, <1>10, <3>2
    <3> QED
      BY <3>1, <3>2
  <2> QED
    BY <1>5, <1>7, <1>8, <1>10, <2>1, AbstractIs DEF TruncateAfter
<1> QED
  BY <1>9, <1>10

LEMMA TruncateBeforeStep ==
  ASSUME LogInv, NEW k \in Index, TruncateLogBefore(k)
  PROVE  LogInv' /\ AbstractLog' = TruncateBefore(AbstractLog, k)
<1>1. k \in Nat
  BY LogAssumption
<1>2. /\ capacity \in Nat \ {0} /\ base_index \in Nat
      /\ count \in Nat /\ count <= capacity
      /\ last_index = base_index + count /\ (count # 0 => first_index = base_index + 1)
      /\ entries \in Array(capacity)
      /\ \A o \in 0 .. count - 1 : /\ entries[o] \in LiveSlot /\ entries[o] \in SlotType
                                   /\ entries[o].index = base_index + o + 1
  BY Facts
<1> DEFINE e == Seen(entries, count)
<1>3. e \in Seq(Entry) /\ Len(e) = count
  BY <1>2, SeenType
<1>4. /\ AbstractLog = [base |-> base_index, entries |-> e]
      /\ LastIndex(AbstractLog) = base_index + count
      /\ (e = <<>>) <=> (count = 0)
  BY <1>2, <1>3, AbstractIs DEF LastIndex
<1>5. capacity' = capacity
  BY DEF TruncateLogBefore
<1>6. CASE count = 0 \/ k >= last_index
  <2>1. /\ count' = 0 /\ base_index' = k
        /\ entries' = Freed(entries, 0, count - 1)
    BY <1>1, <1>2, <1>6 DEF TruncateLogBefore
  <2>2. LogInv' /\ AbstractLog' = EmptyLog(k)
    BY <1>1, <1>5, <2>1, EmptyStep
  <2>3. AbstractLog.entries = <<>> \/ k >= LastIndex(AbstractLog)
    BY <1>2, <1>4, <1>6
  <2> QED
    BY <2>2, <2>3 DEF TruncateBefore
<1>7. CASE count # 0 /\ k < first_index
  <2>1. k < base_index + count /\ k <= base_index
    BY <1>1, <1>2, <1>7
  <2>2. base_index' = base_index /\ count' = count /\ entries' = entries
    BY <1>1, <1>2, <1>7, <2>1 DEF TruncateLogBefore
  <2>3. LogInv' /\ AbstractLog' = AbstractLog
    <3>1. IndexesRight(entries', count', base_index')
      BY <1>2, <2>2 DEF IndexesRight
    <3>2. LogInv'
      BY <1>2, <1>5, <2>2, <3>1, Reached
    <3> QED
      BY <2>2, <3>2, AbstractIs
  <2>4. ~(AbstractLog.entries = <<>> \/ k >= LastIndex(AbstractLog)) /\ k <= AbstractLog.base
    BY <1>1, <1>2, <1>4, <1>7, <2>1
  <2> QED
    BY <2>3, <2>4 DEF TruncateBefore
<1>8. CASE count # 0 /\ first_index <= k /\ k < last_index
  <2> DEFINE r == k - base_index
             f == Freed(entries, 0, r - 1)
  <2>1. r \in 1 .. count - 1 /\ Removed(k) = r /\ k > base_index /\ k < base_index + count
    BY <1>1, <1>2, <1>8 DEF Removed
  <2>2. base_index' = k /\ count' = count - r /\ entries' = Shifted(f, r)
    BY <1>1, <1>2, <1>8, <2>1 DEF TruncateLogBefore
  <2>3. /\ f \in Array(capacity)
        /\ \A o \in 0 .. capacity - 1 : o \notin 0 .. r - 1 => f[o] = entries[o]
    <3>1. \A o \in 0 .. capacity - 1 : o \in 0 .. r - 1 => entries[o] \in SlotType
      BY <1>2, <2>1
    <3> DEFINE last == r - 1
    <3>2. 0 \in Int /\ last \in Int /\ capacity \in Nat /\ entries \in Array(capacity)
      BY <1>2, <2>1
    <3>3. \A o \in 0 .. capacity - 1 : o \in 0 .. last => entries[o] \in SlotType
      BY <3>1
    <3> HIDE DEF last
    <3>4. /\ Freed(entries, 0, last) \in Array(capacity)
          /\ \A o \in 0 .. capacity - 1 :
               o \notin 0 .. last => Freed(entries, 0, last)[o] = entries[o]
      BY <3>2, <3>3, FreedType
    <3> QED
      BY <3>4 DEF last
  <2> HIDE DEF f
  <2>4. /\ entries' \in Array(capacity)
        /\ \A o \in 0 .. count - r - 1 : entries'[o] = f[o + r]
    <3>1. r \in 0 .. count
      BY <1>2, <2>1
    <3> HIDE DEF r
    <3> QED
      BY <1>2, <2>2, <2>3, <3>1, ShiftedType
  <2>5. \A o \in 0 .. count - r - 1 : /\ o + r \in 0 .. count - 1
                                      /\ entries'[o] = entries[o + r]
    <3> TAKE o \in 0 .. count - r - 1
    <3>1. o + r \in 0 .. capacity - 1 /\ o + r \notin 0 .. r - 1 /\ o + r \in 0 .. count - 1
      BY <1>2, <2>1
    <3> QED
      BY <2>3, <2>4, <3>1
  <2>6. \A o \in 0 .. count - r - 1 :
          entries'[o] \in LiveSlot /\ entries'[o].index = k + o + 1
    <3> TAKE o \in 0 .. count - r - 1
    <3>1. entries[o + r].index = base_index + (o + r) + 1 /\ entries[o + r] \in LiveSlot
      BY <1>2, <2>5
    <3>2. base_index + (o + r) + 1 = k + o + 1
      BY <1>1, <1>2, <2>1
    <3> QED
      BY <2>5, <3>1, <3>2
  <2>7. LogInv'
    <3>1. IndexesRight(entries', count', base_index')
      BY <1>1, <1>2, <2>1, <2>2, <2>6 DEF IndexesRight
    <3>2. \A o \in 0 .. count' - 1 : entries'[o] \in LiveSlot
      BY <1>2, <2>1, <2>2, <2>6
    <3>3. count' \in Nat /\ count' <= capacity' /\ base_index' \in Nat
      BY <1>1, <1>2, <1>5, <2>1, <2>2
    <3> QED
      BY <1>2, <1>5, <2>4, <3>1, <3>2, <3>3, Reached
  <2>8. Seen(entries', count - r) = SubSeq(e, r + 1, count)
    <3>1. r \in 0 .. count
      BY <1>2, <2>1
    <3> HIDE DEF r
    <3> QED
      BY <1>2, <2>5, <3>1, SeenSuffix
  <2>9. AbstractLog' = [base |-> k, entries |-> SubSeq(e, k - base_index + 1, count)]
    BY <2>2, <2>8, AbstractIs
  <2>10. /\ ~(AbstractLog.entries = <<>> \/ k >= LastIndex(AbstractLog))
         /\ ~(k <= AbstractLog.base)
    BY <1>1, <1>2, <1>4, <1>8, <2>1
  <2>11. /\ AbstractLog.base = base_index /\ AbstractLog.entries = e
         /\ Len(AbstractLog.entries) = count
    BY <1>3, <1>4
  <2> HIDE DEF e, r
  <2> QED
    BY <2>7, <2>9, <2>10, <2>11 DEF TruncateBefore
<1> QED
  BY <1>1, <1>2, <1>6, <1>7, <1>8

LEMMA LogStep ==
  LogInv /\ [Next]_vars => LogInv' /\ [Abstract!Next]_AbstractLog
<1> SUFFICES ASSUME LogInv, [Next]_vars
             PROVE  LogInv' /\ [Abstract!Next]_AbstractLog
  OBVIOUS
<1> USE DEF Abstract!Next, Abstract!Extend, Abstract!TruncateAfter,
            Abstract!TruncateBefore, Abstract!EmptyLog, Abstract!LastIndex
<1>1. ASSUME NEW es \in Chunks, AppendChunk(es)
      PROVE  LogInv' /\ [Abstract!Next]_AbstractLog
  BY <1>1, AppendStep DEF Extend
<1>2. ASSUME NEW es \in Chunks, NEW n \in DOMAIN es, AppendFails(es, n)
      PROVE  LogInv' /\ [Abstract!Next]_AbstractLog
  BY <1>2, AppendFailsStep
<1>3. ASSUME NEW k \in Index, TruncateLogAfter(k)
      PROVE  LogInv' /\ [Abstract!Next]_AbstractLog
  BY <1>3, TruncateAfterStep DEF TruncateAfter, LastIndex
<1>4. ASSUME NEW k \in Index, TruncateLogBefore(k)
      PROVE  LogInv' /\ [Abstract!Next]_AbstractLog
  BY <1>4, TruncateBeforeStep DEF TruncateBefore, LastIndex, EmptyLog
<1>5. ASSUME NEW k \in Index, Supersede(k)
      PROVE  LogInv' /\ [Abstract!Next]_AbstractLog
  <2>1. k \in Nat
    BY LogAssumption
  <2>2. LogInv' /\ AbstractLog' = EmptyLog(k)
    BY <1>5, <2>1, EmptyStep DEF Supersede
  <2> QED
    BY <2>2 DEF EmptyLog
<1>6. CASE UNCHANGED vars
  BY <1>6 DEF vars, LogInv, TypeOK, IndexFieldRight, last_index, offset_to_index, Slot,
              index_to_offset, AbstractLog
<1> QED
  BY <1>1, <1>2, <1>3, <1>4, <1>5, <1>6 DEF Next

LEMMA LogCorrect == Spec => []LogInv
<1>1. Init => LogInv
  BY InitOK DEF LogInv
<1>2. LogInv /\ [Next]_vars => LogInv'
  BY LogStep
<1> QED
  BY <1>1, <1>2, PTL DEF Spec

\* The array never runs over: raft_log.c writes and frees within its capacity,
\* and every live slot holds an entry with its data.
THEOREM LogTypeCorrect == Spec => []TypeOK
<1>1. LogInv => TypeOK
  BY DEF LogInv
<1> QED
  BY <1>1, LogCorrect, PTL

\* The index an entry carries is the index it is found at.
THEOREM LogIndexRight == Spec => []IndexFieldRight
<1>1. LogInv => IndexFieldRight
  BY DEF LogInv
<1> QED
  BY <1>1, LogCorrect, PTL

\* raft_log.c implements the log its callers see.
THEOREM LogImplements == Spec => ImplementsLog
<1>1. Init => Abstract!Init
  BY InitOK
<1>2. LogInv /\ [Next]_vars => [Abstract!Next]_AbstractLog
  BY LogStep
<1> QED
  BY <1>1, <1>2, LogCorrect, PTL DEF Spec, ImplementsLog, Abstract!Spec
-----------------------------------------------------------------------------
(***************************************************************************)
(* Lookups.                                                                *)
(***************************************************************************)
LEMMA LookupsFromType == LogInv => LookupsAgree
<1> SUFFICES ASSUME LogInv PROVE LookupsAgree
  OBVIOUS
<1> DEFINE e == Seen(entries, count)
<1>1. /\ base_index \in Nat /\ count \in Nat
      /\ last_index = base_index + count /\ (count # 0 => first_index = base_index + 1)
      /\ \A o \in 0 .. count - 1 : entries[o] \in LiveSlot
  BY Facts
<1>2. /\ e \in Seq(Entry) /\ Len(e) = count
      /\ \A k \in 1 .. count : e[k] = Live(entries[k - 1])
  BY <1>1, SeenType
<1>3. AbstractLog.base = base_index /\ AbstractLog.entries = e
  BY AbstractIs
<1>4. LastIndex(AbstractLog) = last_index
  BY <1>1, <1>2, <1>3 DEF LastIndex
<1>5. \A k \in Nat : Found(k) <=> Holds(AbstractLog, k)
  BY <1>1, <1>3, <1>4 DEF Found, Holds, offset_to_index
<1>6. \A k \in Nat : Found(k) => Live(Slot(k)) = At(AbstractLog, k)
  <2> TAKE k \in Nat
  <2> HAVE Found(k)
  <2>1. k - base_index \in 1 .. count /\ k - base_index - 1 = (k - base_index) - 1
    BY <1>1 DEF Found, offset_to_index
  <2>2. e[k - base_index] = Live(entries[k - base_index - 1])
    BY <1>2, <2>1
  <2> QED
    BY <1>3, <2>2 DEF Slot, index_to_offset, At
<1>7. last_term = LastTerm(AbstractLog)
  <2>1. CASE count = 0
    BY <1>2, <1>3, <2>1 DEF last_term, LastTerm
  <2>2. CASE count # 0
    <3>1. e # <<>> /\ e[count] = Live(entries[count - 1])
      BY <1>1, <1>2, <2>2
    <3> QED
      BY <1>2, <1>3, <2>2, <3>1 DEF last_term, LastTerm, Live
  <2> QED
    BY <2>1, <2>2
<1>8. \A t \in Term : Hits(t) = IndexesOfTerm(AbstractLog, t)
  <2> TAKE t \in Term
  <2>1. ASSUME NEW k \in Nat, Found(k)
        PROVE  Slot(k).term = t <=> At(AbstractLog, k).term = t
    BY <1>6, <2>1 DEF Live
  <2>2. CASE count = 0
    BY <1>1, <1>3, <1>4, <2>2 DEF Hits, IndexesOfTerm, Found
  <2>3. CASE count # 0
    <3>1. first_index .. last_index = base_index + 1 .. last_index
      BY <1>1, <2>3
    <3>2. \A k \in base_index + 1 .. last_index : k \in Nat /\ Found(k)
      BY <1>1, <1>4, <2>3 DEF Found, offset_to_index
    <3>3. Hits(t) = {k \in base_index + 1 .. last_index : Slot(k).term = t}
      BY <3>1, <3>2 DEF Hits
    <3> QED
      BY <1>3, <1>4, <2>1, <3>2, <3>3 DEF IndexesOfTerm
  <2> QED
    BY <2>2, <2>3
<1>9. \A k \in Nat : \A max \in 1 .. 2 : Copied(k, max) = CopyRange(AbstractLog, k, max)
  <2> TAKE k \in Nat, max \in 1 .. 2
  <2>1. CASE ~Holds(AbstractLog, k)
    BY <1>1, <1>3, <1>4, <2>1 DEF Copied, CopyRange, Holds
  <2>2. CASE Holds(AbstractLog, k)
    <3> DEFINE n == IF last_index - k + 1 < max THEN last_index - k + 1 ELSE max
               o == k - base_index
               last == IF o + max - 1 < Len(e) THEN o + max - 1 ELSE Len(e)
    <3>1. /\ n \in Nat /\ o \in 1 .. count /\ last \in o .. count /\ last - o + 1 = n
          /\ ~(k <= base_index \/ count = 0 \/ k > last_index)
      BY <1>1, <1>2, <1>3, <1>4, <2>2 DEF Holds
    <3>2. Copied(k, max) = [x \in 1 .. n |-> Live(entries[index_to_offset(k) + x - 1])]
      BY <3>1 DEF Copied
    <3>3. CopyRange(AbstractLog, k, max) = SubSeq(e, o, last)
      BY <1>3, <2>2 DEF CopyRange
    <3> HIDE DEF n, last
    <3>4. \A x \in 1 .. n : /\ o + x - 1 \in 1 .. count
                            /\ index_to_offset(k) + x - 1 = (o + x - 1) - 1
      BY <1>1, <3>1 DEF index_to_offset
    <3>5. SubSeq(e, o, last) = [x \in 1 .. n |-> e[o + x - 1]]
      <4> HIDE DEF e, o
      <4> QED BY <1>1, <1>2, <3>1
    <3>6. \A x \in 1 .. n : Live(entries[index_to_offset(k) + x - 1]) = e[o + x - 1]
      BY <1>2, <3>4
    <3> QED
      BY <3>2, <3>3, <3>5, <3>6
  <2> QED
    BY <2>1, <2>2
<1>10. \A t \in Term : /\ find_first(t) = Lowest(IndexesOfTerm(AbstractLog, t))
                       /\ find_last(t) = Highest(IndexesOfTerm(AbstractLog, t))
  BY <1>8 DEF find_first, find_last
<1>11. \A k \in Index : k \in Nat
  BY LogAssumption
<1>12. \A k \in Index :
         /\ Found(k) <=> Holds(AbstractLog, k)
         /\ Found(k) => Live(Slot(k)) = At(AbstractLog, k)
         /\ \A max \in 1 .. 2 : Copied(k, max) = CopyRange(AbstractLog, k, max)
  BY <1>5, <1>6, <1>9, <1>11, Zenon
<1> QED
  BY <1>4, <1>7, <1>10, <1>12, Zenon DEF LookupsAgree

\* Every lookup gives what it gives on the log callers see.
THEOREM LogLookups == Spec => []LookupsAgree
BY LogCorrect, LookupsFromType, PTL
=============================================================================
