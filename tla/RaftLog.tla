------------------------------ MODULE RaftLog -------------------------------
(***************************************************************************)
(* The in-memory log of raft_log.c: an array of capacity slots, of which   *)
(* the first count are live, for the entries after base_index.  Slots that *)
(* are not live keep what was last written to them.                        *)
(***************************************************************************)
EXTENDS CompactLog

CONSTANTS
  Term, Data,       \* what entries carry
  Junk,             \* the content of a slot never written, and of freed data
  InitialCapacity,  \* INITIAL_LOG_CAPACITY
  Index,            \* the indexes callers name
  Chunks,           \* the sequences of entries callers append in one call
  MaxCapacity       \* bound: the memory there is, in slots

Entry == [term : Term, data : Data]

ASSUME LogAssumption ==
  /\ Term \subseteq Nat \ {0}
  /\ Junk \notin Data
  /\ InitialCapacity \in Nat \ {0}
  /\ Index \subseteq Nat
  /\ Chunks \subseteq Seq(Entry)
  /\ MaxCapacity \in Nat

VARIABLES entries, count, capacity, base_index

vars == <<entries, count, capacity, base_index>>
-----------------------------------------------------------------------------
(***************************************************************************)
(* Lookups.                                                                *)
(***************************************************************************)
FromOne(offset) == offset + 1 \* mutant: the base is forgotten

offset_to_index(offset) == base_index + offset + 1
index_to_offset(k) == k - base_index - 1

last_index == IF count = 0 THEN base_index ELSE offset_to_index(count - 1)
first_index == IF count = 0 THEN 0 ELSE base_index + 1
last_term == IF count = 0 THEN 0 ELSE entries[count - 1].term

\* mutant: the last index removed is looked for in the array
FoundFromBase(k) == k >= base_index /\ count # 0 /\ k <= offset_to_index(count - 1)

\* raft_log_get returns a slot for index k.
Found(k) == k > base_index /\ count # 0 /\ k <= offset_to_index(count - 1)
Slot(k) == entries[index_to_offset(k)]

Live(slot) == [term |-> slot.term, data |-> slot.data]

\* raft_log_copy_range
Copied(k, max) ==
  IF k <= base_index \/ count = 0 \/ k > last_index THEN <<>>
  ELSE LET available == last_index - k + 1
           n == IF available < max THEN available ELSE max
       IN [o \in 1 .. n |-> Live(entries[index_to_offset(k) + o - 1])]

\* What raft_log_find_first_of_term and _last_of_term search through.
Hits(t) == {k \in first_index .. last_index : Found(k) /\ Slot(k).term = t}
find_first(t) == Lowest(Hits(t))
find_last(t) == Highest(Hits(t))
-----------------------------------------------------------------------------
(***************************************************************************)
(* Appending.                                                              *)
(***************************************************************************)
\* mutant: the array grows by one doubling, whatever is needed
DoubledOnce(needed, c) == c = IF needed <= capacity THEN capacity ELSE 2 * capacity

\* ensure_capacity makes the capacity c: it is doubled until it is enough.
Grown(needed, c) ==
  IF needed <= capacity THEN c = capacity
  ELSE /\ c \in {capacity * 2 ^ k : k \in 1 .. needed}
       /\ c >= needed
       /\ c = 2 * capacity \/ c \div 2 < needed

Resized(c) == [o \in 0 .. c - 1 |-> IF o < capacity THEN entries[o] ELSE Junk]

\* Entries es written after the live ones of array a.
Written(a, es) ==
  [o \in DOMAIN a |->
     IF o \in count .. count + Len(es) - 1
     THEN [index |-> offset_to_index(o), term |-> es[o - count + 1].term,
           data |-> es[o - count + 1].data]
     ELSE a[o]]

\* The data of the slots from offset first up to last is freed.
Freed(a, first, last) ==
  [o \in DOMAIN a |-> IF o \in first .. last THEN [a[o] EXCEPT !.data = Junk] ELSE a[o]]

\* raft_log_append, _append_noop, _append_entry (one entry) and _append_batch.
AppendChunk(es) ==
  /\ \E c \in 0 .. MaxCapacity :
       /\ Grown(count + Len(es), c)
       /\ capacity' = c
       /\ entries' = Written(Resized(c), es)
  /\ count' = count + Len(es)
  /\ UNCHANGED base_index

\* Copying the data of entry n of the chunk fails: what was written before is
\* freed.  The array may have grown.
AppendFails(es, n) ==
  /\ \E c \in 0 .. MaxCapacity :
       /\ Grown(count + Len(es), c)
       /\ capacity' = c
       /\ entries' = Freed(Written(Resized(c), SubSeq(es, 1, n - 1)), count, count + n - 2)
  /\ UNCHANGED <<count, base_index>>
-----------------------------------------------------------------------------
(***************************************************************************)
(* Truncation.                                                             *)
(***************************************************************************)
\* raft_log_truncate_after: the live slots from this offset on are freed.
KeptAfter(k) ==
  IF k <= base_index THEN 0
  ELSE IF k >= last_index THEN count ELSE index_to_offset(k) + 1

TruncateLogAfter(k) ==
  /\ count' = KeptAfter(k)
  /\ entries' = Freed(entries, KeptAfter(k), count - 1)
  /\ UNCHANGED <<capacity, base_index>>

\* mutant: one entry too many is kept, at the wrong place
RemovedOneLess(k) == k - first_index
\* How many entries go from the front, when some do and some stay.
Removed(k) == k - first_index + 1

\* memmove to the front of all after the first n slots.
Shifted(a, n) == [o \in DOMAIN a |-> IF o < count - n THEN a[o + n] ELSE a[o]]

TruncateLogBefore(k) ==
  /\ \/ /\ count = 0 \/ k >= last_index
        /\ base_index' = k
        /\ count' = 0
        /\ entries' = Freed(entries, 0, count - 1)
     \/ /\ count # 0 /\ k < first_index
        /\ UNCHANGED <<base_index, count, entries>>
     \/ /\ count # 0 /\ first_index <= k /\ k < last_index
        /\ base_index' = k
        /\ count' = count - Removed(k)
        /\ entries' = Shifted(Freed(entries, 0, Removed(k) - 1), Removed(k))
  /\ UNCHANGED capacity

\* raft_recv_installsnapshot: raft_log_clear, then base_index is assigned.
Supersede(k) ==
  /\ count' = 0
  /\ base_index' = k
  /\ entries' = Freed(entries, 0, count - 1)
  /\ UNCHANGED capacity
-----------------------------------------------------------------------------
Init ==
  /\ capacity = InitialCapacity
  /\ entries = [o \in 0 .. InitialCapacity - 1 |-> Junk]
  /\ count = 0
  /\ base_index = 0

Next ==
  \/ \E es \in Chunks :
       \/ AppendChunk(es)
       \/ \E n \in DOMAIN es : AppendFails(es, n)
  \/ \E k \in Index :
       \/ TruncateLogAfter(k)
       \/ TruncateLogBefore(k)
       \/ Supersede(k)

Spec == Init /\ [][Next]_vars
-----------------------------------------------------------------------------
AbstractLog == [base |-> base_index, entries |-> [k \in 1 .. count |-> Live(entries[k - 1])]]

Abstract == INSTANCE LogSpec WITH log <- AbstractLog

\* raft_log.c implements the log its callers see: growing, shifting and
\* freeing slots never loses, duplicates or moves an entry that is live.
ImplementsLog == Abstract!Spec

SlotType == [index : Nat, term : Term, data : Data \cup {Junk}]
TypeOK ==
  /\ capacity \in Nat \ {0}
  /\ base_index \in Nat
  /\ count \in 0 .. capacity
  /\ entries \in [0 .. capacity - 1 -> SlotType \cup {Junk}]
  /\ \A o \in 0 .. count - 1 : entries[o] \in [index : Nat, term : Term, data : Data]

\* The index stored with an entry, which apply_entry and log_append are given,
\* is the index the entry is found at, whatever was cut before it.
IndexFieldRight == \A k \in base_index + 1 .. last_index : Slot(k).index = k

\* Every lookup on the array gives what it gives on the log callers see.
LookupsAgree ==
  LET l == AbstractLog
  IN /\ last_index = LastIndex(l)
     /\ last_term = LastTerm(l)
     /\ \A t \in Term : /\ find_first(t) = Lowest(IndexesOfTerm(l, t))
                        /\ find_last(t) = Highest(IndexesOfTerm(l, t))
     /\ \A k \in Index : /\ Found(k) <=> Holds(l, k)
                         /\ Found(k) => Live(Slot(k)) = At(l, k)
                         /\ \A max \in 1 .. 2 : Copied(k, max) = CopyRange(l, k, max)
=============================================================================
