----------------------------- MODULE CompactLog -----------------------------
(***************************************************************************)
(* A log whose first entries were removed after a snapshot: a record of    *)
(* base, the index of the last entry removed, and the entries that follow. *)
(* This is what raft_log.c promises its callers; RaftLog shows that the    *)
(* array there keeps the promise, RaftSnapshot builds on it.               *)
(***************************************************************************)
EXTENDS Integers, Sequences

EmptyLog(base) == [base |-> base, entries |-> <<>>]

LastIndex(l) == l.base + Len(l.entries)
Holds(l, k) == k > l.base /\ k <= LastIndex(l)
At(l, k) == l.entries[k - l.base]
LastTerm(l) == IF l.entries = <<>> THEN 0 ELSE l.entries[Len(l.entries)].term

\* The lowest and the highest of some indexes, 0 when there is none.
Lowest(S) == IF S = {} THEN 0 ELSE CHOOSE k \in S : \A n \in S : k <= n
Highest(S) == IF S = {} THEN 0 ELSE CHOOSE k \in S : \A n \in S : n <= k

\* The indexes at which l has an entry of term t.
IndexesOfTerm(l, t) == {k \in l.base + 1 .. LastIndex(l) : At(l, k).term = t}

Extend(l, es) == [base |-> l.base, entries |-> l.entries \o es]

TruncateAfter(l, k) ==
  IF k >= LastIndex(l) THEN l
  ELSE [base |-> l.base, entries |-> SubSeq(l.entries, 1, k - l.base)]

\* An empty log takes any base, even one lower than its own.
TruncateBefore(l, k) ==
  IF l.entries = <<>> \/ k >= LastIndex(l) THEN EmptyLog(k)
  ELSE IF k <= l.base THEN l
  ELSE [base |-> k, entries |-> SubSeq(l.entries, k - l.base + 1, Len(l.entries))]

\* Up to max entries from index k on.
CopyRange(l, k, max) ==
  IF Holds(l, k)
  THEN SubSeq(l.entries, k - l.base,
              IF k - l.base + max - 1 < Len(l.entries)
              THEN k - l.base + max - 1 ELSE Len(l.entries))
  ELSE <<>>
=============================================================================
