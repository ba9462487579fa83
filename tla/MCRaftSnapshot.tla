--------------------------- MODULE MCRaftSnapshot ---------------------------
(***************************************************************************)
(* Small instances of RaftSnapshot for TLC.                                *)
(***************************************************************************)
EXTENDS RaftSnapshot

CONSTANTS l1, p1, p2

\* A node whose log has these terms, of which the first base entries are in its
\* snapshot and the first commit are committed.
NodeWith(terms, base, commit) ==
  LET es == [k \in DOMAIN terms |-> [term |-> terms[k], data |-> k]]
      machine == SubSeq(es, 1, base)
      mark == [index |-> base, term |-> IF base = 0 THEN 0 ELSE terms[base]]
  IN [log |-> [base |-> base, entries |-> SubSeq(es, base + 1, Len(es))],
      commit_index |-> commit, last_applied |-> base, machine |-> machine,
      snapshot |-> mark,
      stored |-> [index |-> mark.index, term |-> mark.term, machine |-> machine],
      pending |-> None]

\* A leader of term 3 that compacted two entries; p1 has one of them, and p2,
\* which led in term 1, has both and one that was never replicated.
Lagging ==
  [n \in Node |-> CASE n = l1 -> NodeWith(<<1, 1, 2, 3>>, 2, 2)
                    [] n = p1 -> NodeWith(<<1>>, 0, 0)
                    [] n = p2 -> NodeWith(<<1, 1, 1>>, 0, 2)]
\* A snapshot of more than two entries takes two chunks.
ByIndex == [k \in 0 .. MaxIndex |-> IF k <= 2 THEN 1 ELSE 2]

\* An asynchronous snapshot of p1, at once or in the end, and what p1 and p2 are
\* sent: any of these may fail.
Failures == {<<p1, "create">>, <<p1, "poll">>, <<p1, "restore">>, <<p2, "write">>}

\* A leader of term 2 with a peer, p1, whose log is empty.
Behind ==
  [n \in Node |-> CASE n = l1 -> NodeWith(<<1, 2>>, 0, 1)
                    [] n = p1 -> NodeWith(<<>>, 0, 0)
                    [] n = p2 -> NodeWith(<<1>>, 0, 1)]

OneEach == [k \in 0 .. MaxIndex |-> 1]
=============================================================================
