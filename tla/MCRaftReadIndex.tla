-------------------------- MODULE MCRaftReadIndex ---------------------------
(***************************************************************************)
(* Small instances of RaftReadIndex for TLC.                               *)
(***************************************************************************)
EXTENDS RaftReadIndex, MCRaft

CONSTANTS r1, r2

OneSlot == {1}
FewRounds == [i \in Node |-> IF i = n1 THEN 2 ELSE 0]
ThreeRounds == [i \in Node |-> 3]

(***************************************************************************)
(* A view that merges states with the same future.  What View of MCRaft    *)
(* leaves out is left out here too, and so are                             *)
(*  - what is stored, which is the term and vote in memory, and pre-votes, *)
(*    which are off in every instance here;                                *)
(*  - who voted a leader in, and the leader that nodes without clients     *)
(*    know;                                                                *)
(*  - sequence numbers too low for every read of the leader that is        *)
(*    pending or may yet come;                                             *)
(*  - acknowledgements that bring no index and end no read.                *)
(***************************************************************************)
\* Would an acknowledgement by peer of round seq of i's term count for a read?
Matters(i, peer, term, seq) ==
  /\ state[i] = Leader /\ current_term[i] = term
  /\ \/ seq >= RequiredSeq(i)
     \/ \E s \in Slot : LET p == pending_reads[i][s]
                        IN p # Free /\ p.term = term /\ seq >= p.required_seq /\ peer \notin p.acks
SpentAck(m) ==
  LET i == m.to
  IN /\ m.type = "AppendReply" /\ m.success
     /\ m.term = current_term[i] /\ m.match_index <= match_index[i][m.from]
     /\ \A s \in Slot : pending_reads[i][s] # Free => pending_reads[i][s].term = m.term
     /\ \A a \in acked : a.msg = m => ~Matters(i, m.from, m.term, a.seq)

ReadView ==
  <<current_term, voted_for, state, [i \in Clients |-> leader_id[i]], log, commit_index,
    shutdown, {e.term : e \in elections},
    OnlyIn(Candidate, votes_for_me), OnlyIn(Leader, next_index), OnlyIn(Leader, match_index),
    {m \in msgs : ~Spent(m) /\ ~SpentAck(m)},
    heartbeat_seq, pending_reads, read_msgs, asked, completed,
    {r \in rounds : Matters(r.msg.from, r.msg.to, r.msg.term, r.seq)
                      /\ r.msg.term >= current_term[r.msg.to]},
    {a \in acked : Matters(a.msg.to, a.msg.from, a.msg.term, a.seq)}>>
=============================================================================
