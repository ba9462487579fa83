------------------------------- MODULE MCRaft -------------------------------
(***************************************************************************)
(* Small instances of Raft for TLC.                                        *)
(***************************************************************************)
EXTENDS RaftProperties, TLC

CONSTANTS n1, n2, n3, d1, d2

Symmetry == Permutations(Node)
PeerSymmetry == Permutations(Node \ {n1})

NoBatches == {}
OneBatch == {<<d1, d2>>}

\* Who may start elections, and up to which term.
AllTwice == [i \in Node |-> 2]
AllThrice == [i \in Node |-> 3]
OnlyFirst == [i \in Node |-> IF i = n1 THEN 1 ELSE 0]
FirstThenSecond == [i \in Node |-> CASE i = n1 -> 1 [] i = n2 -> 2 [] OTHER -> 0]
FirstSecondFirst == [i \in Node |-> CASE i = n1 -> 3 [] i = n2 -> 2 [] OTHER -> 0]

(***************************************************************************)
(* A view that merges states with the same future.  It leaves out          *)
(* last_applied, which only ApplyCommitted reads, tallies and indexes that *)
(* their owner resets before it next reads them, and spent messages: those *)
(* whose receipt changes nothing, now and (as terms never decrease and a   *)
(* node is a candidate only once per term) ever after.  Of the properties  *)
(* checked under it, TypeOK speaks of all these too, and is checked of one *)
(* state of those merged; the others speak of none that can still matter.  *)
(***************************************************************************)
LastTermOfRun == CHOOSE t \in {MaxTerm[i] : i \in Node} : \A i \in Node : MaxTerm[i] <= t
MayStand(i) == current_term[i] < MaxTerm[i]
Spent(m) ==
  LET i == m.to
      now == m.term = current_term[i]
  IN \/ /\ m.term <= current_term[i]
        /\ \/ m.type = "VoteReply" /\ ~m.granted
           \/ /\ m.type = "VoteReply" /\ ~m.is_prevote
              /\ now => state[i] # Candidate \/ m.from \in votes_for_me[i]
           \/ m.type = "AppendReply" /\ (now => state[i] = Follower)
           \* a stale request, of a node that no refusal can tell a higher term
           \/ /\ m.type \in {"RequestVote", "AppendEntries"} /\ ~now
              /\ current_term[m.from] = LastTermOfRun
     \* a pre-vote of a node that asks for none any more
     \/ m.type = "RequestVote" /\ m.is_prevote /\ ~MayStand(m.from)
     \/ m.type = "VoteReply" /\ m.is_prevote /\ ~MayStand(i)

OnlyIn(role, f) == [i \in Node |-> IF state[i] = role THEN f[i] ELSE <<>>]
View ==
  <<current_term, voted_for, state, leader_id, stable, prevotes_for_me,
    log, commit_index, shutdown, elections,
    OnlyIn(Candidate, votes_for_me), OnlyIn(Leader, next_index),
    OnlyIn(Leader, match_index), {m \in msgs : ~Spent(m)}>>
=============================================================================
