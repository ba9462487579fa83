--------------------------- MODULE RaftProperties ---------------------------
(***************************************************************************)
(* What a lil-raft cluster promises: the type invariant of Raft and its    *)
(* safety properties.                                                      *)
(***************************************************************************)
EXTENDS Raft

RequestVoteMsg ==
  [type : {"RequestVote"}, term : Nat, from : Node, to : Node,
   last_index : Nat, last_term : Nat, is_prevote : BOOLEAN]
VoteReplyMsg ==
  [type : {"VoteReply"}, term : Nat, from : Node, to : Node,
   granted : BOOLEAN, is_prevote : BOOLEAN, round : Nat]
AppendEntriesMsg ==
  [type : {"AppendEntries"}, term : Nat, from : Node, to : Node,
   prev_index : Nat, prev_term : Nat, entries : Seq(Entry), leader_commit : Nat]
AppendReplyMsg ==
  [type : {"AppendReply"}, term : Nat, from : Node, to : Node,
   success : BOOLEAN, match_index : Nat, conflict_term : Nat, conflict_index : Nat]
Message == RequestVoteMsg \cup VoteReplyMsg \cup AppendEntriesMsg \cup AppendReplyMsg

\* Every variable keeps its type; for the indexes and terms of raft.c this
\* says that the unsigned arithmetic on them never wraps below zero.
TypeOK ==
  /\ current_term \in [Node -> Nat]
  /\ voted_for \in [Node -> Node \cup {None}]
  /\ state \in [Node -> {Follower, Candidate, Leader}]
  /\ leader_id \in [Node -> Node \cup {None}]
  /\ votes_for_me \in [Node -> SUBSET Node]
  /\ prevotes_for_me \in [Node -> SUBSET Node]
  /\ log \in [Node -> Seq(Entry)]
  /\ commit_index \in [Node -> Nat]
  /\ last_applied \in [Node -> Nat]
  /\ next_index \in [Node -> [Node -> Nat]]
  /\ match_index \in [Node -> [Node -> Nat]]
  /\ shutdown \in [Node -> BOOLEAN]
  /\ stable \in [Node -> [term : Nat, voted_for : Node \cup {None}]]
  /\ msgs \subseteq Message
  /\ elections \subseteq [term : Nat, leader : Node, voters : SUBSET Node]
-----------------------------------------------------------------------------
(***************************************************************************)
(* Elections.                                                              *)
(***************************************************************************)
Elected(i, t) == \E e \in elections : e.term = t /\ e.leader = i

\* Nobody but one node is ever elected in a term, however requests and replies
\* are delayed, duplicated or reordered, and wherever nodes restart.  At risk
\* because raft_become_follower clears voted_for without a new term (raft.c:61).
OneLeaderPerTerm ==
  \A e, f \in elections : e.term = f.term => e.leader = f.leader

\* The leader a node names to its clients (raft_get_leader_id) was elected in
\* the very term the node is in: leader_id, written in five places, is never
\* left over from an earlier term.
KnownLeaderElected ==
  \A i \in Node : leader_id[i] # None => Elected(leader_id[i], current_term[i])

\* What clients are told of leadership is what TermLeadership promises: terms
\* only grow, restarts included, and a node names no leader that was not elected
\* in the node's own term.
Leaders == {<<e.term, e.leader>> : e \in elections}
Leadership == INSTANCE TermLeadership
                WITH term <- current_term, leader <- leader_id, leaders <- Leaders
ImplementsTermLeadership == Leadership!Spec

\* A leader was elected by a quorum, none of which has gone back to an earlier
\* term since, even across a restart: the vote is persisted before the reply
\* leaves raft_recv_requestvote.
ElectionIsBacked ==
  \A e \in elections :
    /\ e.leader \in e.voters /\ IsQuorum(e.voters)
    /\ \A v \in e.voters : current_term[v] >= e.term

\* Within a term a node takes back no vote but its own, and that one only after
\* another node was elected in the term (the step down of
\* raft_recv_appendentries); no restart forgets a vote.
TakesBack(i) ==
  current_term'[i] = current_term[i] /\ voted_for[i] # None /\ voted_for'[i] # voted_for[i]
VoteKept ==
  [][\A i \in Node : TakesBack(i) =>
       /\ voted_for[i] = i /\ voted_for'[i] = None
       /\ \E j \in Node \ {i} : Elected(j, current_term[i])]_vars

\* The nodes that granted c a pre-vote for term t, itself included.
PrevotesOf(c, t) ==
  {c} \cup {m.from : m \in {n \in msgs : n.type = "VoteReply" /\ n.is_prevote
                                          /\ n.granted /\ n.to = c /\ n.round = t}}

\* A step in which i stands for election, or is elected at once.
Stands(i) == current_term'[i] > current_term[i] /\ state'[i] # Follower

\* With pre-vote on, a node only stands for a term that a quorum granted it a
\* pre-vote for: that is how pre-vote "prevents disruptive rejoins"
\* (raft_types.h:19).
CandidateHadPrevotes ==
  [][\A i \in Node : Stands(i) => IsQuorum(PrevotesOf(i, current_term'[i]))]_vars

\* What is left of it: a node only stands for a term it asked all others about,
\* and with grants of a quorum for that term or earlier ones.  A round is over
\* when its node steps down or stands, so no reply that comes later starts an
\* election in another term unless the node asked again (raft.c:73,85), and no
\* refusal counts (raft_election.c:234).
AskedPrevotes(i, t) ==
  \A j \in Node \ {i} : \E m \in msgs :
    m.type = "RequestVote" /\ m.is_prevote /\ m.term = t /\ m.from = i /\ m.to = j
CandidateAsked ==
  [][\A i \in Node : Stands(i) =>
       /\ AskedPrevotes(i, current_term'[i])
       /\ IsQuorum(UNION {PrevotesOf(i, t) : t \in 1 .. current_term'[i]})]_vars
-----------------------------------------------------------------------------
(***************************************************************************)
(* Replication.                                                            *)
(***************************************************************************)
\* Two logs with an entry of the same term at the same index are identical up
\* to that index, whatever was truncated, resent or received out of order.
LogMatching ==
  \A i, j \in Node : \A k \in DOMAIN log[i] \cap DOMAIN log[j] :
    log[i][k].term = log[j][k].term => SubSeq(log[i], 1, k) = SubSeq(log[j], 1, k)

\* Every entry of a sitting leader's term is in the leader's own log, no-op or
\* not: no AppendEntries that crosses the election takes one away.
LeaderHoldsItsTerm ==
  \A i, j \in Node : \A k \in DOMAIN log[j] :
    (state[i] = Leader /\ log[j][k].term = current_term[i])
      => k \in DOMAIN log[i] /\ log[i][k] = log[j][k]

\* However refusals are ordered, a leader's next index for a peer never reaches
\* 0, where raft_peer_needs_snapshot would ask for a snapshot nobody took and
\* next_index - 1 would wrap (raft_replication.c:42,290-293).
NextIndexPositive ==
  \A i, j \in Node : state[i] = Leader => next_index[i][j] > 0

\* An index a node takes as committed holds the same entry on a quorum.
CommitHasQuorum ==
  \A i \in Node : \A k \in 1 .. commit_index[i] :
    k \in DOMAIN log[i]
    /\ IsQuorum({j \in Node : k \in DOMAIN log[j] /\ log[j][k] = log[i][k]})

\* match_index is what raft_internal.h:43 calls it, the highest index known to
\* be replicated on the peer: up to it, the peer's log is the leader's.
MatchIndexTruthful ==
  \A i, j \in Node : \A k \in 1 .. match_index[i][j] :
    state[i] = Leader => k \in DOMAIN log[i] \cap DOMAIN log[j] /\ log[i][k] = log[j][k]

\* No two nodes take different entries as committed at one index: what one has
\* handed to apply_entry there, no other replaces.
CommittedAgree ==
  \A i, j \in Node : \A k \in 1 .. Least(commit_index[i], commit_index[j]) :
    k \in DOMAIN log[i] \cap DOMAIN log[j] => log[i][k] = log[j][k]
=============================================================================
