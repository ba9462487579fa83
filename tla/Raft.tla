-------------------------------- MODULE Raft --------------------------------
(***************************************************************************)
(* A cluster of lil-raft nodes over an asynchronous network, in the        *)
(* configuration without snapshot callbacks (raft_log_t.base_index is then *)
(* always 0, so a log is the plain sequence of its entries) and without    *)
(* pending ReadIndex requests (heartbeat_seq is then never read).          *)
(*                                                                         *)
(* Every handler of the library runs to completion on one thread, so each  *)
(* public call is one action.  Time is abstract: "the election timeout     *)
(* has elapsed" and "the heartbeat interval has elapsed" may be true or    *)
(* false at any raft_tick.  A message that was sent stays in msgs for      *)
(* ever: it may be received late, more than once, out of order or never.   *)
(***************************************************************************)
EXTENDS Naturals, FiniteSets, Sequences

CONSTANTS
  Node,        \* the ids 0 .. num_nodes-1
  None,        \* -1, for voted_for and leader_id
  Data,        \* payloads of RAFT_ENTRY_DATA entries
  Noop,        \* the payload of a RAFT_ENTRY_NOOP entry
  Batches,     \* the argument lists raft_propose_batch is called with
  PreVoteFlag, \* the values RAFT_FLAG_PREVOTE_ENABLED may have at a tick
  MaxEntries,  \* config.max_entries_per_msg, after the clamp to 64
  NoopFails,   \* the values "a new leader fails to store its no-op" may have
  CrashNodes,  \* nodes that may be destroyed and created again
  StopNodes,   \* nodes on which raft_shutdown may be called
  Delivered,   \* the types of message the network carries; it loses all others
  MaxTerm,     \* bound: node i starts no election beyond term MaxTerm[i]
  MaxLog       \* bound: no client proposal is made to a log of this length

ASSUME NodeAssumption == IsFiniteSet(Node) /\ None \notin Node
ASSUME PayloadAssumption == Noop \notin Data /\ Batches \subseteq Seq(Data)
ASSUME ConfigAssumption ==
  /\ PreVoteFlag \subseteq BOOLEAN
  /\ NoopFails \subseteq BOOLEAN
  /\ MaxEntries \in Nat \ {0}
  /\ CrashNodes \subseteq Node
  /\ StopNodes \subseteq Node
  /\ MaxTerm \in [Node -> Nat]
  /\ MaxLog \in Nat

Follower  == "FOLLOWER"
Candidate == "CANDIDATE"
Leader    == "LEADER"

VARIABLES
  current_term, voted_for, state, leader_id, \* as in struct raft
  votes_for_me,    \* the set of peers whose flag is set; votes_received is its size
  prevotes_for_me, \* likewise; {} exactly when prevote_in_progress is 0
  log,             \* log.entries[0 .. count-1]
  commit_index, last_applied,
  next_index, match_index, \* peers[].next_index and peers[].match_index
  shutdown,
  stable,          \* what persist_vote last wrote
  msgs,            \* every message ever handed to a send callback or returned as a response
  elections        \* history: who became leader, in which term, by whose votes

voteVars  == <<current_term, voted_for, state, votes_for_me, prevotes_for_me, stable>>
logVars   == <<log, commit_index>>
peerVars  == <<next_index, match_index>>
vars == <<voteVars, leader_id, logVars, last_applied, peerVars, shutdown, msgs, elections>>
-----------------------------------------------------------------------------
(***************************************************************************)
(* Helpers.                                                                *)
(***************************************************************************)
Least(a, b) == IF a < b THEN a ELSE b
Greatest(S) == CHOOSE n \in S : \A k \in S : k <= n

QuorumSize == (Cardinality(Node) \div 2) + 1
IsQuorum(S) == Cardinality(S) >= QuorumSize

Entry == [term : Nat, data : Data \cup {Noop}]
EntryOf(t, d) == [term |-> t, data |-> d]

LastTerm(l) == IF l = <<>> THEN 0 ELSE l[Len(l)].term
TermAt(l, k) == IF k \in DOMAIN l THEN l[k].term ELSE 0
IndexesOfTerm(l, t) == {k \in DOMAIN l : l[k].term = t}
LastOfTerm(l, t) ==
  IF IndexesOfTerm(l, t) = {} THEN 0 ELSE Greatest(IndexesOfTerm(l, t))
FirstOfTerm(l, t) == CHOOSE k \in IndexesOfTerm(l, t) : \A n \in IndexesOfTerm(l, t) : k <= n

AnyVote(v, c) == TRUE \* mutant: the vote already cast is not looked at

\* can_vote: is candidate c one that a node whose voted_for is v may vote for?
CanVote(v, c) == v \in {None, c}

\* Is a log that ends with entry (lastTerm, lastIndex) at least as up to date as l?
LogIsUpToDate(l, lastTerm, lastIndex) ==
  \/ lastTerm > LastTerm(l)
  \/ lastTerm = LastTerm(l) /\ lastIndex >= Len(l)

\* mutant: the term of the entry before is not compared
HasPrevIndex(l, m) == m.prev_index = 0 \/ m.prev_index \in DOMAIN l

\* Rule 2: does log l hold the entry that request m says comes before its own?
HasPrev(l, m) ==
  \/ m.prev_index = 0
  \/ m.prev_index \in DOMAIN l /\ l[m.prev_index].term = m.prev_term

\* The log l after the loop of raft_recv_appendentries stored entries es after
\* index prev: entries already there with the sender's term are kept, and the
\* first one that differs is deleted with all that follow it.
Stored(l, prev, es) ==
  LET kept(n) == prev + n <= Len(l) /\ l[prev + n].term = es[n].term
  IN IF \A n \in DOMAIN es : kept(n)
     THEN l
     ELSE [k \in 1 .. prev + Len(es) |->
             IF k <= prev \/ (\A n \in 1 .. k - prev : kept(n))
             THEN l[k] ELSE es[k - prev]]
-----------------------------------------------------------------------------
(***************************************************************************)
(* Messages.                                                               *)
(***************************************************************************)
VoteRequests(i, t, prevote) ==
  {[type |-> "RequestVote", term |-> t, from |-> i, to |-> j,
    last_index |-> Len(log[i]), last_term |-> LastTerm(log[i]),
    is_prevote |-> prevote] : j \in Node \ {i}}

\* round is history: the reply of the code does not say what it is a reply to.
VoteReply(m, t, granted) ==
  [type |-> "VoteReply", term |-> t, from |-> m.to, to |-> m.from,
   granted |-> granted, is_prevote |-> m.is_prevote, round |-> m.term]

\* What one call of raft_send_heartbeats sends, for a leader i of term t with
\* log l, commit index c and next indexes next.  A peer whose next index lies
\* before the log is left to InstallSnapshot.
Heartbeats(i, t, l, c, next) ==
  {[type |-> "AppendEntries", term |-> t, from |-> i, to |-> j,
    prev_index |-> next[j] - 1, prev_term |-> TermAt(l, next[j] - 1),
    entries |-> SubSeq(l, next[j], Least(Len(l), next[j] + MaxEntries - 1)),
    leader_commit |-> c] : j \in {k \in Node \ {i} : next[k] > 0}}

\* mutant: the match index is one too high
HighAppendReply(m, success, match, conflictTerm, conflictIndex) ==
  [type |-> "AppendReply", term |-> current_term[m.to], from |-> m.to, to |-> m.from,
   success |-> success, match_index |-> match + 1,
   conflict_term |-> conflictTerm, conflict_index |-> conflictIndex]

AppendReply(m, success, match, conflictTerm, conflictIndex) ==
  [type |-> "AppendReply", term |-> current_term[m.to], from |-> m.to, to |-> m.from,
   success |-> success, match_index |-> match,
   conflict_term |-> conflictTerm, conflict_index |-> conflictIndex]

Send(ms) == msgs' = msgs \cup {m \in ms : m.type \in Delivered}

\* mutants: nothing is written; only the term is
PersistNothing(i, t, v) == UNCHANGED stable
PersistTermOnly(i, t, v) == stable' = [stable EXCEPT ![i] = [term |-> t, voted_for |-> None]]

Persist(i, t, v) == stable' = [stable EXCEPT ![i] = [term |-> t, voted_for |-> v]]
-----------------------------------------------------------------------------
(***************************************************************************)
(* State transitions (raft.c).                                             *)
(***************************************************************************)
Init ==
  /\ current_term = [i \in Node |-> 0]
  /\ voted_for = [i \in Node |-> None]
  /\ state = [i \in Node |-> Follower]
  /\ leader_id = [i \in Node |-> None]
  /\ votes_for_me = [i \in Node |-> {}]
  /\ prevotes_for_me = [i \in Node |-> {}]
  /\ log = [i \in Node |-> <<>>]
  /\ commit_index = [i \in Node |-> 0]
  /\ last_applied = [i \in Node |-> 0]
  /\ next_index = [i \in Node |-> [j \in Node |-> 0]]
  /\ match_index = [i \in Node |-> [j \in Node |-> 0]]
  /\ shutdown = [i \in Node |-> FALSE]
  /\ stable = [i \in Node |-> [term |-> 0, voted_for |-> None]]
  /\ msgs = {}
  /\ elections = {}

\* mutant: leader_id is not reset
StepDownKeepingLeader(i, t, vote, leader) ==
  /\ state' = [state EXCEPT ![i] = Follower]
  /\ current_term' = [current_term EXCEPT ![i] = t]
  /\ voted_for' = [voted_for EXCEPT ![i] = vote]
  /\ leader_id' = [leader_id EXCEPT ![i] = IF leader = None THEN @ ELSE leader]
  /\ votes_for_me' = [votes_for_me EXCEPT ![i] = {}]
  /\ prevotes_for_me' = [prevotes_for_me EXCEPT ![i] = {}]
  /\ Persist(i, t, vote)

\* raft_become_follower, followed by what its caller assigns to voted_for and
\* leader_id (None when the caller leaves them cleared).
BecomeFollower(i, t, vote, leader) ==
  /\ state' = [state EXCEPT ![i] = Follower]
  /\ current_term' = [current_term EXCEPT ![i] = t]
  /\ voted_for' = [voted_for EXCEPT ![i] = vote]
  /\ leader_id' = [leader_id EXCEPT ![i] = leader]
  /\ votes_for_me' = [votes_for_me EXCEPT ![i] = {}]
  /\ prevotes_for_me' = [prevotes_for_me EXCEPT ![i] = {}]
  /\ Persist(i, t, vote)

\* A leader's own peer entry follows what it appends: next and match with
\* entry i set for a log of length n.
OwnIndexes(i, next, match, n) ==
  /\ next_index' = [next_index EXCEPT ![i] = [next EXCEPT ![i] = n + 1]]
  /\ match_index' = [match_index EXCEPT ![i] = [match EXCEPT ![i] = n]]

\* commit_index of i once it has appended an entry at index n: a node that is
\* a quorum by itself (num_nodes = 1) commits it at once.
SoleCommit(i, n) == IF IsQuorum({i}) THEN n ELSE commit_index[i]

\* raft_become_leader in term t: heartbeats go out first, then the no-op is
\* appended and goes out with a second round.  A node that is shut down, or
\* whose log_append fails, leads without a no-op.
BecomeLeader(i, t, votes) ==
  LET next == [j \in Node |-> Len(log[i]) + 1]
      withNoop == Append(log[i], EntryOf(t, Noop))
      c == SoleCommit(i, Len(withNoop))
      first == Heartbeats(i, t, log[i], commit_index[i], next)
      zero == [j \in Node |-> 0]
  IN /\ state' = [state EXCEPT ![i] = Leader]
     /\ leader_id' = [leader_id EXCEPT ![i] = i]
     /\ prevotes_for_me' = [prevotes_for_me EXCEPT ![i] = {}]
     /\ \E failed \in NoopFails :
        IF shutdown[i] \/ failed
        THEN /\ next_index' = [next_index EXCEPT ![i] = next]
             /\ match_index' = [match_index EXCEPT ![i] = zero]
             /\ Send(first) /\ UNCHANGED logVars
        ELSE /\ OwnIndexes(i, next, zero, Len(withNoop))
             /\ log' = [log EXCEPT ![i] = withNoop]
             /\ commit_index' = [commit_index EXCEPT ![i] = c]
             /\ Send(first \cup Heartbeats(i, t, withNoop, c, next))
     /\ elections' = elections \cup {[term |-> t, leader |-> i, voters |-> votes]}

\* raft_become_candidate; alone in its cluster, the node is elected at once.
BecomeCandidate(i) ==
  LET t == current_term[i] + 1
  IN /\ t <= MaxTerm[i]
     /\ current_term' = [current_term EXCEPT ![i] = t]
     /\ voted_for' = [voted_for EXCEPT ![i] = i]
     /\ votes_for_me' = [votes_for_me EXCEPT ![i] = {i}]
     /\ Persist(i, t, i)
     /\ IF IsQuorum({i})
        THEN BecomeLeader(i, t, {i})
        ELSE /\ state' = [state EXCEPT ![i] = Candidate]
             /\ leader_id' = [leader_id EXCEPT ![i] = None]
             /\ prevotes_for_me' = [prevotes_for_me EXCEPT ![i] = {}]
             /\ Send(VoteRequests(i, t, FALSE))
             /\ UNCHANGED <<logVars, peerVars, elections>>

\* raft_start_prevote, in a cluster where the node's own pre-vote is no quorum.
StartPrevote(i) ==
  /\ current_term[i] < MaxTerm[i]
  /\ leader_id' = [leader_id EXCEPT ![i] = None]
  /\ prevotes_for_me' = [prevotes_for_me EXCEPT ![i] = {i}]
  /\ Send(VoteRequests(i, current_term[i] + 1, TRUE))
  /\ UNCHANGED <<current_term, voted_for, state, votes_for_me, stable,
                 logVars, peerVars, elections>>

\* The loop at the end of raft_tick: apply what is committed and present.
ApplyCommitted(i) ==
  LET c == commit_index'[i]
      a == last_applied[i]
      reach == Least(c, Len(log'[i]))
  IN last_applied' = [last_applied EXCEPT ![i] = IF a < reach THEN reach ELSE a]
-----------------------------------------------------------------------------
(***************************************************************************)
(* raft_tick, by what has elapsed.                                         *)
(***************************************************************************)
TickElection(i) ==
  /\ ~shutdown[i]
  /\ state[i] \in {Follower, Candidate}
  /\ \E prevote \in PreVoteFlag :
       IF prevote /\ ~IsQuorum({i}) THEN StartPrevote(i) ELSE BecomeCandidate(i)
  /\ ApplyCommitted(i)
  /\ UNCHANGED shutdown

TickHeartbeat(i) ==
  /\ ~shutdown[i]
  /\ state[i] = Leader
  /\ Send(Heartbeats(i, current_term[i], log[i], commit_index[i], next_index[i]))
  /\ UNCHANGED <<voteVars, leader_id, logVars, peerVars, shutdown, elections>>
  /\ ApplyCommitted(i)

\* The round of heartbeats that raft_request_read_index_async sends at once at a
\* leader, shut down or not; the read itself is modelled in RaftReadIndex.
SendRound(i) ==
  /\ state[i] = Leader
  /\ Send(Heartbeats(i, current_term[i], log[i], commit_index[i], next_index[i]))
  /\ UNCHANGED <<voteVars, leader_id, logVars, last_applied, peerVars, shutdown, elections>>

TickApply(i) ==
  /\ ~shutdown[i]
  /\ UNCHANGED <<voteVars, leader_id, logVars, peerVars, shutdown, msgs, elections>>
  /\ ApplyCommitted(i)
-----------------------------------------------------------------------------
(***************************************************************************)
(* RequestVote (raft_election.c).                                          *)
(***************************************************************************)
\* A pre-vote request changes nothing but the reply.  "We have a live leader"
\* depends on the clock when a leader is known.
RecvPrevote(m) ==
  LET i == m.to
      wouldVote == /\ m.term >= current_term[i]
                   /\ LogIsUpToDate(log[i], m.last_term, m.last_index)
  IN /\ m.type = "RequestVote" /\ m.is_prevote
     /\ \E recentLeader \in BOOLEAN :
          LET granted == wouldVote /\ ~(leader_id[i] # None /\ recentLeader)
          IN Send({VoteReply(m, current_term[i], granted)})
     /\ UNCHANGED <<voteVars, leader_id, logVars, last_applied, peerVars, shutdown, elections>>

RecvRequestVote(m) ==
  LET i == m.to
      newer == m.term > current_term[i]
      vote == IF newer THEN None ELSE voted_for[i]
      granted == /\ m.term >= current_term[i]
                 /\ CanVote(vote, m.from)
                 /\ LogIsUpToDate(log[i], m.last_term, m.last_index)
  IN /\ m.type = "RequestVote" /\ ~m.is_prevote
     /\ \/ newer /\ BecomeFollower(i, m.term, IF granted THEN m.from ELSE None, None)
        \/ /\ ~newer /\ granted
           /\ voted_for' = [voted_for EXCEPT ![i] = m.from]
           /\ Persist(i, m.term, m.from)
           /\ UNCHANGED <<current_term, state, leader_id, votes_for_me, prevotes_for_me>>
        \/ ~newer /\ ~granted /\ UNCHANGED <<voteVars, leader_id>>
     \* A refusal carries the term from before the step down.
     /\ Send({VoteReply(m, IF granted THEN m.term ELSE current_term[i], granted)})
     /\ UNCHANGED <<logVars, last_applied, peerVars, shutdown, elections>>

\* A reply counts once, if it grants the vote.
Counts(m, tally) == m.granted /\ m.from \notin tally

RecvPrevoteReply(m) ==
  LET i == m.to
      got == prevotes_for_me[i] \cup {m.from}
  IN /\ m.type = "VoteReply" /\ m.is_prevote
     /\ prevotes_for_me[i] # {}
     /\ m.term <= current_term[i]
     /\ Counts(m, prevotes_for_me[i])
     /\ IF IsQuorum(got)
        THEN BecomeCandidate(i)
        ELSE /\ prevotes_for_me' = [prevotes_for_me EXCEPT ![i] = got]
             /\ UNCHANGED <<current_term, voted_for, state, leader_id, votes_for_me, stable,
                            logVars, peerVars, msgs, elections>>
     /\ UNCHANGED <<last_applied, shutdown>>

RecvVoteReply(m) ==
  LET i == m.to
      got == votes_for_me[i] \cup {m.from}
  IN /\ m.type = "VoteReply" /\ ~m.is_prevote
     /\ state[i] = Candidate
     /\ m.term = current_term[i]
     /\ Counts(m, votes_for_me[i])
     /\ votes_for_me' = [votes_for_me EXCEPT ![i] = got]
     /\ IF IsQuorum(got)
        THEN BecomeLeader(i, current_term[i], got)
        ELSE UNCHANGED <<state, leader_id, prevotes_for_me, logVars, peerVars, msgs, elections>>
     /\ UNCHANGED <<current_term, voted_for, stable, last_applied, shutdown>>

\* A reply with a higher term makes its receiver step down, if the receiver is
\* still in the role the reply is for.
RecvHigherTermReply(m) ==
  LET i == m.to
  IN /\ \/ m.type = "VoteReply" /\ m.is_prevote /\ prevotes_for_me[i] # {}
        \/ m.type = "VoteReply" /\ ~m.is_prevote /\ state[i] = Candidate
        \/ m.type = "AppendReply" /\ state[i] = Leader
     /\ m.term > current_term[i]
     /\ BecomeFollower(i, m.term, None, None)
     /\ UNCHANGED <<logVars, last_applied, peerVars, shutdown, msgs, elections>>
-----------------------------------------------------------------------------
(***************************************************************************)
(* AppendEntries (raft_replication.c).                                     *)
(***************************************************************************)
RefuseStaleAppend(m) ==
  /\ m.type = "AppendEntries"
  /\ m.term < current_term[m.to]
  /\ Send({AppendReply(m, FALSE, 0, 0, 0)})
  /\ UNCHANGED <<voteVars, leader_id, logVars, last_applied, peerVars, shutdown, elections>>

\* "Recognize leader": the receiver joins the term, and forgets its vote, if
\* the term is new to it or if it is not a follower.
RecognizeLeader(m) ==
  LET i == m.to
  IN /\ m.type = "AppendEntries"
     /\ m.term >= current_term[i]
     /\ IF m.term > current_term[i] \/ state[i] # Follower
        THEN BecomeFollower(i, m.term, None, m.from)
        ELSE /\ leader_id' = [leader_id EXCEPT ![i] = m.from]
             /\ UNCHANGED voteVars
     /\ UNCHANGED <<last_applied, peerVars, shutdown, elections>>

\* Rule 2, no entry at prev_log_index.
RefuseMissingPrev(m) ==
  LET l == log[m.to]
  IN /\ RecognizeLeader(m)
     /\ m.prev_index > Len(l)
     /\ Send({AppendReply(m, FALSE, Len(l), 0, 0)})
     /\ UNCHANGED logVars

\* Rule 2, an entry of another term at prev_log_index: it is removed with all
\* that follow it, and the reply names its term and where that term begins.
RefuseConflictingPrev(m) ==
  LET i == m.to
      l == log[i]
      prev == m.prev_index
  IN /\ RecognizeLeader(m)
     /\ prev \in DOMAIN l /\ ~HasPrev(l, m)
     /\ log' = [log EXCEPT ![i] = SubSeq(l, 1, prev - 1)]
     /\ Send({AppendReply(m, FALSE, prev - 1, l[prev].term, FirstOfTerm(l, l[prev].term))})
     /\ UNCHANGED commit_index

\* Rules 3 to 5.  The reply's match_index is the last index of the whole log.
AcceptAppend(m) ==
  LET i == m.to
      prev == m.prev_index
      l == Stored(log[i], prev, m.entries)
      c == Least(Least(m.leader_commit, prev + Len(m.entries)), Len(l))
  IN /\ RecognizeLeader(m)
     /\ HasPrev(log[i], m)
     /\ log' = [log EXCEPT ![i] = l]
     /\ commit_index' = [commit_index EXCEPT ![i] = IF m.leader_commit > @ THEN c ELSE @]
     /\ Send({AppendReply(m, TRUE, Len(l), 0, 0)})

\* mutant: a match index one too low is enough
EarlyCommit(i, match) ==
  LET covered(n) == IsQuorum({i} \cup {j \in Node \ {i} : match[j] + 1 >= n})
      candidates == {n \in commit_index[i] + 1 .. Len(log[i]) :
                       log[i][n].term = current_term[i] /\ covered(n)}
  IN IF candidates = {} THEN commit_index[i] ELSE Greatest(candidates)

\* The highest index of the leader's term that a quorum's match_index covers.
AdvancedCommit(i, match) ==
  LET covered(n) == IsQuorum({i} \cup {j \in Node \ {i} : match[j] >= n})
      candidates == {n \in commit_index[i] + 1 .. Len(log[i]) :
                       log[i][n].term = current_term[i] /\ covered(n)}
  IN IF candidates = {} THEN commit_index[i] ELSE Greatest(candidates)

RecvAppendSuccess(m) ==
  LET i == m.to
      j == m.from
      more == m.match_index > match_index[i][j]
      match == IF more THEN [match_index[i] EXCEPT ![j] = m.match_index] ELSE match_index[i]
      next == IF more THEN [next_index[i] EXCEPT ![j] = m.match_index + 1] ELSE next_index[i]
  IN /\ m.type = "AppendReply" /\ m.success
     /\ state[i] = Leader /\ m.term = current_term[i]
     /\ match_index' = [match_index EXCEPT ![i] = match]
     /\ next_index' = [next_index EXCEPT ![i] = next]
     /\ commit_index' = [commit_index EXCEPT ![i] = AdvancedCommit(i, match)]
     /\ UNCHANGED <<voteVars, leader_id, log, last_applied, shutdown, msgs, elections>>

\* mutant: the last branch decrements without looking
UnguardedRollBack(l, next, m) ==
  LET mine == LastOfTerm(l, m.conflict_term)
  IN IF m.conflict_term > 0
     THEN IF mine > 0 THEN mine + 1 ELSE m.conflict_index
     ELSE IF m.match_index > 0 /\ m.match_index < next THEN m.match_index + 1 ELSE next - 1

\* Where a leader with log l goes on after refusal m, when it was at next.
RolledBack(l, next, m) ==
  LET mine == LastOfTerm(l, m.conflict_term)
  IN IF m.conflict_term > 0
     THEN IF mine > 0 THEN mine + 1 ELSE m.conflict_index
     ELSE IF m.match_index > 0 /\ m.match_index < next
     THEN m.match_index + 1
     ELSE IF next > 1 THEN next - 1 ELSE next

RecvAppendRefusal(m) ==
  LET i == m.to
      j == m.from
  IN /\ m.type = "AppendReply" /\ ~m.success
     /\ state[i] = Leader /\ m.term = current_term[i]
     /\ next_index' = [next_index EXCEPT ![i][j] = RolledBack(log[i], @, m)]
     /\ UNCHANGED <<voteVars, leader_id, logVars, last_applied, match_index,
                    shutdown, msgs, elections>>
-----------------------------------------------------------------------------
(***************************************************************************)
(* Client calls and lifecycle.                                             *)
(***************************************************************************)
MayPropose(i) == ~shutdown[i] /\ state[i] = Leader /\ Len(log[i]) < MaxLog

\* raft_propose and raft_propose_noop.  When log_append fails the entry is
\* taken back before anything is sent, and the call changes nothing.
Propose(i, d) ==
  LET l == Append(log[i], EntryOf(current_term[i], d))
      c == SoleCommit(i, Len(l))
  IN /\ MayPropose(i)
     /\ log' = [log EXCEPT ![i] = l]
     /\ commit_index' = [commit_index EXCEPT ![i] = c]
     /\ OwnIndexes(i, next_index[i], match_index[i], Len(l))
     /\ Send(Heartbeats(i, current_term[i], l, c, next_index[i]))
     /\ UNCHANGED <<voteVars, leader_id, last_applied, shutdown, elections>>

EntriesOf(t, ds) == [k \in DOMAIN ds |-> EntryOf(t, ds[k])]

\* raft_propose_batch; unlike raft_propose it commits nothing by itself.
ProposeBatch(i, ds) ==
  LET l == log[i] \o EntriesOf(current_term[i], ds)
  IN /\ MayPropose(i)
     /\ log' = [log EXCEPT ![i] = l]
     /\ OwnIndexes(i, next_index[i], match_index[i], Len(l))
     /\ Send(Heartbeats(i, current_term[i], l, commit_index[i], next_index[i]))
     /\ UNCHANGED <<voteVars, leader_id, commit_index, last_applied, shutdown, elections>>

\* raft_propose_batch when raft_log_append fails for a later entry of the batch
\* (no memory, or a NULL entry): it returns the error and keeps the first n.
AbortBatch(i, ds, n) ==
  /\ MayPropose(i)
  /\ log' = [log EXCEPT ![i] = @ \o EntriesOf(current_term[i], SubSeq(ds, 1, n))]
  /\ UNCHANGED <<voteVars, leader_id, commit_index, last_applied, peerVars, shutdown,
                 msgs, elections>>

Shutdown(i) ==
  /\ i \in StopNodes /\ ~shutdown[i]
  /\ shutdown' = [shutdown EXCEPT ![i] = TRUE]
  /\ UNCHANGED <<voteVars, leader_id, logVars, last_applied, peerVars, msgs, elections>>

\* raft_create: load_vote brings back the persisted term and vote; nothing reads
\* the stored log, so the new in-memory log is empty.
Create(i) ==
  /\ current_term' = [current_term EXCEPT ![i] = stable'[i].term]
  /\ voted_for' = [voted_for EXCEPT ![i] = stable'[i].voted_for]
  /\ state' = [state EXCEPT ![i] = Follower]
  /\ leader_id' = [leader_id EXCEPT ![i] = None]
  /\ votes_for_me' = [votes_for_me EXCEPT ![i] = {}]
  /\ prevotes_for_me' = [prevotes_for_me EXCEPT ![i] = {}]
  /\ log' = [log EXCEPT ![i] = <<>>]
  /\ commit_index' = [commit_index EXCEPT ![i] = 0]
  /\ last_applied' = [last_applied EXCEPT ![i] = 0]
  /\ next_index' = [next_index EXCEPT ![i] = [j \in Node |-> 0]]
  /\ match_index' = [match_index EXCEPT ![i] = [j \in Node |-> 0]]
  /\ shutdown' = [shutdown EXCEPT ![i] = FALSE]
  /\ UNCHANGED <<msgs, elections>>

\* The process ends between two calls, or after a call's last persist_vote, and
\* is started again.
Restart(i) ==
  /\ i \in CrashNodes
  /\ UNCHANGED stable
  /\ Create(i)

\* It ends in raft_recv_requestvote, after raft_become_follower has persisted
\* the new term without a vote and before the vote is persisted.
CrashWhileVoting(m) ==
  /\ m.type = "RequestVote" /\ ~m.is_prevote
  /\ m.to \in CrashNodes
  /\ m.term > current_term[m.to]
  /\ Persist(m.to, m.term, None)
  /\ Create(m.to)
-----------------------------------------------------------------------------
Receive(m) ==
  \/ RecvPrevote(m)
  \/ RecvRequestVote(m)
  \/ CrashWhileVoting(m)
  \/ RecvPrevoteReply(m)
  \/ RecvVoteReply(m)
  \/ RecvHigherTermReply(m)
  \/ RefuseStaleAppend(m)
  \/ RefuseMissingPrev(m)
  \/ RefuseConflictingPrev(m)
  \/ AcceptAppend(m)
  \/ RecvAppendSuccess(m)
  \/ RecvAppendRefusal(m)

Call(i) ==
  \/ TickElection(i)
  \/ TickHeartbeat(i)
  \/ SendRound(i)
  \/ TickApply(i)
  \/ \E d \in Data \cup {Noop} : Propose(i, d)
  \/ \E ds \in Batches : ProposeBatch(i, ds)
  \/ \E ds \in Batches : \E n \in 1 .. Len(ds) - 1 : AbortBatch(i, ds, n)
  \/ Shutdown(i)
  \/ Restart(i)

Next ==
  \/ \E m \in msgs : Receive(m)
  \/ \E i \in Node : Call(i)

Spec == Init /\ [][Next]_vars
=============================================================================
