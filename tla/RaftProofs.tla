----------------------------- MODULE RaftProofs -----------------------------
(***************************************************************************)
(* Proofs of the election properties of Raft, for every number of nodes,   *)
(* every bound and every choice of the other constants.                    *)
(***************************************************************************)
EXTENDS RaftProperties, FiniteSetTheorems, SequenceTheorems, TLAPS

-----------------------------------------------------------------------------
(***************************************************************************)
(* Helpers of the model.                                                   *)
(***************************************************************************)
\* A set of naturals has a least element: "less than" is well founded.
LEMMA LeastElement ==
  ASSUME NEW S \in SUBSET Nat, S # {}
  PROVE  \E n \in S : \A k \in S : n <= k
<1> DEFINE R == {p \in Nat \X Nat : p[1] < p[2]}
<1>1. IsWellFoundedOn(R, Nat)
  BY NatLessThanWellFounded DEF OpToRel
<1>2. \A x, y \in Nat : <<y, x>> \in R <=> y < x
  OBVIOUS
<1>3. PICK n \in S : \A y \in S : <<y, n>> \notin R
  <2> HIDE DEF R
  <2> QED BY <1>1, WFMin
<1> HIDE DEF R
<1>4. \A y \in S : ~(y < n)
  BY <1>2, <1>3
<1> QED
  BY <1>4

\* Greatest is what its name says of a bounded set of naturals.
LEMMA GreatestElement ==
  ASSUME NEW S \in SUBSET Nat, S # {}, NEW b \in Nat, \A k \in S : k <= b
  PROVE  Greatest(S) \in S /\ \A k \in S : k <= Greatest(S)
<1> DEFINE T == {n \in Nat : \A k \in S : k <= n}
<1>1. T \in SUBSET Nat /\ b \in T
  OBVIOUS
<1>2. PICK n \in T : \A k \in T : n <= k
  <2> HIDE DEF T
  <2> QED BY <1>1, LeastElement
<1>3. n \in S
  <2>1. SUFFICES ASSUME n \notin S PROVE FALSE
    OBVIOUS
  <2>2. \A k \in S : k < n
    BY <1>2, <2>1
  <2>3. n # 0 /\ n - 1 \in Nat
    <3>1. PICK k \in S : TRUE
      OBVIOUS
    <3>2. k \in Nat /\ n \in Nat /\ k < n
      BY <1>2, <2>2, <3>1
    <3> QED
      BY <3>2
  <2>4. n - 1 \in T
    BY <2>2, <2>3
  <2> QED
    BY <1>2, <2>4
<1>4. \A k \in S : k <= n
  BY <1>2
<1> QED
  BY <1>3, <1>4 DEF Greatest

\* The term sent as prev_log_term is a term, also for an index the log lacks.
LEMMA TermAtType ==
  ASSUME NEW l \in Seq(Entry), NEW k \in Nat
  PROVE  TermAt(l, k) \in Nat /\ LastTerm(l) \in Nat
<1>1. ASSUME NEW n \in 1 .. Len(l) PROVE l[n].term \in Nat
  <2>1. l[n] \in Entry
    OBVIOUS
  <2> QED
    BY <2>1 DEF Entry
<1>2. l # <<>> => Len(l) \in 1 .. Len(l)
  OBVIOUS
<1> QED
  BY <1>1, <1>2 DEF TermAt, LastTerm

\* What raft_send_heartbeats hands to send_appendentries is well typed.
LEMMA HeartbeatsType ==
  ASSUME NEW i \in Node, NEW t \in Nat, NEW l \in Seq(Entry), NEW c \in Nat,
         NEW next \in [Node -> Nat]
  PROVE  Heartbeats(i, t, l, c, next) \subseteq AppendEntriesMsg
<1> DEFINE es(j) == SubSeq(l, next[j], Least(Len(l), next[j] + MaxEntries - 1))
           pt(j) == TermAt(l, next[j] - 1)
           msg(j) == [type |-> "AppendEntries", term |-> t, from |-> i, to |-> j,
                      prev_index |-> next[j] - 1, prev_term |-> pt(j),
                      entries |-> es(j), leader_commit |-> c]
<1>1. ASSUME NEW j \in Node, next[j] > 0
      PROVE  msg(j) \in AppendEntriesMsg
  <2>1. next[j] \in Nat /\ next[j] - 1 \in Nat
    BY <1>1
  <2>2. Least(Len(l), next[j] + MaxEntries - 1) \in Int
    BY <2>1, ConfigAssumption DEF Least
  <2>3. \A k \in next[j] .. Least(Len(l), next[j] + MaxEntries - 1) : l[k] \in Entry
    BY <2>1, ConfigAssumption DEF Least
  <2>4. es(j) \in Seq(Entry)
    BY <2>1, <2>2, <2>3, SubSeqProperties
  <2>5. pt(j) \in Nat
    BY <2>1, TermAtType
  <2> HIDE DEF es, pt
  <2> QED
    BY <2>1, <2>4, <2>5 DEF AppendEntriesMsg
<1>2. Heartbeats(i, t, l, c, next) = {msg(j) : j \in {k \in Node \ {i} : next[k] > 0}}
  BY DEF Heartbeats
<1> HIDE DEF msg
<1> QED
  BY <1>1, <1>2

\* The log after the loop of raft_recv_appendentries is a sequence of entries.
LEMMA StoredType ==
  ASSUME NEW l \in Seq(Entry), NEW prev \in 0 .. Len(l), NEW es \in Seq(Entry)
  PROVE  Stored(l, prev, es) \in Seq(Entry)
<1> DEFINE kept(n) == prev + n <= Len(l) /\ l[prev + n].term = es[n].term
           s == [k \in 1 .. prev + Len(es) |->
                   IF k <= prev \/ (\A n \in 1 .. k - prev : kept(n))
                   THEN l[k] ELSE es[k - prev]]
<1>1. Stored(l, prev, es) = IF \A n \in DOMAIN es : kept(n) THEN l ELSE s
  BY DEF Stored
<1>2. ASSUME NEW k \in 1 .. prev + Len(es)
      PROVE  (IF k <= prev \/ (\A n \in 1 .. k - prev : kept(n))
              THEN l[k] ELSE es[k - prev]) \in Entry
  <2>1. CASE k <= prev
    BY <2>1
  <2>2. CASE k > prev /\ \A n \in 1 .. k - prev : kept(n)
    <3>1. kept(k - prev)
      BY <2>2
    <3>2. k \in 1 .. Len(l)
      BY <3>1, <2>2
    <3> QED
      BY <2>2, <3>2
  <2>3. CASE k > prev /\ ~(\A n \in 1 .. k - prev : kept(n))
    <3>1. k - prev \in 1 .. Len(es)
      BY <2>3
    <3> QED
      BY <2>3, <3>1
  <2> HIDE DEF kept
  <2> QED
    BY <2>1, <2>2, <2>3
<1>3. prev + Len(es) \in Nat /\ s \in [1 .. prev + Len(es) -> Entry]
  <2> HIDE DEF kept
  <2> QED BY <1>2
<1>4. s \in Seq(Entry)
  BY <1>3
<1> QED
  BY <1>1, <1>4
-----------------------------------------------------------------------------
(***************************************************************************)
(* The inductive invariant behind the election properties.                 *)
(***************************************************************************)
IsGrant(m) == m.type = "VoteReply" /\ ~m.is_prevote /\ m.granted

\* v has told c that it votes for c in term t.
Granted(v, c, t) ==
  \E m \in msgs : IsGrant(m) /\ m.from = v /\ m.to = c /\ m.term = t

\* A granted vote still stands while its giver is in the term: the giver is a
\* follower, which no AppendEntries of the term makes forget its vote.
GrantsStand ==
  \A v, c \in Node, t \in Nat : Granted(v, c, t) =>
    /\ v # c
    /\ current_term[v] >= t
    /\ current_term[v] = t => state[v] = Follower /\ voted_for[v] = c

OneGrantPerTerm ==
  \A v, c, d \in Node, t \in Nat : Granted(v, c, t) /\ Granted(v, d, t) => c = d

\* A candidate's tally holds itself and peers that granted it their vote.
TallyIsGranted ==
  \A i \in Node :
    /\ state[i] # Follower => voted_for[i] = i
    /\ state[i] = Candidate =>
         i \in votes_for_me[i] /\ \A v \in votes_for_me[i] \ {i} : Granted(v, i, current_term[i])
    /\ state[i] = Leader => Elected(i, current_term[i])

\* A leader was elected by its own vote and those granted to it; it has not
\* taken back its own vote in the term, so it granted none.
ElectionIsGranted ==
  \A e \in elections :
    /\ e.leader \in e.voters /\ IsQuorum(e.voters)
    /\ \A v \in e.voters \ {e.leader} : Granted(v, e.leader, e.term)
    /\ \A c \in Node : ~Granted(e.leader, c, e.term)
    /\ current_term[e.leader] >= e.term
    /\ current_term[e.leader] = e.term => voted_for[e.leader] = e.leader

MessageOK(m) ==
  /\ m.from # m.to
  /\ m.type = "AppendEntries" => Elected(m.from, m.term)

StableVote ==
  \A i \in Node : stable[i] = [term |-> current_term[i], voted_for |-> voted_for[i]]

ElectionInv ==
  /\ GrantsStand
  /\ OneGrantPerTerm
  /\ TallyIsGranted
  /\ ElectionIsGranted
  /\ OneLeaderPerTerm
  /\ KnownLeaderElected
  /\ \A m \in msgs : MessageOK(m)
  /\ StableVote
-----------------------------------------------------------------------------
(***************************************************************************)
(* Type correctness.                                                       *)
(***************************************************************************)
LEMMA MessageFields ==
  ASSUME TypeOK, NEW m \in msgs
  PROVE  /\ m.from \in Node /\ m.to \in Node /\ m.term \in Nat
         /\ m.type = "RequestVote" => m \in RequestVoteMsg
         /\ m.type = "VoteReply" => m \in VoteReplyMsg
         /\ m.type = "AppendEntries" => m \in AppendEntriesMsg
         /\ m.type = "AppendReply" => m \in AppendReplyMsg
  BY DEF TypeOK, Message, RequestVoteMsg, VoteReplyMsg, AppendEntriesMsg, AppendReplyMsg

\* A cluster that was just created is well typed.
LEMMA TypeInit == Init => TypeOK
  BY NodeAssumption DEF Init, TypeOK, Follower, Candidate, Leader

\* The parts of TypeOK that one operator of the model writes.
VoteTypes ==
  /\ current_term \in [Node -> Nat]
  /\ voted_for \in [Node -> Node \cup {None}]
  /\ state \in [Node -> {Follower, Candidate, Leader}]
  /\ votes_for_me \in [Node -> SUBSET Node]
  /\ prevotes_for_me \in [Node -> SUBSET Node]
  /\ stable \in [Node -> [term : Nat, voted_for : Node \cup {None}]]
LeaderIdType == leader_id \in [Node -> Node \cup {None}]
LogTypes == log \in [Node -> Seq(Entry)] /\ commit_index \in [Node -> Nat]
PeerTypes ==
  next_index \in [Node -> [Node -> Nat]] /\ match_index \in [Node -> [Node -> Nat]]
MsgsType == msgs \subseteq Message
ElectionsType == elections \subseteq [term : Nat, leader : Node, voters : SUBSET Node]
AppliedType == last_applied \in [Node -> Nat]
ShutdownType == shutdown \in [Node -> BOOLEAN]

\* TypeOK is the conjunction of its parts, before and after a step.
LEMMA TypeParts ==
  /\ TypeOK <=> /\ VoteTypes /\ LeaderIdType /\ LogTypes /\ PeerTypes
                /\ MsgsType /\ ElectionsType /\ AppliedType /\ ShutdownType
  /\ TypeOK' <=> /\ VoteTypes' /\ LeaderIdType' /\ LogTypes' /\ PeerTypes'
                 /\ MsgsType' /\ ElectionsType' /\ AppliedType' /\ ShutdownType'
  BY DEF TypeOK, VoteTypes, LeaderIdType, LogTypes, PeerTypes, MsgsType, ElectionsType,
         AppliedType, ShutdownType

\* A part of the state that a step leaves alone keeps its type.
LEMMA TypeUnchanged ==
  /\ VoteTypes /\ UNCHANGED voteVars => VoteTypes'
  /\ LeaderIdType /\ UNCHANGED leader_id => LeaderIdType'
  /\ LogTypes /\ UNCHANGED logVars => LogTypes'
  /\ PeerTypes /\ UNCHANGED peerVars => PeerTypes'
  /\ MsgsType /\ UNCHANGED msgs => MsgsType'
  /\ ElectionsType /\ UNCHANGED elections => ElectionsType'
  /\ AppliedType /\ UNCHANGED last_applied => AppliedType'
  /\ ShutdownType /\ UNCHANGED shutdown => ShutdownType'
  BY DEF VoteTypes, LeaderIdType, LogTypes, PeerTypes, MsgsType, ElectionsType,
         AppliedType, ShutdownType, voteVars, logVars, peerVars

\* Sending messages keeps msgs a set of messages.
LEMMA SendType ==
  ASSUME MsgsType, NEW ms, ms \subseteq Message, Send(ms)
  PROVE  MsgsType'
  BY DEF MsgsType, Send

\* persist_vote writes a term and a vote.
LEMMA PersistType ==
  ASSUME TypeOK, NEW i \in Node, NEW t \in Nat, NEW v \in Node \cup {None}, Persist(i, t, v)
  PROVE  stable' \in [Node -> [term : Nat, voted_for : Node \cup {None}]]
  BY DEF TypeOK, Persist

\* raft_become_follower keeps the types of what it writes.
LEMMA BecomeFollowerType ==
  ASSUME TypeOK, NEW i \in Node, NEW t \in Nat, NEW v \in Node \cup {None},
         NEW l \in Node \cup {None}, BecomeFollower(i, t, v, l)
  PROVE  VoteTypes' /\ LeaderIdType'
<1>1. stable' \in [Node -> [term : Nat, voted_for : Node \cup {None}]]
  BY PersistType DEF BecomeFollower
<1> QED
  BY <1>1 DEF TypeOK, BecomeFollower, VoteTypes, LeaderIdType, Follower

\* raft_send_requestvote_all and raft_start_prevote send vote requests.
LEMMA VoteRequestsType ==
  ASSUME TypeOK, NEW i \in Node, NEW t \in Nat, NEW b \in BOOLEAN
  PROVE  VoteRequests(i, t, b) \subseteq Message
<1>1. Len(log[i]) \in Nat /\ LastTerm(log[i]) \in Nat
  BY TermAtType DEF TypeOK
<1> QED
  BY <1>1 DEF VoteRequests, Message, RequestVoteMsg

\* Heartbeats are messages.
LEMMA HeartbeatMessages ==
  ASSUME NEW i \in Node, NEW t \in Nat, NEW l \in Seq(Entry), NEW c \in Nat,
         NEW next \in [Node -> Nat]
  PROVE  Heartbeats(i, t, l, c, next) \subseteq Message
  BY HeartbeatsType DEF Message

\* The commit index after an append is an index.
LEMMA SoleCommitType ==
  ASSUME TypeOK, NEW i \in Node, NEW n \in Nat
  PROVE  SoleCommit(i, n) \in Nat
  BY DEF SoleCommit, TypeOK

\* A leader's own peer entry keeps its type.
LEMMA OwnIndexesType ==
  ASSUME TypeOK, NEW i \in Node, NEW next \in [Node -> Nat], NEW match \in [Node -> Nat],
         NEW n \in Nat, OwnIndexes(i, next, match, n)
  PROVE  PeerTypes'
  BY DEF TypeOK, OwnIndexes, PeerTypes

\* raft_log_append makes a log one entry longer.
LEMMA AppendEntryType ==
  ASSUME NEW l \in Seq(Entry), NEW t \in Nat, NEW d \in Data \cup {Noop}
  PROVE  Append(l, EntryOf(t, d)) \in Seq(Entry)
<1>1. EntryOf(t, d) \in Entry
  BY DEF EntryOf, Entry
<1> QED
  BY <1>1

\* raft_become_leader keeps the types of what it writes, with its no-op or without.
LEMMA BecomeLeaderType ==
  ASSUME TypeOK, NEW i \in Node, NEW t \in Nat, NEW votes \in SUBSET Node,
         BecomeLeader(i, t, votes)
  PROVE  /\ LeaderIdType' /\ LogTypes' /\ PeerTypes' /\ MsgsType' /\ ElectionsType'
         /\ state' \in [Node -> {Follower, Candidate, Leader}]
         /\ prevotes_for_me' \in [Node -> SUBSET Node]
<1> DEFINE next == [j \in Node |-> Len(log[i]) + 1]
           zero == [j \in Node |-> 0]
           withNoop == Append(log[i], EntryOf(t, Noop))
           c == SoleCommit(i, Len(withNoop))
           first == Heartbeats(i, t, log[i], commit_index[i], next)
           second == Heartbeats(i, t, withNoop, c, next)
<1>1. log[i] \in Seq(Entry) /\ commit_index[i] \in Nat /\ zero \in [Node -> Nat]
  BY DEF TypeOK
<1>2. next \in [Node -> Nat]
  BY <1>1
<1>3. withNoop \in Seq(Entry) /\ Len(withNoop) \in Nat
  BY <1>1, AppendEntryType
<1>4. c \in Nat
  BY <1>3, SoleCommitType
<1>5. first \subseteq Message /\ second \subseteq Message
  BY <1>1, <1>2, <1>3, <1>4, HeartbeatMessages
<1>6. /\ state' = [state EXCEPT ![i] = Leader]
      /\ leader_id' = [leader_id EXCEPT ![i] = i]
      /\ prevotes_for_me' = [prevotes_for_me EXCEPT ![i] = {}]
      /\ elections' = elections \cup {[term |-> t, leader |-> i, voters |-> votes]}
      /\ \E failed \in NoopFails :
         IF shutdown[i] \/ failed
         THEN /\ next_index' = [next_index EXCEPT ![i] = next]
              /\ match_index' = [match_index EXCEPT ![i] = zero]
              /\ Send(first) /\ UNCHANGED logVars
         ELSE /\ OwnIndexes(i, next, zero, Len(withNoop))
              /\ log' = [log EXCEPT ![i] = withNoop]
              /\ commit_index' = [commit_index EXCEPT ![i] = c]
              /\ Send(first \cup second)
  BY DEF BecomeLeader
<1> HIDE DEF next, zero, withNoop, c, first, second
<1>7. LeaderIdType' /\ ElectionsType'
  BY <1>6, SMTT(30) DEF TypeOK, LeaderIdType, ElectionsType
<1>8. MsgsType'
  <2>1. first \cup second \subseteq Message /\ MsgsType
    BY <1>5 DEF TypeOK, MsgsType
  <2> QED
    BY <1>5, <1>6, <2>1, SendType
<1>9. PeerTypes'
  <2>1. CASE /\ next_index' = [next_index EXCEPT ![i] = next]
             /\ match_index' = [match_index EXCEPT ![i] = zero]
    BY <2>1, <1>1, <1>2 DEF TypeOK, PeerTypes
  <2>2. CASE OwnIndexes(i, next, zero, Len(withNoop))
    BY <2>2, <1>1, <1>2, <1>3, OwnIndexesType
  <2> QED
    BY <1>6, <2>1, <2>2
<1>10. LogTypes'
  BY <1>3, <1>4, <1>6 DEF TypeOK, LogTypes, logVars
<1> QED
  BY <1>6, <1>7, <1>8, <1>9, <1>10 DEF TypeOK, Leader

\* raft_become_candidate keeps the types of what it writes.
LEMMA BecomeCandidateType ==
  ASSUME TypeOK, NEW i \in Node, BecomeCandidate(i)
  PROVE  VoteTypes' /\ LeaderIdType' /\ LogTypes' /\ PeerTypes' /\ MsgsType' /\ ElectionsType'
<1> DEFINE t == current_term[i] + 1
<1>1. t \in Nat
  BY DEF TypeOK
<1>2. /\ current_term' = [current_term EXCEPT ![i] = t]
      /\ voted_for' = [voted_for EXCEPT ![i] = i]
      /\ votes_for_me' = [votes_for_me EXCEPT ![i] = {i}]
      /\ Persist(i, t, i)
      /\ IF IsQuorum({i})
         THEN BecomeLeader(i, t, {i})
         ELSE /\ state' = [state EXCEPT ![i] = Candidate]
              /\ leader_id' = [leader_id EXCEPT ![i] = None]
              /\ prevotes_for_me' = [prevotes_for_me EXCEPT ![i] = {}]
              /\ Send(VoteRequests(i, t, FALSE))
              /\ UNCHANGED <<logVars, peerVars, elections>>
  BY DEF BecomeCandidate
<1> HIDE DEF t
<1>3. stable' \in [Node -> [term : Nat, voted_for : Node \cup {None}]]
  BY <1>1, <1>2, PersistType
<1>4. CASE IsQuorum({i})
  <2>1. BecomeLeader(i, t, {i})
    BY <1>2, <1>4
  <2>2. /\ LeaderIdType' /\ LogTypes' /\ PeerTypes' /\ MsgsType' /\ ElectionsType'
        /\ state' \in [Node -> {Follower, Candidate, Leader}]
        /\ prevotes_for_me' \in [Node -> SUBSET Node]
    BY <1>1, <2>1, BecomeLeaderType
  <2> QED
    BY <1>1, <1>2, <1>3, <2>2 DEF TypeOK, VoteTypes
<1>5. CASE ~IsQuorum({i})
  <2>1. /\ state' = [state EXCEPT ![i] = Candidate]
        /\ leader_id' = [leader_id EXCEPT ![i] = None]
        /\ prevotes_for_me' = [prevotes_for_me EXCEPT ![i] = {}]
        /\ Send(VoteRequests(i, t, FALSE))
        /\ UNCHANGED <<logVars, peerVars, elections>>
    BY <1>2, <1>5
  <2>2. VoteRequests(i, t, FALSE) \subseteq Message
    BY <1>1, VoteRequestsType
  <2>3. MsgsType'
    BY <2>1, <2>2, SendType, TypeParts
  <2> QED
    BY <1>1, <1>2, <1>3, <2>1, <2>3, TypeParts, TypeUnchanged
    DEF VoteTypes, LeaderIdType, Candidate
<1> QED
  BY <1>4, <1>5

\* The apply loop of raft_tick moves last_applied to an index.
LEMMA ApplyCommittedType ==
  ASSUME TypeOK, NEW i \in Node, LogTypes', ApplyCommitted(i)
  PROVE  AppliedType'
<1>1. Len(log'[i]) \in Nat /\ commit_index'[i] \in Nat /\ last_applied[i] \in Nat
  BY DEF TypeOK, LogTypes
<1> QED
  BY <1>1 DEF ApplyCommitted, TypeOK, AppliedType, Least

\* raft_tick keeps the state well typed.
LEMMA TickType ==
  ASSUME TypeOK, NEW i \in Node, TickElection(i) \/ TickHeartbeat(i) \/ SendRound(i) \/ TickApply(i)
  PROVE  TypeOK'
<1>0. current_term[i] + 1 \in Nat
  BY DEF TypeOK
<1> USE TypeParts, TypeUnchanged
<1>1. CASE TickElection(i)
  <2>1. VoteTypes' /\ LeaderIdType' /\ LogTypes' /\ PeerTypes' /\ MsgsType' /\ ElectionsType'
    <3>1. CASE BecomeCandidate(i)
      BY <3>1, BecomeCandidateType
    <3>2. CASE StartPrevote(i)
      <4>2. VoteRequests(i, current_term[i] + 1, TRUE) \subseteq Message
        BY <1>0, VoteRequestsType
      <4>3. MsgsType'
        BY <3>2, <4>2, SendType DEF StartPrevote
      <4> QED
        BY <3>2, <4>3 DEF StartPrevote, VoteTypes, LeaderIdType
    <3> QED
      BY <1>1, <3>1, <3>2 DEF TickElection
  <2>2. AppliedType'
    BY <1>1, <2>1, ApplyCommittedType DEF TickElection
  <2> QED
    BY <1>1, <2>1, <2>2 DEF TickElection
<1>2. CASE TickHeartbeat(i)
  <2>1. Heartbeats(i, current_term[i], log[i], commit_index[i], next_index[i]) \subseteq Message
    BY HeartbeatMessages DEF TypeOK
  <2>2. MsgsType'
    BY <1>2, <2>1, SendType DEF TickHeartbeat
  <2>3. LogTypes' /\ UNCHANGED <<voteVars, leader_id, peerVars, shutdown, elections>>
    BY <1>2 DEF TickHeartbeat
  <2>4. AppliedType'
    BY <1>2, <2>3, ApplyCommittedType DEF TickHeartbeat
  <2> QED
    BY <2>2, <2>3, <2>4
<1>3. CASE TickApply(i)
  <2>1. LogTypes' /\ UNCHANGED <<voteVars, leader_id, peerVars, shutdown, msgs, elections>>
    BY <1>3 DEF TickApply
  <2>2. AppliedType'
    BY <1>3, <2>1, ApplyCommittedType DEF TickApply
  <2> QED
    BY <2>1, <2>2
<1>4. CASE SendRound(i)
  <2>1. Heartbeats(i, current_term[i], log[i], commit_index[i], next_index[i]) \subseteq Message
    BY HeartbeatMessages DEF TypeOK
  <2>2. MsgsType'
    BY <1>4, <2>1, SendType DEF SendRound
  <2>3. UNCHANGED <<voteVars, leader_id, logVars, last_applied, peerVars, shutdown, elections>>
    BY <1>4 DEF SendRound
  <2> QED
    BY <2>2, <2>3
<1> QED
  BY <1>1, <1>2, <1>3, <1>4

\* raft_recv_requestvote answers with a vote reply.
LEMMA VoteReplyType ==
  ASSUME TypeOK, NEW m \in msgs, m.type = "RequestVote", NEW t \in Nat, NEW g \in BOOLEAN
  PROVE  {VoteReply(m, t, g)} \subseteq Message
<1>1. m \in RequestVoteMsg
  BY MessageFields
<1> QED
  BY <1>1 DEF VoteReply, RequestVoteMsg, VoteReplyMsg, Message

\* raft_create.
LEMMA CreateType ==
  ASSUME TypeOK, NEW i \in Node, Create(i),
         stable' \in [Node -> [term : Nat, voted_for : Node \cup {None}]]
  PROVE  TypeOK'
<1>1. VoteTypes' /\ LeaderIdType'
  BY TypeParts DEF Create, VoteTypes, LeaderIdType, Follower
<1>2. LogTypes' /\ PeerTypes' /\ AppliedType' /\ ShutdownType'
  BY TypeParts DEF Create, LogTypes, PeerTypes, AppliedType, ShutdownType
<1>3. MsgsType' /\ ElectionsType'
  BY TypeParts, TypeUnchanged DEF Create
<1> QED
  BY <1>1, <1>2, <1>3, TypeParts

\* The handlers of raft_election.c keep the state well typed.
LEMMA ElectionHandlersType ==
  ASSUME TypeOK, NEW m \in msgs,
         \/ RecvPrevote(m) \/ RecvRequestVote(m) \/ RecvPrevoteReply(m)
         \/ RecvVoteReply(m) \/ RecvHigherTermReply(m) \/ CrashWhileVoting(m)
  PROVE  TypeOK'
<1> USE TypeParts, TypeUnchanged
<1> DEFINE i == m.to
<1>1. i \in Node /\ m.from \in Node /\ m.term \in Nat /\ current_term[i] \in Nat
  BY MessageFields DEF TypeOK
<1>2. CASE RecvPrevote(m)
  <2>1. PICK g \in BOOLEAN : Send({VoteReply(m, current_term[i], g)})
    <3>1. PICK r \in BOOLEAN :
            Send({VoteReply(m, current_term[i],
                    (m.term >= current_term[m.to]
                       /\ LogIsUpToDate(log[m.to], m.last_term, m.last_index))
                    /\ ~(leader_id[m.to] # None /\ r))})
      BY <1>2 DEF RecvPrevote
    <3> DEFINE h == (m.term >= current_term[m.to]
                       /\ LogIsUpToDate(log[m.to], m.last_term, m.last_index))
                    /\ ~(leader_id[m.to] # None /\ r)
    <3>2. h \in BOOLEAN
      OBVIOUS
    <3> HIDE DEF h
    <3> QED
      BY <3>1, <3>2 DEF h
  <2>2. MsgsType'
    BY <1>1, <1>2, <2>1, VoteReplyType, SendType DEF RecvPrevote
  <2> QED
    BY <1>2, <2>2 DEF RecvPrevote
<1>3. CASE RecvRequestVote(m)
  <2> DEFINE newer == m.term > current_term[i]
             vote == IF newer THEN None ELSE voted_for[i]
             granted == /\ m.term >= current_term[i]
                        /\ CanVote(vote, m.from)
                        /\ LogIsUpToDate(log[i], m.last_term, m.last_index)
  <2>1. granted \in BOOLEAN
    OBVIOUS
  <2>2. /\ m.type = "RequestVote"
        /\ \/ newer /\ BecomeFollower(i, m.term, IF granted THEN m.from ELSE None, None)
           \/ /\ ~newer /\ granted
              /\ voted_for' = [voted_for EXCEPT ![i] = m.from]
              /\ Persist(i, m.term, m.from)
              /\ UNCHANGED <<current_term, state, leader_id, votes_for_me, prevotes_for_me>>
           \/ ~newer /\ ~granted /\ UNCHANGED <<voteVars, leader_id>>
        /\ Send({VoteReply(m, IF granted THEN m.term ELSE current_term[i], granted)})
        /\ UNCHANGED <<logVars, last_applied, peerVars, shutdown, elections>>
    BY <1>3 DEF RecvRequestVote
  <2> HIDE DEF newer, vote, granted
  <2>3. MsgsType'
    BY <1>1, <2>1, <2>2, VoteReplyType, SendType
  <2>4. VoteTypes' /\ LeaderIdType'
    <3>1. CASE newer /\ BecomeFollower(i, m.term, IF granted THEN m.from ELSE None, None)
      BY <1>1, <2>1, <3>1, BecomeFollowerType
    <3>2. CASE /\ voted_for' = [voted_for EXCEPT ![i] = m.from]
               /\ Persist(i, m.term, m.from)
               /\ UNCHANGED <<current_term, state, leader_id, votes_for_me, prevotes_for_me>>
      <4>1. stable' \in [Node -> [term : Nat, voted_for : Node \cup {None}]]
        BY <1>1, <3>2, PersistType
      <4> QED
        BY <1>1, <3>2, <4>1 DEF VoteTypes, LeaderIdType
    <3>3. CASE UNCHANGED <<voteVars, leader_id>>
      BY <3>3
    <3> QED
      BY <2>2, <3>1, <3>2, <3>3
  <2> QED
    BY <2>2, <2>3, <2>4
<1>4. CASE RecvPrevoteReply(m)
  <2> DEFINE got == prevotes_for_me[i] \cup {m.from}
  <2>1. VoteTypes' /\ LeaderIdType' /\ LogTypes' /\ PeerTypes' /\ MsgsType' /\ ElectionsType'
    <3>1. CASE BecomeCandidate(i)
      BY <1>1, <3>1, BecomeCandidateType
    <3>2. CASE /\ prevotes_for_me' = [prevotes_for_me EXCEPT ![i] = got]
               /\ UNCHANGED <<current_term, voted_for, state, leader_id, votes_for_me, stable,
                              logVars, peerVars, msgs, elections>>
      BY <1>1, <3>2 DEF VoteTypes, LeaderIdType
    <3> QED
      BY <1>4, <3>1, <3>2 DEF RecvPrevoteReply
  <2> QED
    BY <1>4, <2>1 DEF RecvPrevoteReply
<1>5. CASE RecvVoteReply(m)
  <2> DEFINE got == votes_for_me[i] \cup {m.from}
  <2>1. got \in SUBSET Node
    BY <1>1 DEF TypeOK
  <2>2. /\ votes_for_me' = [votes_for_me EXCEPT ![i] = got]
        /\ \/ BecomeLeader(i, current_term[i], got)
           \/ UNCHANGED <<state, leader_id, prevotes_for_me, logVars, peerVars, msgs, elections>>
        /\ UNCHANGED <<current_term, voted_for, stable, last_applied, shutdown>>
    BY <1>5 DEF RecvVoteReply
  <2> HIDE DEF got
  <2>3. /\ LeaderIdType' /\ LogTypes' /\ PeerTypes' /\ MsgsType' /\ ElectionsType'
        /\ state' \in [Node -> {Follower, Candidate, Leader}]
        /\ prevotes_for_me' \in [Node -> SUBSET Node]
    <3>1. CASE BecomeLeader(i, current_term[i], got)
      BY <1>1, <2>1, <3>1, BecomeLeaderType
    <3>2. CASE UNCHANGED <<state, leader_id, prevotes_for_me, logVars, peerVars, msgs, elections>>
      BY <3>2 DEF VoteTypes
    <3> QED
      BY <2>2, <3>1, <3>2
  <2>4. VoteTypes'
    BY <1>1, <2>1, <2>2, <2>3 DEF VoteTypes
  <2> QED
    BY <2>2, <2>3, <2>4
<1>6. CASE RecvHigherTermReply(m)
  <2>1. VoteTypes' /\ LeaderIdType'
    BY <1>1, <1>6, BecomeFollowerType DEF RecvHigherTermReply
  <2> QED
    BY <1>6, <2>1 DEF RecvHigherTermReply
<1>7. CASE CrashWhileVoting(m)
  <2>1. Create(i) /\ stable' \in [Node -> [term : Nat, voted_for : Node \cup {None}]]
    BY <1>1, <1>7, PersistType DEF CrashWhileVoting
  <2> QED
    BY <1>1, <2>1, CreateType
<1> QED
  BY <1>2, <1>3, <1>4, <1>5, <1>6, <1>7

\* raft_recv_appendentries answers with an append reply.
LEMMA AppendReplyType ==
  ASSUME TypeOK, NEW m \in msgs, NEW b \in BOOLEAN, NEW n \in Nat, NEW ct \in Nat, NEW ci \in Nat
  PROVE  {AppendReply(m, b, n, ct, ci)} \subseteq Message
<1>1. m.to \in Node /\ m.from \in Node /\ current_term[m.to] \in Nat
  BY MessageFields DEF TypeOK
<1> QED
  BY <1>1 DEF AppendReply, AppendReplyMsg, Message

\* "Recognize leader" keeps the types of what it writes.
LEMMA RecognizeLeaderType ==
  ASSUME TypeOK, NEW m \in msgs, RecognizeLeader(m)
  PROVE  /\ VoteTypes' /\ LeaderIdType' /\ PeerTypes' /\ ElectionsType' /\ AppliedType'
         /\ ShutdownType'
<1>1. m.to \in Node /\ m.from \in Node /\ m.term \in Nat
  BY MessageFields
<1>2. VoteTypes' /\ LeaderIdType'
  <2>1. CASE BecomeFollower(m.to, m.term, None, m.from)
    BY <1>1, <2>1, BecomeFollowerType
  <2>2. CASE leader_id' = [leader_id EXCEPT ![m.to] = m.from] /\ UNCHANGED voteVars
    BY <1>1, <2>2, TypeParts, TypeUnchanged DEF LeaderIdType
  <2> QED
    BY <2>1, <2>2 DEF RecognizeLeader
<1> QED
  BY <1>2, TypeParts, TypeUnchanged DEF RecognizeLeader

\* raft_log_find_first_of_term finds an index of the log, if the term occurs.
LEMMA FirstOfTermType ==
  ASSUME NEW l \in Seq(Entry), NEW k \in DOMAIN l
  PROVE  FirstOfTerm(l, l[k].term) \in DOMAIN l
<1> DEFINE S == IndexesOfTerm(l, l[k].term)
<1>1. S \in SUBSET Nat /\ S # {} /\ S \subseteq DOMAIN l
  BY DEF IndexesOfTerm
<1>2. \E n \in S : \A j \in S : n <= j
  <2> HIDE DEF S
  <2> QED BY <1>1, LeastElement
<1> QED
  BY <1>1, <1>2 DEF FirstOfTerm

\* raft_log_find_last_of_term returns an index of the log, or 0.
LEMMA LastOfTermType ==
  ASSUME NEW l \in Seq(Entry), NEW t \in Nat
  PROVE  LastOfTerm(l, t) \in Nat
<1> DEFINE S == IndexesOfTerm(l, t)
<1>1. S \in SUBSET Nat /\ Len(l) \in Nat /\ \A k \in S : k <= Len(l)
  BY DEF IndexesOfTerm
<1>2. S # {} => Greatest(S) \in S
  <2> HIDE DEF S
  <2> QED BY <1>1, GreatestElement
<1> QED
  BY <1>1, <1>2 DEF LastOfTerm

\* raft_recv_appendentries keeps the state well typed, however it ends.
LEMMA AppendHandlersType ==
  ASSUME TypeOK, NEW m \in msgs,
         \/ RefuseStaleAppend(m) \/ RefuseMissingPrev(m)
         \/ RefuseConflictingPrev(m) \/ AcceptAppend(m)
  PROVE  TypeOK'
<1> DEFINE i == m.to
           l == log[i]
           prev == m.prev_index
<1>1. m \in AppendEntriesMsg
  BY MessageFields
     DEF RefuseStaleAppend, RefuseMissingPrev, RefuseConflictingPrev, AcceptAppend,
         RecognizeLeader
<1>2. /\ i \in Node /\ m.term \in Nat /\ prev \in Nat /\ m.leader_commit \in Nat
      /\ m.entries \in Seq(Entry)
  BY <1>1 DEF AppendEntriesMsg
<1>3. l \in Seq(Entry) /\ commit_index[i] \in Nat
  BY <1>2 DEF TypeOK
<1> USE TypeParts, TypeUnchanged
<1>4. CASE RefuseStaleAppend(m)
  <2>1. {AppendReply(m, FALSE, 0, 0, 0)} \subseteq Message
    BY AppendReplyType
  <2> QED
    BY <1>4, <2>1, SendType DEF RefuseStaleAppend
<1>5. CASE RefuseMissingPrev(m)
  <2>1. {AppendReply(m, FALSE, Len(l), 0, 0)} \subseteq Message
    <3>1. Len(l) \in Nat
      BY <1>3
    <3> HIDE DEF l
    <3> QED
      BY <3>1, AppendReplyType
  <2> QED
    BY <1>5, <2>1, SendType, RecognizeLeaderType DEF RefuseMissingPrev, LogTypes, logVars
<1>6. CASE RefuseConflictingPrev(m)
  <2>1. /\ RecognizeLeader(m)
        /\ prev \in DOMAIN l
        /\ log' = [log EXCEPT ![i] = SubSeq(l, 1, prev - 1)]
        /\ Send({AppendReply(m, FALSE, prev - 1, l[prev].term, FirstOfTerm(l, l[prev].term))})
        /\ UNCHANGED commit_index
    BY <1>6 DEF RefuseConflictingPrev
  <2>2. prev - 1 \in Nat /\ l[prev] \in Entry
    BY <1>2, <1>3, <2>1
  <2>3. l[prev].term \in Nat
    BY <2>2 DEF Entry
  <2>4. FirstOfTerm(l, l[prev].term) \in Nat
    <3>1. FirstOfTerm(l, l[prev].term) \in DOMAIN l
      BY <1>3, <2>1, FirstOfTermType
    <3> QED
      BY <1>3, <3>1
  <2>5. {AppendReply(m, FALSE, prev - 1, l[prev].term, FirstOfTerm(l, l[prev].term))} \subseteq Message
    BY <2>2, <2>3, <2>4, AppendReplyType
  <2>6. SubSeq(l, 1, prev - 1) \in Seq(Entry)
    <3>1. \A k \in 1 .. prev - 1 : l[k] \in Entry
      BY <1>3, <2>1
    <3> QED
      BY <2>2, <3>1, SubSeqProperties
  <2>7. LogTypes'
    BY <1>2, <2>1, <2>6 DEF LogTypes
  <2>8. MsgsType'
    BY <2>1, <2>5, SendType
  <2> QED
    BY <2>1, <2>7, <2>8, RecognizeLeaderType
<1>7. CASE AcceptAppend(m)
  <2> DEFINE s == Stored(l, prev, m.entries)
             c == Least(Least(m.leader_commit, prev + Len(m.entries)), Len(s))
  <2>1. /\ RecognizeLeader(m)
        /\ HasPrev(l, m)
        /\ log' = [log EXCEPT ![i] = s]
        /\ commit_index' = [commit_index EXCEPT ![i] =
                              IF m.leader_commit > commit_index[i] THEN c ELSE commit_index[i]]
        /\ Send({AppendReply(m, TRUE, Len(s), 0, 0)})
    BY <1>7 DEF AcceptAppend
  <2>2. prev \in 0 .. Len(l)
    BY <1>2, <1>3, <2>1 DEF HasPrev
  <2>3. s \in Seq(Entry)
    BY <1>2, <1>3, <2>2, StoredType
  <2> HIDE DEF s
  <2>4. Len(s) \in Nat /\ Len(m.entries) \in Nat
    BY <1>2, <2>3
  <2>5. c \in Nat
    BY <1>2, <2>4 DEF Least
  <2> HIDE DEF c
  <2>6. {AppendReply(m, TRUE, Len(s), 0, 0)} \subseteq Message
    BY <2>4, AppendReplyType
  <2>7. MsgsType'
    BY <2>1, <2>6, SendType
  <2>8. LogTypes'
    BY <1>2, <1>3, <2>1, <2>3, <2>5 DEF LogTypes
  <2> QED
    BY <2>1, <2>7, <2>8, RecognizeLeaderType
<1> QED
  BY <1>4, <1>5, <1>6, <1>7

\* The commit index a leader advances to is an index of its log, or the old one.
LEMMA AdvancedCommitType ==
  ASSUME TypeOK, NEW i \in Node, NEW match
  PROVE  AdvancedCommit(i, match) \in Nat
<1> DEFINE covered(n) == IsQuorum({i} \cup {j \in Node \ {i} : match[j] >= n})
           S == {n \in commit_index[i] + 1 .. Len(log[i]) :
                   log[i][n].term = current_term[i] /\ covered(n)}
<1>1. commit_index[i] \in Nat /\ Len(log[i]) \in Nat
  BY DEF TypeOK
<1>2. S \in SUBSET Nat /\ \A k \in S : k <= Len(log[i])
  BY <1>1
<1>3. AdvancedCommit(i, match) = IF S = {} THEN commit_index[i] ELSE Greatest(S)
  BY DEF AdvancedCommit
<1> HIDE DEF S
<1>4. S # {} => Greatest(S) \in S
  BY <1>1, <1>2, GreatestElement
<1> QED
  BY <1>1, <1>2, <1>3, <1>4

\* The next index after a refusal is an index: it does not wrap below zero.
LEMMA RolledBackType ==
  ASSUME NEW l \in Seq(Entry), NEW next \in Nat, NEW m \in AppendReplyMsg
  PROVE  RolledBack(l, next, m) \in Nat
<1>1. m.conflict_term \in Nat /\ m.conflict_index \in Nat /\ m.match_index \in Nat
  BY DEF AppendReplyMsg
<1>2. LastOfTerm(l, m.conflict_term) \in Nat
  BY <1>1, LastOfTermType
<1> QED
  BY <1>1, <1>2 DEF RolledBack

\* raft_recv_appendentries_response keeps the state well typed.
LEMMA AppendReplyHandlersType ==
  ASSUME TypeOK, NEW m \in msgs, RecvAppendSuccess(m) \/ RecvAppendRefusal(m)
  PROVE  TypeOK'
<1> DEFINE i == m.to
           j == m.from
<1>1. m \in AppendReplyMsg
  BY MessageFields DEF RecvAppendSuccess, RecvAppendRefusal
<1>2. i \in Node /\ j \in Node /\ m.match_index \in Nat
  BY <1>1 DEF AppendReplyMsg
<1>3. match_index[i] \in [Node -> Nat] /\ next_index[i] \in [Node -> Nat] /\ log[i] \in Seq(Entry)
  BY <1>2 DEF TypeOK
<1>4. CASE RecvAppendSuccess(m)
  <2> DEFINE more == m.match_index > match_index[i][j]
             match == IF more THEN [match_index[i] EXCEPT ![j] = m.match_index] ELSE match_index[i]
             next == IF more THEN [next_index[i] EXCEPT ![j] = m.match_index + 1] ELSE next_index[i]
  <2>1. match \in [Node -> Nat] /\ next \in [Node -> Nat]
    BY <1>2, <1>3, SMTT(30)
  <2>2. /\ match_index' = [match_index EXCEPT ![i] = match]
        /\ next_index' = [next_index EXCEPT ![i] = next]
        /\ commit_index' = [commit_index EXCEPT ![i] = AdvancedCommit(i, match)]
        /\ UNCHANGED <<voteVars, leader_id, log, last_applied, shutdown, msgs, elections>>
    BY <1>4 DEF RecvAppendSuccess
  <2> HIDE DEF match, next
  <2>3. AdvancedCommit(i, match) \in Nat
    BY <1>2, AdvancedCommitType
  <2>4. PeerTypes'
    BY <1>2, <2>1, <2>2, TypeParts DEF PeerTypes
  <2>5. LogTypes'
    BY <1>2, <2>2, <2>3, TypeParts DEF LogTypes
  <2> QED
    BY <2>2, <2>4, <2>5, TypeParts, TypeUnchanged
<1>5. CASE RecvAppendRefusal(m)
  <2>1. RolledBack(log[i], next_index[i][j], m) \in Nat
    BY <1>1, <1>2, <1>3, RolledBackType
  <2>2. /\ next_index' = [next_index EXCEPT ![i][j] = RolledBack(log[i], next_index[i][j], m)]
        /\ UNCHANGED <<voteVars, leader_id, logVars, last_applied, match_index,
                       shutdown, msgs, elections>>
    BY <1>5 DEF RecvAppendRefusal
  <2>3. PeerTypes'
    BY <1>2, <2>1, <2>2, TypeParts DEF PeerTypes
  <2> QED
    BY <2>2, <2>3, TypeParts, TypeUnchanged
<1> QED
  BY <1>4, <1>5

\* raft_propose_batch makes one entry of each payload.
LEMMA EntriesOfType ==
  ASSUME NEW t \in Nat, NEW ds \in Seq(Data)
  PROVE  EntriesOf(t, ds) \in Seq(Entry)
<1>1. \A k \in 1 .. Len(ds) : EntryOf(t, ds[k]) \in Entry
  BY DEF EntryOf, Entry
<1>2. EntriesOf(t, ds) \in [1 .. Len(ds) -> Entry] /\ Len(ds) \in Nat
  BY <1>1 DEF EntriesOf
<1> QED
  BY <1>2

\* The client's calls and the lifecycle keep the state well typed.
LEMMA CallsType ==
  ASSUME TypeOK, NEW i \in Node,
         \/ \E d \in Data \cup {Noop} : Propose(i, d)
         \/ \E ds \in Batches : ProposeBatch(i, ds)
         \/ \E ds \in Batches : \E n \in 1 .. Len(ds) - 1 : AbortBatch(i, ds, n)
         \/ Shutdown(i) \/ Restart(i)
  PROVE  TypeOK'
<1>1. /\ current_term[i] \in Nat /\ log[i] \in Seq(Entry) /\ commit_index[i] \in Nat
      /\ next_index[i] \in [Node -> Nat] /\ match_index[i] \in [Node -> Nat]
  BY DEF TypeOK
<1> USE TypeParts, TypeUnchanged
<1>2. ASSUME NEW d \in Data \cup {Noop}, Propose(i, d)
      PROVE  TypeOK'
  <2> DEFINE l == Append(log[i], EntryOf(current_term[i], d))
             c == SoleCommit(i, Len(l))
  <2>1. l \in Seq(Entry) /\ Len(l) \in Nat
    BY <1>1, AppendEntryType
  <2>2. c \in Nat
    BY <2>1, SoleCommitType
  <2>3. /\ log' = [log EXCEPT ![i] = l]
        /\ commit_index' = [commit_index EXCEPT ![i] = c]
        /\ OwnIndexes(i, next_index[i], match_index[i], Len(l))
        /\ Send(Heartbeats(i, current_term[i], l, c, next_index[i]))
        /\ UNCHANGED <<voteVars, leader_id, last_applied, shutdown, elections>>
    BY <1>2 DEF Propose
  <2> HIDE DEF l, c
  <2>4. MsgsType'
    BY <1>1, <2>1, <2>2, <2>3, HeartbeatMessages, SendType
  <2>5. PeerTypes'
    BY <1>1, <2>1, <2>3, OwnIndexesType
  <2>6. LogTypes'
    BY <2>1, <2>2, <2>3 DEF LogTypes
  <2> QED
    BY <2>3, <2>4, <2>5, <2>6
<1>3. ASSUME NEW ds \in Batches, ProposeBatch(i, ds)
      PROVE  TypeOK'
  <2> DEFINE l == log[i] \o EntriesOf(current_term[i], ds)
  <2>1. EntriesOf(current_term[i], ds) \in Seq(Entry)
    BY <1>1, EntriesOfType, PayloadAssumption
  <2>2. l \in Seq(Entry)
    BY <1>1, <2>1, ConcatProperties
  <2>3. /\ log' = [log EXCEPT ![i] = l]
        /\ OwnIndexes(i, next_index[i], match_index[i], Len(l))
        /\ Send(Heartbeats(i, current_term[i], l, commit_index[i], next_index[i]))
        /\ UNCHANGED <<voteVars, leader_id, commit_index, last_applied, shutdown, elections>>
    BY <1>3 DEF ProposeBatch
  <2> HIDE DEF l
  <2>7. Len(l) \in Nat
    BY <2>2
  <2>4. MsgsType'
    BY <1>1, <2>2, <2>3, HeartbeatMessages, SendType
  <2>5. PeerTypes'
    BY <1>1, <2>3, <2>7, OwnIndexesType
  <2>6. LogTypes'
    BY <2>2, <2>3 DEF LogTypes
  <2> QED
    BY <2>3, <2>4, <2>5, <2>6
<1>4. ASSUME NEW ds \in Batches, NEW n \in 1 .. Len(ds) - 1, AbortBatch(i, ds, n)
      PROVE  TypeOK'
  <2> DEFINE l == log[i] \o EntriesOf(current_term[i], SubSeq(ds, 1, n))
  <2>1. SubSeq(ds, 1, n) \in Seq(Data)
    <3>1. ds \in Seq(Data)
      BY PayloadAssumption
    <3>2. n \in Int /\ \A k \in 1 .. n : ds[k] \in Data
      BY <3>1
    <3> QED
      BY <3>2, SubSeqProperties
  <2>2. EntriesOf(current_term[i], SubSeq(ds, 1, n)) \in Seq(Entry)
    BY <1>1, <2>1, EntriesOfType
  <2>3. l \in Seq(Entry)
    BY <1>1, <2>2
  <2>4. /\ log' = [log EXCEPT ![i] = l]
        /\ UNCHANGED <<voteVars, leader_id, commit_index, last_applied, peerVars, shutdown,
                       msgs, elections>>
    BY <1>4 DEF AbortBatch
  <2> HIDE DEF l
  <2>5. LogTypes'
    BY <2>3, <2>4 DEF LogTypes
  <2> QED
    BY <2>4, <2>5
<1>5. CASE Shutdown(i)
  BY <1>5 DEF Shutdown, ShutdownType
<1>6. CASE Restart(i)
  BY <1>6, CreateType DEF Restart, TypeOK
<1> QED
  BY <1>2, <1>3, <1>4, <1>5, <1>6

\* Every step keeps the state well typed.
LEMMA TypeStep == TypeOK /\ [Next]_vars => TypeOK'
<1> SUFFICES ASSUME TypeOK, [Next]_vars PROVE TypeOK'
  OBVIOUS
<1>1. ASSUME NEW m \in msgs, Receive(m) PROVE TypeOK'
  BY <1>1, ElectionHandlersType, AppendHandlersType, AppendReplyHandlersType DEF Receive
<1>2. ASSUME NEW i \in Node, Call(i) PROVE TypeOK'
  BY <1>2, TickType, CallsType DEF Call
<1>3. CASE UNCHANGED vars
  BY <1>3, TypeParts, TypeUnchanged DEF vars
<1> QED
  BY <1>1, <1>2, <1>3 DEF Next

\* Type correctness of the cluster, for every number of nodes.  In particular
\* no term, log index or peer index of raft.c ever goes below zero.
THEOREM TypeCorrect == Spec => []TypeOK
<1>1. Init => TypeOK
  BY TypeInit
<1>2. TypeOK /\ [Next]_vars => TypeOK'
  BY TypeStep
<1> QED
  BY <1>1, <1>2, PTL DEF Spec
-----------------------------------------------------------------------------
(***************************************************************************)
(* Every step preserves ElectionInv.  A step touches the votes of one node *)
(* in one of a few ways; each has a lemma, and each action is one of them. *)
(***************************************************************************)
NoNewGrants == \A v, c \in Node, t \in Nat : Granted(v, c, t)' <=> Granted(v, c, t)
MessagesOK == \A m \in msgs : MessageOK(m)

\* Other messages than granted votes add no grant.
LEMMA QuietSend ==
  ASSUME MessagesOK, elections \subseteq elections', NEW ms, Send(ms),
         \A m \in ms : /\ m.from # m.to /\ ~IsGrant(m)
                       /\ m.type = "AppendEntries" => Elected(m.from, m.term)'
  PROVE  NoNewGrants /\ MessagesOK'
<1>1. NoNewGrants
  BY DEF NoNewGrants, Granted, Send
<1>2. \A m \in msgs : MessageOK(m)'
  BY DEF MessagesOK, MessageOK, Elected
<1>3. MessagesOK'
  BY <1>2 DEF MessagesOK, MessageOK, Send
<1> QED
  BY <1>1, <1>3

\* A step that sends nothing adds no grant.
LEMMA NoSend ==
  ASSUME MessagesOK, elections \subseteq elections', UNCHANGED msgs
  PROVE  NoNewGrants /\ MessagesOK'
<1>1. NoNewGrants
  BY DEF NoNewGrants, Granted
<1>2. \A m \in msgs : MessageOK(m)'
  BY DEF MessagesOK, MessageOK, Elected
<1> QED
  BY <1>1, <1>2 DEF MessagesOK, MessageOK

\* Vote requests are no grants.
LEMMA QuietVoteRequests ==
  ASSUME NEW i \in Node, NEW t, NEW b, NEW m \in VoteRequests(i, t, b)
  PROVE  m.from # m.to /\ ~IsGrant(m) /\ m.type # "AppendEntries"
  BY DEF VoteRequests, IsGrant

\* Heartbeats are no grants, and name their sender and term.
LEMMA QuietHeartbeats ==
  ASSUME NEW i \in Node, NEW t, NEW l, NEW c, NEW next, NEW m \in Heartbeats(i, t, l, c, next)
  PROVE  m.from # m.to /\ ~IsGrant(m) /\ m.from = i /\ m.term = t
<1>1. PICK j \in Node \ {i} : m = [type |-> "AppendEntries", term |-> t, from |-> i, to |-> j,
    prev_index |-> next[j] - 1, prev_term |-> TermAt(l, next[j] - 1),
    entries |-> SubSeq(l, next[j], Least(Len(l), next[j] + MaxEntries - 1)),
    leader_commit |-> c]
  BY DEF Heartbeats
<1>2. m.type = "AppendEntries" /\ m.from = i /\ m.to = j /\ m.term = t
  BY <1>1
<1> QED
  BY <1>2 DEF IsGrant

\* Replies to AppendEntries are no grants.
LEMMA QuietAppendReply ==
  ASSUME NEW m, m.from # m.to, NEW b, NEW n, NEW ct, NEW ci,
         NEW r \in {AppendReply(m, b, n, ct, ci)}
  PROVE  r.from # r.to /\ ~IsGrant(r) /\ r.type # "AppendEntries"
  BY DEF AppendReply, IsGrant

\* A new cluster satisfies the invariant: nobody has voted.
LEMMA ElectionInit == Init => ElectionInv
<1> SUFFICES ASSUME Init PROVE ElectionInv
  OBVIOUS
<1>1. \A v, c \in Node, t \in Nat : ~Granted(v, c, t)
  BY DEF Init, Granted
<1> QED
  BY <1>1 DEF Init, ElectionInv, GrantsStand, OneGrantPerTerm, TallyIsGranted, ElectionIsGranted,
     OneLeaderPerTerm, KnownLeaderElected, StableVote, Follower, Candidate, Leader

\* A step that changes no vote, role, term or election; a node may forget its
\* leader or learn of one elected in its term.
LEMMA QuietStep ==
  ASSUME TypeOK, ElectionInv,
         UNCHANGED <<current_term, voted_for, state, votes_for_me, stable, elections>>,
         \A i \in Node : \/ leader_id'[i] \in {leader_id[i], None}
                         \/ Elected(leader_id'[i], current_term[i]),
         NoNewGrants, MessagesOK'
  PROVE  ElectionInv'
<1> USE DEF ElectionInv, NoNewGrants
<1>1. GrantsStand' /\ OneGrantPerTerm'
  BY DEF GrantsStand, OneGrantPerTerm
<1>2. \A i \in Node, t \in Nat : Elected(i, t)' <=> Elected(i, t)
  BY DEF Elected
<1>3. TallyIsGranted'
  BY <1>2 DEF TallyIsGranted, TypeOK
<1>4. ElectionIsGranted'
  BY SMTT(30) DEF ElectionIsGranted, TypeOK
<1>5. OneLeaderPerTerm' /\ StableVote'
  BY DEF OneLeaderPerTerm, StableVote
<1>6. KnownLeaderElected'
  <2> SUFFICES ASSUME NEW i \in Node, leader_id'[i] # None
               PROVE  Elected(leader_id[i], current_term[i])'
    BY DEF KnownLeaderElected
  <2>1. Elected(leader_id'[i], current_term[i])
    BY DEF KnownLeaderElected
  <2>2. leader_id'[i] \in Node /\ current_term[i] \in Nat
    BY <2>1 DEF Elected, TypeOK
  <2> QED
    BY <1>2, <2>1, <2>2
<1> QED
  BY <1>1, <1>3, <1>4, <1>5, <1>6 DEF MessagesOK

\* Any two quorums share a node.
LEMMA QuorumsIntersect ==
  ASSUME NEW S \in SUBSET Node, NEW T \in SUBSET Node, IsQuorum(S), IsQuorum(T)
  PROVE  S \cap T # {}
<1>1. IsFiniteSet(Node) /\ Cardinality(Node) \in Nat
  BY NodeAssumption, FS_CardinalityType
<1>2. Cardinality(S) \in Nat /\ Cardinality(T) \in Nat
  BY <1>1, FS_Subset, FS_CardinalityType
<1>3. Cardinality(S) + Cardinality(T) > Cardinality(Node)
  BY <1>1, <1>2 DEF IsQuorum, QuorumSize
<1> QED
  BY <1>1, <1>3, FS_MajoritiesIntersect

\* Grants are never taken back, and the only one added, if any, is i's to c in t.
OnlyNewGrant(i, c, t) ==
  \A v, d \in Node, u \in Nat :
    /\ Granted(v, d, u) => Granted(v, d, u)'
    /\ Granted(v, d, u)' => Granted(v, d, u) \/ (v = i /\ d = c /\ u = t)

\* The history only grows: what a step leaves of Elected and of its type.
LEMMA SameElections ==
  ASSUME TypeOK, UNCHANGED elections
  PROVE  /\ \A j \in Node, u \in Nat : Elected(j, u)' <=> Elected(j, u)
         /\ \A e \in elections : e.leader \in Node /\ e.term \in Nat /\ e.voters \subseteq Node
  BY DEF Elected, TypeOK

\* What raft_become_follower and a restart in a new term have in common.
Joins(i, t, v, l) ==
  /\ current_term' = [current_term EXCEPT ![i] = t]
  /\ voted_for' = [voted_for EXCEPT ![i] = v]
  /\ state' = [state EXCEPT ![i] = Follower]
  /\ leader_id' = [leader_id EXCEPT ![i] = l]
  /\ votes_for_me' = [votes_for_me EXCEPT ![i] = {}]
  /\ stable' = [stable EXCEPT ![i] = [term |-> t, voted_for |-> v]]

\* raft_become_follower joins a term in this sense.
LEMMA FollowerJoins ==
  ASSUME NEW i, NEW t, NEW v, NEW l, BecomeFollower(i, t, v, l)
  PROVE  Joins(i, t, v, l)
  BY DEF BecomeFollower, Persist, Joins

\* A node that joins a later term, with the vote that may come with it.
LEMMA JoinTerm ==
  ASSUME TypeOK, ElectionInv, NEW i \in Node, NEW t \in Nat, t > current_term[i],
         NEW v \in Node \cup {None}, v # i, NEW l \in Node \cup {None},
         l # None => Elected(l, t),
         Joins(i, t, v, l), UNCHANGED elections, MessagesOK', OnlyNewGrant(i, v, t)
  PROVE  ElectionInv'
<1> USE DEF ElectionInv
<1>1. /\ current_term' = [current_term EXCEPT ![i] = t]
      /\ voted_for' = [voted_for EXCEPT ![i] = v]
      /\ state' = [state EXCEPT ![i] = Follower]
      /\ leader_id' = [leader_id EXCEPT ![i] = l]
      /\ votes_for_me' = [votes_for_me EXCEPT ![i] = {}]
      /\ stable' = [stable EXCEPT ![i] = [term |-> t, voted_for |-> v]]
  BY DEF Joins
<1>2. current_term[i] \in Nat /\ \A u \in Nat : u <= current_term[i] => u < t
  BY DEF TypeOK
<1>3. \A c \in Node : ~Granted(i, c, t)
  BY <1>2 DEF GrantsStand
<1>4. GrantsStand'
  <2> SUFFICES ASSUME NEW w \in Node, NEW c \in Node, NEW u \in Nat, Granted(w, c, u)'
               PROVE  /\ w # c
                      /\ current_term'[w] >= u
                      /\ current_term'[w] = u => state'[w] = Follower /\ voted_for'[w] = c
    BY DEF GrantsStand
  <2>1. CASE w # i
    BY <1>1, <2>1 DEF GrantsStand, OnlyNewGrant, TypeOK
  <2>2. CASE w = i /\ Granted(w, c, u)
    BY <1>1, <1>2, <2>2 DEF GrantsStand, TypeOK
  <2>3. CASE w = i /\ c = v /\ u = t
    BY <1>1, <2>3 DEF TypeOK
  <2> QED
    BY <2>1, <2>2, <2>3 DEF OnlyNewGrant
<1>5. OneGrantPerTerm'
  BY <1>3 DEF OneGrantPerTerm, OnlyNewGrant
<1>6. TallyIsGranted'
  BY <1>1, SameElections DEF TallyIsGranted, OnlyNewGrant, TypeOK, Follower, Candidate, Leader
<1>7. ElectionIsGranted'
  <2> SUFFICES ASSUME NEW e \in elections
               PROVE  /\ e.leader \in e.voters /\ IsQuorum(e.voters)
                      /\ \A w \in e.voters \ {e.leader} : Granted(w, e.leader, e.term)'
                      /\ \A c \in Node : ~Granted(e.leader, c, e.term)'
                      /\ current_term'[e.leader] >= e.term
                      /\ current_term'[e.leader] = e.term => voted_for'[e.leader] = e.leader
    BY DEF ElectionIsGranted
  <2>1. e.leader \in Node /\ e.term \in Nat /\ e.voters \subseteq Node
    BY SameElections
  <2>2. e.leader = i => e.term < t
    BY <1>2, <2>1 DEF ElectionIsGranted
  <2>3. \A c \in Node : ~Granted(e.leader, c, e.term)'
    BY <2>1, <2>2 DEF ElectionIsGranted, OnlyNewGrant
  <2>4. \A w \in e.voters \ {e.leader} : Granted(w, e.leader, e.term)'
    BY <2>1 DEF ElectionIsGranted, OnlyNewGrant
  <2>5. /\ current_term'[e.leader] >= e.term
        /\ current_term'[e.leader] = e.term => voted_for'[e.leader] = e.leader
    <3>1. CASE e.leader = i
      <4>1. current_term'[e.leader] = t
        BY <1>1, <3>1 DEF TypeOK
      <4> QED
        BY <2>1, <2>2, <3>1, <4>1
    <3>2. CASE e.leader # i
      <4>1. current_term'[e.leader] = current_term[e.leader]
            /\ voted_for'[e.leader] = voted_for[e.leader]
        BY <1>1, <2>1, <3>2 DEF TypeOK
      <4> QED
        BY <4>1 DEF ElectionIsGranted
    <3> QED
      BY <3>1, <3>2
  <2> QED
    BY <2>3, <2>4, <2>5 DEF ElectionIsGranted
<1>8. OneLeaderPerTerm' /\ StableVote'
  BY <1>1 DEF OneLeaderPerTerm, StableVote, TypeOK
<1>9. KnownLeaderElected'
  BY <1>1, SameElections DEF KnownLeaderElected, TypeOK
<1> QED
  BY <1>4, <1>5, <1>6, <1>7, <1>8, <1>9 DEF MessagesOK

\* A vote given in the term the node is already in.
LEMMA GiveVote ==
  ASSUME TypeOK, ElectionInv, NEW i \in Node, NEW c \in Node \ {i},
         CanVote(voted_for[i], c),
         voted_for' = [voted_for EXCEPT ![i] = c], Persist(i, current_term[i], c),
         UNCHANGED <<current_term, state, leader_id, votes_for_me, elections>>, MessagesOK',
         OnlyNewGrant(i, c, current_term[i])
  PROVE  ElectionInv'
<1> USE DEF ElectionInv
<1>1. state[i] = Follower /\ voted_for[i] # i
  BY NodeAssumption, SMTT(30) DEF CanVote, TallyIsGranted, TypeOK
<1>2. \A d \in Node : Granted(i, d, current_term[i]) => d = c
  <2>1. current_term[i] \in Nat
    BY DEF TypeOK
  <2>2. \A d \in Node : Granted(i, d, current_term[i]) => voted_for[i] = d
    BY <2>1 DEF GrantsStand
  <2> QED
    BY <2>2, NodeAssumption DEF CanVote
<1>3. GrantsStand'
  <2> SUFFICES ASSUME NEW w \in Node, NEW d \in Node, NEW u \in Nat, Granted(w, d, u)'
               PROVE  /\ w # d
                      /\ current_term[w] >= u
                      /\ current_term[w] = u => state[w] = Follower /\ voted_for'[w] = d
    BY DEF GrantsStand
  <2>1. CASE w # i
    BY <2>1 DEF GrantsStand, OnlyNewGrant, TypeOK
  <2>2. CASE w = i /\ Granted(w, d, u)
    BY <1>1, <1>2, <2>2 DEF GrantsStand, TypeOK
  <2>3. CASE w = i /\ d = c /\ u = current_term[i]
    BY <1>1, <2>3 DEF TypeOK
  <2> QED
    BY <2>1, <2>2, <2>3 DEF OnlyNewGrant
<1>4. OneGrantPerTerm'
  <2> SUFFICES ASSUME NEW w \in Node, NEW d \in Node, NEW f \in Node, NEW u \in Nat,
                      Granted(w, d, u)', Granted(w, f, u)'
               PROVE  d = f
    BY DEF OneGrantPerTerm
  <2> QED
    BY <1>2 DEF OneGrantPerTerm, OnlyNewGrant
<1>5. TallyIsGranted'
  BY <1>1, SameElections DEF TallyIsGranted, OnlyNewGrant, TypeOK, Follower, Candidate, Leader
<1>6. ElectionIsGranted'
  <2> SUFFICES ASSUME NEW e \in elections
               PROVE  /\ e.leader \in e.voters /\ IsQuorum(e.voters)
                      /\ \A w \in e.voters \ {e.leader} : Granted(w, e.leader, e.term)'
                      /\ \A d \in Node : ~Granted(e.leader, d, e.term)'
                      /\ current_term[e.leader] >= e.term
                      /\ current_term[e.leader] = e.term => voted_for'[e.leader] = e.leader
    BY DEF ElectionIsGranted
  <2>1. e.leader \in Node /\ e.term \in Nat /\ e.voters \subseteq Node
    BY SameElections
  <2>2. e.leader = i => e.term # current_term[i]
    BY <1>1 DEF ElectionIsGranted
  <2>3. \A d \in Node : ~Granted(e.leader, d, e.term)'
    BY <2>1, <2>2 DEF ElectionIsGranted, OnlyNewGrant
  <2>4. \A w \in e.voters \ {e.leader} : Granted(w, e.leader, e.term)'
    BY <2>1 DEF ElectionIsGranted, OnlyNewGrant
  <2>5. /\ current_term[e.leader] >= e.term
        /\ current_term[e.leader] = e.term => voted_for'[e.leader] = e.leader
    BY <2>1, <2>2 DEF ElectionIsGranted, TypeOK
  <2> QED
    BY <2>3, <2>4, <2>5 DEF ElectionIsGranted
<1>7. OneLeaderPerTerm' /\ StableVote'
  BY DEF OneLeaderPerTerm, StableVote, TypeOK, Persist
<1>8. KnownLeaderElected'
  BY SameElections DEF KnownLeaderElected, TypeOK
<1> QED
  BY <1>3, <1>4, <1>5, <1>6, <1>7, <1>8 DEF MessagesOK

\* A candidate or leader that recognizes another leader of its own term.
LEMMA YieldTerm ==
  ASSUME TypeOK, ElectionInv, NEW i \in Node, state[i] # Follower,
         NEW l \in Node \ {i}, Elected(l, current_term[i]),
         BecomeFollower(i, current_term[i], None, l), UNCHANGED elections,
         NoNewGrants, MessagesOK'
  PROVE  ElectionInv'
<1> USE DEF ElectionInv, NoNewGrants
<1>1. /\ current_term' = current_term
      /\ voted_for' = [voted_for EXCEPT ![i] = None]
      /\ state' = [state EXCEPT ![i] = Follower]
      /\ leader_id' = [leader_id EXCEPT ![i] = l]
      /\ votes_for_me' = [votes_for_me EXCEPT ![i] = {}]
      /\ stable' = [stable EXCEPT ![i] = [term |-> current_term[i], voted_for |-> None]]
  BY DEF BecomeFollower, Persist, TypeOK
<1>2. \A d \in Node : ~Granted(i, d, current_term[i])
  BY DEF GrantsStand, TypeOK
<1>3. GrantsStand'
  <2> SUFFICES ASSUME NEW w \in Node, NEW d \in Node, NEW u \in Nat, Granted(w, d, u)
               PROVE  /\ w # d
                      /\ current_term[w] >= u
                      /\ current_term[w] = u => state'[w] = Follower /\ voted_for'[w] = d
    BY <1>1 DEF GrantsStand
  <2>1. CASE w # i
    BY <1>1, <2>1 DEF GrantsStand, TypeOK
  <2>2. CASE w = i
    BY <1>2, <2>2 DEF GrantsStand, TypeOK
  <2> QED
    BY <2>1, <2>2
<1>4. OneGrantPerTerm'
  BY DEF OneGrantPerTerm
<1>5. TallyIsGranted'
  BY <1>1, SameElections DEF TallyIsGranted, TypeOK, Follower, Candidate, Leader
<1>6. ElectionIsGranted'
  <2>1. \A e \in elections : e.leader = i => e.term # current_term[i]
    BY DEF OneLeaderPerTerm, Elected
  <2> QED
    BY <1>1, SameElections, <2>1 DEF ElectionIsGranted, TypeOK
<1>7. OneLeaderPerTerm' /\ StableVote'
  BY <1>1 DEF OneLeaderPerTerm, StableVote, TypeOK
<1>8. KnownLeaderElected'
  BY <1>1, SameElections DEF KnownLeaderElected, TypeOK
<1> QED
  BY <1>3, <1>4, <1>5, <1>6, <1>7, <1>8 DEF MessagesOK

\* A restart: the term and the vote come back as load_vote finds them.
LEMMA RestartStep ==
  ASSUME TypeOK, ElectionInv, NEW i \in Node, Restart(i)
  PROVE  ElectionInv'
<1> USE DEF ElectionInv
<1>1. stable[i] = [term |-> current_term[i], voted_for |-> voted_for[i]]
  BY DEF StableVote
<1>2. current_term' = current_term /\ voted_for' = voted_for
  BY <1>1 DEF Restart, Create, TypeOK
<1>3. /\ state' = [state EXCEPT ![i] = Follower]
      /\ leader_id' = [leader_id EXCEPT ![i] = None]
      /\ votes_for_me' = [votes_for_me EXCEPT ![i] = {}]
      /\ UNCHANGED <<stable, msgs, elections>>
  BY DEF Restart, Create
<1>4. NoNewGrants /\ MessagesOK'
  BY <1>3, NoSend DEF MessagesOK
<1>5. GrantsStand' /\ OneGrantPerTerm'
  <2>1. \A w \in Node : state[w] = Follower => state'[w] = Follower
    BY <1>3 DEF TypeOK
  <2>2. GrantsStand'
    BY <1>2, <1>4, <2>1 DEF GrantsStand, NoNewGrants
  <2> QED
    BY <1>4, <2>2 DEF OneGrantPerTerm, NoNewGrants
<1>6. TallyIsGranted'
  BY <1>2, <1>3, <1>4, SameElections
     DEF TallyIsGranted, NoNewGrants, TypeOK, Follower, Candidate, Leader
<1>7. ElectionIsGranted'
  BY <1>2, <1>3, <1>4, SameElections DEF ElectionIsGranted, NoNewGrants
<1>8. OneLeaderPerTerm' /\ StableVote'
  BY <1>2, <1>3 DEF OneLeaderPerTerm, StableVote
<1>9. KnownLeaderElected'
  BY <1>2, <1>3, SameElections DEF KnownLeaderElected, TypeOK
<1> QED
  BY <1>4, <1>5, <1>6, <1>7, <1>8, <1>9 DEF MessagesOK

\* A reply counted that makes no majority yet.
LEMMA TallyStep ==
  ASSUME TypeOK, ElectionInv, NEW i \in Node, NEW v \in Node,
         Granted(v, i, current_term[i]),
         votes_for_me' = [votes_for_me EXCEPT ![i] = @ \cup {v}],
         UNCHANGED <<current_term, voted_for, state, leader_id, stable, msgs, elections>>
  PROVE  ElectionInv'
<1> USE DEF ElectionInv
<1>1. NoNewGrants /\ MessagesOK'
  BY NoSend DEF MessagesOK
<1>2. GrantsStand' /\ OneGrantPerTerm'
  BY <1>1 DEF GrantsStand, OneGrantPerTerm, NoNewGrants
<1>3. TallyIsGranted'
  <2> SUFFICES ASSUME NEW j \in Node
               PROVE  /\ state[j] # Follower => voted_for[j] = j
                      /\ state[j] = Candidate =>
                           /\ j \in votes_for_me'[j]
                           /\ \A w \in votes_for_me'[j] \ {j} : Granted(w, j, current_term[j])'
                      /\ state[j] = Leader => Elected(j, current_term[j])'
    BY DEF TallyIsGranted
  <2>1. current_term[j] \in Nat /\ votes_for_me[j] \subseteq Node
    BY DEF TypeOK
  <2>2. state[j] = Leader => Elected(j, current_term[j])'
    BY <2>1, SameElections DEF TallyIsGranted
  <2>3. ASSUME state[j] = Candidate, NEW w \in votes_for_me'[j] \ {j}
        PROVE  Granted(w, j, current_term[j])'
    <3>1. w \in votes_for_me[j] \/ (j = i /\ w = v)
      BY <2>3 DEF TypeOK
    <3>2. Granted(w, j, current_term[j]) /\ w \in Node
      BY <2>1, <2>3, <3>1 DEF TallyIsGranted
    <3> QED
      BY <1>1, <2>1, <3>2 DEF NoNewGrants
  <2>4. state[j] = Candidate => j \in votes_for_me'[j]
    BY DEF TallyIsGranted, TypeOK
  <2> QED
    BY <2>2, <2>3, <2>4 DEF TallyIsGranted
<1>4. ElectionIsGranted'
  BY <1>1, SameElections DEF ElectionIsGranted, NoNewGrants
<1>5. OneLeaderPerTerm' /\ StableVote' /\ KnownLeaderElected'
  BY SameElections DEF OneLeaderPerTerm, StableVote, KnownLeaderElected, TypeOK
<1> QED
  BY <1>1, <1>2, <1>3, <1>4, <1>5 DEF MessagesOK

\* A node that stands for election in its next term.
LEMMA StandStep ==
  ASSUME TypeOK, ElectionInv, NEW i \in Node,
         current_term' = [current_term EXCEPT ![i] = @ + 1],
         voted_for' = [voted_for EXCEPT ![i] = i],
         votes_for_me' = [votes_for_me EXCEPT ![i] = {i}],
         state' = [state EXCEPT ![i] = Candidate],
         leader_id' = [leader_id EXCEPT ![i] = None],
         Persist(i, current_term[i] + 1, i),
         UNCHANGED elections, NoNewGrants, MessagesOK'
  PROVE  ElectionInv'
<1> USE DEF ElectionInv, NoNewGrants
<1>1. current_term[i] \in Nat
  BY DEF TypeOK
<1>2. GrantsStand'
  <2> SUFFICES ASSUME NEW w \in Node, NEW d \in Node, NEW u \in Nat, Granted(w, d, u)
               PROVE  /\ w # d
                      /\ current_term'[w] >= u
                      /\ current_term'[w] = u => state'[w] = Follower /\ voted_for'[w] = d
    BY DEF GrantsStand
  <2>1. w # d /\ current_term[w] >= u
        /\ (current_term[w] = u => state[w] = Follower /\ voted_for[w] = d)
    BY DEF GrantsStand
  <2>2. CASE w # i
    BY <2>1, <2>2 DEF TypeOK
  <2>3. CASE w = i
    <3>1. current_term'[w] = current_term[i] + 1
      BY <2>3 DEF TypeOK
    <3> QED
      BY <1>1, <2>1, <2>3, <3>1
  <2> QED
    BY <2>2, <2>3
<1>3. OneGrantPerTerm'
  BY DEF OneGrantPerTerm
<1>4. TallyIsGranted'
  BY SameElections DEF TallyIsGranted, TypeOK, Follower, Candidate, Leader
<1>5. ElectionIsGranted'
  <2> SUFFICES ASSUME NEW e \in elections
               PROVE  /\ e.leader \in e.voters /\ IsQuorum(e.voters)
                      /\ \A w \in e.voters \ {e.leader} : Granted(w, e.leader, e.term)'
                      /\ \A c \in Node : ~Granted(e.leader, c, e.term)'
                      /\ current_term'[e.leader] >= e.term
                      /\ current_term'[e.leader] = e.term => voted_for'[e.leader] = e.leader
    BY DEF ElectionIsGranted
  <2>1. e.leader \in Node /\ e.term \in Nat /\ e.voters \subseteq Node
    BY SameElections
  <2>2. CASE e.leader = i
    <3>1. current_term'[e.leader] = current_term[i] + 1 /\ current_term[i] >= e.term
      BY <2>2 DEF ElectionIsGranted, TypeOK
    <3> QED
      BY <1>1, <2>1, <3>1 DEF ElectionIsGranted
  <2>3. CASE e.leader # i
    BY <2>1, <2>3 DEF ElectionIsGranted, TypeOK
  <2> QED
    BY <2>2, <2>3
<1>6. OneLeaderPerTerm' /\ StableVote'
  BY DEF OneLeaderPerTerm, StableVote, Persist, TypeOK
<1>7. KnownLeaderElected'
  BY SameElections, NodeAssumption DEF KnownLeaderElected, TypeOK
<1> QED
  BY <1>2, <1>3, <1>4, <1>5, <1>6, <1>7 DEF MessagesOK

\* A candidate that reaches a quorum, or a node that is one by itself and
\* stands in its next term.  The quorums of two leaders of a term share a voter,
\* which would have voted for both.
LEMMA LeadStep ==
  ASSUME TypeOK, ElectionInv, NEW i \in Node, NEW t \in Nat, NEW S \in SUBSET Node,
         \/ t = current_term[i] /\ state[i] = Candidate
         \/ t = current_term[i] + 1,
         i \in S, IsQuorum(S), \A v \in S \ {i} : Granted(v, i, t),
         current_term' = [current_term EXCEPT ![i] = t],
         voted_for' = [voted_for EXCEPT ![i] = i],
         stable' = [stable EXCEPT ![i] = [term |-> t, voted_for |-> i]],
         state' = [state EXCEPT ![i] = Leader],
         leader_id' = [leader_id EXCEPT ![i] = i],
         \A j \in Node \ {i} : votes_for_me'[j] = votes_for_me[j],
         elections' = elections \cup {[term |-> t, leader |-> i, voters |-> S]},
         NoNewGrants, MessagesOK'
  PROVE  ElectionInv'
<1> USE DEF ElectionInv, NoNewGrants
<1> DEFINE new == [term |-> t, leader |-> i, voters |-> S]
<1>1. current_term[i] \in Nat /\ current_term[i] <= t
  BY DEF TypeOK
<1>2. \A c \in Node : ~Granted(i, c, t)
  BY <1>1 DEF GrantsStand, Follower, Candidate
<1>3. \A e \in elections : e.leader \in Node /\ e.term \in Nat /\ e.voters \subseteq Node
  BY DEF TypeOK
<1>4. \A e \in elections : e.term = t => e.leader = i
  <2> SUFFICES ASSUME NEW e \in elections, e.term = t, e.leader # i PROVE FALSE
    OBVIOUS
  <2>1. PICK v \in S : v \in e.voters
    BY <1>3, QuorumsIntersect DEF ElectionIsGranted
  <2>2. v = i => Granted(i, e.leader, t)
    BY <2>1 DEF ElectionIsGranted
  <2>3. v = e.leader => FALSE
    BY DEF ElectionIsGranted
  <2>4. v # i /\ v # e.leader => Granted(v, i, t) /\ Granted(v, e.leader, t)
    BY <2>1 DEF ElectionIsGranted
  <2> QED
    BY <1>2, <1>3, <2>2, <2>3, <2>4 DEF OneGrantPerTerm
<1>5. OneLeaderPerTerm'
  BY <1>4 DEF OneLeaderPerTerm
<1>6. GrantsStand'
  <2> SUFFICES ASSUME NEW w \in Node, NEW d \in Node, NEW u \in Nat, Granted(w, d, u)
               PROVE  /\ w # d
                      /\ current_term'[w] >= u
                      /\ current_term'[w] = u => state'[w] = Follower /\ voted_for'[w] = d
    BY DEF GrantsStand
  <2>1. w # d /\ current_term[w] >= u
        /\ (current_term[w] = u => state[w] = Follower /\ voted_for[w] = d)
    BY DEF GrantsStand
  <2>2. CASE w # i
    BY <2>1, <2>2 DEF TypeOK
  <2>3. CASE w = i
    <3>1. current_term'[w] = t
      BY <2>3 DEF TypeOK
    <3>2. u # t
      BY <1>2, <2>3
    <3> QED
      BY <1>1, <2>1, <2>3, <3>1, <3>2
  <2> QED
    BY <2>2, <2>3
<1>7. OneGrantPerTerm'
  BY DEF OneGrantPerTerm
<1>8. new \in elections' /\ \A j \in Node, u \in Nat : Elected(j, u) => Elected(j, u)'
  BY DEF Elected
<1>9. Elected(i, t)'
  BY <1>8 DEF Elected
<1>10. TallyIsGranted'
  <2> SUFFICES ASSUME NEW j \in Node
               PROVE  /\ state'[j] # Follower => voted_for'[j] = j
                      /\ state'[j] = Candidate =>
                           /\ j \in votes_for_me'[j]
                           /\ \A w \in votes_for_me'[j] \ {j} : Granted(w, j, current_term[j])'
                      /\ state'[j] = Leader => Elected(j, current_term[j])'
    BY DEF TallyIsGranted
  <2>1. CASE j = i
    <3>1. current_term'[j] = t /\ voted_for'[j] = j /\ state'[j] = Leader
      BY <2>1 DEF TypeOK
    <3> QED
      BY <1>9, <2>1, <3>1 DEF Leader, Candidate
  <2>2. CASE j # i
    <3>1. /\ current_term'[j] = current_term[j] /\ current_term[j] \in Nat
          /\ voted_for'[j] = voted_for[j] /\ state'[j] = state[j]
          /\ votes_for_me'[j] = votes_for_me[j] /\ votes_for_me[j] \subseteq Node
      BY <2>2 DEF TypeOK
    <3> QED
      BY <1>8, <3>1 DEF TallyIsGranted
  <2> QED
    BY <2>1, <2>2
<1>11. ElectionIsGranted'
  <2> SUFFICES ASSUME NEW e \in elections'
               PROVE  /\ e.leader \in e.voters /\ IsQuorum(e.voters)
                      /\ \A w \in e.voters \ {e.leader} : Granted(w, e.leader, e.term)'
                      /\ \A c \in Node : ~Granted(e.leader, c, e.term)'
                      /\ current_term'[e.leader] >= e.term
                      /\ current_term'[e.leader] = e.term => voted_for'[e.leader] = e.leader
    BY DEF ElectionIsGranted
  <2>1. CASE e = new
    <3>1. e.leader = i /\ e.term = t /\ e.voters = S
      BY <2>1
    <3>2. current_term'[i] = t /\ voted_for'[i] = i
      BY DEF TypeOK
    <3> QED
      BY <1>2, <3>1, <3>2
  <2>2. CASE e \in elections
    <3>1. e.leader \in Node /\ e.term \in Nat /\ e.voters \subseteq Node
      BY <1>3, <2>2
    <3>2. /\ e.leader \in e.voters /\ IsQuorum(e.voters)
          /\ \A w \in e.voters \ {e.leader} : Granted(w, e.leader, e.term)'
          /\ \A c \in Node : ~Granted(e.leader, c, e.term)'
      BY <2>2, <3>1 DEF ElectionIsGranted
    <3>3. current_term[e.leader] >= e.term
          /\ (current_term[e.leader] = e.term => voted_for[e.leader] = e.leader)
      BY <2>2 DEF ElectionIsGranted
    <3>4. CASE e.leader = i
      <4>1. current_term'[e.leader] = t /\ voted_for'[e.leader] = e.leader
        BY <3>4 DEF TypeOK
      <4> QED
        BY <1>1, <3>1, <3>2, <3>3, <3>4, <4>1
    <3>5. CASE e.leader # i
      BY <3>1, <3>2, <3>3, <3>5 DEF TypeOK
    <3> QED
      BY <3>4, <3>5
  <2> QED
    BY <2>1, <2>2
<1>12. KnownLeaderElected'
  <2> SUFFICES ASSUME NEW j \in Node, leader_id'[j] # None
               PROVE  Elected(leader_id[j], current_term[j])'
    BY DEF KnownLeaderElected
  <2>1. CASE j = i
    <3>1. current_term'[j] = t /\ leader_id'[j] = i
      BY <2>1 DEF TypeOK
    <3> QED
      BY <1>9, <3>1
  <2>2. CASE j # i
    <3>1. current_term'[j] = current_term[j] /\ leader_id'[j] = leader_id[j]
          /\ current_term[j] \in Nat /\ leader_id[j] \in Node
      BY <2>2 DEF TypeOK
    <3> QED
      BY <1>8, <3>1 DEF KnownLeaderElected
  <2> QED
    BY <2>1, <2>2
<1>13. StableVote'
  BY DEF StableVote, TypeOK
<1> QED
  BY <1>5, <1>6, <1>7, <1>10, <1>11, <1>12, <1>13 DEF MessagesOK

-----------------------------------------------------------------------------
\* What a new leader sends adds no grant, and names the leader just elected.
LEMMA LeaderMessages ==
  ASSUME ElectionInv, NEW i \in Node, NEW t \in Nat, NEW S, BecomeLeader(i, t, S)
  PROVE  NoNewGrants /\ MessagesOK'
<1>1. elections' = elections \cup {[term |-> t, leader |-> i, voters |-> S]}
  BY DEF BecomeLeader
<1>2. Elected(i, t)' /\ elections \subseteq elections'
  <2> DEFINE new == [term |-> t, leader |-> i, voters |-> S]
  <2>1. new.term = t /\ new.leader = i
    OBVIOUS
  <2>2. new \in elections' /\ elections \subseteq elections'
    BY <1>1
  <2> HIDE DEF new
  <2> QED
    BY <2>1, <2>2 DEF Elected
<1> DEFINE next == [j \in Node |-> Len(log[i]) + 1]
           l == Append(log[i], EntryOf(t, Noop))
           first == Heartbeats(i, t, log[i], commit_index[i], next)
           second == Heartbeats(i, t, l, SoleCommit(i, Len(l)), next)
<1>3. Send(first) \/ Send(first \cup second)
  BY DEF BecomeLeader
<1> HIDE DEF next, l
<1>4. \A m \in first \cup second : m.from # m.to /\ ~IsGrant(m) /\ m.from = i /\ m.term = t
  BY QuietHeartbeats
<1> HIDE DEF first, second
<1>5. MessagesOK
  BY DEF ElectionInv, MessagesOK
<1> QED
  BY <1>2, <1>3, <1>4, <1>5, QuietSend

\* raft_become_candidate keeps the invariant, alone in its cluster or not.
LEMMA CandidateStep ==
  ASSUME TypeOK, ElectionInv, NEW i \in Node, BecomeCandidate(i)
  PROVE  ElectionInv'
<1> DEFINE t == current_term[i] + 1
<1>1. t \in Nat
  BY DEF TypeOK
<1>2. /\ current_term' = [current_term EXCEPT ![i] = t]
      /\ voted_for' = [voted_for EXCEPT ![i] = i]
      /\ votes_for_me' = [votes_for_me EXCEPT ![i] = {i}]
      /\ Persist(i, t, i)
  BY DEF BecomeCandidate
<1>3. CASE IsQuorum({i})
  <2>1. BecomeLeader(i, t, {i})
    BY <1>3 DEF BecomeCandidate
  <2>2. NoNewGrants /\ MessagesOK'
    BY <1>1, <2>1, LeaderMessages
  <2>3. \A j \in Node \ {i} : votes_for_me'[j] = votes_for_me[j]
    BY <1>2 DEF TypeOK
  <2>4. /\ state' = [state EXCEPT ![i] = Leader]
        /\ leader_id' = [leader_id EXCEPT ![i] = i]
        /\ elections' = elections \cup {[term |-> t, leader |-> i, voters |-> {i}]}
    BY <2>1 DEF BecomeLeader
  <2>5. stable' = [stable EXCEPT ![i] = [term |-> t, voted_for |-> i]]
    BY <1>2 DEF Persist
  <2> HIDE DEF t
  <2>6. t = current_term[i] + 1
    BY DEF t
  <2> QED
    BY <1>1, <1>2, <1>3, <2>2, <2>3, <2>4, <2>5, <2>6, LeadStep
<1>4. CASE ~IsQuorum({i})
  <2>1. /\ state' = [state EXCEPT ![i] = Candidate]
        /\ leader_id' = [leader_id EXCEPT ![i] = None]
        /\ Send(VoteRequests(i, t, FALSE))
        /\ UNCHANGED elections
    BY <1>4 DEF BecomeCandidate
  <2>2. NoNewGrants /\ MessagesOK'
    BY <2>1, QuietVoteRequests, QuietSend DEF ElectionInv, MessagesOK
  <2> QED
    BY <1>2, <2>1, <2>2, StandStep
<1> QED
  BY <1>3, <1>4

\* What the reply to a vote request adds: a grant, if it is one.
LEMMA VoteReplySend ==
  ASSUME MessagesOK, UNCHANGED elections, NEW m, m.from # m.to, NEW t, NEW g \in BOOLEAN,
         Send({VoteReply(m, t, g)})
  PROVE  /\ MessagesOK'
         /\ OnlyNewGrant(m.to, m.from, t)
         /\ ~g \/ m.is_prevote => NoNewGrants
<1> DEFINE r == VoteReply(m, t, g)
<1>1. /\ r.type = "VoteReply" /\ r.from = m.to /\ r.to = m.from /\ r.term = t
      /\ r.granted = g /\ r.is_prevote = m.is_prevote
  BY DEF VoteReply
<1> HIDE DEF r
<1>2. msgs \subseteq msgs' /\ msgs' \subseteq msgs \cup {r}
  BY DEF Send, r
<1>3. MessagesOK'
  BY <1>1, <1>2 DEF MessagesOK, MessageOK, Elected
<1>4. OnlyNewGrant(m.to, m.from, t)
  BY <1>1, <1>2 DEF OnlyNewGrant, Granted
<1>5. ~g \/ m.is_prevote => NoNewGrants
  BY <1>1, <1>2 DEF NoNewGrants, Granted, IsGrant
<1> QED
  BY <1>3, <1>4, <1>5

\* raft_recv_requestvote: a new term is joined, with or without a vote; in the
\* node's own term a vote is given once.
LEMMA RequestVoteStep ==
  ASSUME TypeOK, ElectionInv, NEW m \in msgs, RecvRequestVote(m)
  PROVE  ElectionInv'
<1> DEFINE i == m.to
           newer == m.term > current_term[i]
           vote == IF newer THEN None ELSE voted_for[i]
           granted == /\ m.term >= current_term[i]
                      /\ CanVote(vote, m.from)
                      /\ LogIsUpToDate(log[i], m.last_term, m.last_index)
           reply == IF granted THEN m.term ELSE current_term[i]
<1>1. m.from \in Node /\ m.to \in Node /\ m.term \in Nat /\ m.from # m.to
  BY MessageFields DEF ElectionInv, MessageOK
<1>2. i \in Node /\ current_term[i] \in Nat
  BY <1>1 DEF TypeOK
<1>3. Send({VoteReply(m, reply, granted)}) /\ UNCHANGED elections
  BY DEF RecvRequestVote
<1>4. granted \in BOOLEAN
  OBVIOUS
<1>5. /\ MessagesOK' /\ OnlyNewGrant(i, m.from, reply)
      /\ ~granted => NoNewGrants
  <2> HIDE DEF granted, reply
  <2>1. MessagesOK
    BY DEF ElectionInv, MessagesOK
  <2> QED
    BY <1>1, <1>3, <1>4, <2>1, VoteReplySend
<1>6. CASE newer
  <2> DEFINE v == IF granted THEN m.from ELSE None
  <2>1. BecomeFollower(i, m.term, v, None)
    BY <1>6 DEF RecvRequestVote
  <2>2. v \in Node \cup {None} /\ v # i
    BY <1>1, NodeAssumption
  <2>3. OnlyNewGrant(i, v, m.term)
    <3>1. granted => reply = m.term /\ v = m.from
      OBVIOUS
    <3>2. ~granted => OnlyNewGrant(i, v, m.term)
      <4> HIDE DEF granted, v
      <4> QED BY <1>5 DEF NoNewGrants, OnlyNewGrant
    <3> HIDE DEF granted, v, reply
    <3> QED
      BY <1>5, <3>1, <3>2
  <2>4. m.term > current_term[i]
    BY <1>6
  <2> HIDE DEF v, i
  <2> QED
    BY <1>1, <1>2, <1>3, <1>5, <2>1, <2>2, <2>3, <2>4, FollowerJoins, JoinTerm
<1>7. CASE ~newer /\ granted
  <2>1. m.term = current_term[i] /\ reply = m.term
    BY <1>1, <1>2, <1>7
  <2>2. /\ voted_for' = [voted_for EXCEPT ![i] = m.from] /\ Persist(i, current_term[i], m.from)
        /\ UNCHANGED <<current_term, state, leader_id, votes_for_me>>
    BY <1>7, <2>1 DEF RecvRequestVote
  <2>3. CanVote(voted_for[i], m.from)
    BY <1>7
  <2>4. m.from \in Node \ {i} /\ OnlyNewGrant(i, m.from, current_term[i])
    BY <1>1, <1>5, <2>1
  <2> QED
    BY <1>2, <1>3, <1>5, <2>2, <2>3, <2>4, GiveVote
<1>8. CASE ~newer /\ ~granted
  <2>1. UNCHANGED <<voteVars, leader_id>>
    BY <1>8 DEF RecvRequestVote
  <2>2. NoNewGrants
    BY <1>5, <1>8
  <2> QED
    BY <1>3, <1>5, <2>1, <2>2, QuietStep DEF voteVars
<1> QED
  BY <1>6, <1>7, <1>8

\* raft_recv_requestvote, the pre-vote branch: it changes no vote.
LEMMA PrevoteStep ==
  ASSUME TypeOK, ElectionInv, NEW m \in msgs, RecvPrevote(m)
  PROVE  ElectionInv'
<1>1. PICK g \in BOOLEAN : Send({VoteReply(m, current_term[m.to], g)})
  BY DEF RecvPrevote
<1>2. m.from # m.to /\ MessagesOK
  BY DEF ElectionInv, MessageOK, MessagesOK
<1>3. UNCHANGED <<voteVars, leader_id, elections>> /\ m.is_prevote
  BY DEF RecvPrevote
<1>4. NoNewGrants /\ MessagesOK'
  BY <1>1, <1>2, <1>3, VoteReplySend
<1> QED
  BY <1>3, <1>4, QuietStep DEF voteVars

\* raft_recv_requestvote_response, the pre-vote branch.
LEMMA PrevoteReplyStep ==
  ASSUME TypeOK, ElectionInv, NEW m \in msgs, RecvPrevoteReply(m)
  PROVE  ElectionInv'
<1> DEFINE i == m.to
           got == prevotes_for_me[i] \cup {m.from}
<1>1. i \in Node
  BY MessageFields
<1>2. CASE IsQuorum(got)
  <2>1. BecomeCandidate(i)
    BY <1>2 DEF RecvPrevoteReply
  <2> QED
    BY <1>1, <2>1, CandidateStep
<1>3. CASE ~IsQuorum(got)
  <2>1. UNCHANGED <<current_term, voted_for, state, leader_id, votes_for_me, stable,
                    msgs, elections>>
    BY <1>3 DEF RecvPrevoteReply
  <2>2. NoNewGrants /\ MessagesOK'
    BY <2>1, NoSend DEF ElectionInv, MessagesOK
  <2> QED
    BY <2>1, <2>2, QuietStep
<1> QED
  BY <1>2, <1>3

\* raft_recv_requestvote_response, the branch of a candidate: the reply is
\* counted, and may complete a quorum.
LEMMA VoteReplyStep ==
  ASSUME TypeOK, ElectionInv, NEW m \in msgs, RecvVoteReply(m)
  PROVE  ElectionInv'
<1> DEFINE i == m.to
           t == current_term[i]
           got == votes_for_me[i] \cup {m.from}
<1>1. m.from \in Node /\ i \in Node /\ t \in Nat /\ m.from # i
  BY MessageFields DEF ElectionInv, MessageOK, TypeOK
<1>2. /\ state[i] = Candidate /\ m.term = t /\ IsGrant(m)
      /\ votes_for_me' = [votes_for_me EXCEPT ![i] = got]
      /\ UNCHANGED <<current_term, voted_for, stable>>
  BY DEF RecvVoteReply, Counts, IsGrant
<1>3. Granted(m.from, i, t)
  BY <1>2 DEF Granted
<1>4. CASE IsQuorum(got)
  <2>1. BecomeLeader(i, t, got)
    BY <1>4 DEF RecvVoteReply
  <2>2. /\ state' = [state EXCEPT ![i] = Leader]
        /\ leader_id' = [leader_id EXCEPT ![i] = i]
        /\ elections' = elections \cup {[term |-> t, leader |-> i, voters |-> got]}
    BY <2>1 DEF BecomeLeader
  <2>3. NoNewGrants /\ MessagesOK'
    BY <1>1, <2>1, LeaderMessages
  <2>4. voted_for[i] = i /\ i \in got /\ \A v \in got \ {i} : Granted(v, i, t)
    BY <1>1, <1>2, <1>3 DEF ElectionInv, TallyIsGranted, Follower, Candidate
  <2>5. /\ current_term' = [current_term EXCEPT ![i] = t]
        /\ voted_for' = [voted_for EXCEPT ![i] = i]
        /\ stable' = [stable EXCEPT ![i] = [term |-> t, voted_for |-> i]]
    BY <1>1, <1>2, <2>4 DEF TypeOK, ElectionInv, StableVote
  <2>6. got \in SUBSET Node /\ \A j \in Node \ {i} : votes_for_me'[j] = votes_for_me[j]
    BY <1>1, <1>2 DEF TypeOK
  <2>7. t = current_term[i]
    OBVIOUS
  <2> HIDE DEF t, got
  <2> QED
    BY <1>1, <1>2, <1>4, <2>2, <2>3, <2>4, <2>5, <2>6, <2>7, LeadStep
<1>5. CASE ~IsQuorum(got)
  <2>1. UNCHANGED <<state, leader_id, msgs, elections>>
    BY <1>5 DEF RecvVoteReply
  <2> QED
    BY <1>1, <1>2, <1>3, <2>1, TallyStep
<1> QED
  BY <1>4, <1>5

\* A reply of a later term.
LEMMA HigherTermReplyStep ==
  ASSUME TypeOK, ElectionInv, NEW m \in msgs, RecvHigherTermReply(m)
  PROVE  ElectionInv'
<1>1. m.to \in Node /\ m.term \in Nat
  BY MessageFields
<1>2. /\ m.term > current_term[m.to] /\ BecomeFollower(m.to, m.term, None, None)
      /\ UNCHANGED <<msgs, elections>>
  BY DEF RecvHigherTermReply
<1>3. NoNewGrants /\ MessagesOK'
  BY <1>2, NoSend DEF ElectionInv, MessagesOK
<1>4. OnlyNewGrant(m.to, None, m.term)
  BY <1>3 DEF NoNewGrants, OnlyNewGrant
<1> QED
  BY <1>1, <1>2, <1>3, <1>4, NodeAssumption, FollowerJoins, JoinTerm

\* A crash in raft_recv_requestvote, between its two calls of persist_vote.
LEMMA CrashStep ==
  ASSUME TypeOK, ElectionInv, NEW m \in msgs, CrashWhileVoting(m)
  PROVE  ElectionInv'
<1>1. m.to \in Node /\ m.term \in Nat /\ m.term > current_term[m.to]
  BY MessageFields DEF CrashWhileVoting
<1>2. stable' = [stable EXCEPT ![m.to] = [term |-> m.term, voted_for |-> None]]
  BY DEF CrashWhileVoting, Persist
<1>3. stable'[m.to].term = m.term /\ stable'[m.to].voted_for = None
  <2>1. stable'[m.to] = [term |-> m.term, voted_for |-> None]
    BY <1>1, <1>2 DEF TypeOK
  <2> QED
    BY <2>1
<1>4. Joins(m.to, m.term, None, None) /\ UNCHANGED <<msgs, elections>>
  <2>1. Create(m.to)
    BY DEF CrashWhileVoting
  <2> QED
    BY <1>2, <1>3, <2>1 DEF Create, Joins
<1>5. NoNewGrants /\ MessagesOK'
  BY <1>4, NoSend DEF ElectionInv, MessagesOK
<1>6. OnlyNewGrant(m.to, None, m.term)
  BY <1>5 DEF NoNewGrants, OnlyNewGrant
<1> QED
  BY <1>1, <1>4, <1>5, <1>6, NodeAssumption, JoinTerm

\* "Recognize leader": in each of its three cases, whatever the reply.
LEMMA RecognizeStep ==
  ASSUME TypeOK, ElectionInv, NEW m \in msgs, RecognizeLeader(m),
         NEW b, NEW n, NEW ct, NEW ci, Send({AppendReply(m, b, n, ct, ci)})
  PROVE  ElectionInv'
<1> DEFINE i == m.to
<1>1. m.from \in Node /\ i \in Node /\ m.term \in Nat /\ m.from # i /\ current_term[i] \in Nat
  BY MessageFields DEF ElectionInv, MessageOK, TypeOK
<1>2. m.term >= current_term[i] /\ Elected(m.from, m.term) /\ UNCHANGED elections
  BY DEF RecognizeLeader, ElectionInv, MessageOK
<1>3. NoNewGrants /\ MessagesOK'
  BY <1>1, <1>2, QuietAppendReply, QuietSend DEF ElectionInv, MessagesOK
<1>4. CASE m.term > current_term[i]
  <2>1. BecomeFollower(i, m.term, None, m.from)
    BY <1>4 DEF RecognizeLeader
  <2>2. OnlyNewGrant(i, None, m.term)
    BY <1>3 DEF NoNewGrants, OnlyNewGrant
  <2> QED
    BY <1>1, <1>2, <1>3, <1>4, <2>1, <2>2, NodeAssumption, FollowerJoins, JoinTerm
<1>5. CASE m.term = current_term[i] /\ state[i] # Follower
  <2>1. BecomeFollower(i, current_term[i], None, m.from)
    BY <1>5 DEF RecognizeLeader
  <2> QED
    BY <1>1, <1>2, <1>3, <1>5, <2>1, YieldTerm
<1>6. CASE m.term = current_term[i] /\ state[i] = Follower
  <2>1. leader_id' = [leader_id EXCEPT ![i] = m.from] /\ UNCHANGED voteVars
    BY <1>1, <1>6 DEF RecognizeLeader
  <2>2. \A j \in Node : leader_id'[j] = leader_id[j] \/ Elected(leader_id'[j], current_term[j])
    BY <1>1, <1>2, <1>6, <2>1 DEF TypeOK
  <2> QED
    BY <1>2, <1>3, <2>1, <2>2, QuietStep DEF voteVars
<1> QED
  BY <1>1, <1>2, <1>4, <1>5, <1>6

\* raft_recv_appendentries, each way it ends.
LEMMA AppendStep ==
  ASSUME TypeOK, ElectionInv, NEW m \in msgs,
         RefuseStaleAppend(m) \/ RefuseMissingPrev(m) \/ RefuseConflictingPrev(m)
           \/ AcceptAppend(m)
  PROVE  ElectionInv'
<1>1. CASE RefuseStaleAppend(m)
  <2>1. UNCHANGED <<voteVars, leader_id, elections>> /\ Send({AppendReply(m, FALSE, 0, 0, 0)})
    BY <1>1 DEF RefuseStaleAppend
  <2>2. m.from # m.to /\ MessagesOK
    BY DEF ElectionInv, MessageOK, MessagesOK
  <2>3. NoNewGrants /\ MessagesOK'
    BY <2>1, <2>2, QuietAppendReply, QuietSend
  <2> QED
    BY <2>1, <2>3, QuietStep DEF voteVars
<1>2. CASE RefuseMissingPrev(m)
  BY <1>2, RecognizeStep DEF RefuseMissingPrev
<1>3. CASE RefuseConflictingPrev(m)
  BY <1>3, RecognizeStep DEF RefuseConflictingPrev
<1>4. CASE AcceptAppend(m)
  BY <1>4, RecognizeStep DEF AcceptAppend
<1> QED
  BY <1>1, <1>2, <1>3, <1>4

\* A step that sends nothing and touches nothing an election looks at.
LEMMA SilentStep ==
  ASSUME TypeOK, ElectionInv, UNCHANGED <<voteVars, leader_id, msgs, elections>>
  PROVE  ElectionInv'
<1>1. NoNewGrants /\ MessagesOK'
  BY NoSend DEF ElectionInv, MessagesOK
<1> QED
  BY <1>1, QuietStep DEF voteVars

\* A leader's heartbeats.
LEMMA HeartbeatStep ==
  ASSUME TypeOK, ElectionInv, NEW i \in Node, state[i] = Leader,
         NEW l, NEW c, NEW next, Send(Heartbeats(i, current_term[i], l, c, next)),
         UNCHANGED <<voteVars, leader_id, elections>>
  PROVE  ElectionInv'
<1>1. Elected(i, current_term[i]) /\ Elected(i, current_term[i])'
  BY DEF ElectionInv, TallyIsGranted, Elected, voteVars
<1>2. NoNewGrants /\ MessagesOK'
  <2>1. MessagesOK /\ current_term' = current_term
    BY DEF ElectionInv, MessagesOK, voteVars
  <2>2. \A m \in Heartbeats(i, current_term[i], l, c, next) :
          m.from # m.to /\ ~IsGrant(m) /\ Elected(m.from, m.term)'
    BY <1>1, <2>1, QuietHeartbeats
  <2> QED
    BY <2>1, <2>2, QuietSend
<1> QED
  BY <1>2, QuietStep DEF voteVars

\* raft_tick, the client's calls and the lifecycle.
LEMMA CallStep ==
  ASSUME TypeOK, ElectionInv, NEW i \in Node, Call(i)
  PROVE  ElectionInv'
<1>1. CASE TickElection(i)
  <2>1. CASE BecomeCandidate(i)
    BY <2>1, CandidateStep
  <2>2. CASE StartPrevote(i)
    <3>1. /\ UNCHANGED <<current_term, voted_for, state, votes_for_me, stable, elections>>
          /\ leader_id' = [leader_id EXCEPT ![i] = None]
          /\ Send(VoteRequests(i, current_term[i] + 1, TRUE))
      BY <2>2 DEF StartPrevote
    <3>2. NoNewGrants /\ MessagesOK'
      BY <3>1, QuietVoteRequests, QuietSend DEF ElectionInv, MessagesOK
    <3>3. \A j \in Node : leader_id'[j] \in {leader_id[j], None}
      BY <3>1 DEF TypeOK
    <3> QED
      BY <3>1, <3>2, <3>3, QuietStep
  <2> QED
    BY <1>1, <2>1, <2>2 DEF TickElection
<1>2. CASE TickHeartbeat(i) \/ SendRound(i)
  BY <1>2, HeartbeatStep DEF TickHeartbeat, SendRound
<1>3. CASE TickApply(i)
  BY <1>3, SilentStep DEF TickApply
<1>4. ASSUME NEW d \in Data \cup {Noop}, Propose(i, d) PROVE ElectionInv'
  BY <1>4, HeartbeatStep DEF Propose, MayPropose
<1>5. ASSUME NEW ds \in Batches, ProposeBatch(i, ds) PROVE ElectionInv'
  BY <1>5, HeartbeatStep DEF ProposeBatch, MayPropose
<1>6. ASSUME NEW ds \in Batches, NEW n \in 1 .. Len(ds) - 1, AbortBatch(i, ds, n)
      PROVE  ElectionInv'
  BY <1>6, SilentStep DEF AbortBatch
<1>7. CASE Shutdown(i)
  BY <1>7, SilentStep DEF Shutdown
<1>8. CASE Restart(i)
  BY <1>8, RestartStep
<1> QED
  BY <1>1, <1>2, <1>3, <1>4, <1>5, <1>6, <1>7, <1>8 DEF Call

\* Whatever message is received, the invariant is kept.
LEMMA ReceiveStep ==
  ASSUME TypeOK, ElectionInv, NEW m \in msgs, Receive(m)
  PROVE  ElectionInv'
<1>1. CASE RecvAppendSuccess(m)
  BY <1>1, SilentStep DEF RecvAppendSuccess
<1>2. CASE RecvAppendRefusal(m)
  BY <1>2, SilentStep DEF RecvAppendRefusal
<1> QED
  BY <1>1, <1>2, PrevoteStep, RequestVoteStep, PrevoteReplyStep, VoteReplyStep,
     HigherTermReplyStep, CrashStep, AppendStep DEF Receive

\* The invariant is inductive.
LEMMA ElectionStep == TypeOK /\ ElectionInv /\ [Next]_vars => ElectionInv'
<1> SUFFICES ASSUME TypeOK, ElectionInv, [Next]_vars PROVE ElectionInv'
  OBVIOUS
<1>1. CASE UNCHANGED vars
  BY <1>1, SilentStep DEF vars
<1> QED
  BY <1>1, ReceiveStep, CallStep DEF Next

\* The votes, roles and elections of a cluster always satisfy ElectionInv.
THEOREM ElectionInvariant == Spec => []ElectionInv
<1>1. TypeOK /\ ElectionInv /\ [Next]_vars => ElectionInv'
  BY ElectionStep
<1> QED
  BY <1>1, ElectionInit, TypeCorrect, PTL DEF Spec

\* No two nodes are ever elected in one term.
THEOREM LeadersUnique == Spec => []OneLeaderPerTerm
<1>1. ElectionInv => OneLeaderPerTerm
  BY DEF ElectionInv
<1> QED
  BY <1>1, ElectionInvariant, PTL

\* The leader a node names was elected in the node's term.
THEOREM LeadersKnown == Spec => []KnownLeaderElected
<1>1. ElectionInv => KnownLeaderElected
  BY DEF ElectionInv
<1> QED
  BY <1>1, ElectionInvariant, PTL

\* Every leader had a quorum, which stays in its term or goes on to later ones.
THEOREM LeadersBacked == Spec => []ElectionIsBacked
<1>1. TypeOK /\ ElectionInv => ElectionIsBacked
  <2> SUFFICES ASSUME TypeOK, ElectionInv, NEW e \in elections
               PROVE  /\ e.leader \in e.voters /\ IsQuorum(e.voters)
                      /\ \A v \in e.voters : current_term[v] >= e.term
    BY DEF ElectionIsBacked
  <2>1. e.leader \in Node /\ e.term \in Nat /\ e.voters \subseteq Node
    BY DEF TypeOK
  <2>2. ASSUME NEW v \in e.voters PROVE current_term[v] >= e.term
    BY <2>1 DEF ElectionInv, ElectionIsGranted, GrantsStand
  <2> QED
    BY <2>2 DEF ElectionInv, ElectionIsGranted
<1> QED
  BY <1>1, TypeCorrect, ElectionInvariant, PTL

-----------------------------------------------------------------------------
\* What VoteKept says of one step.
VotesKept ==
  \A i \in Node : TakesBack(i) =>
    /\ voted_for[i] = i /\ voted_for'[i] = None
    /\ \E j \in Node \ {i} : Elected(j, current_term[i])

\* A node that goes on to a later term takes back nothing in its own.
LEMMA LaterTermKeeps ==
  ASSUME TypeOK, NEW i \in Node, NEW t \in Nat, t > current_term[i], NEW v,
         current_term' = [current_term EXCEPT ![i] = t],
         voted_for' = [voted_for EXCEPT ![i] = v]
  PROVE  VotesKept
<1>1. t # current_term[i]
  BY DEF TypeOK
<1> QED
  BY <1>1 DEF VotesKept, TakesBack, TypeOK

\* "Recognize leader" is where a node takes back a vote, its own.
LEMMA RecognizeKeeps ==
  ASSUME TypeOK, ElectionInv, NEW m \in msgs, RecognizeLeader(m)
  PROVE  VotesKept
<1> DEFINE i == m.to
<1>1. m.from \in Node /\ i \in Node /\ m.term \in Nat /\ m.from # i /\ current_term[i] \in Nat
  BY MessageFields DEF ElectionInv, MessageOK, TypeOK
<1>2. m.term >= current_term[i] /\ Elected(m.from, m.term)
  BY DEF RecognizeLeader, ElectionInv, MessageOK
<1>3. CASE m.term > current_term[i]
  BY <1>1, <1>3, LaterTermKeeps DEF RecognizeLeader, BecomeFollower
<1>4. CASE m.term = current_term[i] /\ state[i] # Follower
  <2>1. voted_for' = [voted_for EXCEPT ![i] = None]
    BY <1>4 DEF RecognizeLeader, BecomeFollower
  <2>2. voted_for[i] = i
    BY <1>1, <1>4 DEF ElectionInv, TallyIsGranted
  <2> QED
    BY <1>1, <1>2, <1>4, <2>1, <2>2 DEF VotesKept, TakesBack, TypeOK
<1>5. CASE m.term = current_term[i] /\ state[i] = Follower
  <2>1. UNCHANGED voted_for
    BY <1>1, <1>5 DEF RecognizeLeader, voteVars
  <2> QED
    BY <2>1 DEF VotesKept, TakesBack
<1> QED
  BY <1>1, <1>2, <1>3, <1>4, <1>5

\* Standing for election is voting in a later term.
LEMMA CandidateKeeps ==
  ASSUME TypeOK, NEW i \in Node, BecomeCandidate(i)
  PROVE  VotesKept
<1>1. current_term[i] + 1 \in Nat /\ current_term[i] + 1 > current_term[i]
  BY DEF TypeOK
<1>2. /\ current_term' = [current_term EXCEPT ![i] = current_term[i] + 1]
      /\ voted_for' = [voted_for EXCEPT ![i] = i]
  BY DEF BecomeCandidate
<1> QED
  BY <1>1, <1>2, LaterTermKeeps

\* raft_recv_requestvote votes in a later term, or where it had no other vote.
LEMMA RequestVoteKeeps ==
  ASSUME TypeOK, NEW m \in msgs, RecvRequestVote(m)
  PROVE  VotesKept
<1> DEFINE i == m.to
<1>1. m.from \in Node /\ i \in Node /\ m.term \in Nat /\ current_term[i] \in Nat
  BY MessageFields DEF TypeOK
<1>2. CASE m.term > current_term[i]
  <2>1. PICK v : BecomeFollower(i, m.term, v, None)
    BY <1>1, <1>2 DEF RecvRequestVote
  <2> QED
    BY <1>1, <1>2, <2>1, LaterTermKeeps DEF BecomeFollower
<1>3. CASE ~(m.term > current_term[i])
  <2>1. \/ UNCHANGED voted_for
        \/ CanVote(voted_for[i], m.from) /\ voted_for' = [voted_for EXCEPT ![i] = m.from]
    BY <1>1, <1>3 DEF RecvRequestVote, voteVars
  <2> QED
    BY <1>1, <2>1 DEF CanVote, VotesKept, TakesBack, TypeOK
<1> QED
  BY <1>2, <1>3

\* Every step keeps the votes that VoteKept speaks of.
LEMMA VotesKeptStep == TypeOK /\ ElectionInv /\ [Next]_vars => VotesKept
<1> SUFFICES ASSUME TypeOK, ElectionInv, [Next]_vars PROVE VotesKept
  OBVIOUS
<1>1. ASSUME UNCHANGED voted_for PROVE VotesKept
  BY <1>1 DEF VotesKept, TakesBack
<1>2. ASSUME NEW m \in msgs, Receive(m) PROVE VotesKept
  <2>1. CASE RecvPrevote(m) \/ RecvVoteReply(m) \/ RefuseStaleAppend(m)
             \/ RecvAppendSuccess(m) \/ RecvAppendRefusal(m)
    BY <1>1, <2>1 DEF RecvPrevote, RecvVoteReply, RefuseStaleAppend, RecvAppendSuccess,
                      RecvAppendRefusal, voteVars
  <2>2. CASE RecvRequestVote(m)
    BY <2>2, RequestVoteKeeps
  <2>3. CASE RecvPrevoteReply(m)
    <3>1. m.to \in Node
      BY MessageFields
    <3> QED
      BY <1>1, <2>3, <3>1, CandidateKeeps DEF RecvPrevoteReply
  <2>4. CASE RecvHigherTermReply(m)
    <3>1. m.to \in Node /\ m.term \in Nat
      BY MessageFields
    <3> QED
      BY <2>4, <3>1, LaterTermKeeps DEF RecvHigherTermReply, BecomeFollower
  <2>5. CASE RefuseMissingPrev(m) \/ RefuseConflictingPrev(m) \/ AcceptAppend(m)
    BY <2>5, RecognizeKeeps DEF RefuseMissingPrev, RefuseConflictingPrev, AcceptAppend
  <2>6. CASE CrashWhileVoting(m)
    <3>1. m.to \in Node /\ m.term \in Nat /\ m.term > current_term[m.to]
      BY <2>6, MessageFields DEF CrashWhileVoting
    <3>2. stable'[m.to].term = m.term
      BY <2>6, <3>1 DEF CrashWhileVoting, Persist, TypeOK
    <3> QED
      BY <2>6, <3>1, <3>2, LaterTermKeeps DEF CrashWhileVoting, Create
  <2> QED
    BY <1>2, <2>1, <2>2, <2>3, <2>4, <2>5, <2>6 DEF Receive
<1>3. ASSUME NEW i \in Node, Call(i) PROVE VotesKept
  <2>1. CASE TickElection(i)
    BY <1>1, <2>1, CandidateKeeps DEF TickElection, StartPrevote
  <2>2. CASE TickHeartbeat(i) \/ SendRound(i) \/ TickApply(i) \/ Shutdown(i)
    BY <1>1, <2>2 DEF TickHeartbeat, SendRound, TickApply, Shutdown, voteVars
  <2>3. ASSUME NEW d \in Data \cup {Noop}, Propose(i, d) PROVE VotesKept
    BY <1>1, <2>3 DEF Propose, voteVars
  <2>4. ASSUME NEW ds \in Batches, ProposeBatch(i, ds) PROVE VotesKept
    BY <1>1, <2>4 DEF ProposeBatch, voteVars
  <2>5. ASSUME NEW ds \in Batches, NEW n \in 1 .. Len(ds) - 1, AbortBatch(i, ds, n)
        PROVE  VotesKept
    BY <1>1, <2>5 DEF AbortBatch, voteVars
  <2>6. CASE Restart(i)
    <3>1. voted_for' = voted_for
      BY <2>6 DEF Restart, Create, ElectionInv, StableVote, TypeOK
    <3> QED
      BY <1>1, <3>1
  <2> QED
    BY <1>3, <2>1, <2>2, <2>3, <2>4, <2>5, <2>6 DEF Call
<1>4. CASE UNCHANGED vars
  BY <1>1, <1>4 DEF vars, voteVars
<1> QED
  BY <1>2, <1>3, <1>4 DEF Next

\* Within a term a node takes back no vote but its own, after another's election.
THEOREM VotesStand == Spec => VoteKept
<1>1. TypeOK /\ ElectionInv /\ [Next]_vars =>
        [\A i \in Node : TakesBack(i) =>
           /\ voted_for[i] = i /\ voted_for'[i] = None
           /\ \E j \in Node \ {i} : Elected(j, current_term[i])]_vars
  BY VotesKeptStep DEF VotesKept
<1> QED
  BY <1>1, TypeCorrect, ElectionInvariant, PTL DEF Spec, VoteKept

-----------------------------------------------------------------------------
(***************************************************************************)
(* Pre-votes.  The inductive invariant relates a round in progress to the  *)
(* requests it sent, and the tally to grants of this round or earlier      *)
(* ones: the tally does not outlive the term it was begun in.              *)
(***************************************************************************)
\* The nodes that granted i a pre-vote for term t or an earlier one.
GrantsUpTo(i, t) == UNION {PrevotesOf(i, u) : u \in 1 .. t}

IsPrevote(m) == m.type \in {"RequestVote", "VoteReply"} /\ m.is_prevote

\* A pre-vote is asked for, and granted, for no later term than the one after the
\* asking node's.
RoundKnown(m) ==
  /\ m.type = "RequestVote" /\ m.is_prevote => m.term \in 1 .. current_term[m.from] + 1
  /\ m.type = "VoteReply" /\ m.is_prevote => m.round \in 1 .. current_term[m.to] + 1

RoundBacked(i) ==
  /\ AskedPrevotes(i, current_term[i] + 1)
  /\ prevotes_for_me[i] \subseteq GrantsUpTo(i, current_term[i] + 1)

PrevoteInv ==
  /\ \A m \in msgs : RoundKnown(m)
  /\ \A i \in Node : prevotes_for_me[i] # {} => RoundBacked(i)

\* What CandidateAsked says of one step.
StandBacked(i, t) == AskedPrevotes(i, t) /\ IsQuorum(GrantsUpTo(i, t))
StandsBacked == \A i \in Node : Stands(i) => StandBacked(i, current_term'[i])

\* What holds a quorum is one.
LEMMA QuorumGrows ==
  ASSUME NEW S, NEW T, S \subseteq T, T \subseteq Node, IsQuorum(S)
  PROVE  IsQuorum(T)
<1>1. IsFiniteSet(T)
  BY NodeAssumption, FS_Subset
<1>2. Cardinality(S) \in Nat /\ Cardinality(T) \in Nat /\ Cardinality(S) <= Cardinality(T)
  BY <1>1, FS_Subset, FS_CardinalityType
<1>3. QuorumSize \in Int
  BY NodeAssumption, FS_CardinalityType DEF QuorumSize
<1> QED
  BY <1>2, <1>3 DEF IsQuorum

LEMMA GrantersAreNodes ==
  ASSUME TypeOK, NEW i \in Node, NEW t \in Nat
  PROVE  GrantsUpTo(i, t) \subseteq Node
<1>1. ASSUME NEW u PROVE PrevotesOf(i, u) \subseteq Node
  BY MessageFields DEF PrevotesOf
<1> QED
  BY <1>1 DEF GrantsUpTo

\* What was asked for or granted stays so.
LEMMA GrantsKept ==
  ASSUME msgs \subseteq msgs', NEW i, NEW t
  PROVE  /\ GrantsUpTo(i, t) \subseteq GrantsUpTo(i, t)'
         /\ AskedPrevotes(i, t) => AskedPrevotes(i, t)'
<1>1. ASSUME NEW u PROVE PrevotesOf(i, u) \subseteq PrevotesOf(i, u)'
  BY DEF PrevotesOf
<1>2. GrantsUpTo(i, t) \subseteq GrantsUpTo(i, t)'
  BY <1>1 DEF GrantsUpTo
<1>3. AskedPrevotes(i, t) => AskedPrevotes(i, t)'
  BY DEF AskedPrevotes
<1> QED
  BY <1>2, <1>3

\* Terms grow, so what is known of the rounds of earlier messages stays true.
LEMMA RoundsStayKnown ==
  ASSUME TypeOK, TypeOK', msgs \subseteq msgs', NEW m \in msgs, RoundKnown(m),
         \A i \in Node : current_term'[i] >= current_term[i]
  PROVE  RoundKnown(m)'
<1>1. m.from \in Node /\ m.to \in Node
  BY MessageFields
<1>2. /\ current_term[m.from] \in Nat /\ current_term'[m.from] \in Nat
      /\ current_term[m.to] \in Nat /\ current_term'[m.to] \in Nat
      /\ current_term'[m.from] >= current_term[m.from]
      /\ current_term'[m.to] >= current_term[m.to]
  BY <1>1 DEF TypeOK
<1> QED
  BY <1>2 DEF RoundKnown

\* A step that keeps the rounds in progress, ends them or backs them anew.
LEMMA RoundsStep ==
  ASSUME TypeOK, TypeOK', PrevoteInv, msgs \subseteq msgs',
         \A i \in Node : current_term'[i] >= current_term[i],
         \A m \in msgs' \ msgs : RoundKnown(m)',
         \A i \in Node :
           \/ prevotes_for_me'[i] = {}
           \/ prevotes_for_me'[i] = prevotes_for_me[i] /\ current_term'[i] = current_term[i]
           \/ RoundBacked(i)'
  PROVE  PrevoteInv'
<1>1. \A m \in msgs' : RoundKnown(m)'
  BY RoundsStayKnown DEF PrevoteInv
<1>2. ASSUME NEW i \in Node, prevotes_for_me'[i] # {} PROVE RoundBacked(i)'
  <2>1. CASE prevotes_for_me'[i] = prevotes_for_me[i] /\ current_term'[i] = current_term[i]
    <3>1. RoundBacked(i)
      BY <1>2, <2>1 DEF PrevoteInv
    <3>2. /\ AskedPrevotes(i, current_term[i] + 1)
          /\ prevotes_for_me[i] \subseteq GrantsUpTo(i, current_term[i] + 1)
      BY <3>1 DEF RoundBacked
    <3> DEFINE t == current_term[i] + 1
    <3>3. /\ GrantsUpTo(i, t) \subseteq GrantsUpTo(i, current_term[i] + 1)'
          /\ AskedPrevotes(i, t) => AskedPrevotes(i, current_term[i] + 1)'
      <4>1. t = (current_term[i] + 1)'
        BY <2>1
      <4>2. ASSUME NEW u
            PROVE  PrevotesOf(i, u) \subseteq PrevotesOf(i, u)'
        BY DEF PrevotesOf
      <4> QED
        BY <4>1, <4>2 DEF GrantsUpTo, AskedPrevotes
    <3> QED
      BY <2>1, <3>2, <3>3 DEF RoundBacked
  <2> QED
    BY <1>2, <2>1
<1> QED
  BY <1>1, <1>2 DEF PrevoteInv

\* A step that sends no pre-vote message and has nothing to do with pre-votes.
NoPrevoteSent == msgs \subseteq msgs' /\ \A m \in msgs' \ msgs : ~IsPrevote(m)

LEMMA QuietRounds ==
  ASSUME TypeOK, TypeOK', PrevoteInv, NoPrevoteSent,
         UNCHANGED <<current_term, prevotes_for_me>>
  PROVE  PrevoteInv' /\ StandsBacked
<1>1. \A m \in msgs' \ msgs : RoundKnown(m)'
  BY DEF NoPrevoteSent, IsPrevote, RoundKnown
<1>2. \A i \in Node : current_term[i] \in Nat /\ current_term'[i] = current_term[i]
  BY DEF TypeOK
<1>3. PrevoteInv'
  BY <1>1, <1>2, RoundsStep DEF NoPrevoteSent
<1>4. StandsBacked
  BY <1>2 DEF StandsBacked, Stands
<1> QED
  BY <1>3, <1>4

\* A round ends: its node steps down, restarts, stands or leads.
LEMMA RoundEnds ==
  ASSUME TypeOK, TypeOK', PrevoteInv, NoPrevoteSent,
         NEW i \in Node, NEW t \in Nat, t >= current_term[i],
         current_term' = [current_term EXCEPT ![i] = t],
         prevotes_for_me' = [prevotes_for_me EXCEPT ![i] = {}],
         state'[i] = Follower \/ t = current_term[i] \/ StandBacked(i, t)
  PROVE  PrevoteInv' /\ StandsBacked
<1>1. \A m \in msgs' \ msgs : RoundKnown(m)'
  BY DEF NoPrevoteSent, IsPrevote, RoundKnown
<1>2. \A j \in Node : /\ current_term[j] \in Nat
                      /\ current_term'[j] = IF j = i THEN t ELSE current_term[j]
                      /\ current_term'[j] >= current_term[j]
  <2>1. \A j \in Node : /\ current_term[j] \in Nat
                        /\ current_term'[j] = IF j = i THEN t ELSE current_term[j]
    BY DEF TypeOK
  <2> QED
    BY <2>1
<1>3. \A j \in Node : \/ prevotes_for_me'[j] = {}
                      \/ /\ prevotes_for_me'[j] = prevotes_for_me[j]
                         /\ current_term'[j] = current_term[j]
  BY DEF TypeOK
<1>4. PrevoteInv'
  BY <1>1, <1>2, <1>3, RoundsStep DEF NoPrevoteSent
<1>5. ASSUME NEW j \in Node, Stands(j) PROVE StandBacked(j, current_term'[j])
  <2>1. j = i /\ current_term'[i] = t /\ t # current_term[i]
    BY <1>2, <1>5 DEF Stands
  <2>2. StandBacked(i, t)
    BY <1>5, <2>1 DEF Stands
  <2> QED
    BY <2>1, <2>2
<1> QED
  BY <1>4, <1>5 DEF StandsBacked

\* Messages that are no pre-votes are sent.
LEMMA NoPrevotes ==
  ASSUME NEW ms, Send(ms), \A m \in ms : ~IsPrevote(m)
  PROVE  NoPrevoteSent
  BY DEF Send, NoPrevoteSent

LEMMA HeartbeatsNoPrevotes ==
  ASSUME NEW i \in Node, NEW t, NEW l, NEW c, NEW next, NEW m \in Heartbeats(i, t, l, c, next)
  PROVE  ~IsPrevote(m)
<1>1. m.type = "AppendEntries"
  BY DEF Heartbeats
<1> QED
  BY <1>1 DEF IsPrevote

LEMMA AppendReplyNoPrevote ==
  ASSUME NEW m, NEW b, NEW n, NEW ct, NEW ci, Send({AppendReply(m, b, n, ct, ci)})
  PROVE  NoPrevoteSent
<1>1. AppendReply(m, b, n, ct, ci).type = "AppendReply"
  BY DEF AppendReply
<1> QED
  BY <1>1, NoPrevotes DEF IsPrevote

\* raft_become_leader and raft_become_candidate ask for no pre-votes.
LEMMA LeadNoPrevotes ==
  ASSUME NEW i \in Node, NEW t, NEW votes, BecomeLeader(i, t, votes)
  PROVE  /\ NoPrevoteSent
         /\ prevotes_for_me' = [prevotes_for_me EXCEPT ![i] = {}]
<1> DEFINE next == [j \in Node |-> Len(log[i]) + 1]
           l == Append(log[i], EntryOf(t, Noop))
           first == Heartbeats(i, t, log[i], commit_index[i], next)
           second == Heartbeats(i, t, l, SoleCommit(i, Len(l)), next)
<1>1. Send(first) \/ Send(first \cup second)
  BY DEF BecomeLeader
<1>2. \A m \in first \cup second : ~IsPrevote(m)
  BY HeartbeatsNoPrevotes
<1> HIDE DEF first, second
<1>3. NoPrevoteSent
  BY <1>1, <1>2, NoPrevotes
<1> QED
  BY <1>3 DEF BecomeLeader

LEMMA StandPrevotes ==
  ASSUME TypeOK, TypeOK', PrevoteInv, NEW i \in Node, BecomeCandidate(i),
         StandBacked(i, current_term[i] + 1)
  PROVE  PrevoteInv' /\ StandsBacked
<1> DEFINE t == current_term[i] + 1
<1>1. t \in Nat /\ t >= current_term[i]
  BY DEF TypeOK
<1>2. current_term' = [current_term EXCEPT ![i] = t]
  BY DEF BecomeCandidate
<1>3. NoPrevoteSent /\ prevotes_for_me' = [prevotes_for_me EXCEPT ![i] = {}]
  <2>1. CASE IsQuorum({i})
    BY <2>1, LeadNoPrevotes DEF BecomeCandidate
  <2>2. CASE ~IsQuorum({i})
    <3>1. \A m \in VoteRequests(i, t, FALSE) : ~IsPrevote(m)
      BY DEF VoteRequests, IsPrevote
    <3> QED
      BY <2>2, <3>1, NoPrevotes DEF BecomeCandidate
  <2> QED
    BY <2>1, <2>2
<1> QED
  BY <1>1, <1>2, <1>3, RoundEnds

\* raft_become_follower and raft_create.
LEMMA FollowerRounds ==
  ASSUME TypeOK, TypeOK', PrevoteInv, NoPrevoteSent, NEW i \in Node, NEW t \in Nat,
         t >= current_term[i],
         \/ \E v, l : BecomeFollower(i, t, v, l)
         \/ Create(i) /\ stable'[i].term = t
  PROVE  PrevoteInv' /\ StandsBacked
<1>1. /\ current_term' = [current_term EXCEPT ![i] = t]
      /\ prevotes_for_me' = [prevotes_for_me EXCEPT ![i] = {}]
      /\ state' = [state EXCEPT ![i] = Follower]
  BY DEF BecomeFollower, Create
<1>2. state'[i] = Follower
  BY <1>1 DEF TypeOK
<1> QED
  BY <1>1, <1>2, RoundEnds

\* raft_recv_requestvote answers a pre-vote for the term that was asked for.
LEMMA AnswerRound ==
  ASSUME TypeOK, TypeOK', PrevoteInv, NEW m \in msgs, RecvPrevote(m)
  PROVE  PrevoteInv' /\ StandsBacked
<1>1. PICK g \in BOOLEAN : Send({VoteReply(m, current_term[m.to], g)})
  BY DEF RecvPrevote
<1>2. UNCHANGED <<current_term, prevotes_for_me>> /\ m.type = "RequestVote" /\ m.is_prevote
  BY DEF RecvPrevote, voteVars
<1>3. ASSUME NEW r \in msgs' \ msgs
      PROVE  r.type = "VoteReply" /\ r.to = m.from /\ r.round = m.term
  BY <1>1, <1>3 DEF Send, VoteReply
<1>4. m.term \in 1 .. current_term[m.from] + 1
  BY <1>2 DEF PrevoteInv, RoundKnown
<1>5. msgs \subseteq msgs'
  BY <1>1 DEF Send
<1>6. \A r \in msgs' \ msgs : RoundKnown(r)'
  BY <1>2, <1>3, <1>4 DEF RoundKnown
<1>7. \A i \in Node : /\ current_term[i] \in Nat /\ current_term'[i] = current_term[i]
                      /\ current_term'[i] >= current_term[i]
                      /\ prevotes_for_me'[i] = prevotes_for_me[i]
  BY <1>2 DEF TypeOK
<1>8. PrevoteInv'
  BY <1>5, <1>6, <1>7, RoundsStep
<1>9. StandsBacked
  BY <1>7 DEF StandsBacked, Stands
<1> QED
  BY <1>8, <1>9

\* A pre-vote that is granted counts, and may make the node stand.
LEMMA CountRound ==
  ASSUME TypeOK, TypeOK', PrevoteInv, NEW m \in msgs, RecvPrevoteReply(m)
  PROVE  PrevoteInv' /\ StandsBacked
<1> DEFINE i == m.to
           t == current_term[i] + 1
           got == prevotes_for_me[i] \cup {m.from}
<1>1. i \in Node /\ t \in Nat
  BY MessageFields DEF TypeOK
<1>2. /\ m.type = "VoteReply" /\ m.is_prevote /\ m.granted /\ prevotes_for_me[i] # {}
      /\ IsQuorum(got) => BecomeCandidate(i)
      /\ ~IsQuorum(got) => /\ prevotes_for_me' = [prevotes_for_me EXCEPT ![i] = got]
                           /\ UNCHANGED <<current_term, msgs>>
  BY DEF RecvPrevoteReply, Counts
<1>3. AskedPrevotes(i, t) /\ prevotes_for_me[i] \subseteq GrantsUpTo(i, t)
  BY <1>1, <1>2 DEF PrevoteInv, RoundBacked
<1>4. m.round \in 1 .. t
  BY <1>2 DEF PrevoteInv, RoundKnown
<1>5. m.from \in PrevotesOf(i, m.round)
  BY <1>2 DEF PrevotesOf
<1>6. got \subseteq GrantsUpTo(i, t)
  BY <1>3, <1>4, <1>5 DEF GrantsUpTo
<1>7. CASE IsQuorum(got)
  <2>1. StandBacked(i, t)
    BY <1>1, <1>3, <1>6, <1>7, GrantersAreNodes, QuorumGrows DEF StandBacked
  <2> QED
    BY <1>1, <1>2, <1>7, <2>1, StandPrevotes
<1>8. CASE ~IsQuorum(got)
  <2>1. UNCHANGED <<current_term, msgs>> /\ prevotes_for_me'[i] = got
    BY <1>1, <1>2, <1>8 DEF TypeOK
  <2>2. \A j \in Node \ {i} : prevotes_for_me'[j] = prevotes_for_me[j]
    BY <1>2, <1>8 DEF TypeOK
  <2>3. RoundBacked(i)'
    BY <1>3, <1>6, <2>1 DEF RoundBacked, AskedPrevotes, GrantsUpTo, PrevotesOf
  <2>4. \A j \in Node : current_term[j] \in Nat /\ current_term'[j] = current_term[j]
    BY <2>1 DEF TypeOK
  <2>5. PrevoteInv'
    BY <2>1, <2>2, <2>3, <2>4, RoundsStep
  <2>6. StandsBacked
    BY <2>4 DEF StandsBacked, Stands
  <2> QED
    BY <2>5, <2>6
<1> QED
  BY <1>7, <1>8

\* raft_start_prevote asks all others for the next term.
LEMMA StartRound ==
  ASSUME TypeOK, TypeOK', PrevoteInv, "RequestVote" \in Delivered, NEW i \in Node, StartPrevote(i)
  PROVE  PrevoteInv' /\ StandsBacked
<1> DEFINE t == current_term[i] + 1
           ms == VoteRequests(i, t, TRUE)
<1>1. /\ UNCHANGED current_term
      /\ prevotes_for_me' = [prevotes_for_me EXCEPT ![i] = {i}]
      /\ Send(ms)
  BY DEF StartPrevote
<1>2. t \in Nat /\ current_term[i] \in Nat
  BY DEF TypeOK
<1>3. \A m \in ms : /\ m.type = "RequestVote" /\ m.is_prevote
                    /\ m.term = t /\ m.from = i
  BY DEF VoteRequests
<1>4. ASSUME NEW j \in Node \ {i} PROVE \E m \in ms : m.to = j
  <2> DEFINE m == [type |-> "RequestVote", term |-> t, from |-> i, to |-> j,
                   last_index |-> Len(log[i]), last_term |-> LastTerm(log[i]),
                   is_prevote |-> TRUE]
  <2>1. m \in ms /\ m.to = j
    BY DEF VoteRequests
  <2> QED
    BY <2>1
<1> HIDE DEF ms
<1>5. msgs' = msgs \cup ms
  BY <1>1, <1>3 DEF Send
<1>6. \A m \in msgs' \ msgs : RoundKnown(m)'
  BY <1>1, <1>2, <1>3, <1>5 DEF RoundKnown
<1>7. RoundBacked(i)'
  <2>1. AskedPrevotes(i, current_term[i] + 1)'
    BY <1>1, <1>3, <1>4, <1>5 DEF AskedPrevotes
  <2>2. prevotes_for_me'[i] = {i}
    BY <1>1 DEF TypeOK
  <2>3. {i} \subseteq GrantsUpTo(i, current_term[i] + 1)'
    BY <1>1, <1>2 DEF GrantsUpTo, PrevotesOf
  <2> QED
    BY <2>1, <2>2, <2>3 DEF RoundBacked
<1>8. \A j \in Node \ {i} : prevotes_for_me'[j] = prevotes_for_me[j]
  BY <1>1 DEF TypeOK
<1>9. \A j \in Node : current_term[j] \in Nat /\ current_term'[j] = current_term[j]
  BY <1>1 DEF TypeOK
<1>10. PrevoteInv'
  BY <1>5, <1>6, <1>7, <1>8, <1>9, RoundsStep
<1>11. StandsBacked
  BY <1>9 DEF StandsBacked, Stands
<1> QED
  BY <1>10, <1>11

\* A node that is a quorum by itself is alone, and its own pre-vote is enough.
LEMMA AloneIsBacked ==
  ASSUME TypeOK, NEW i \in Node, IsQuorum({i}), NEW t \in Nat \ {0}
  PROVE  StandBacked(i, t)
<1>1. IsFiniteSet(Node) /\ Cardinality(Node) \in Nat
  BY NodeAssumption, FS_CardinalityType
<1>2. Cardinality({i}) = 1
  BY FS_Singleton
<1>3. Cardinality(Node) <= 1
  BY <1>1, <1>2 DEF IsQuorum, QuorumSize
<1>4. ASSUME NEW j \in Node PROVE j = i
  <2>1. Cardinality({i}) <= Cardinality(Node) /\ (Cardinality({i}) = Cardinality(Node) => {i} = Node)
    BY <1>1, FS_Subset
  <2> QED
    BY <1>1, <1>2, <1>3, <2>1
<1>5. AskedPrevotes(i, t)
  BY <1>4 DEF AskedPrevotes
<1>6. {i} \subseteq GrantsUpTo(i, t)
  BY DEF GrantsUpTo, PrevotesOf
<1> QED
  BY <1>5, <1>6, GrantersAreNodes, QuorumGrows DEF StandBacked

LEMMA ReceiveRounds ==
  ASSUME TypeOK, TypeOK', PrevoteInv, NEW m \in msgs, Receive(m)
  PROVE  PrevoteInv' /\ StandsBacked
<1> DEFINE i == m.to
<1>1. i \in Node /\ m.term \in Nat /\ current_term[i] \in Nat
  BY MessageFields DEF TypeOK
<1>2. CASE RecvRequestVote(m)
  <2>1. NoPrevoteSent
    <3>1. \A t, g : ~IsPrevote(VoteReply(m, t, g))
      BY <1>2 DEF RecvRequestVote, VoteReply, IsPrevote
    <3> QED
      BY <1>2, <3>1, NoPrevotes DEF RecvRequestVote
  <2> QED
    BY <1>1, <1>2, <2>1, FollowerRounds, QuietRounds DEF RecvRequestVote, voteVars
<1>3. CASE CrashWhileVoting(m)
  <2>1. stable'[i].term = m.term
    BY <1>1, <1>3 DEF CrashWhileVoting, Persist, TypeOK
  <2>2. Create(i) /\ m.term >= current_term[i]
    BY <1>1, <1>3 DEF CrashWhileVoting
  <2>3. NoPrevoteSent
    BY <2>2 DEF Create, NoPrevoteSent
  <2> QED
    BY <1>1, <2>1, <2>2, <2>3, FollowerRounds
<1>4. CASE RecvVoteReply(m)
  <2>1. UNCHANGED current_term
    BY <1>4 DEF RecvVoteReply
  <2>2. ASSUME NEW votes, BecomeLeader(i, current_term[i], votes)
        PROVE  PrevoteInv' /\ StandsBacked
    <3>1. current_term' = [current_term EXCEPT ![i] = current_term[i]]
      BY <2>1 DEF TypeOK
    <3>2. NoPrevoteSent /\ prevotes_for_me' = [prevotes_for_me EXCEPT ![i] = {}]
      BY <1>1, <2>2, LeadNoPrevotes
    <3>3. current_term[i] \in Nat /\ current_term[i] >= current_term[i]
      BY <1>1
    <3> HIDE DEF i
    <3> QED
      BY <1>1, <3>1, <3>2, <3>3, RoundEnds
  <2>3. CASE UNCHANGED <<prevotes_for_me, msgs>>
    BY <2>1, <2>3, QuietRounds DEF NoPrevoteSent
  <2> QED
    BY <1>4, <2>2, <2>3 DEF RecvVoteReply
<1>5. CASE RecvHigherTermReply(m)
  <2>1. BecomeFollower(i, m.term, None, None) /\ m.term >= current_term[i] /\ UNCHANGED msgs
    BY <1>1, <1>5 DEF RecvHigherTermReply
  <2>2. NoPrevoteSent
    BY <2>1 DEF NoPrevoteSent
  <2> QED
    BY <1>1, <2>1, <2>2, FollowerRounds
<1>6. CASE RefuseStaleAppend(m)
  BY <1>6, AppendReplyNoPrevote, QuietRounds DEF RefuseStaleAppend, voteVars
<1>7. ASSUME RecognizeLeader(m), NoPrevoteSent PROVE PrevoteInv' /\ StandsBacked
  BY <1>1, <1>7, FollowerRounds, QuietRounds DEF RecognizeLeader, voteVars
<1>8. CASE RefuseMissingPrev(m) \/ RefuseConflictingPrev(m) \/ AcceptAppend(m)
  BY <1>7, <1>8, AppendReplyNoPrevote DEF RefuseMissingPrev, RefuseConflictingPrev, AcceptAppend
<1>9. CASE RecvAppendSuccess(m) \/ RecvAppendRefusal(m)
  <2>1. UNCHANGED <<current_term, prevotes_for_me, msgs>>
    BY <1>9 DEF RecvAppendSuccess, RecvAppendRefusal, voteVars
  <2> QED
    BY <2>1, QuietRounds DEF NoPrevoteSent
<1> QED
  BY <1>2, <1>3, <1>4, <1>5, <1>6, <1>8, <1>9, AnswerRound, CountRound DEF Receive

\* With pre-vote on at every tick, a call of raft_tick makes a candidate only of a
\* node that is a quorum by itself.
LEMMA CallRounds ==
  ASSUME PreVoteFlag \subseteq {TRUE}, "RequestVote" \in Delivered,
         TypeOK, TypeOK', ElectionInv, PrevoteInv, NEW i \in Node, Call(i)
  PROVE  PrevoteInv' /\ StandsBacked
<1>1. CASE TickElection(i)
  <2>1. CASE IsQuorum({i}) /\ BecomeCandidate(i)
    <3>1. current_term[i] + 1 \in Nat \ {0}
      BY DEF TypeOK
    <3>2. StandBacked(i, current_term[i] + 1)
      BY <2>1, <3>1, AloneIsBacked
    <3> QED
      BY <2>1, <3>2, StandPrevotes
  <2>2. CASE StartPrevote(i)
    BY <2>2, StartRound
  <2> QED
    BY <1>1, <2>1, <2>2 DEF TickElection
<1>2. ASSUME UNCHANGED voteVars, UNCHANGED msgs \/ \E t, l, c, next : Send(Heartbeats(i, t, l, c, next))
      PROVE  PrevoteInv' /\ StandsBacked
  <2>1. NoPrevoteSent
    BY <1>2, HeartbeatsNoPrevotes, NoPrevotes DEF NoPrevoteSent
  <2> QED
    BY <1>2, <2>1, QuietRounds DEF voteVars
<1>3. CASE TickHeartbeat(i) \/ SendRound(i) \/ TickApply(i) \/ Shutdown(i)
  BY <1>2, <1>3 DEF TickHeartbeat, SendRound, TickApply, Shutdown
<1>4. CASE \/ \E d \in Data \cup {Noop} : Propose(i, d)
           \/ \E ds \in Batches : ProposeBatch(i, ds)
           \/ \E ds \in Batches : \E n \in 1 .. Len(ds) - 1 : AbortBatch(i, ds, n)
  BY <1>2, <1>4 DEF Propose, ProposeBatch, AbortBatch
<1>5. CASE Restart(i)
  <2>1. Create(i) /\ UNCHANGED stable
    BY <1>5 DEF Restart
  <2>2. stable'[i].term = current_term[i] /\ current_term[i] \in Nat
    BY <2>1 DEF ElectionInv, StableVote, TypeOK
  <2>3. NoPrevoteSent
    BY <2>1 DEF Create, NoPrevoteSent
  <2> QED
    BY <2>1, <2>2, <2>3, FollowerRounds
<1> QED
  BY <1>1, <1>3, <1>4, <1>5 DEF Call

\* With pre-vote on, a node stands only for a term it asked all others about, and
\* with grants of a quorum for that term or earlier ones, whatever replies are
\* late or repeated and wherever nodes restart.  Without it raft_tick starts an
\* election at once.
THEOREM CandidatesAsked ==
  ASSUME PreVoteFlag \subseteq {TRUE}, "RequestVote" \in Delivered
  PROVE  Spec => CandidateAsked
<1>1. Init => PrevoteInv
  BY DEF Init, PrevoteInv
<1>2. TypeOK /\ TypeOK' /\ ElectionInv /\ PrevoteInv /\ [Next]_vars => PrevoteInv' /\ StandsBacked
  <2> SUFFICES ASSUME TypeOK, TypeOK', ElectionInv, PrevoteInv, [Next]_vars
               PROVE  PrevoteInv' /\ StandsBacked
    OBVIOUS
  <2>1. CASE UNCHANGED vars
    BY <2>1, QuietRounds DEF vars, voteVars, NoPrevoteSent
  <2> QED
    BY <2>1, ReceiveRounds, CallRounds DEF Next
<1>3. StandsBacked =>
        [\A i \in Node : Stands(i) =>
           /\ AskedPrevotes(i, current_term'[i])
           /\ IsQuorum(UNION {PrevotesOf(i, t) : t \in 1 .. current_term'[i]})]_vars
  BY DEF StandsBacked, StandBacked, GrantsUpTo
<1> QED
  BY <1>1, <1>2, <1>3, TypeCorrect, ElectionInvariant, PTL DEF Spec, CandidateAsked
=============================================================================
