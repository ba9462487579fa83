-------------------------- MODULE ReadIndexProofs --------------------------
(***************************************************************************)
(* Proofs about reads: Raft with ReadIndex is still Raft, so that reads    *)
(* change nothing of what the other theorems say, and a read is only ever  *)
(* answered by a leader that was not superseded when it was asked for.     *)
(***************************************************************************)
EXTENDS RaftReadIndex, ReplicationProofs

\* The calls that may make a leader are steps of Raft.
LEMMA StandIsRaft ==
  ASSUME NEW i \in Node, Stand(i)
  PROVE  Next
BY DEF Stand, Next, Call, Receive

\* The calls that send a round are steps of Raft.
LEMMA BeatIsRaft ==
  ASSUME NEW i \in Node, Beat(i)
  PROVE  Next
BY DEF Beat, Next, Call

\* A crash is a step of Raft, also one between the writes of a vote.
LEMMA ForgetIsRaft ==
  ASSUME NEW i \in Node, Forget(i)
  PROVE  Next
BY DEF Forget, Next, Call, Receive

\* So is all that deals neither with rounds nor with reads.
LEMMA OtherIsRaft ==
  ASSUME Other
  PROVE  Next
BY DEF Other, Next, Call, Receive

\* Only the round of heartbeats that a read starts is a step of Raft.
LEMMA AskIsRaft ==
  ASSUME NEW i \in Node, NEW q \in Request, AskLeader(i, q) \/ AskFollower(i, q)
  PROVE  Next \/ UNCHANGED vars
<1>1. CASE AskLeader(i, q)
  BY <1>1 DEF AskLeader, Next, Call
<1>2. CASE AskFollower(i, q)
  BY <1>2 DEF AskFollower
<1> QED
  BY <1>1, <1>2

\* Every step of the composition is a step of Raft or leaves its state alone.
LEMMA ReadStepIsRaft == [ReadNext]_allVars => [Next]_vars
<1> SUFFICES ASSUME [ReadNext]_allVars PROVE [Next]_vars
  OBVIOUS
<1>1. CASE UNCHANGED allVars
  BY <1>1 DEF allVars
<1>2. ASSUME NEW i \in Node, Stand(i) \/ Beat(i) \/ Forget(i) PROVE Next
  BY <1>2, StandIsRaft, BeatIsRaft, ForgetIsRaft
<1>3. ASSUME NEW r \in rounds, r.msg \in msgs /\ Acknowledge(r) PROVE Next
  BY <1>3 DEF Acknowledge, Next, Receive
<1>4. ASSUME NEW a \in acked, a.msg \in msgs /\ Confirm(a) PROVE Next
  BY <1>4 DEF Confirm, Next, Receive
<1>5. ASSUME NEW i \in Clients, NEW q \in Request, AskLeader(i, q) \/ AskFollower(i, q)
      PROVE  Next \/ UNCHANGED vars
  BY <1>5, AskIsRaft, ReadAssumption
<1>6. ASSUME NEW m \in read_msgs, RecvReadRequest(m) \/ RecvReadResponse(m)
      PROVE  UNCHANGED vars
  BY <1>6 DEF RecvReadRequest, RecvReadResponse
<1> QED
  BY <1>1, <1>2, <1>3, <1>4, <1>5, <1>6, OtherIsRaft DEF ReadNext

\* A cluster that answers reads is a Raft cluster: raft_readindex.c reads the
\* state that the rest of the library keeps and sends heartbeats, and no more.
THEOREM ReadsAreRaft == ReadSpec => Spec
<1>1. ReadInit => Init
  BY DEF ReadInit
<1> QED
  BY <1>1, ReadStepIsRaft, PTL DEF ReadSpec, Spec
-----------------------------------------------------------------------------
(***************************************************************************)
(* The invariant behind ReadConfirmed.  A read that its leader was too     *)
(* late for was asked after an election of a later term.  The voters of    *)
(* that election had left the leader's term before the read was queued, so *)
(* no acknowledgement they sent in that term is of a round that counts for *)
(* the read; and every quorum holds one of them.                           *)
(***************************************************************************)
\* A round comes from a node that was elected in its term, and that counts on
\* from it as long as it leads in the term.
RoundsNumbered ==
  \A r \in rounds :
    /\ r.msg.from \in Node /\ r.msg.term \in Nat /\ r.seq \in Nat
    /\ Elected(r.msg.from, r.msg.term)
    /\ state[r.msg.from] = Leader /\ r.msg.term = current_term[r.msg.from]
         => r.seq <= heartbeat_seq[r.msg.from]

\* An acknowledgement is of a round, and carries the term that its sender was in
\* before it joined the term of the round.
AcksOfRounds ==
  \A a \in acked :
    /\ a.msg.from \in Node /\ a.msg.term \in Nat
    /\ \E r \in rounds :
         a.seq = r.seq /\ a.msg.to = r.msg.from /\ a.msg.term <= r.msg.term

RoundsInv == heartbeat_seq \in [Node -> Nat] /\ RoundsNumbered /\ AcksOfRounds

\* No voter of election e confirms read p of node i, now or later.
OutOfReach(i, p, e) ==
  /\ e.term > p.term
  /\ e.voters \cap p.acks = {}
  /\ \A a \in acked : a.msg.to = i /\ a.msg.term = p.term /\ a.seq >= p.required_seq
                        => a.msg.from \notin e.voters

WasAsked(q) == \E a \in asked : a.req = q

Read ==
  [req : Request, from : Node \cup {None}, term : Nat, acks : SUBSET Node, required_seq : Nat]

\* Read p of node i cannot be answered, if its leader was superseded when it was
\* asked for.
PendingSafe(i, p) ==
  /\ WasAsked(p.req)
  /\ \A a \in asked : a.req = p.req /\ a.term > p.term =>
       \E e \in elections : OutOfReach(i, p, e)

PendingInv ==
  /\ pending_reads \in [Node -> [Slot -> Read \cup {Free}]]
  /\ \A i \in Node, s \in Slot : pending_reads[i][s] # Free => PendingSafe(i, pending_reads[i][s])

AnswerSafe(c) ==
  WasAsked(c.req) /\ \A a \in asked : (c.req = a.req /\ c.err = "OK") => c.term >= a.term

ReadMessageSafe(m) ==
  /\ m.type = "ReadRequest" =>
       m.req \in Request /\ m.from \in Node /\ m.to \in Node /\ WasAsked(m.req)
  /\ m.type = "ReadResponse" => AnswerSafe(m.answer)

AnswersInv ==
  (\A c \in completed : AnswerSafe(c)) /\ \A m \in read_msgs : ReadMessageSafe(m)

\* The term noted when a read was asked for is 0 or that of an election.
AskedInv ==
  /\ \A a \in asked : a.term \in Nat /\ (a.term > 0 => \E e \in elections : e.term = a.term)
  /\ \E b \in Nat : \A e \in elections : e.term <= b

ReadInv == RoundsInv /\ PendingInv /\ AnswersInv /\ AskedInv

\* What is known of the cluster underneath.
RaftInv == TypeOK /\ ElectionInv /\ ElectionIsBacked /\ CandidatesUnelected
-----------------------------------------------------------------------------
(***************************************************************************)
(* Rounds and acknowledgements.                                            *)
(***************************************************************************)
\* Steps that make no leader and send no round.
LEMMA SameRounds ==
  ASSUME RoundsNumbered, UNCHANGED seqVars, RolesStay, elections \subseteq elections'
  PROVE  RoundsNumbered'
<1> SUFFICES ASSUME NEW r \in rounds
             PROVE  /\ r.msg.from \in Node /\ r.msg.term \in Nat /\ r.seq \in Nat
                    /\ Elected(r.msg.from, r.msg.term)'
                    /\ state'[r.msg.from] = Leader /\ r.msg.term = current_term'[r.msg.from]
                         => r.seq <= heartbeat_seq'[r.msg.from]
  BY DEF RoundsNumbered, seqVars
<1>1. Elected(r.msg.from, r.msg.term)'
  BY DEF RoundsNumbered, Elected
<1>2. state'[r.msg.from] = Leader =>
        state[r.msg.from] = Leader /\ current_term'[r.msg.from] = current_term[r.msg.from]
  BY DEF RoundsNumbered, RolesStay, Leader, Follower
<1> QED
  BY <1>1, <1>2 DEF RoundsNumbered, seqVars

\* A leader sends a round.
LEMMA RoundSent ==
  ASSUME RaftInv, heartbeat_seq \in [Node -> Nat], RoundsNumbered, NEW i \in Node, state[i] = Leader,
         UNCHANGED <<state, current_term, elections>>, Round(i)
  PROVE  RoundsNumbered' /\ heartbeat_seq' \in [Node -> Nat]
<1>1. PICK ms : ms = Heartbeats(i, current_term'[i], log'[i], commit_index'[i], next_index'[i])
  OBVIOUS
<1>2. \A m \in ms : m.from = i /\ m.term = current_term[i]
  BY <1>1 DEF Heartbeats
<1>3. /\ heartbeat_seq' = [heartbeat_seq EXCEPT ![i] = heartbeat_seq[i] + 1]
      /\ rounds' = rounds \cup Tagged(ms, heartbeat_seq[i] + 1)
  BY <1>1 DEF Round
<1>4. heartbeat_seq[i] + 1 \in Nat /\ heartbeat_seq' \in [Node -> Nat]
  BY <1>3
<1>5. current_term[i] \in Nat /\ Elected(i, current_term[i])
  BY DEF RaftInv, TypeOK, ElectionInv, TallyIsGranted
<1>6. ASSUME NEW r \in rounds'
      PROVE  /\ r.msg.from \in Node /\ r.msg.term \in Nat /\ r.seq \in Nat
             /\ Elected(r.msg.from, r.msg.term)
             /\ state[r.msg.from] = Leader /\ r.msg.term = current_term[r.msg.from]
                  => r.seq <= heartbeat_seq'[r.msg.from]
  <2>1. CASE r \in rounds
    <3>1. r.seq \in Nat /\ heartbeat_seq[r.msg.from] \in Nat
          /\ heartbeat_seq'[r.msg.from] \in {heartbeat_seq[r.msg.from], heartbeat_seq[r.msg.from] + 1}
      BY <1>3, <2>1 DEF RoundsNumbered
    <3> QED
      BY <2>1, <3>1 DEF RoundsNumbered
  <2>2. CASE r \notin rounds
    <3>1. r.msg.from = i /\ r.msg.term = current_term[i] /\ r.seq = heartbeat_seq[i] + 1
      BY <1>2, <1>3, <2>2 DEF Tagged
    <3> QED
      BY <1>3, <1>4, <1>5, <3>1
  <2> QED
    BY <2>1, <2>2
<1>7. \A j, t : Elected(j, t)' <=> Elected(j, t)
  BY DEF Elected
<1>8. RoundsNumbered'
  BY <1>6, <1>7 DEF RoundsNumbered
<1> QED
  BY <1>4, <1>8

\* A leader just elected sends its first rounds; in its term it sent none before.
LEMMA LeaderRoundsSent ==
  ASSUME RaftInv, RaftInv', heartbeat_seq \in [Node -> Nat], RoundsNumbered, NEW i \in Node,
         NEW t \in Nat, NEW S, BecomeLeader(i, t, S),
         (t = current_term[i] /\ state[i] = Candidate) \/ t = current_term[i] + 1,
         current_term' = [current_term EXCEPT ![i] = t],
         LeaderRounds(i)
  PROVE  RoundsNumbered' /\ heartbeat_seq' \in [Node -> Nat]
<1>1. /\ state' = [state EXCEPT ![i] = Leader]
      /\ elections' = elections \cup {[term |-> t, leader |-> i, voters |-> S]}
  BY DEF BecomeLeader
<1>2. \A e \in elections : e.term # t
  BY TermIsNew DEF RaftInv, ElectedIn
<1>3. current_term'[i] = t /\ Elected(i, t)' /\ elections \subseteq elections'
  <2>1. PICK e : e = [term |-> t, leader |-> i, voters |-> S]
    OBVIOUS
  <2>2. e \in elections' /\ e.term = t /\ e.leader = i
    BY <1>1, <2>1
  <2> QED
    BY <1>1, <2>2 DEF RaftInv, TypeOK, Elected
<1>4. PICK next : next = [j \in Node |-> Len(log[i]) + 1]
  OBVIOUS
<1>5. PICK first, second : /\ first = Heartbeats(i, current_term'[i], log[i], commit_index[i], next)
                           /\ second = Heartbeats(i, current_term'[i], log'[i], commit_index'[i], next)
  OBVIOUS
<1>6. \A m \in first \cup second : m.from = i /\ m.term = t
  BY <1>3, <1>5 DEF Heartbeats
<1>7. \/ /\ heartbeat_seq' = [heartbeat_seq EXCEPT ![i] = heartbeat_seq[i] + 1]
         /\ rounds' = rounds \cup Tagged(first, heartbeat_seq[i] + 1)
      \/ /\ heartbeat_seq' = [heartbeat_seq EXCEPT ![i] = heartbeat_seq[i] + 1 + 1]
         /\ rounds' = rounds \cup Tagged(first, heartbeat_seq[i] + 1)
                        \cup Tagged(second, heartbeat_seq[i] + 1 + 1)
  BY <1>4, <1>5 DEF LeaderRounds
<1>8. PICK h \in Nat : h = heartbeat_seq[i]
  OBVIOUS
<1>9. /\ heartbeat_seq' \in [Node -> Nat]
      /\ \A j \in Node \ {i} : heartbeat_seq'[j] = heartbeat_seq[j]
      /\ heartbeat_seq'[i] \in {h + 1, h + 2}
  BY <1>7, <1>8
<1>10. ASSUME NEW r \in rounds'
       PROVE  /\ r.msg.from \in Node /\ r.msg.term \in Nat /\ r.seq \in Nat
              /\ Elected(r.msg.from, r.msg.term)'
              /\ state'[r.msg.from] = Leader /\ r.msg.term = current_term'[r.msg.from]
                   => r.seq <= heartbeat_seq'[r.msg.from]
  <2>1. CASE r \in rounds
    <3>1. /\ r.msg.from \in Node /\ r.msg.term \in Nat /\ r.seq \in Nat
          /\ Elected(r.msg.from, r.msg.term)
      BY <2>1 DEF RoundsNumbered
    <3>2. Elected(r.msg.from, r.msg.term)'
      BY <1>3, <3>1 DEF Elected
    <3>3. r.msg.term # t
      BY <1>2, <3>1 DEF Elected
    <3>4. CASE r.msg.from = i
      BY <1>3, <3>1, <3>2, <3>3, <3>4
    <3>5. CASE r.msg.from # i
      <4>1. /\ state'[r.msg.from] = state[r.msg.from]
            /\ current_term'[r.msg.from] = current_term[r.msg.from]
        BY <1>1, <3>1, <3>5 DEF RaftInv, TypeOK
      <4> QED
        BY <1>9, <2>1, <3>1, <3>2, <3>5, <4>1 DEF RoundsNumbered
    <3> QED
      BY <3>4, <3>5
  <2>2. CASE r \notin rounds
    <3>1. /\ r.msg.from = i /\ r.msg.term = t
          /\ r.seq \in {h + 1, h + 2} /\ r.seq <= heartbeat_seq'[i]
      <4>1. CASE /\ heartbeat_seq' = [heartbeat_seq EXCEPT ![i] = h + 1]
                 /\ rounds' = rounds \cup Tagged(first, h + 1)
        <5>1. r.msg \in first /\ r.seq = h + 1
          BY <2>2, <4>1 DEF Tagged
        <5> QED
          BY <1>6, <4>1, <5>1
      <4>2. CASE /\ heartbeat_seq' = [heartbeat_seq EXCEPT ![i] = h + 1 + 1]
                 /\ rounds' = rounds \cup Tagged(first, h + 1) \cup Tagged(second, h + 1 + 1)
        <5>1. r.msg \in first \cup second /\ r.seq \in {h + 1, h + 1 + 1}
          BY <2>2, <4>2 DEF Tagged
        <5> QED
          BY <1>6, <4>2, <5>1
      <4> QED
        BY <1>7, <1>8, <4>1, <4>2
    <3> QED
      BY <1>3, <3>1
  <2> QED
    BY <2>1, <2>2
<1> QED
  BY <1>9, <1>10 DEF RoundsNumbered

\* A step that makes no leader but may raise a node's term.
LEMMA NoLeaderRounds ==
  ASSUME RoundsNumbered, UNCHANGED <<seqVars, elections>>, RaftInv, NEW i \in Node,
         \A j \in Node \ {i} : state'[j] = state[j] /\ current_term'[j] = current_term[j],
         state'[i] # Leader \/ UNCHANGED <<state, current_term>>
  PROVE  RoundsNumbered'
<1>1. \A j, t : Elected(j, t)' <=> Elected(j, t)
  BY DEF Elected
<1>2. ASSUME NEW r \in rounds, state'[r.msg.from] = Leader
      PROVE  /\ state[r.msg.from] = Leader
             /\ current_term'[r.msg.from] = current_term[r.msg.from]
  BY <1>2 DEF RoundsNumbered
<1> QED
  BY <1>1, <1>2 DEF RoundsNumbered, seqVars

\* The calls that may make a leader.
LEMMA StandRounds ==
  ASSUME RaftInv, RaftInv', heartbeat_seq \in [Node -> Nat], RoundsNumbered, NEW i \in Node, Stand(i)
  PROVE  RoundsNumbered' /\ heartbeat_seq' \in [Node -> Nat]
<1>0. current_term[i] \in Nat
  BY DEF RaftInv, TypeOK
<1>1. ASSUME NEW t \in Nat, NEW S, BecomeLeader(i, t, S),
             (t = current_term[i] /\ state[i] = Candidate) \/ t = current_term[i] + 1,
             current_term' = [current_term EXCEPT ![i] = t]
      PROVE  RoundsNumbered' /\ heartbeat_seq' \in [Node -> Nat]
  <2>1. elections' # elections
    <3>1. [term |-> t, leader |-> i, voters |-> S] \in elections'
      BY <1>1 DEF BecomeLeader
    <3>2. \A e \in elections : e.term # t
      BY <1>1, TermIsNew DEF RaftInv, ElectedIn
    <3> QED
      BY <3>1, <3>2
  <2>2. LeaderRounds(i)
    BY <2>1 DEF Stand
  <2> QED
    BY <1>1, <2>2, LeaderRoundsSent
<1>2. ASSUME UNCHANGED elections,
             \A j \in Node \ {i} : state'[j] = state[j] /\ current_term'[j] = current_term[j],
             state'[i] # Leader \/ UNCHANGED <<state, current_term>>
      PROVE  RoundsNumbered' /\ heartbeat_seq' \in [Node -> Nat]
  <2>1. UNCHANGED seqVars
    BY <1>2 DEF Stand
  <2> QED
    BY <1>2, <2>1, NoLeaderRounds DEF seqVars
<1>3. CASE BecomeCandidate(i)
  <2>1. current_term' = [current_term EXCEPT ![i] = current_term[i] + 1]
    BY <1>3 DEF BecomeCandidate
  <2>2. CASE IsQuorum({i})
    <3>1. BecomeLeader(i, current_term[i] + 1, {i})
      BY <1>3, <2>2 DEF BecomeCandidate
    <3>2. PICK t \in Nat : t = current_term[i] + 1
      BY <1>0
    <3>3. BecomeLeader(i, t, {i}) /\ current_term' = [current_term EXCEPT ![i] = t]
      BY <2>1, <3>1, <3>2
    <3> QED
      BY <1>1, <3>2, <3>3
  <2>3. CASE ~IsQuorum({i})
    <3>1. state' = [state EXCEPT ![i] = Candidate] /\ UNCHANGED elections
      BY <1>3, <2>3 DEF BecomeCandidate
    <3>2. state'[i] # Leader
      BY <3>1 DEF RaftInv, TypeOK, Candidate, Leader
    <3>3. \A j \in Node \ {i} : state'[j] = state[j] /\ current_term'[j] = current_term[j]
      BY <2>1, <3>1 DEF RaftInv, TypeOK
    <3> QED
      BY <1>2, <3>1, <3>2, <3>3
  <2> QED
    BY <2>2, <2>3
<1>4. CASE TickElection(i)
  <2>1. BecomeCandidate(i) \/ StartPrevote(i)
    BY <1>4 DEF TickElection
  <2>2. CASE StartPrevote(i)
    <3>1. UNCHANGED <<elections, state, current_term>>
      BY <2>2 DEF StartPrevote
    <3>2. \A j \in Node \ {i} : state'[j] = state[j] /\ current_term'[j] = current_term[j]
      BY <3>1
    <3> QED
      BY <1>2, <3>1, <3>2
  <2> QED
    BY <1>3, <2>1, <2>2
<1>5. ASSUME NEW m \in msgs, m.to = i, RecvPrevoteReply(m)
      PROVE  RoundsNumbered' /\ heartbeat_seq' \in [Node -> Nat]
  BY <1>2, <1>3, <1>5 DEF RecvPrevoteReply
<1>6. ASSUME NEW m \in msgs, m.to = i, RecvVoteReply(m)
      PROVE  RoundsNumbered' /\ heartbeat_seq' \in [Node -> Nat]
  <2>1. state[i] = Candidate /\ UNCHANGED current_term
    BY <1>6 DEF RecvVoteReply
  <2>2. current_term' = [current_term EXCEPT ![i] = current_term[i]]
    BY <2>1 DEF RaftInv, TypeOK
  <2>3. \/ BecomeLeader(i, current_term[i], votes_for_me[i] \cup {m.from})
        \/ UNCHANGED <<state, elections>>
    BY <1>6 DEF RecvVoteReply
  <2> QED
    BY <1>0, <1>1, <1>2, <2>1, <2>2, <2>3
<1> QED
  BY <1>4, <1>5, <1>6 DEF Stand

\* Acknowledgements stay acknowledgements of rounds.
LEMMA SameAcks ==
  ASSUME AcksOfRounds, UNCHANGED acked, rounds \subseteq rounds'
  PROVE  AcksOfRounds'
  BY DEF AcksOfRounds

\* What an acknowledgement adds: sent in a term its sender was in, for a round.
LEMMA AckAdded ==
  ASSUME RaftInv, RoundsInv, NEW r \in rounds, r.msg \in msgs, Acknowledge(r)
  PROVE  /\ AcksOfRounds'
         /\ \A a \in acked' \ acked :
              a.msg.from \in Node /\ a.msg.term = current_term[a.msg.from]
<1> DEFINE m == r.msg
           new(n) == [msg |-> AppendReply(m, TRUE, n, 0, 0), seq |-> r.seq]
<1>1. m.to \in Node /\ m.from \in Node /\ current_term[m.to] \in Nat /\ m.term >= current_term[m.to]
  BY MessageFields DEF RaftInv, TypeOK, Acknowledge, AcceptAppend, RecognizeLeader
<1>2. PICK n : acked' = acked \cup {new(n)}
  BY DEF Acknowledge, Tagged
<1>3. PICK b : b = new(n)
  OBVIOUS
<1>4. /\ b.seq = r.seq /\ b.msg.from = m.to /\ b.msg.to = m.from
      /\ b.msg.term = current_term[m.to]
  BY <1>3 DEF AppendReply
<1>5. acked' = acked \cup {b}
  BY <1>2, <1>3
<1> HIDE DEF new
<1>6. UNCHANGED rounds
  BY DEF Acknowledge, seqVars
<1>7. ASSUME NEW a \in acked'
      PROVE  /\ a.msg.from \in Node /\ a.msg.term \in Nat
             /\ \E q \in rounds :
                  a.seq = q.seq /\ a.msg.to = q.msg.from /\ a.msg.term <= q.msg.term
  <2>1. CASE a \in acked
    BY <2>1 DEF RoundsInv, AcksOfRounds
  <2>2. CASE a = b
    BY <1>1, <1>4, <2>2
  <2> QED
    BY <1>5, <2>1, <2>2
<1>8. AcksOfRounds'
  BY <1>6, <1>7 DEF AcksOfRounds
<1> QED
  BY <1>1, <1>4, <1>5, <1>8

\* The acknowledgements that a leader's read may count are of rounds yet to come.
LEMMA NoAckYet ==
  ASSUME RaftInv, RoundsInv, NEW i \in Node, state[i] = Leader,
         NEW a \in acked, a.msg.to = i, a.msg.term = current_term[i]
  PROVE  a.seq <= heartbeat_seq[i] /\ ~(a.seq >= RequiredSeq(i))
<1>1. PICK r \in rounds : a.seq = r.seq /\ i = r.msg.from /\ current_term[i] <= r.msg.term
  BY DEF RoundsInv, AcksOfRounds
<1>2. /\ r.msg.term \in Nat /\ r.seq \in Nat /\ Elected(i, r.msg.term)
      /\ r.msg.term = current_term[i] => r.seq <= heartbeat_seq[i]
  BY <1>1 DEF RoundsInv, RoundsNumbered
<1>3. current_term[i] \in Nat /\ heartbeat_seq[i] \in Nat
  BY DEF RaftInv, TypeOK, RoundsInv
<1>4. current_term[i] >= r.msg.term
  BY <1>2 DEF RaftInv, ElectionInv, ElectionIsGranted, Elected
<1>5. a.seq <= heartbeat_seq[i] /\ a.seq \in Nat
  BY <1>1, <1>2, <1>3, <1>4
<1> QED
  BY <1>3, <1>5 DEF RequiredSeq
-----------------------------------------------------------------------------
(***************************************************************************)
(* What stays safe.                                                        *)
(***************************************************************************)
KeepsSafe ==
  /\ \A q : WasAsked(q) => WasAsked(q)'
  /\ \A i \in Node, p \in Read : PendingSafe(i, p) => PendingSafe(i, p)'
  /\ \A c : AnswerSafe(c) => AnswerSafe(c)'

\* A step without acknowledgement and request.
LEMMA SafeUnasked ==
  ASSUME UNCHANGED <<asked, acked>>, elections \subseteq elections'
  PROVE  KeepsSafe
<1>1. ASSUME NEW i \in Node, NEW p \in Read, PendingSafe(i, p)
      PROVE  PendingSafe(i, p)'
  <2>1. \A e \in elections : OutOfReach(i, p, e) => e \in elections' /\ OutOfReach(i, p, e)'
    BY DEF OutOfReach
  <2> QED
    BY <1>1, <2>1 DEF PendingSafe, WasAsked
<1> QED
  BY <1>1 DEF KeepsSafe, WasAsked, AnswerSafe

\* An acknowledgement carries a term its sender is in, so none comes from a voter
\* of a later election.
LEMMA SafeAcknowledged ==
  ASSUME RaftInv, UNCHANGED <<asked, elections>>,
         \A a \in acked' \ acked : a.msg.from \in Node /\ a.msg.term = current_term[a.msg.from]
  PROVE  KeepsSafe
<1>1. ASSUME NEW i \in Node, NEW p \in Read, NEW e \in elections, OutOfReach(i, p, e)
      PROVE  OutOfReach(i, p, e)'
  <2>1. p.term \in Nat /\ e.term \in Nat
    BY DEF Read, RaftInv, TypeOK
  <2>2. ASSUME NEW a \in acked' \ acked, a.msg.term = p.term
        PROVE  a.msg.from \notin e.voters
    <3>1. a.msg.from \in Node /\ current_term[a.msg.from] = p.term
      BY <2>2
    <3>2. p.term < e.term
      BY <1>1, <2>1 DEF OutOfReach
    <3> QED
      BY <2>1, <3>1, <3>2 DEF RaftInv, ElectionIsBacked
  <2> QED
    BY <1>1, <2>2 DEF OutOfReach
<1>2. ASSUME NEW i \in Node, NEW p \in Read, PendingSafe(i, p)
      PROVE  PendingSafe(i, p)'
  BY <1>1, <1>2 DEF PendingSafe, WasAsked
<1> QED
  BY <1>2 DEF KeepsSafe, WasAsked, AnswerSafe

\* A new request has an id of its own, which no read or answer bears yet.
LEMMA SafeAsked ==
  ASSUME UNCHANGED <<acked, elections>>, NEW n, asked' = asked \cup {n},
         \A a \in asked : a.req # n.req
  PROVE  KeepsSafe
<1>1. ASSUME NEW i \in Node, NEW p \in Read, PendingSafe(i, p)
      PROVE  PendingSafe(i, p)'
  <2>1. p.req # n.req
    BY <1>1 DEF PendingSafe, WasAsked
  <2>2. \A e \in elections : OutOfReach(i, p, e) => OutOfReach(i, p, e)'
    BY DEF OutOfReach
  <2> QED
    BY <1>1, <2>1, <2>2 DEF PendingSafe, WasAsked
<1> QED
  BY <1>1 DEF KeepsSafe, WasAsked, AnswerSafe

\* Pending reads that stay, and one node's that change to safe ones.
LEMMA PendingStay ==
  ASSUME PendingInv, KeepsSafe, UNCHANGED pending_reads
  PROVE  PendingInv'
<1> SUFFICES ASSUME NEW i \in Node, NEW s \in Slot, pending_reads[i][s] # Free
             PROVE  PendingSafe(i, pending_reads[i][s])'
  BY DEF PendingInv
<1>1. PICK p \in Read : p = pending_reads[i][s]
  BY DEF PendingInv
<1>2. PendingSafe(i, p)'
  BY <1>1 DEF PendingInv, KeepsSafe
<1> QED
  BY <1>1, <1>2

\* The slots of one node change, to reads that are safe.
LEMMA PendingRow ==
  ASSUME PendingInv, KeepsSafe, NEW i \in Node, NEW row \in [Slot -> Read \cup {Free}],
         pending_reads' = [pending_reads EXCEPT ![i] = row],
         \A s \in Slot : row[s] # Free => PendingSafe(i, row[s])'
  PROVE  PendingInv'
<1>1. pending_reads' \in [Node -> [Slot -> Read \cup {Free}]]
  BY DEF PendingInv
<1>2. ASSUME NEW j \in Node, NEW s \in Slot, NEW p, p = pending_reads'[j][s], p # Free
      PROVE  PendingSafe(j, p)'
  <2>1. CASE j = i
    <3>1. p = row[s]
      BY <1>2, <2>1 DEF PendingInv
    <3> QED
      BY <1>2, <2>1, <3>1
  <2>2. CASE j # i
    <3>1. p = pending_reads[j][s] /\ p \in Read
      BY <1>2, <2>2 DEF PendingInv
    <3>2. PendingSafe(j, p)
      BY <1>2, <3>1 DEF PendingInv
    <3> QED
      BY <3>1, <3>2 DEF KeepsSafe
  <2> QED
    BY <2>1, <2>2
<1> QED
  BY <1>1, <1>2 DEF PendingInv

\* The term noted with a request is that of an election, or 0.
LEMMA AskedTerm ==
  ASSUME RaftInv, AskedInv, NEW q
  PROVE  /\ Asked(q).term \in Nat
         /\ Asked(q).term > 0 => \E e \in elections : e.term = Asked(q).term
<1> DEFINE T == {0} \cup {e.term : e \in elections}
<1>1. PICK b \in Nat : \A e \in elections : e.term <= b
  BY DEF AskedInv
<1>2. T \in SUBSET Nat /\ T # {} /\ \A k \in T : k <= b
  BY <1>1 DEF RaftInv, TypeOK
<1>3. Greatest(T) \in T
  <2> HIDE DEF T
  <2> QED BY <1>2, GreatestElement
<1>4. Asked(q).term = Greatest(T)
  BY DEF Asked
<1>5. Greatest(T) \in Nat
  <2> HIDE DEF T
  <2> QED BY <1>2, <1>3
<1>6. Greatest(T) > 0 => \E e \in elections : e.term = Greatest(T)
  <2> SUFFICES ASSUME Greatest(T) > 0 PROVE \E e \in elections : e.term = Greatest(T)
    OBVIOUS
  <2>1. PICK g : g = Greatest(T)
    OBVIOUS
  <2>2. g > 0 /\ g \in T
    BY <1>3, <2>1
  <2>3. \E e \in elections : e.term = g
    BY <2>2
  <2> HIDE DEF T
  <2> QED
    BY <2>1, <2>3
<1> QED
  BY <1>4, <1>5, <1>6

\* Elections are added one at a time.
LEMMA SameAsked ==
  ASSUME RaftInv', AskedInv, UNCHANGED asked,
         UNCHANGED elections \/ \E e : elections' = elections \cup {e}
  PROVE  AskedInv'
<1>1. elections \subseteq elections'
  OBVIOUS
<1>2. \A a \in asked' : a.term \in Nat /\ (a.term > 0 => \E e \in elections' : e.term = a.term)
  BY <1>1 DEF AskedInv
<1>3. PICK b \in Nat : \A e \in elections : e.term <= b
  BY DEF AskedInv
<1>4. \E c \in Nat : \A e \in elections' : e.term <= c
  <2>1. CASE UNCHANGED elections
    BY <1>3, <2>1
  <2>2. ASSUME NEW e, elections' = elections \cup {e}
        PROVE  \E c \in Nat : \A d \in elections' : d.term <= c
    <3>1. e.term \in Nat /\ \A d \in elections' : d.term \in Nat
      BY <2>2 DEF RaftInv, TypeOK
    <3>2. PICK c \in Nat : c = b + e.term
      BY <3>1
    <3>3. \A d \in elections' : d.term <= c
      BY <1>3, <2>2, <3>1, <3>2
    <3> QED
      BY <3>3
  <2> QED
    BY <2>1, <2>2
<1> QED
  BY <1>2, <1>4 DEF AskedInv

\* A request notes the latest election there was.
LEMMA NewAsked ==
  ASSUME RaftInv, AskedInv, NEW q, asked' = asked \cup {Asked(q)}, UNCHANGED elections
  PROVE  AskedInv'
<1>1. PICK n : n = Asked(q)
  OBVIOUS
<1>2. n.term \in Nat /\ (n.term > 0 => \E e \in elections : e.term = n.term)
  BY <1>1, AskedTerm
<1>3. asked' = asked \cup {n}
  BY <1>1
<1> QED
  BY <1>2, <1>3 DEF AskedInv
-----------------------------------------------------------------------------
(***************************************************************************)
(* Queueing, confirming and answering.                                     *)
(***************************************************************************)
\* A read that a leader queues is safe: if it comes too late, the voters of the
\* later election have acknowledged none of the rounds that will count.
LEMMA QueueSafe ==
  ASSUME RaftInv, RoundsInv, AskedInv', PendingInv, KeepsSafe, NEW i \in Node, state[i] = Leader,
         NEW q \in Request, NEW from \in Node \cup {None}, Queue(i, q, from),
         UNCHANGED <<acked, elections>>, WasAsked(q)'
  PROVE  PendingInv'
<1>1. PICK p : p = [req |-> q, from |-> from, term |-> current_term[i], acks |-> {i},
                    required_seq |-> RequiredSeq(i)]
  OBVIOUS
<1>20. current_term[i] \in Nat
  BY DEF RaftInv, TypeOK
<1>21. RequiredSeq(i) \in Nat
  BY DEF RequiredSeq, RoundsInv
<1>2. /\ p \in Read /\ p.req = q /\ p.term = current_term[i] /\ p.acks = {i}
      /\ p.required_seq = RequiredSeq(i) /\ p.term \in Nat
  BY <1>1, <1>20, <1>21 DEF Read
<1>3. ASSUME NEW e \in elections, e.term > p.term
      PROVE  OutOfReach(i, p, e)'
  <2>1. e.term \in Nat
    BY DEF RaftInv, TypeOK
  <2>2. i \notin e.voters
    BY <1>2, <1>3, <2>1 DEF RaftInv, ElectionIsBacked
  <2>3. \A a \in acked : ~(a.msg.to = i /\ a.msg.term = p.term /\ a.seq >= p.required_seq)
    BY <1>2, NoAckYet
  <2> QED
    BY <1>2, <1>3, <2>2, <2>3 DEF OutOfReach
<1>4. ASSUME NEW a \in asked', a.req = p.req, a.term > p.term
      PROVE  \E e \in elections' : OutOfReach(i, p, e)'
  <2>1. a.term \in Nat /\ a.term > 0
    BY <1>2, <1>4 DEF AskedInv
  <2>2. PICK e \in elections' : e.term = a.term
    BY <2>1 DEF AskedInv
  <2> QED
    BY <1>3, <1>4, <2>2
<1>5. PendingSafe(i, p)'
  BY <1>2, <1>4 DEF PendingSafe
<1>6. PICK s : pending_reads' = [pending_reads EXCEPT ![i][s] = p]
  BY <1>1 DEF Queue
<1>7. PICK row : row = [pending_reads[i] EXCEPT ![s] = p]
  OBVIOUS
<1>8. /\ row \in [Slot -> Read \cup {Free}]
      /\ \A k \in Slot : row[k] = p \/ row[k] = pending_reads[i][k]
      /\ pending_reads' = [pending_reads EXCEPT ![i] = row]
  BY <1>2, <1>6, <1>7 DEF PendingInv
<1>9. ASSUME NEW k \in Slot, row[k] # Free PROVE PendingSafe(i, row[k])'
  <2>1. CASE row[k] = p
    BY <1>5, <2>1
  <2>2. CASE row[k] # p
    <3>1. PICK o \in Read : o = pending_reads[i][k] /\ o = row[k]
      BY <1>8, <1>9, <2>2
    <3>2. PendingSafe(i, o)
      BY <1>9, <3>1 DEF PendingInv
    <3>3. PendingSafe(i, o)'
      BY <3>2 DEF KeepsSafe
    <3> QED
      BY <3>1, <3>3
  <2> QED
    BY <2>1, <2>2
<1> QED
  BY <1>8, <1>9, PendingRow

\* Answers that are safe may go out, to the client or to the node that asked.
LEMMA DeliverSafe ==
  ASSUME AnswersInv, KeepsSafe, NEW i, NEW as, Deliver(i, as), \A x \in as : AnswerSafe(x[2])'
  PROVE  AnswersInv'
<1>1. ASSUME NEW c \in completed' PROVE AnswerSafe(c)'
  <2>1. CASE c \in completed
    BY <2>1 DEF AnswersInv, KeepsSafe
  <2>2. CASE c \notin completed
    <3>1. PICK x \in as : c = x[2]
      BY <2>2 DEF Deliver
    <3> QED
      BY <3>1
  <2> QED
    BY <2>1, <2>2
<1>2. ASSUME NEW m \in read_msgs' PROVE ReadMessageSafe(m)'
  <2>1. CASE m \in read_msgs
    BY <2>1 DEF AnswersInv, KeepsSafe, ReadMessageSafe
  <2>2. CASE m \notin read_msgs
    <3>1. PICK x \in as : m = Response(x[1], x[2])
      BY <2>2 DEF Deliver
    <3>2. m.type = "ReadResponse" /\ m.answer = x[2]
      BY <3>1 DEF Response
    <3> QED
      BY <3>2 DEF ReadMessageSafe
  <2> QED
    BY <2>1, <2>2
<1> QED
  BY <1>1, <1>2 DEF AnswersInv

\* A step that sends no answer.
LEMMA AnswersStay ==
  ASSUME AnswersInv, KeepsSafe, UNCHANGED <<read_msgs, completed>>
  PROVE  AnswersInv'
  BY DEF AnswersInv, KeepsSafe, ReadMessageSafe

\* A safe read that a quorum confirmed was asked for of a leader in good time: the
\* voters of a later election would be a quorum without a node in common with it.
LEMMA ConfirmedInTime ==
  ASSUME RaftInv, NEW i \in Node, NEW p \in Read, PendingSafe(i, p), IsQuorum(p.acks)
  PROVE  \A a \in asked : a.req = p.req => ~(a.term > p.term)
<1> SUFFICES ASSUME NEW a \in asked, a.req = p.req, a.term > p.term PROVE FALSE
  OBVIOUS
<1>1. PICK e \in elections : OutOfReach(i, p, e)
  BY DEF PendingSafe
<1>2. e.voters \in SUBSET Node /\ p.acks \in SUBSET Node /\ IsQuorum(e.voters)
  BY DEF RaftInv, TypeOK, ElectionIsBacked, Read
<1>3. e.voters \cap p.acks # {}
  BY <1>2, QuorumsIntersect
<1> QED
  BY <1>1, <1>3 DEF OutOfReach

\* An acknowledgement of a round that counts for a read is not from a voter of a
\* later election.
LEMMA NoteAck ==
  ASSUME NEW i \in Node, NEW p \in Read, PendingSafe(i, p),
         NEW a \in acked, a.msg.from \in Node, a.msg.to = i, a.msg.term = p.term,
         a.seq >= p.required_seq
  PROVE  /\ [p EXCEPT !.acks = @ \cup {a.msg.from}] \in Read
         /\ PendingSafe(i, [p EXCEPT !.acks = @ \cup {a.msg.from}])
<1>1. PICK n : n = [p EXCEPT !.acks = @ \cup {a.msg.from}]
  OBVIOUS
<1>2. /\ n \in Read /\ n.req = p.req /\ n.term = p.term /\ n.required_seq = p.required_seq
      /\ n.acks = p.acks \cup {a.msg.from}
  BY <1>1 DEF Read
<1>3. ASSUME NEW e \in elections, OutOfReach(i, p, e) PROVE OutOfReach(i, n, e)
  BY <1>2, <1>3 DEF OutOfReach
<1>4. PendingSafe(i, n)
  BY <1>2, <1>3 DEF PendingSafe
<1> QED
  BY <1>1, <1>2, <1>4

\* raft_readindex_record_ack and raft_readindex_check_quorum.
LEMMA ConfirmSafe ==
  ASSUME RaftInv, ReadInv, AskedInv', NEW a \in acked, a.msg \in msgs, Confirm(a)
  PROVE  PendingInv' /\ AnswersInv'
<1> DEFINE i == a.msg.to
           peer == a.msg.from
           mine(p) == p.term = current_term[i]
           noted(p) == IF p # Free /\ mine(p) /\ a.seq >= p.required_seq
                       THEN [p EXCEPT !.acks = @ \cup {peer}] ELSE p
           after == [s \in Slot |-> noted(pending_reads[i][s])]
           ended == {s \in Slot : after[s] # Free /\ (~mine(after[s]) \/ IsQuorum(after[s].acks))}
           result(p) == IF mine(p) THEN Answer(p.req, i, p.term, commit_index[i], "OK")
                        ELSE Answer(p.req, i, p.term, 0, "STALE_TERM")
           kept == [s \in Slot |-> IF s \in ended THEN Free ELSE after[s]]
           answers == {<<after[s].from, result(after[s])>> : s \in ended}
<1>1. /\ i \in Node /\ peer \in Node /\ a.msg.term = current_term[i]
      /\ UNCHANGED <<asked, acked, elections>>
  BY MessageFields DEF RaftInv, Confirm, RecvAppendSuccess
<1>2. KeepsSafe
  BY <1>1, SafeUnasked, SMTT(30)
<1>3. pending_reads' = [pending_reads EXCEPT ![i] = kept] /\ Deliver(i, answers)
  BY DEF Confirm, RecordAck
<1>4. ASSUME NEW s \in Slot
      PROVE  after[s] \in Read \cup {Free} /\ (after[s] # Free => PendingSafe(i, after[s]))
  <2>1. PICK p : p = pending_reads[i][s]
    OBVIOUS
  <2>2. after[s] = noted(p)
    BY <2>1
  <2>3. p \in Read \cup {Free} /\ (p # Free => PendingSafe(i, p))
    BY <1>1, <2>1 DEF ReadInv, PendingInv
  <2>4. CASE p # Free /\ mine(p) /\ a.seq >= p.required_seq
    <3>1. noted(p) = [p EXCEPT !.acks = @ \cup {peer}]
      BY <2>4
    <3>2. p \in Read /\ PendingSafe(i, p) /\ a.msg.term = p.term
      BY <1>1, <2>3, <2>4
    <3>3. noted(p) \in Read /\ PendingSafe(i, noted(p))
      BY <1>1, <2>4, <3>1, <3>2, NoteAck
    <3> HIDE DEF noted, after
    <3> QED
      BY <2>2, <3>3
  <2>5. CASE ~(p # Free /\ mine(p) /\ a.seq >= p.required_seq)
    <3>1. after[s] = p
      BY <2>2, <2>5
    <3> HIDE DEF after
    <3> QED
      BY <2>3, <3>1
  <2> QED
    BY <2>4, <2>5
<1> HIDE DEF noted, after
<1>5. PendingInv'
  <2>1. PICK row : row = kept
    OBVIOUS
  <2>2. /\ row \in [Slot -> Read \cup {Free}]
        /\ \A s \in Slot : row[s] # Free => PendingSafe(i, row[s])
    BY <1>4, <2>1
  <2>3. \A s \in Slot : row[s] # Free => PendingSafe(i, row[s])'
    <3>1. ASSUME NEW s \in Slot, NEW p \in Read, p = row[s], row[s] # Free
          PROVE  PendingSafe(i, p)'
      BY <1>1, <1>2, <2>2, <3>1 DEF KeepsSafe
    <3> QED
      BY <2>2, <3>1
  <2>4. PICK n \in Node : n = i
    BY <1>1
  <2>5. pending_reads' = [pending_reads EXCEPT ![n] = row] /\ PendingInv
    BY <1>3, <2>1, <2>4 DEF ReadInv
  <2>6. \A s \in Slot : row[s] # Free => PendingSafe(n, row[s])'
    BY <2>3, <2>4
  <2> HIDE DEF i, kept
  <2> QED
    BY <1>2, <2>2, <2>5, <2>6, PendingRow
<1>6. AnswersInv'
  <2>1. ASSUME NEW s \in ended PROVE AnswerSafe(result(after[s]))
    <3>1. PICK p : p = after[s]
      OBVIOUS
    <3>2. p \in Read /\ PendingSafe(i, p) /\ (mine(p) => IsQuorum(p.acks))
      BY <1>4, <3>1
    <3>3. PICK c : c = result(p)
      OBVIOUS
    <3>4. c.req = p.req /\ c.term = p.term /\ (c.err = "OK" => mine(p))
      BY <3>3 DEF Answer
    <3>5. ASSUME NEW q \in asked, c.req = q.req, c.err = "OK"
          PROVE  c.term >= q.term
      <4>1. ~(q.term > p.term)
        BY <1>1, <3>2, <3>4, <3>5, ConfirmedInTime
      <4>2. q.term \in Nat /\ p.term \in Nat
        BY <3>2 DEF Read, ReadInv, AskedInv
      <4> QED
        BY <3>4, <4>1, <4>2
    <3>6. AnswerSafe(c)
      BY <3>2, <3>4, <3>5 DEF AnswerSafe, PendingSafe
    <3> QED
      BY <3>1, <3>3, <3>6
  <2>2. PICK as : as = answers
    OBVIOUS
  <2>3. ASSUME NEW x \in as PROVE AnswerSafe(x[2])'
    <3>1. PICK s \in ended : x = <<after[s].from, result(after[s])>>
      BY <2>2
    <3>2. PICK c : c = result(after[s])
      OBVIOUS
    <3>3. AnswerSafe(c) /\ x[2] = c
      BY <2>1, <3>1, <3>2
    <3>4. AnswerSafe(c)'
      BY <1>2, <3>3 DEF KeepsSafe
    <3> QED
      BY <3>3, <3>4
  <2>4. AnswersInv /\ \E n : Deliver(n, as)
    BY <1>3, <2>2 DEF ReadInv
  <2> QED
    BY <1>2, <2>3, <2>4, DeliverSafe
<1> QED
  BY <1>5, <1>6

\* raft_request_read_index_async.
LEMMA AskSafe ==
  ASSUME RaftInv, ReadInv, NEW i \in Node, NEW q \in Request, AskLeader(i, q) \/ AskFollower(i, q)
  PROVE  ReadInv'
<1>1. PICK n : n = Asked(q) /\ n.req = q
  <2>1. \E t, c : Asked(q) = [req |-> q, term |-> t, commit_index |-> c]
    BY DEF Asked
  <2>2. \A t, c : [req |-> q, term |-> t, commit_index |-> c].req = q
    OBVIOUS
  <2> QED
    BY <2>1, <2>2
<1>2. /\ asked' = asked \cup {n} /\ \A a \in asked : a.req # n.req
      /\ UNCHANGED <<acked, elections, state, current_term>>
  BY <1>1 DEF AskLeader, AskFollower, SendRound, vars, voteVars
<1>3. KeepsSafe /\ AskedInv'
  <2>1. AskedInv'
    BY <1>1, <1>2, NewAsked DEF ReadInv
  <2> QED
    BY <1>2, <2>1, SafeAsked
<1>4. WasAsked(q)'
  BY <1>1, <1>2 DEF WasAsked
<1>5. CASE AskLeader(i, q) /\ Node = {i}
  <2>1. PICK c : c = Answer(q, i, current_term[i], commit_index[i], "OK")
    OBVIOUS
  <2>2. PICK as : as = {<<None, c>>}
    OBVIOUS
  <2>3. /\ Deliver(i, as) /\ UNCHANGED <<seqVars, acked, pending_reads, vars>>
    BY <1>5, <2>1, <2>2 DEF AskLeader
  <2>4. c.req = q /\ c.term = current_term[i] /\ c.term \in Nat
    BY <2>1 DEF Answer, RaftInv, TypeOK
  <2>5. ASSUME NEW a \in asked', a.req = q PROVE c.term >= a.term
    <3>1. a.term \in Nat /\ (a.term > 0 => \E e \in elections : e.term = a.term)
      BY <1>2, <1>3 DEF AskedInv
    <3>2. \A e \in elections : e.term \in Nat /\ e.leader = i
      BY <1>5 DEF RaftInv, TypeOK
    <3>3. \A e \in elections : current_term[i] >= e.term
      BY <3>2 DEF RaftInv, ElectionInv, ElectionIsGranted
    <3> QED
      BY <2>4, <3>1, <3>3
  <2>6. AnswerSafe(c)'
    BY <1>4, <2>4, <2>5 DEF AnswerSafe
  <2>7. AnswersInv'
    <3>1. \A x \in as : x[2] = c
      BY <2>2
    <3>2. ASSUME NEW x \in as PROVE AnswerSafe(x[2])'
      BY <2>6, <3>1
    <3> QED
      BY <1>3, <2>3, <3>2, DeliverSafe DEF ReadInv
  <2>8. PendingInv'
    BY <1>3, <2>3, PendingStay DEF ReadInv
  <2>9. RoundsInv'
    <3>1. RolesStay /\ UNCHANGED seqVars /\ elections \subseteq elections'
      BY <1>2, <2>3 DEF RolesStay
    <3> QED
      BY <2>3, <3>1, SameRounds, SameAcks DEF ReadInv, RoundsInv, seqVars
  <2> QED
    BY <1>3, <2>7, <2>8, <2>9 DEF ReadInv
<1>6. CASE AskLeader(i, q) /\ Node # {i}
  <2>1. /\ state[i] = Leader /\ Queue(i, q, None) /\ Round(i)
        /\ UNCHANGED <<acked, read_msgs, completed>>
    BY <1>6 DEF AskLeader
  <2>2. PendingInv'
    <3>1. None \in Node \cup {None}
      OBVIOUS
    <3> QED
      BY <1>2, <1>3, <1>4, <2>1, <3>1, QueueSafe DEF ReadInv
  <2>3. AnswersInv'
    BY <1>3, <2>1, AnswersStay DEF ReadInv
  <2>4. RoundsInv'
    <3>1. RoundsNumbered' /\ heartbeat_seq' \in [Node -> Nat]
      BY <1>2, <2>1, RoundSent DEF ReadInv, RoundsInv
    <3>2. AcksOfRounds'
      BY <2>1, SameAcks DEF ReadInv, RoundsInv, Round
    <3> QED
      BY <3>1, <3>2 DEF RoundsInv
  <2> QED
    BY <1>3, <2>2, <2>3, <2>4 DEF ReadInv
<1>7. CASE AskFollower(i, q)
  <2>1. PICK m : m = [type |-> "ReadRequest", req |-> q, from |-> i, to |-> leader_id[i]]
    OBVIOUS
  <2>2. /\ read_msgs' = read_msgs \cup {m}
        /\ UNCHANGED <<seqVars, pending_reads, completed>>
    BY <1>7, <2>1 DEF AskFollower
  <2>3. leader_id[i] \in Node
    BY <1>7 DEF AskFollower, RaftInv, TypeOK
  <2>4. m.type = "ReadRequest" /\ m.req = q /\ m.from = i /\ m.to \in Node
    BY <2>1, <2>3
  <2>5. ReadMessageSafe(m)'
    BY <1>4, <2>4 DEF ReadMessageSafe
  <2>6. AnswersInv'
    BY <1>3, <2>2, <2>5 DEF ReadInv, AnswersInv, KeepsSafe, ReadMessageSafe
  <2>7. PendingInv'
    BY <1>3, <2>2, PendingStay DEF ReadInv
  <2>8. RoundsInv'
    <3>1. RolesStay /\ UNCHANGED seqVars /\ elections \subseteq elections'
      BY <1>2, <2>2 DEF RolesStay
    <3> QED
      BY <1>2, <3>1, SameRounds, SameAcks DEF ReadInv, RoundsInv, seqVars
  <2> QED
    BY <1>3, <2>6, <2>7, <2>8 DEF ReadInv
<1> QED
  BY <1>5, <1>6, <1>7

\* raft_recv_readindex and raft_recv_readindex_response.
LEMMA ReadMessagesSafe ==
  ASSUME RaftInv, RaftInv', ReadInv, NEW m \in read_msgs, RecvReadRequest(m) \/ RecvReadResponse(m)
  PROVE  ReadInv'
<1>1. UNCHANGED <<vars, seqVars, acked, asked>>
  BY DEF RecvReadRequest, RecvReadResponse
<1>2. UNCHANGED <<elections, state, current_term>>
  BY <1>1 DEF vars, voteVars
<1>3. KeepsSafe
  BY <1>1, <1>2, SafeUnasked
<1>4. AskedInv'
  BY <1>1, <1>2, SameAsked DEF ReadInv
<1>5. RoundsInv'
  <2>1. RolesStay /\ UNCHANGED seqVars /\ elections \subseteq elections'
    BY <1>1, <1>2 DEF RolesStay
  <2> QED
    BY <1>1, <2>1, SameRounds, SameAcks DEF ReadInv, RoundsInv, seqVars
<1>6. CASE RecvReadResponse(m)
  <2>1. AnswerSafe(m.answer)
    BY <1>6 DEF ReadInv, AnswersInv, ReadMessageSafe, RecvReadResponse
  <2>2. PICK c : c = m.answer
    OBVIOUS
  <2>3. AnswerSafe(c)'
    BY <1>3, <2>1, <2>2 DEF KeepsSafe
  <2>4. completed' = completed \cup {c} /\ UNCHANGED <<pending_reads, read_msgs>>
    BY <1>6, <2>2 DEF RecvReadResponse
  <2>5. AnswersInv'
    BY <1>3, <2>3, <2>4 DEF ReadInv, AnswersInv, KeepsSafe, ReadMessageSafe
  <2>6. PendingInv'
    BY <1>3, <2>4, PendingStay DEF ReadInv
  <2> QED
    BY <1>4, <1>5, <2>5, <2>6 DEF ReadInv
<1>7. CASE RecvReadRequest(m)
  <2> DEFINE i == m.to
  <2>1. m.req \in Request /\ m.from \in Node /\ i \in Node /\ WasAsked(m.req)
    BY <1>7 DEF ReadInv, AnswersInv, ReadMessageSafe, RecvReadRequest
  <2>2. PICK q \in Request : q = m.req
    BY <2>1
  <2>3. WasAsked(q)'
    BY <1>3, <2>1, <2>2 DEF KeepsSafe
  <2>4. ASSUME NEW t, NEW index, NEW err \in {"NOT_LEADER", "NOMEM"}, UNCHANGED pending_reads,
               Deliver(i, {<<m.from, Answer(m.req, i, t, index, err)>>})
        PROVE  PendingInv' /\ AnswersInv'
    <3>1. PICK c : c = Answer(m.req, i, t, index, err)
      OBVIOUS
    <3>2. c.req = q /\ c.err # "OK"
      BY <2>2, <2>4, <3>1 DEF Answer
    <3>3. AnswerSafe(c)'
      BY <2>3, <3>2 DEF AnswerSafe
    <3>4. PICK as : as = {<<m.from, c>>}
      OBVIOUS
    <3>5. Deliver(i, as) /\ \A x \in as : x[2] = c
      BY <2>4, <3>1, <3>4
    <3>6. ASSUME NEW x \in as PROVE AnswerSafe(x[2])'
      BY <3>3, <3>5
    <3> QED
      BY <1>3, <2>4, <3>5, <3>6, DeliverSafe, PendingStay DEF ReadInv
  <2>5. CASE state[i] = Leader /\ FreeSlots(i) # {}
    <3>1. Queue(i, q, m.from) /\ UNCHANGED <<read_msgs, completed>>
      BY <1>7, <2>2, <2>5 DEF RecvReadRequest
    <3>2. AnswersInv'
      BY <1>3, <3>1, AnswersStay DEF ReadInv
    <3>3. PICK n \in Node, from \in Node \cup {None} : n = i /\ from = m.from
      BY <2>1
    <3>4. state[n] = Leader /\ Queue(n, q, from)
      BY <2>5, <3>1, <3>3
    <3>5. PendingInv'
      BY <1>1, <1>2, <1>3, <1>4, <2>3, <3>4, QueueSafe DEF ReadInv
    <3> QED
      BY <1>4, <1>5, <3>2, <3>5 DEF ReadInv
  <2>6. CASE ~(state[i] = Leader /\ FreeSlots(i) # {})
    <3>1. /\ UNCHANGED pending_reads
          /\ \E t, index : \E err \in {"NOT_LEADER", "NOMEM"} :
               Deliver(i, {<<m.from, Answer(m.req, i, t, index, err)>>})
      BY <1>7, <2>6 DEF RecvReadRequest
    <3> QED
      BY <1>4, <1>5, <2>4, <3>1 DEF ReadInv
  <2> QED
    BY <2>5, <2>6
<1> QED
  BY <1>6, <1>7
-----------------------------------------------------------------------------
(***************************************************************************)
(* Every step preserves the invariant.                                     *)
(***************************************************************************)
\* A step without requests, answers and acknowledgements.
LEMMA QuietReads ==
  ASSUME RaftInv', ReadInv, UNCHANGED <<acked, readVars>>,
         heartbeat_seq' \in [Node -> Nat], RoundsNumbered', rounds \subseteq rounds',
         UNCHANGED elections \/ \E e : elections' = elections \cup {e}
  PROVE  ReadInv'
<1>1. KeepsSafe
  <2>1. elections \subseteq elections'
    OBVIOUS
  <2> QED
    BY <2>1, SafeUnasked DEF readVars
<1>2. AskedInv'
  BY SameAsked DEF readVars, ReadInv
<1>3. RoundsInv'
  BY SameAcks DEF ReadInv, RoundsInv
<1>4. PendingInv' /\ AnswersInv'
  BY <1>1, PendingStay, AnswersStay DEF readVars, ReadInv
<1> QED
  BY <1>2, <1>3, <1>4 DEF ReadInv

\* The calls that may make a leader make one at most.
LEMMA StandReads ==
  ASSUME RaftInv, RaftInv', ReadInv, NEW i \in Node, Stand(i)
  PROVE  ReadInv'
<1>1. RoundsNumbered' /\ heartbeat_seq' \in [Node -> Nat]
  BY StandRounds DEF ReadInv, RoundsInv
<1>2. rounds \subseteq rounds'
  BY DEF Stand, LeaderRounds, seqVars
<1>3. UNCHANGED elections \/ \E e : elections' = elections \cup {e}
  <2>1. ASSUME NEW t, NEW S, BecomeLeader(i, t, S) PROVE \E e : elections' = elections \cup {e}
    BY <2>1 DEF BecomeLeader
  <2>2. ASSUME BecomeCandidate(i) PROVE UNCHANGED elections \/ \E t, S : BecomeLeader(i, t, S)
    BY <2>2 DEF BecomeCandidate
  <2>3. \/ UNCHANGED elections
        \/ BecomeCandidate(i)
        \/ \E t, S : BecomeLeader(i, t, S)
    <3>1. CASE TickElection(i)
      BY <3>1 DEF TickElection, StartPrevote
    <3>2. ASSUME NEW m \in msgs, m.to = i, RecvPrevoteReply(m)
          PROVE  UNCHANGED elections \/ BecomeCandidate(i)
      BY <3>2 DEF RecvPrevoteReply
    <3>3. ASSUME NEW m \in msgs, m.to = i, RecvVoteReply(m)
          PROVE  UNCHANGED elections \/ \E t, S : BecomeLeader(i, t, S)
      <4>1. \/ BecomeLeader(i, current_term[i], votes_for_me[i] \cup {m.from})
            \/ UNCHANGED elections
        BY <3>3 DEF RecvVoteReply
      <4> QED
        BY <4>1
    <3> QED
      BY <3>1, <3>2, <3>3 DEF Stand
  <2> QED
    BY <2>1, <2>2, <2>3
<1> QED
  BY <1>1, <1>2, <1>3, QuietReads DEF Stand

\* A leader's round goes out with an append or by itself.
LEMMA BeatReads ==
  ASSUME RaftInv, RaftInv', ReadInv, NEW i \in Node, Beat(i)
  PROVE  ReadInv'
<1>1. state[i] = Leader /\ UNCHANGED <<state, current_term, elections>>
  BY DEF Beat, TickHeartbeat, Propose, ProposeBatch, MayPropose, voteVars
<1>2. RoundsNumbered' /\ heartbeat_seq' \in [Node -> Nat]
  BY <1>1, RoundSent DEF Beat, ReadInv, RoundsInv
<1>3. rounds \subseteq rounds' /\ UNCHANGED <<acked, readVars>>
  BY DEF Beat, Round
<1> QED
  BY <1>1, <1>2, <1>3, QuietReads

\* A new life forgets reads and counts from 0, as a follower.
LEMMA ForgetReads ==
  ASSUME RaftInv, RaftInv', ReadInv, NEW i \in Node, Forget(i)
  PROVE  ReadInv'
<1>1. Create(i)
  BY DEF Forget, Restart, CrashWhileVoting
<1>2. /\ state' = [state EXCEPT ![i] = Follower]
      /\ \E t : current_term' = [current_term EXCEPT ![i] = t]
      /\ UNCHANGED elections
  BY <1>1 DEF Create
<1>3. /\ heartbeat_seq' = [heartbeat_seq EXCEPT ![i] = 0]
      /\ UNCHANGED <<rounds, acked, read_msgs, asked, completed>>
  BY DEF Forget
<1>4. KeepsSafe
  BY <1>2, <1>3, SafeUnasked
<1>5. heartbeat_seq' \in [Node -> Nat]
  BY <1>3 DEF ReadInv, RoundsInv
<1>6. RoundsNumbered'
  <2>1. ASSUME NEW r \in rounds
        PROVE  /\ r.msg.from \in Node /\ r.msg.term \in Nat /\ r.seq \in Nat
               /\ Elected(r.msg.from, r.msg.term)
               /\ state'[r.msg.from] = Leader /\ r.msg.term = current_term'[r.msg.from]
                    => r.seq <= heartbeat_seq'[r.msg.from]
    <3>1. /\ r.msg.from \in Node /\ r.msg.term \in Nat /\ r.seq \in Nat
          /\ Elected(r.msg.from, r.msg.term)
      BY DEF ReadInv, RoundsInv, RoundsNumbered
    <3>2. CASE r.msg.from = i
      <4>1. state'[r.msg.from] # Leader
        BY <1>2, <3>2 DEF RaftInv, TypeOK, Leader, Follower
      <4> QED
        BY <3>1, <4>1
    <3>3. CASE r.msg.from # i
      <4>1. /\ state'[r.msg.from] = state[r.msg.from]
            /\ current_term'[r.msg.from] = current_term[r.msg.from]
            /\ heartbeat_seq'[r.msg.from] = heartbeat_seq[r.msg.from]
        BY <1>2, <1>3, <3>1, <3>3 DEF RaftInv, TypeOK, ReadInv, RoundsInv
      <4> QED
        BY <3>1, <4>1 DEF ReadInv, RoundsInv, RoundsNumbered
    <3> QED
      BY <3>2, <3>3
  <2>2. \A j, t : Elected(j, t)' <=> Elected(j, t)
    BY <1>2 DEF Elected
  <2> QED
    BY <1>3, <2>1, <2>2 DEF RoundsNumbered
<1>7. RoundsInv'
  BY <1>3, <1>5, <1>6, SameAcks DEF ReadInv, RoundsInv
<1>8. PendingInv'
  <2>1. PICK row : row = [s \in Slot |-> Free]
    OBVIOUS
  <2>2. row \in [Slot -> Read \cup {Free}] /\ \A s \in Slot : row[s] = Free
    BY <2>1
  <2>3. pending_reads' = [pending_reads EXCEPT ![i] = row]
    BY <2>1 DEF Forget
  <2> QED
    BY <1>4, <2>2, <2>3, PendingRow DEF ReadInv
<1>9. AnswersInv' /\ AskedInv'
  BY <1>2, <1>3, <1>4, AnswersStay, SameAsked DEF ReadInv
<1> QED
  BY <1>7, <1>8, <1>9 DEF ReadInv

\* The receiver of a round acknowledges it.
LEMMA AcknowledgeReads ==
  ASSUME RaftInv, RaftInv', ReadInv, NEW r \in rounds, r.msg \in msgs, Acknowledge(r)
  PROVE  ReadInv'
<1>1. RolesStay /\ UNCHANGED <<elections, seqVars, readVars>>
  BY RecognizeRoles DEF RaftInv, Acknowledge, AcceptAppend
<1>2. /\ AcksOfRounds'
      /\ \A a \in acked' \ acked :
           a.msg.from \in Node /\ a.msg.term = current_term[a.msg.from]
  BY AckAdded DEF ReadInv
<1>3. KeepsSafe
  BY <1>1, <1>2, SafeAcknowledged DEF readVars
<1>4. RoundsInv'
  BY <1>1, <1>2, SameRounds DEF ReadInv, RoundsInv, seqVars
<1> QED
  BY <1>1, <1>3, <1>4, PendingStay, AnswersStay, SameAsked DEF ReadInv, readVars

\* An acknowledgement counts for the reads of its round and may answer them.
LEMMA ConfirmReads ==
  ASSUME RaftInv, RaftInv', ReadInv, NEW a \in acked, a.msg \in msgs, Confirm(a)
  PROVE  ReadInv'
<1>1. UNCHANGED <<elections, state, current_term, seqVars, acked, asked>>
  BY DEF Confirm, RecvAppendSuccess, voteVars
<1>2. RoundsInv'
  <2>1. RolesStay /\ UNCHANGED seqVars /\ elections \subseteq elections'
    BY <1>1 DEF RolesStay
  <2> QED
    BY <1>1, <2>1, SameRounds, SameAcks DEF ReadInv, RoundsInv, seqVars
<1>3. AskedInv'
  BY <1>1, SameAsked DEF ReadInv
<1>4. PendingInv' /\ AnswersInv'
  BY <1>3, ConfirmSafe
<1> QED
  BY <1>2, <1>3, <1>4 DEF ReadInv

\* All that deals neither with rounds nor with reads makes no leader.
LEMMA OtherReads ==
  ASSUME RaftInv, RaftInv', ReadInv, Other
  PROVE  ReadInv'
<1>1. RolesStay /\ UNCHANGED elections
  <2>1. ASSUME NEW m \in msgs, NEW v, NEW l, BecomeFollower(m.to, m.term, v, l) PROVE RolesStay
    <3>1. m.to \in Node
      BY MessageFields DEF RaftInv
    <3> QED
      BY <2>1, <3>1 DEF BecomeFollower, RolesStay, RaftInv, TypeOK
  <2>2. ASSUME NEW m \in msgs, RecognizeLeader(m) PROVE RolesStay /\ UNCHANGED elections
    BY <2>2, RecognizeRoles DEF RaftInv
  <2>3. ASSUME NEW m \in msgs, RecvRequestVote(m) PROVE RolesStay /\ UNCHANGED elections
    <3>1. \/ \E v : BecomeFollower(m.to, m.term, v, None)
          \/ UNCHANGED <<state, current_term>>
      BY <2>3 DEF RecvRequestVote, voteVars
    <3>2. RolesStay
      BY <2>1, <3>1 DEF RolesStay
    <3> QED
      BY <2>3, <3>2 DEF RecvRequestVote
  <2>4. ASSUME NEW m \in msgs, RecvHigherTermReply(m) PROVE RolesStay /\ UNCHANGED elections
    BY <2>1, <2>4 DEF RecvHigherTermReply
  <2>5. ASSUME UNCHANGED <<state, current_term, elections>> PROVE RolesStay /\ UNCHANGED elections
    BY <2>5 DEF RolesStay
  <2>6. ASSUME NEW m \in msgs, RecvPrevote(m) \/ RefuseStaleAppend(m) \/ RecvAppendRefusal(m)
        PROVE  UNCHANGED <<state, current_term, elections>>
    BY <2>6 DEF RecvPrevote, RefuseStaleAppend, RecvAppendRefusal, voteVars
  <2>7. ASSUME NEW i \in Node,
               \/ TickApply(i) \/ Shutdown(i)
               \/ \E ds \in Batches : \E n \in 1 .. Len(ds) - 1 : AbortBatch(i, ds, n)
        PROVE  UNCHANGED <<state, current_term, elections>>
    BY <2>7 DEF TickApply, Shutdown, AbortBatch, voteVars
  <2>8. ASSUME NEW m \in msgs, RefuseMissingPrev(m) \/ RefuseConflictingPrev(m)
        PROVE  RecognizeLeader(m)
    BY <2>8 DEF RefuseMissingPrev, RefuseConflictingPrev
  <2> QED
    BY <2>2, <2>3, <2>4, <2>5, <2>6, <2>7, <2>8 DEF Other
<1>2. UNCHANGED <<seqVars, acked, readVars>>
  BY DEF Other
<1>3. RoundsNumbered'
  BY <1>1, <1>2, SameRounds DEF ReadInv, RoundsInv
<1> QED
  BY <1>1, <1>2, <1>3, QuietReads DEF ReadInv, RoundsInv, seqVars

\* The invariant is inductive, given those of Raft.
LEMMA ReadStep ==
  ASSUME RaftInv, RaftInv', ReadInv, [ReadNext]_allVars
  PROVE  ReadInv'
<1>1. CASE UNCHANGED allVars
  <2>1. UNCHANGED <<seqVars, acked, readVars, elections, state, current_term>>
    BY <1>1 DEF allVars, vars, voteVars
  <2>2. RolesStay
    BY <2>1 DEF RolesStay
  <2>3. RoundsNumbered'
    BY <2>1, <2>2, SameRounds DEF ReadInv, RoundsInv
  <2> QED
    BY <2>1, <2>3, QuietReads DEF ReadInv, RoundsInv, seqVars
<1>2. ASSUME NEW i \in Node, Stand(i) \/ Beat(i) \/ Forget(i) PROVE ReadInv'
  BY <1>2, StandReads, BeatReads, ForgetReads
<1>3. ASSUME NEW i \in Clients, NEW q \in Request, AskLeader(i, q) \/ AskFollower(i, q)
      PROVE  ReadInv'
  <2>1. i \in Node
    BY ReadAssumption
  <2> QED
    BY <1>3, <2>1, AskSafe
<1> QED
  BY <1>1, <1>2, <1>3, AcknowledgeReads, ConfirmReads, ReadMessagesSafe, OtherReads DEF ReadNext

\* Nothing was asked, sent or answered at the start.
LEMMA ReadsInit == ReadInit => ReadInv
<1> SUFFICES ASSUME ReadInit PROVE ReadInv
  OBVIOUS
<1>1. RoundsInv /\ PendingInv /\ AnswersInv
  BY DEF ReadInit, RoundsInv, RoundsNumbered, AcksOfRounds, PendingInv, AnswersInv
<1>2. \A e \in elections : e.term <= 0
  BY DEF ReadInit, Init
<1>3. AskedInv
  BY <1>2 DEF ReadInit, AskedInv
<1> QED
  BY <1>1, <1>3 DEF ReadInv

\* What a read is answered with comes from a leader that no later one had
\* superseded when the read was asked for, whatever happens to rounds,
\* acknowledgements and requests, and although reads outlive the leadership they
\* were queued in and the numbers of the rounds start over with every life.
THEOREM ReadsConfirmed == ReadSpec => []ReadConfirmed
<1>1. Spec => []RaftInv
  <2>1. LogInv => CandidatesUnelected
    BY DEF LogInv
  <2> QED
    BY <2>1, TypeCorrect, ElectionInvariant, LeadersBacked, LogInvariant, PTL DEF RaftInv
<1>2. RaftInv /\ RaftInv' /\ ReadInv /\ [ReadNext]_allVars => ReadInv'
  BY ReadStep
<1>3. ReadInv => ReadConfirmed
  BY DEF ReadInv, AnswersInv, AnswerSafe, ReadConfirmed
<1> QED
  BY <1>1, <1>2, <1>3, ReadsInit, ReadsAreRaft, PTL DEF ReadSpec
=============================================================================
