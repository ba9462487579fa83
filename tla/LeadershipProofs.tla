-------------------------- MODULE LeadershipProofs --------------------------
(***************************************************************************)
(* Proof that Raft implements TermLeadership: what clients are told of     *)
(* leadership, for every number of nodes and every choice of constants.    *)
(***************************************************************************)
EXTENDS RaftProofs

\* What a step of node i may do to terms, known leaders and elections.
StepOf(i) ==
  /\ \A j \in Node \ {i} : current_term'[j] = current_term[j] /\ leader_id'[j] = leader_id[j]
  /\ current_term'[i] >= current_term[i]
  /\ \/ elections' = elections
     \/ /\ \E vs : elections' =
             elections \cup {[term |-> current_term'[i], leader |-> i, voters |-> vs]}
        /\ leader_id'[i] = i

\* A step without an election that sets the term and the leader of one node.
LEMMA OneNodeStep ==
  ASSUME TypeOK, NEW i \in Node, NEW t \in Nat, t >= current_term[i], NEW l,
         current_term' = [current_term EXCEPT ![i] = t],
         leader_id' = [leader_id EXCEPT ![i] = l],
         UNCHANGED elections
  PROVE  StepOf(i)
BY DEF TypeOK, StepOf

\* A step that leaves terms and elections alone and sets the leader of one node.
LEMMA SameTermStep ==
  ASSUME TypeOK, NEW i \in Node, NEW l, UNCHANGED <<current_term, elections>>,
         leader_id' = [leader_id EXCEPT ![i] = l]
  PROVE  StepOf(i)
BY DEF TypeOK, StepOf

LEMMA QuietOf ==
  ASSUME TypeOK, NEW i \in Node, UNCHANGED <<current_term, leader_id, elections>>
  PROVE  StepOf(i)
BY DEF TypeOK, StepOf

\* raft_become_candidate, also when it goes on to lead.
LEMMA CandidateOf ==
  ASSUME TypeOK, NEW i \in Node, BecomeCandidate(i)
  PROVE  StepOf(i)
<1> DEFINE t == current_term[i] + 1
<1>1. current_term[i] \in Nat /\ t \in Nat /\ t >= current_term[i]
  BY DEF TypeOK
<1>2. current_term' = [current_term EXCEPT ![i] = t]
  BY DEF BecomeCandidate
<1>3. CASE IsQuorum({i})
  <2>1. BecomeLeader(i, t, {i})
    BY <1>3 DEF BecomeCandidate
  <2>2. /\ leader_id' = [leader_id EXCEPT ![i] = i]
        /\ elections' = elections \cup {[term |-> t, leader |-> i, voters |-> {i}]}
    BY <2>1 DEF BecomeLeader
  <2> QED
    BY <1>1, <1>2, <2>2 DEF StepOf, TypeOK
<1>4. CASE ~IsQuorum({i})
  <2>1. leader_id' = [leader_id EXCEPT ![i] = None] /\ UNCHANGED elections
    BY <1>4 DEF BecomeCandidate
  <2> HIDE DEF t
  <2> QED
    BY <1>1, <1>2, <2>1, OneNodeStep
<1> QED
  BY <1>3, <1>4

LEMMA ReceiveOf ==
  ASSUME TypeOK, ElectionInv, NEW m \in msgs, Receive(m)
  PROVE  StepOf(m.to)
<1> DEFINE i == m.to
<1>1. i \in Node /\ m.term \in Nat /\ current_term[i] \in Nat
  BY MessageFields DEF TypeOK
<1>2. CASE RecvPrevote(m) \/ RefuseStaleAppend(m) \/ RecvAppendSuccess(m) \/ RecvAppendRefusal(m)
  BY <1>1, <1>2, QuietOf DEF RecvPrevote, RefuseStaleAppend, RecvAppendSuccess,
                             RecvAppendRefusal, voteVars
<1>3. CASE RecvRequestVote(m)
  <2>1. CASE m.term > current_term[i]
    <3>1. PICK v : BecomeFollower(i, m.term, v, None)
      BY <1>1, <1>3, <2>1 DEF RecvRequestVote
    <3>2. UNCHANGED elections
      BY <1>3 DEF RecvRequestVote
    <3>3. /\ m.term >= current_term[i]
          /\ current_term' = [current_term EXCEPT ![i] = m.term]
          /\ leader_id' = [leader_id EXCEPT ![i] = None]
      BY <1>1, <2>1, <3>1 DEF BecomeFollower
    <3> QED
      BY <1>1, <3>2, <3>3, OneNodeStep
  <2>2. CASE ~(m.term > current_term[i])
    <3>1. UNCHANGED <<current_term, leader_id, elections>>
      BY <1>3, <2>2 DEF RecvRequestVote, voteVars
    <3> QED
      BY <1>1, <3>1, QuietOf
  <2> QED
    BY <2>1, <2>2
<1>4. CASE RecvPrevoteReply(m)
  <2>1. CASE BecomeCandidate(i)
    BY <1>1, <2>1, CandidateOf
  <2>2. CASE UNCHANGED <<current_term, leader_id, elections>>
    BY <1>1, <2>2, QuietOf
  <2> QED
    BY <1>4, <2>1, <2>2 DEF RecvPrevoteReply
<1>5. CASE RecvVoteReply(m)
  <2> DEFINE got == votes_for_me[i] \cup {m.from}
  <2>1. UNCHANGED current_term
    BY <1>5 DEF RecvVoteReply
  <2>2. CASE BecomeLeader(i, current_term[i], got)
    <3>1. /\ leader_id' = [leader_id EXCEPT ![i] = i]
          /\ elections' = elections
               \cup {[term |-> current_term[i], leader |-> i, voters |-> got]}
      BY <2>2 DEF BecomeLeader
    <3>2. /\ leader_id'[i] = i
          /\ \A j \in Node \ {i} : leader_id'[j] = leader_id[j]
      BY <1>1, <3>1 DEF TypeOK
    <3>3. elections' = elections
            \cup {[term |-> current_term'[i], leader |-> i, voters |-> got]}
      BY <2>1, <3>1
    <3> HIDE DEF got
    <3> QED
      BY <1>1, <2>1, <3>2, <3>3 DEF StepOf
  <2>3. CASE UNCHANGED <<leader_id, elections>>
    BY <1>1, <2>1, <2>3, QuietOf
  <2> QED
    BY <1>5, <2>2, <2>3 DEF RecvVoteReply
<1>6. CASE RecvHigherTermReply(m)
  <2>1. /\ m.term >= current_term[i] /\ UNCHANGED elections
        /\ current_term' = [current_term EXCEPT ![i] = m.term]
        /\ leader_id' = [leader_id EXCEPT ![i] = None]
    BY <1>1, <1>6 DEF RecvHigherTermReply, BecomeFollower
  <2> QED
    BY <1>1, <2>1, OneNodeStep
<1>7. CASE RefuseMissingPrev(m) \/ RefuseConflictingPrev(m) \/ AcceptAppend(m)
  <2>1. RecognizeLeader(m)
    BY <1>7 DEF RefuseMissingPrev, RefuseConflictingPrev, AcceptAppend
  <2>2. m.term >= current_term[i] /\ UNCHANGED elections
        /\ leader_id' = [leader_id EXCEPT ![i] = m.from]
    BY <2>1 DEF RecognizeLeader, BecomeFollower
  <2>3. \/ current_term' = [current_term EXCEPT ![i] = m.term]
        \/ UNCHANGED current_term
    BY <2>1 DEF RecognizeLeader, BecomeFollower, voteVars
  <2>4. CASE current_term' = [current_term EXCEPT ![i] = m.term]
    BY <1>1, <2>2, <2>4, OneNodeStep
  <2>5. CASE UNCHANGED current_term
    BY <1>1, <2>2, <2>5, SameTermStep
  <2> QED
    BY <2>3, <2>4, <2>5
<1>8. CASE CrashWhileVoting(m)
  <2>1. m.term > current_term[i] /\ stable'[i].term = m.term
    BY <1>1, <1>8 DEF CrashWhileVoting, Persist, TypeOK
  <2>2. /\ current_term' = [current_term EXCEPT ![i] = m.term]
        /\ leader_id' = [leader_id EXCEPT ![i] = None] /\ UNCHANGED elections
    BY <1>8, <2>1 DEF CrashWhileVoting, Create
  <2>3. m.term >= current_term[i]
    BY <1>1, <2>1
  <2> QED
    BY <1>1, <2>2, <2>3, OneNodeStep
<1> QED
  BY <1>2, <1>3, <1>4, <1>5, <1>6, <1>7, <1>8 DEF Receive

LEMMA CallOf ==
  ASSUME TypeOK, ElectionInv, NEW i \in Node, Call(i)
  PROVE  StepOf(i)
<1>1. CASE TickElection(i)
  <2>1. CASE BecomeCandidate(i)
    BY <2>1, CandidateOf
  <2>2. CASE StartPrevote(i)
    BY <2>2, SameTermStep DEF StartPrevote
  <2> QED
    BY <1>1, <2>1, <2>2 DEF TickElection
<1>2. CASE TickHeartbeat(i) \/ SendRound(i) \/ TickApply(i) \/ Shutdown(i)
  BY <1>2, QuietOf DEF TickHeartbeat, SendRound, TickApply, Shutdown, voteVars
<1>3. ASSUME NEW d \in Data \cup {Noop}, Propose(i, d) PROVE StepOf(i)
  BY <1>3, QuietOf DEF Propose, voteVars
<1>4. ASSUME NEW ds \in Batches, ProposeBatch(i, ds) PROVE StepOf(i)
  BY <1>4, QuietOf DEF ProposeBatch, voteVars
<1>5. ASSUME NEW ds \in Batches, NEW n \in 1 .. Len(ds) - 1, AbortBatch(i, ds, n)
      PROVE  StepOf(i)
  BY <1>5, QuietOf DEF AbortBatch, voteVars
<1>6. CASE Restart(i)
  <2>1. stable'[i].term = current_term[i]
    <3>1. stable[i] = [term |-> current_term[i], voted_for |-> voted_for[i]]
      BY DEF ElectionInv, StableVote
    <3> QED
      BY <1>6, <3>1 DEF Restart
  <2>2. UNCHANGED <<current_term, elections>> /\ leader_id' = [leader_id EXCEPT ![i] = None]
    BY <1>6, <2>1 DEF Restart, Create, TypeOK
  <2> QED
    BY <2>2, SameTermStep
<1> QED
  BY <1>1, <1>2, <1>3, <1>4, <1>5, <1>6 DEF Call

\* A step of one node is a step of TermLeadership, given what is known of the
\* elections before and after it.
LEMMA StepOfImplements ==
  ASSUME TypeOK, TypeOK', OneLeaderPerTerm', KnownLeaderElected', NEW i \in Node, StepOf(i)
  PROVE  Leadership!Step(i)
<1>1. current_term'[i] \in Nat /\ leader_id'[i] \in Node \cup {None}
  BY DEF TypeOK
<1>2. CASE elections' = elections
  <2>1. Leaders' = Leaders
    BY <1>2 DEF Leaders
  <2>2. leader_id'[i] = None \/ <<current_term'[i], leader_id'[i]>> \in Leaders
    BY <1>1, <1>2 DEF KnownLeaderElected, Elected, Leaders
  <2> QED
    BY <1>1, <2>1, <2>2 DEF StepOf, Leadership!Step, Leadership!Follow
<1>3. ASSUME NEW vs, leader_id'[i] = i,
             elections' = elections
               \cup {[term |-> current_term'[i], leader |-> i, voters |-> vs]}
      PROVE  Leadership!Step(i)
  <2> DEFINE new == [term |-> current_term'[i], leader |-> i, voters |-> vs]
  <2>1. Leaders' = Leaders \cup {<<current_term'[i], i>>}
    <3>1. new.term = current_term'[i] /\ new.leader = i
      OBVIOUS
    <3>2. elections' = elections \cup {new}
      BY <1>3
    <3> HIDE DEF new
    <3> QED
      BY <3>1, <3>2 DEF Leaders
  <2>2. ASSUME NEW l \in Leaders, l[1] = current_term'[i] PROVE l[2] = i
    <3>1. PICK e \in elections : l = <<e.term, e.leader>>
      BY DEF Leaders
    <3>2. e \in elections' /\ new \in elections' /\ new.term = e.term /\ new.leader = i
      BY <1>3, <2>2, <3>1
    <3>3. e.leader = i
      BY <3>2 DEF OneLeaderPerTerm
    <3> QED
      BY <3>1, <3>3
  <2> QED
    BY <1>1, <1>3, <2>1, <2>2 DEF StepOf, Leadership!Step, Leadership!Win
<1> QED
  BY <1>2, <1>3 DEF StepOf

LEMMA LeadershipStep ==
  TypeOK /\ ElectionInv /\ TypeOK' /\ ElectionInv' /\ [Next]_vars
    => [Leadership!Next]_<<current_term, leader_id, Leaders>>
<1> SUFFICES ASSUME TypeOK, ElectionInv, TypeOK', ElectionInv', [Next]_vars
             PROVE  [Leadership!Next]_<<current_term, leader_id, Leaders>>
  OBVIOUS
<1>1. OneLeaderPerTerm' /\ KnownLeaderElected'
  BY DEF ElectionInv
<1>2. CASE UNCHANGED vars
  BY <1>2 DEF vars, voteVars, Leaders
<1>3. ASSUME NEW m \in msgs, Receive(m) PROVE Leadership!Next
  <2>1. m.to \in Node
    BY MessageFields
  <2> QED
    BY <1>1, <1>3, <2>1, ReceiveOf, StepOfImplements DEF Leadership!Next
<1>4. ASSUME NEW i \in Node, Call(i) PROVE Leadership!Next
  BY <1>1, <1>4, CallOf, StepOfImplements DEF Leadership!Next
<1> QED
  BY <1>2, <1>3, <1>4 DEF Next

\* A cluster tells its clients of leadership what TermLeadership promises.
THEOREM LeadershipImplemented == Spec => ImplementsTermLeadership
<1>1. Init => Leadership!Init
  BY DEF Init, Leadership!Init, Leaders
<1>2. TypeOK /\ ElectionInv /\ TypeOK' /\ ElectionInv' /\ [Next]_vars
        => [Leadership!Next]_<<current_term, leader_id, Leaders>>
  BY LeadershipStep
<1> QED
  BY <1>1, <1>2, TypeCorrect, ElectionInvariant, PTL
     DEF Spec, ImplementsTermLeadership, Leadership!Spec
=============================================================================
