---------------------------- MODULE CommitProofs ----------------------------
(***************************************************************************)
(* Proofs about what a leader takes as replicated and committed, for as    *)
(* long as one node was elected once.  With a second leader, or after a    *)
(* restart that loses a log, neither property holds, as the README shows:  *)
(* the reply to an AppendEntries names the last index of the whole log,    *)
(* which need not be the leader's.  Before that, it is: this is what the   *)
(* invariant says, of the logs, the requests, the replies and the indexes. *)
(***************************************************************************)
EXTENDS ReplicationProofs

\* One node has been elected, once, or none yet.
OneElection == \A e, f \in elections : e = f

PrefixOf(s, l) == Len(s) <= Len(l) /\ \A k \in 1 .. Len(s) : s[k] = l[k]

\* What request m carries is part of log l.
SentFrom(m, l) ==
  /\ m.prev_index + Len(m.entries) <= Len(l)
  /\ \A n \in 1 .. Len(m.entries) : m.entries[n] = l[m.prev_index + n]
  /\ m.prev_index > 0 => m.prev_term = l[m.prev_index].term

\* A quorum has logs of length n or more.
LongEnough(n) == {j \in Node : Len(log[j]) >= n}
Committed(n) == n > 0 => IsQuorum(LongEnough(n))

\* What election e made so: every log is a prefix of the leader's, every request
\* a part of it, and every index that a reply or a node holds lies within the log
\* it is about.
LogsFollow(e) == \A i \in Node : PrefixOf(log[i], log[e.leader])
RequestOf(e, m) ==
  m.type = "AppendEntries" => SentFrom(m, log[e.leader]) /\ Committed(m.leader_commit)
ReplyOf(m) ==
  m.type = "AppendReply" =>
    m.conflict_term = 0 /\ (m.success => m.match_index <= Len(log[m.from]))
MessagesFollow(e) == \A m \in msgs : RequestOf(e, m) /\ ReplyOf(m)
IndexesFollow(e) ==
  state[e.leader] = Leader => \A j \in Node :
    /\ match_index[e.leader][j] <= Len(log[j])
    /\ next_index[e.leader][j] <= Len(log[e.leader]) + 1
CommitOf(i) == commit_index[i] <= Len(log[i]) /\ Committed(commit_index[i])
CommitsFollow == \A i \in Node : CommitOf(i)
LedBy(e) == LogsFollow(e) /\ MessagesFollow(e) /\ IndexesFollow(e) /\ CommitsFollow

\* Before the first election nothing was appended, sent or committed.
Unled ==
  /\ \A i \in Node : log[i] = <<>> /\ commit_index[i] = 0
  /\ \A m \in msgs : m.type \notin {"AppendEntries", "AppendReply"}

SoleInv == (elections = {} => Unled) /\ \A e \in elections : LedBy(e)
CommitInv == OneElection => SoleInv

\* What the other invariants say of a cluster, used throughout.
Sound == TypeOK /\ ElectionInv /\ LogInv
-----------------------------------------------------------------------------
(***************************************************************************)
(* Prefixes and quorums.                                                   *)
(***************************************************************************)
\* A prefix of a prefix is one.
LEMMA PrefixTransitive ==
  ASSUME NEW r \in Seq(Entry), NEW s \in Seq(Entry), NEW l \in Seq(Entry),
         PrefixOf(r, s), PrefixOf(s, l)
  PROVE  PrefixOf(r, l)
<1>1. Len(r) \in Nat /\ Len(s) \in Nat /\ Len(l) \in Nat
  OBVIOUS
<1>2. ASSUME NEW k \in 1 .. Len(r) PROVE r[k] = l[k]
  <2>1. k \in 1 .. Len(s)
    BY <1>1 DEF PrefixOf
  <2> QED
    BY <2>1 DEF PrefixOf
<1> QED
  BY <1>1, <1>2 DEF PrefixOf

\* Every log is a prefix of itself, the empty one of every log.
LEMMA PrefixReflexive ==
  ASSUME NEW l \in Seq(Entry)
  PROVE  PrefixOf(l, l) /\ PrefixOf(<<>>, l)
<1>1. Len(l) \in Nat /\ Len(<<>>) = 0
  OBVIOUS
<1> QED
  BY <1>1 DEF PrefixOf

\* No log gets shorter in a step.
LogsGrow == \A j \in Node : Len(log[j]) <= Len(log'[j])

\* What was committed then stays so.
LEMMA CommittedStays ==
  ASSUME TypeOK, TypeOK', LogsGrow, NEW n \in Nat, Committed(n)
  PROVE  Committed(n)'
<1>1. LongEnough(n) \subseteq LongEnough(n)'
  <2>1. \A j \in Node : Len(log[j]) \in Nat /\ Len(log'[j]) \in Nat
    BY DEF TypeOK
  <2> QED
    BY <2>1 DEF LogsGrow, LongEnough
<1>2. LongEnough(n)' \subseteq Node
  BY DEF LongEnough
<1>3. PICK S, T : S = LongEnough(n) /\ T = LongEnough(n)'
  OBVIOUS
<1>4. n > 0 => IsQuorum(S)
  BY <1>3 DEF Committed
<1>5. n > 0 => IsQuorum(T)
  BY <1>1, <1>2, <1>3, <1>4, QuorumGrows
<1> QED
  BY <1>3, <1>5 DEF Committed, IsQuorum, QuorumSize

\* A request that is part of a log is part of any that continues it.
LEMMA SentStays ==
  ASSUME NEW l \in Seq(Entry), NEW s \in Seq(Entry), PrefixOf(l, s),
         NEW m \in AppendEntriesMsg, SentFrom(m, l)
  PROVE  SentFrom(m, s)
<1>1. m.prev_index \in Nat /\ Len(m.entries) \in Nat /\ Len(l) \in Nat /\ Len(s) \in Nat
  BY DEF AppendEntriesMsg
<1>2. ASSUME NEW n \in 1 .. Len(m.entries) PROVE m.entries[n] = s[m.prev_index + n]
  <2>1. m.prev_index + n \in 1 .. Len(l)
    BY <1>1 DEF SentFrom
  <2> QED
    BY <2>1 DEF SentFrom, PrefixOf
<1>3. ASSUME m.prev_index > 0 PROVE m.prev_term = s[m.prev_index].term
  <2>1. m.prev_index \in 1 .. Len(l)
    BY <1>1, <1>3 DEF SentFrom
  <2> QED
    BY <1>3, <2>1 DEF SentFrom, PrefixOf
<1> QED
  BY <1>1, <1>2, <1>3 DEF SentFrom, PrefixOf

\* A heartbeat that starts within the leader's log, or right after it, is part of it.
LEMMA HeartbeatIsSent ==
  ASSUME NEW i \in Node, NEW t \in Nat, NEW l \in Seq(Entry), NEW c \in Nat,
         NEW next \in [Node -> Nat], \A j \in Node : next[j] <= Len(l) + 1,
         NEW m \in Heartbeats(i, t, l, c, next)
  PROVE  SentFrom(m, l) /\ m.leader_commit = c /\ m.type = "AppendEntries"
<1>1. PICK j \in Node \ {i} : next[j] > 0 /\ m = [type |-> "AppendEntries", term |-> t,
    from |-> i, to |-> j,
    prev_index |-> next[j] - 1, prev_term |-> TermAt(l, next[j] - 1),
    entries |-> SubSeq(l, next[j], Least(Len(l), next[j] + MaxEntries - 1)),
    leader_commit |-> c]
  BY DEF Heartbeats
<1> DEFINE a == next[j]
           b == Least(Len(l), a + MaxEntries - 1)
           es == SubSeq(l, a, b)
<1>2. m.prev_index = a - 1 /\ m.prev_term = TermAt(l, a - 1) /\ m.entries = es
  BY <1>1
<1>3. a \in Nat /\ a > 0 /\ a <= Len(l) + 1 /\ Len(l) \in Nat /\ b \in Int /\ b <= Len(l)
  BY <1>1, ConfigAssumption DEF Least
<1> HIDE DEF a, b
<1>4. a - 1 + Len(es) <= Len(l) /\ \A n \in 1 .. Len(es) : es[n] = l[a - 1 + n]
  <2>1. CASE a <= b
    <3>1. Len(es) = b - a + 1 /\ \A n \in 1 .. b - a + 1 : es[n] = l[a + n - 1]
      BY <1>3, <2>1, SubSeqProperties
    <3>2. \A n \in 1 .. b - a + 1 : a + n - 1 = a - 1 + n
      BY <1>3
    <3>3. a - 1 + (b - a + 1) <= Len(l)
      BY <1>3
    <3> QED
      BY <3>1, <3>2, <3>3
  <2>2. CASE ~(a <= b)
    <3>1. es = <<>>
      BY <1>3, <2>2, SubSeqProperties
    <3>2. Len(es) = 0
      BY <3>1
    <3> QED
      BY <1>3, <3>2
  <2> QED
    BY <2>1, <2>2
<1>5. a - 1 > 0 => TermAt(l, a - 1) = l[a - 1].term
  BY <1>3 DEF TermAt
<1> QED
  BY <1>1, <1>2, <1>4, <1>5 DEF SentFrom
-----------------------------------------------------------------------------
(***************************************************************************)
(* A step after the election.                                              *)
(***************************************************************************)
\* A request that was part of the leader's log, and a reply about a peer's, are
\* so after a step that makes no log shorter or different.
LEMMA MessagesStay ==
  ASSUME TypeOK, TypeOK', LogsGrow, NEW e \in elections, PrefixOf(log[e.leader], log'[e.leader]),
         NEW m \in msgs, RequestOf(e, m), ReplyOf(m)
  PROVE  RequestOf(e, m)' /\ ReplyOf(m)'
<1>1. e.leader \in Node /\ log[e.leader] \in Seq(Entry) /\ log'[e.leader] \in Seq(Entry)
  BY DEF TypeOK
<1>2. ASSUME m.type = "AppendEntries"
      PROVE  SentFrom(m, log'[e.leader]) /\ Committed(m.leader_commit)'
  <2>1. m \in AppendEntriesMsg
    BY <1>2, MessageFields
  <2>2. SentFrom(m, log'[e.leader])
    BY <1>1, <1>2, <2>1, SentStays DEF RequestOf
  <2>3. m.leader_commit \in Nat /\ Committed(m.leader_commit)
    BY <1>2, <2>1 DEF RequestOf, AppendEntriesMsg
  <2>4. PICK n \in Nat : n = m.leader_commit
    BY <2>3
  <2>5. Committed(n)'
    BY <2>3, <2>4, CommittedStays
  <2> QED
    BY <2>2, <2>4, <2>5
<1>3. ASSUME m.type = "AppendReply", m.success PROVE m.match_index <= Len(log'[m.from])
  <2>1. m.from \in Node /\ m.match_index \in Nat
    BY <1>3, MessageFields DEF AppendReplyMsg
  <2>2. log[m.from] \in Seq(Entry) /\ log'[m.from] \in Seq(Entry)
    BY <2>1 DEF TypeOK
  <2>3. m.match_index <= Len(log[m.from])
    BY <1>3 DEF ReplyOf
  <2>4. Len(log[m.from]) <= Len(log'[m.from])
    BY <2>1 DEF LogsGrow
  <2>5. Len(log[m.from]) \in Nat /\ Len(log'[m.from]) \in Nat
    BY <2>2
  <2> QED
    BY <2>1, <2>3, <2>4, <2>5
<1> QED
  BY <1>2, <1>3 DEF RequestOf, ReplyOf

\* One log at most got longer, within the leader's unless it is the leader's own,
\* and what was sent, counted or committed anew lies within the logs.
LEMMA GrowStep ==
  ASSUME TypeOK, TypeOK', NEW e \in elections, LedBy(e),
         NEW i \in Node, NEW s \in Seq(Entry), log' = [log EXCEPT ![i] = s],
         PrefixOf(log[i], s), i = e.leader \/ PrefixOf(s, log[e.leader]),
         NEW ms, msgs' \subseteq msgs \cup ms,
         \A m \in ms : RequestOf(e, m)' /\ ReplyOf(m)',
         \A j \in Node : commit_index'[j] = commit_index[j] \/ CommitOf(j)',
         state'[e.leader] = Leader => \A j \in Node :
           /\ \/ state[e.leader] = Leader /\ match_index'[e.leader][j] = match_index[e.leader][j]
              \/ match_index'[e.leader][j] <= Len(log'[j])
           /\ \/ state[e.leader] = Leader /\ next_index'[e.leader][j] = next_index[e.leader][j]
              \/ next_index'[e.leader][j] <= Len(log'[e.leader]) + 1
  PROVE  LedBy(e)'
<1>1. e.leader \in Node
  BY DEF TypeOK
<1>2. \A j \in Node : log[j] \in Seq(Entry) /\ log'[j] \in Seq(Entry)
  BY DEF TypeOK
<1>3. \A j \in Node : Len(log[j]) \in Nat /\ Len(log'[j]) \in Nat
  BY <1>2
<1>4. \A j \in Node : PrefixOf(log[j], log'[j])
  BY <1>2, PrefixReflexive
<1>5. LogsGrow
  BY <1>4 DEF LogsGrow, PrefixOf
<1>6. LogsFollow(e)'
  <2> SUFFICES ASSUME NEW j \in Node PROVE PrefixOf(log'[j], log'[e.leader])
    BY DEF LogsFollow
  <2>1. CASE j = i /\ i = e.leader
    BY <1>2, <2>1, PrefixReflexive
  <2>2. CASE j # i \/ i # e.leader
    <3>1. PrefixOf(log'[j], log[e.leader])
      BY <1>2, <2>2 DEF LedBy, LogsFollow
    <3> QED
      BY <1>1, <1>2, <1>4, <3>1, PrefixTransitive
  <2> QED
    BY <2>1, <2>2
<1>7. MessagesFollow(e)'
  <2> SUFFICES ASSUME NEW m \in msgs' PROVE RequestOf(e, m)' /\ ReplyOf(m)'
    BY DEF MessagesFollow
  <2>1. CASE m \in msgs
    BY <1>1, <1>4, <1>5, <2>1, MessagesStay DEF LedBy, MessagesFollow
  <2> QED
    BY <2>1
<1>8. IndexesFollow(e)'
  <2> SUFFICES ASSUME state'[e.leader] = Leader, NEW j \in Node
               PROVE  /\ match_index'[e.leader][j] <= Len(log'[j])
                      /\ next_index'[e.leader][j] <= Len(log'[e.leader]) + 1
    BY DEF IndexesFollow
  <2>1. /\ match_index[e.leader][j] \in Nat /\ match_index'[e.leader][j] \in Nat
        /\ next_index[e.leader][j] \in Nat /\ next_index'[e.leader][j] \in Nat
    BY <1>1 DEF TypeOK
  <2>2. state[e.leader] = Leader =>
          /\ match_index[e.leader][j] <= Len(log[j])
          /\ next_index[e.leader][j] <= Len(log[e.leader]) + 1
    BY DEF LedBy, IndexesFollow
  <2> QED
    BY <1>1, <1>3, <1>5, <2>1, <2>2 DEF LogsGrow
<1>9. CommitsFollow'
  <2> SUFFICES ASSUME NEW j \in Node PROVE CommitOf(j)'
    BY DEF CommitsFollow
  <2>1. CASE commit_index'[j] = commit_index[j]
    <3>1. PICK n \in Nat : n = commit_index[j]
      BY DEF TypeOK
    <3>2. n <= Len(log[j]) /\ Committed(n)
      BY <3>1 DEF LedBy, CommitsFollow, CommitOf
    <3>3. n <= Len(log'[j]) /\ Committed(n)'
      BY <1>3, <1>5, <3>2, CommittedStays DEF LogsGrow
    <3> QED
      BY <2>1, <3>1, <3>3 DEF CommitOf, Committed
  <2> QED
    BY <2>1
<1> QED
  BY <1>6, <1>7, <1>8, <1>9 DEF LedBy

\* A step that touches no log and no index, and sends nothing about logs.
LEMMA QuietSole ==
  ASSUME TypeOK, TypeOK', SoleInv,
         UNCHANGED <<logVars, elections>>,
         \A j \in Node : state'[j] = Leader => state[j] = Leader,
         UNCHANGED peerVars,
         NEW ms, msgs' \subseteq msgs \cup ms,
         \A m \in ms : m.type \notin {"AppendEntries", "AppendReply"}
  PROVE  SoleInv'
<1>1. ASSUME elections = {} PROVE Unled'
  BY <1>1 DEF SoleInv, Unled, logVars
<1>2. ASSUME NEW e \in elections PROVE LedBy(e)'
  <2>1. e.leader \in Node
    BY DEF TypeOK
  <2>2. PICK i \in Node, s \in Seq(Entry) : i = e.leader /\ s = log[i]
    BY <2>1 DEF TypeOK
  <2>3. log' = [log EXCEPT ![i] = s] /\ PrefixOf(log[i], s)
    BY <2>2, PrefixReflexive DEF logVars, TypeOK
  <2>4. \A m \in ms : RequestOf(e, m)' /\ ReplyOf(m)'
    BY DEF RequestOf, ReplyOf
  <2>5. \A j \in Node : commit_index'[j] = commit_index[j]
    BY DEF logVars
  <2>6. state'[e.leader] = Leader => state[e.leader] = Leader /\ UNCHANGED <<match_index, next_index>>
    BY <2>1 DEF peerVars
  <2>7. LedBy(e)
    BY DEF SoleInv
  <2> QED
    BY <2>2, <2>3, <2>4, <2>5, <2>6, <2>7, GrowStep
<1> QED
  BY <1>1, <1>2 DEF SoleInv

\* A node that leads, or sends AppendEntries, is the one that was elected.
LEMMA SoleLeader ==
  ASSUME TypeOK, ElectionInv, OneElection, NEW e \in elections
  PROVE  /\ \A i \in Node : state[i] = Leader => i = e.leader
         /\ \A m \in msgs : m.type = "AppendEntries" => m.from = e.leader
  BY DEF ElectionInv, TallyIsGranted, MessageOK, Elected, OneElection

\* Before the first election nobody leads.
LEMMA NoLeader ==
  ASSUME ElectionInv, elections = {}
  PROVE  \A i \in Node : state[i] # Leader
  BY DEF ElectionInv, TallyIsGranted, Elected
-----------------------------------------------------------------------------
(***************************************************************************)
(* The leader's steps.                                                     *)
(***************************************************************************)
\* A quorum of one, whose log has n entries, commits them.
LEMMA CommittedAlone ==
  ASSUME TypeOK', NEW i \in Node, NEW n \in Nat, n <= Len(log'[i]), IsQuorum({i})
  PROVE  Committed(n)'
<1>1. i \in LongEnough(n)' /\ LongEnough(n)' \subseteq Node
  BY DEF LongEnough
<1>2. PICK T : T = LongEnough(n)'
  OBVIOUS
<1>3. IsQuorum(T)
  BY <1>1, <1>2, QuorumGrows
<1> QED
  BY <1>2, <1>3 DEF Committed, IsQuorum, QuorumSize

\* What the leader sends after it appended to its log, or a heartbeat of it, is
\* part of its log, and its commit index lies within.
LEMMA LeaderSole ==
  ASSUME Sound, TypeOK', OneElection, SoleInv, NEW i \in Node, state[i] = Leader,
         UNCHANGED <<state, elections>>,
         NEW s \in Seq(Entry), log' = [log EXCEPT ![i] = s], PrefixOf(log[i], s),
         NEW c \in Nat, commit_index' = [commit_index EXCEPT ![i] = c],
         c = commit_index[i] \/ (c = Len(s) /\ IsQuorum({i})),
         UNCHANGED peerVars \/ OwnIndexes(i, next_index[i], match_index[i], Len(s)),
         NEW t \in Nat, NEW ms, ms \subseteq Heartbeats(i, t, s, c, next_index[i]),
         msgs' \subseteq msgs \cup ms
  PROVE  SoleInv'
<1> USE DEF Sound
<1>1. elections # {}
  BY NoLeader
<1>2. ASSUME NEW e \in elections PROVE LedBy(e)'
  <2>1. i = e.leader /\ LedBy(e)
    BY SoleLeader DEF SoleInv
  <2>2. /\ Len(s) \in Nat /\ Len(log[i]) \in Nat /\ Len(log[i]) <= Len(s) /\ log'[i] = s
        /\ commit_index[i] \in Nat /\ next_index[i] \in [Node -> Nat]
        /\ match_index[i] \in [Node -> Nat] /\ \A j \in Node : Len(log'[j]) \in Nat
    <3>1. \A j \in Node : log'[j] \in Seq(Entry)
      BY DEF TypeOK
    <3>2. \A j \in Node : Len(log'[j]) \in Nat
      BY <3>1
    <3>3. /\ commit_index[i] \in Nat /\ next_index[i] \in [Node -> Nat]
          /\ match_index[i] \in [Node -> Nat] /\ log[i] \in Seq(Entry) /\ log'[i] = s
      BY DEF TypeOK
    <3>4. Len(log[i]) \in Nat /\ Len(s) \in Nat
      BY <3>3
    <3> QED
      BY <3>2, <3>3, <3>4 DEF PrefixOf
  <2>3. LogsGrow
    BY <2>2 DEF TypeOK, LogsGrow
  <2>4. \A j \in Node : next_index[i][j] <= Len(s) + 1
    <3>1. \A j \in Node : next_index[i][j] \in Nat /\ next_index[i][j] <= Len(log[i]) + 1
      BY <2>1, <2>2 DEF LedBy, IndexesFollow
    <3> QED
      BY <2>2, <3>1
  <2>5. c <= Len(s) /\ Committed(c)'
    <3>1. CASE c = commit_index[i]
      <4>1. c <= Len(log[i]) /\ Committed(c)
        BY <2>1, <3>1 DEF LedBy, CommitsFollow, CommitOf
      <4> QED
        BY <2>2, <2>3, <4>1, CommittedStays
    <3>2. CASE c = Len(s) /\ IsQuorum({i})
      BY <2>2, <3>2, CommittedAlone
    <3> QED
      BY <3>1, <3>2
  <2>6. ASSUME NEW m \in ms PROVE RequestOf(e, m)' /\ ReplyOf(m)'
    <3>1. PICK next \in [Node -> Nat] : next = next_index[i]
      BY <2>2
    <3>2. (\A j \in Node : next[j] <= Len(s) + 1) /\ m \in Heartbeats(i, t, s, c, next)
      BY <2>4, <3>1
    <3>3. SentFrom(m, s) /\ m.leader_commit = c /\ m.type = "AppendEntries"
      <4> HIDE DEF Sound
      <4> QED
        BY <3>2, HeartbeatIsSent, SMTT(30)
    <3> QED
      BY <2>1, <2>2, <2>5, <3>3 DEF RequestOf, ReplyOf, Committed
  <2>7. ASSUME NEW j \in Node PROVE commit_index'[j] = commit_index[j] \/ CommitOf(j)'
    <3>1. CASE j = i
      <4>1. commit_index'[j] = c /\ log'[j] = s
        BY <3>1 DEF TypeOK
      <4> QED
        BY <2>5, <4>1 DEF CommitOf, Committed
    <3>2. CASE j # i
      BY <3>2 DEF TypeOK
    <3> QED
      BY <3>1, <3>2
  <2>8. ASSUME NEW j \in Node
        PROVE  /\ \/ match_index'[i][j] = match_index[i][j]
                  \/ match_index'[i][j] <= Len(log'[j])
               /\ \/ next_index'[i][j] = next_index[i][j]
                  \/ next_index'[i][j] <= Len(log'[i]) + 1
    <3>1. CASE UNCHANGED peerVars
      BY <3>1 DEF peerVars
    <3>2. CASE OwnIndexes(i, next_index[i], match_index[i], Len(s))
      <4>1. /\ match_index'[i] = [match_index[i] EXCEPT ![i] = Len(s)]
            /\ next_index'[i] = [next_index[i] EXCEPT ![i] = Len(s) + 1]
        BY <3>2 DEF OwnIndexes, TypeOK
      <4>2. CASE j = i
        BY <2>2, <4>1, <4>2
      <4>3. CASE j # i
        BY <2>2, <4>1, <4>3
      <4> QED
        BY <4>2, <4>3
    <3> QED
      BY <3>1, <3>2
  <2> QED
    BY <2>1, <2>6, <2>7, <2>8, GrowStep
<1> QED
  BY <1>1, <1>2 DEF SoleInv

\* Heartbeats and what clients propose, whole or cut short.
LEMMA LeaderCallSole ==
  ASSUME Sound, TypeOK', OneElection, SoleInv, NEW i \in Node,
         \/ TickHeartbeat(i) \/ SendRound(i)
         \/ \E d \in Data \cup {Noop} : Propose(i, d)
         \/ \E ds \in Batches : ProposeBatch(i, ds)
         \/ \E ds \in Batches : \E n \in 1 .. Len(ds) - 1 : AbortBatch(i, ds, n)
  PROVE  SoleInv'
<1>1. PICK t \in Nat : t = current_term[i]
  BY DEF Sound, TypeOK
<1>2. log[i] \in Seq(Entry) /\ commit_index[i] \in Nat /\ Len(log[i]) \in Nat
  BY DEF Sound, TypeOK
<1>3. CASE TickHeartbeat(i) \/ SendRound(i)
  <2>1. PICK s \in Seq(Entry), c \in Nat : s = log[i] /\ c = commit_index[i]
    BY <1>2
  <2>2. PICK ms : ms = Heartbeats(i, t, s, c, next_index[i])
    OBVIOUS
  <2>3. /\ state[i] = Leader /\ UNCHANGED <<state, elections>> /\ UNCHANGED peerVars
        /\ UNCHANGED logVars /\ msgs' \subseteq msgs \cup ms
    BY <1>1, <1>3, <2>1, <2>2 DEF TickHeartbeat, SendRound, Send, voteVars
  <2>4. log' = [log EXCEPT ![i] = s] /\ commit_index' = [commit_index EXCEPT ![i] = c]
    BY <2>1, <2>3 DEF logVars, Sound, TypeOK
  <2>5. PrefixOf(log[i], s)
    BY <2>1, PrefixReflexive
  <2> QED
    BY <2>1, <2>2, <2>3, <2>4, <2>5, LeaderSole
<1>4. ASSUME NEW es \in Seq(Entry), log' = [log EXCEPT ![i] = log[i] \o es],
             state[i] = Leader, UNCHANGED <<state, elections>>,
             NEW c \in Nat, commit_index' = [commit_index EXCEPT ![i] = c],
             c = commit_index[i] \/ (c = Len(log[i] \o es) /\ IsQuorum({i})),
             \/ UNCHANGED peerVars
             \/ OwnIndexes(i, next_index[i], match_index[i], Len(log[i] \o es)),
             \/ Send(Heartbeats(i, t, log[i] \o es, c, next_index[i]))
             \/ UNCHANGED msgs
      PROVE  SoleInv'
  <2>1. PICK s \in Seq(Entry) : s = log[i] \o es
    <3>1. log[i] \o es \in Seq(Entry)
      BY <1>2
    <3> QED
      BY <3>1
  <2>2. PrefixOf(log[i], s)
    <3>1. Len(s) = Len(log[i]) + Len(es) /\ Len(es) \in Nat
      BY <1>2, <2>1
    <3>2. \A k \in 1 .. Len(log[i]) : s[k] = log[i][k]
      BY <1>2, <2>1
    <3> QED
      BY <1>2, <3>1, <3>2 DEF PrefixOf
  <2>3. PICK ms : ms = Heartbeats(i, t, s, c, next_index[i])
    OBVIOUS
  <2>4. msgs' \subseteq msgs \cup ms
    BY <1>4, <2>1, <2>3 DEF Send
  <2> QED
    BY <1>4, <2>1, <2>2, <2>3, <2>4, LeaderSole
<1>5. ASSUME NEW d \in Data \cup {Noop}, Propose(i, d) PROVE SoleInv'
  <2>1. PICK es : es = <<EntryOf(t, d)>>
    OBVIOUS
  <2>2. es \in Seq(Entry)
    BY <2>1 DEF EntryOf, Entry
  <2>3. Append(log[i], EntryOf(t, d)) = log[i] \o es
    <3>1. PICK e : e = EntryOf(t, d)
      OBVIOUS
    <3>2. e \in Entry /\ es = <<e>>
      BY <2>1, <3>1 DEF EntryOf, Entry
    <3>3. Append(log[i], e) = log[i] \o <<e>>
      BY <1>2, <3>2
    <3> QED
      BY <3>1, <3>2, <3>3
  <2>4. PICK c : c = SoleCommit(i, Len(log[i] \o es))
    OBVIOUS
  <2>5. /\ log' = [log EXCEPT ![i] = log[i] \o es]
        /\ commit_index' = [commit_index EXCEPT ![i] = c]
        /\ OwnIndexes(i, next_index[i], match_index[i], Len(log[i] \o es))
        /\ Send(Heartbeats(i, t, log[i] \o es, c, next_index[i]))
        /\ state[i] = Leader /\ UNCHANGED <<state, elections>>
    BY <1>1, <1>5, <2>3, <2>4 DEF Propose, MayPropose, voteVars
  <2>6. c \in Nat /\ (c = commit_index[i] \/ (c = Len(log[i] \o es) /\ IsQuorum({i})))
    <3>1. Len(log[i] \o es) \in Nat
      BY <1>2, <2>2
    <3> QED
      BY <1>2, <2>4, <3>1 DEF SoleCommit
  <2> QED
    BY <1>4, <2>2, <2>5, <2>6
<1>6. ASSUME NEW ds \in Batches, ProposeBatch(i, ds) PROVE SoleInv'
  <2>1. PICK es : es = EntriesOf(t, ds)
    OBVIOUS
  <2>2. es \in Seq(Entry)
    BY <2>1, EntriesOfType, PayloadAssumption
  <2>3. PICK c \in Nat : c = commit_index[i]
    BY <1>2
  <2>4. /\ log' = [log EXCEPT ![i] = log[i] \o es]
        /\ UNCHANGED commit_index
        /\ OwnIndexes(i, next_index[i], match_index[i], Len(log[i] \o es))
        /\ Send(Heartbeats(i, t, log[i] \o es, c, next_index[i]))
        /\ state[i] = Leader /\ UNCHANGED <<state, elections>>
    BY <1>1, <1>6, <2>1, <2>3 DEF ProposeBatch, MayPropose, voteVars
  <2>5. commit_index' = [commit_index EXCEPT ![i] = c]
    BY <2>3, <2>4 DEF Sound, TypeOK
  <2> QED
    BY <1>4, <2>2, <2>3, <2>4, <2>5
<1>7. ASSUME NEW ds \in Batches, NEW n \in 1 .. Len(ds) - 1, AbortBatch(i, ds, n)
      PROVE  SoleInv'
  <2>1. PICK es : es = EntriesOf(t, SubSeq(ds, 1, n))
    OBVIOUS
  <2>2. es \in Seq(Entry)
    <3>1. ds \in Seq(Data)
      BY PayloadAssumption
    <3>2. SubSeq(ds, 1, n) \in Seq(Data)
      BY <3>1
    <3> QED
      BY <2>1, <3>2, EntriesOfType
  <2>3. PICK c \in Nat : c = commit_index[i]
    BY <1>2
  <2>4. /\ log' = [log EXCEPT ![i] = log[i] \o es]
        /\ UNCHANGED <<commit_index, msgs>> /\ UNCHANGED peerVars
        /\ state[i] = Leader /\ UNCHANGED <<state, elections>>
    BY <1>1, <1>7, <2>1 DEF AbortBatch, MayPropose, voteVars
  <2>5. commit_index' = [commit_index EXCEPT ![i] = c]
    BY <2>3, <2>4 DEF Sound, TypeOK
  <2> QED
    BY <1>4, <2>2, <2>3, <2>4, <2>5
<1> QED
  BY <1>3, <1>5, <1>6, <1>7
-----------------------------------------------------------------------------
(***************************************************************************)
(* The election.                                                           *)
(***************************************************************************)
\* The first leader finds every log empty, its own included; it may add an entry.
LEMMA FirstLeader ==
  ASSUME TypeOK, TypeOK', Unled, NEW e \in elections', NEW i \in Node, i = e.leader,
         NEW l \in Seq(Entry), log' = [log EXCEPT ![i] = l],
         NEW c \in Nat, commit_index' = [commit_index EXCEPT ![i] = c],
         c = 0 \/ (c = Len(l) /\ IsQuorum({i})),
         \A j \in Node : match_index'[i][j] = 0 \/ (j = i /\ match_index'[i][j] = Len(l)),
         \A j \in Node : next_index'[i][j] <= Len(l) + 1,
         NEW ms, msgs' \subseteq msgs \cup ms,
         \A m \in ms : /\ m.type = "AppendEntries" /\ SentFrom(m, l)
                       /\ m.leader_commit \in {0, c}
  PROVE  LedBy(e)'
<1>1. /\ Len(l) \in Nat /\ log'[i] = l /\ commit_index'[i] = c
      /\ \A j \in Node \ {i} : log'[j] = <<>> /\ commit_index'[j] = 0
  BY DEF TypeOK, Unled
<1>2. c <= Len(l) /\ Committed(c)' /\ Committed(0)'
  BY <1>1, CommittedAlone DEF Committed
<1>3. LogsFollow(e)'
  <2>1. \A j \in Node : PrefixOf(log'[j], l)
    BY <1>1, PrefixReflexive
  <2> QED
    BY <1>1, <2>1 DEF LogsFollow
<1>4. MessagesFollow(e)'
  <2>1. \A m \in msgs : RequestOf(e, m)' /\ ReplyOf(m)'
    BY DEF Unled, RequestOf, ReplyOf
  <2>2. ASSUME NEW m \in ms PROVE RequestOf(e, m)' /\ ReplyOf(m)'
    BY <1>1, <1>2 DEF RequestOf, ReplyOf, Committed
  <2> QED
    BY <2>1, <2>2 DEF MessagesFollow
<1>5. IndexesFollow(e)'
  <2>1. \A j \in Node : log'[j] \in Seq(Entry)
    BY DEF TypeOK
  <2>2. \A j \in Node : 0 <= Len(log'[j])
    BY <2>1
  <2> QED
    BY <1>1, <2>2 DEF IndexesFollow
<1>6. CommitsFollow'
  <2> SUFFICES ASSUME NEW j \in Node PROVE CommitOf(j)'
    BY DEF CommitsFollow
  <2>1. CASE j = i
    BY <1>1, <1>2, <2>1 DEF CommitOf, Committed
  <2>2. CASE j # i
    BY <1>1, <1>2, <2>2 DEF CommitOf, Committed
  <2> QED
    BY <2>1, <2>2
<1> QED
  BY <1>3, <1>4, <1>5, <1>6 DEF LedBy

\* raft_become_leader: nobody was elected before, or the new election is a second.
LEMMA NewLeaderSole ==
  ASSUME Sound, TypeOK', ElectionInv', OneElection', SoleInv,
         NEW i \in Node, NEW t \in Nat, NEW S, BecomeLeader(i, t, S),
         (t = current_term[i] /\ state[i] = Candidate) \/ t = current_term[i] + 1
  PROVE  SoleInv'
<1> USE DEF Sound
<1>1. PICK e : e = [term |-> t, leader |-> i, voters |-> S]
  OBVIOUS
<1>2. elections' = elections \cup {e} /\ e.term = t /\ e.leader = i
  BY <1>1 DEF BecomeLeader
<1>3. elections = {}
  <2> SUFFICES ASSUME NEW f \in elections PROVE FALSE
    OBVIOUS
  <2>1. f = e
    BY <1>2 DEF OneElection
  <2>2. ~ElectedIn(t)
    BY TermIsNew DEF LogInv
  <2> QED
    BY <1>2, <2>1, <2>2 DEF ElectedIn
<1>4. Unled
  BY <1>3 DEF SoleInv
<1>5. elections' = {e} /\ e \in elections'
  BY <1>2, <1>3
<1>6. log[i] = <<>> /\ commit_index[i] = 0 /\ Len(log[i]) = 0
  BY <1>4 DEF Unled
<1>7. PICK next, noop : next = [j \in Node |-> 1] /\ noop = <<EntryOf(t, Noop)>>
  OBVIOUS
<1>8. /\ next \in [Node -> Nat] /\ noop \in Seq(Entry) /\ Len(noop) = 1
      /\ Append(log[i], EntryOf(t, Noop)) = noop
      /\ <<>> \in Seq(Entry) /\ Len(<<>>) = 0
      /\ [j \in Node |-> Len(log[i]) + 1] = next
  <2>1. EntryOf(t, Noop) \in Entry
    BY DEF EntryOf, Entry
  <2> QED
    BY <1>6, <1>7, <2>1
<1>9. PICK c : c = SoleCommit(i, 1)
  OBVIOUS
<1>10. c \in Nat /\ (c = 0 \/ (c = 1 /\ IsQuorum({i})))
  BY <1>6, <1>9 DEF SoleCommit
<1>11. ASSUME NEW l \in Seq(Entry), NEW k \in Nat,
              NEW m \in Heartbeats(i, t, l, k, next), Len(l) <= 1
       PROVE  SentFrom(m, l) /\ m.leader_commit = k /\ m.type = "AppendEntries"
  <2>1. Len(l) \in Nat /\ \A j \in Node : next[j] = 1
    BY <1>7
  <2>2. \A j \in Node : next[j] <= Len(l) + 1
    BY <2>1
  <2> QED
    BY <1>8, <2>2, HeartbeatIsSent
<1>12. PICK first : first = Heartbeats(i, t, <<>>, 0, next)
  OBVIOUS
<1>13. ASSUME NEW m \in first
       PROVE  SentFrom(m, <<>>) /\ SentFrom(m, noop) /\ m.leader_commit = 0 /\ m.type = "AppendEntries"
  <2>1. SentFrom(m, <<>>) /\ m.leader_commit = 0 /\ m.type = "AppendEntries"
    <3>1. PICK l \in Seq(Entry), k \in Nat : l = <<>> /\ k = 0
      BY <1>8
    <3>2. m \in Heartbeats(i, t, l, k, next) /\ Len(l) <= 1
      BY <1>8, <1>12, <3>1
    <3> QED
      BY <1>11, <3>1, <3>2
  <2>2. m \in AppendEntriesMsg
    BY <1>8, <1>12, <1>13, HeartbeatsType
  <2>3. SentFrom(m, noop)
    BY <1>8, <2>1, <2>2, PrefixReflexive, SentStays
  <2> QED
    BY <2>1, <2>3
<1>14. next_index[i] \in [Node -> Nat] /\ match_index[i] \in [Node -> Nat]
  BY DEF TypeOK
<1>15. CASE /\ next_index' = [next_index EXCEPT ![i] = next]
            /\ match_index' = [match_index EXCEPT ![i] = [j \in Node |-> 0]]
            /\ Send(first) /\ UNCHANGED logVars
  <2>1. PICK l \in Seq(Entry), k \in Nat : l = <<>> /\ k = 0
    BY <1>8
  <2>2. /\ log' = [log EXCEPT ![i] = l] /\ commit_index' = [commit_index EXCEPT ![i] = k]
        /\ msgs' \subseteq msgs \cup first
    BY <1>6, <1>15, <2>1 DEF logVars, TypeOK, Send
  <2>3. \A j \in Node : match_index'[i][j] = 0 /\ next_index'[i][j] <= Len(l) + 1
    BY <1>7, <1>8, <1>15, <2>1 DEF TypeOK
  <2>4. \A m \in first : m.type = "AppendEntries" /\ SentFrom(m, l) /\ m.leader_commit \in {0, k}
    BY <1>13, <2>1
  <2>5. LedBy(e)'
    BY <1>2, <1>4, <1>5, <2>1, <2>2, <2>3, <2>4, FirstLeader
  <2> QED
    BY <1>5, <2>5 DEF SoleInv
<1>16. CASE /\ OwnIndexes(i, next, [j \in Node |-> 0], 1)
            /\ log' = [log EXCEPT ![i] = noop] /\ commit_index' = [commit_index EXCEPT ![i] = c]
            /\ Send(first \cup Heartbeats(i, t, noop, c, next))
  <2>1. PICK ms : ms = first \cup Heartbeats(i, t, noop, c, next)
    OBVIOUS
  <2>2. msgs' \subseteq msgs \cup ms
    BY <1>16, <2>1 DEF Send
  <2>3. \A j \in Node : /\ match_index'[i][j] = 0 \/ (j = i /\ match_index'[i][j] = Len(noop))
                        /\ next_index'[i][j] <= Len(noop) + 1
    <3>1. PICK zero : zero = [j \in Node |-> 0]
      OBVIOUS
    <3>2. /\ match_index'[i] = [zero EXCEPT ![i] = 1]
          /\ next_index'[i] = [next EXCEPT ![i] = 2]
      BY <1>16, <3>1 DEF OwnIndexes, TypeOK
    <3> QED
      BY <1>7, <1>8, <3>1, <3>2
  <2>4. ASSUME NEW m \in ms
        PROVE  m.type = "AppendEntries" /\ SentFrom(m, noop) /\ m.leader_commit \in {0, c}
    <3>1. CASE m \in first
      BY <1>13, <3>1
    <3>2. CASE m \in Heartbeats(i, t, noop, c, next)
      BY <1>8, <1>10, <1>11, <3>2
    <3> QED
      BY <2>1, <3>1, <3>2
  <2>5. LedBy(e)'
    <3>1. c \in Nat /\ (c = 0 \/ (c = Len(noop) /\ IsQuorum({i})))
      BY <1>8, <1>10
    <3>2. log' = [log EXCEPT ![i] = noop] /\ commit_index' = [commit_index EXCEPT ![i] = c]
      BY <1>16
    <3>3. noop \in Seq(Entry) /\ e \in elections' /\ i = e.leader
      BY <1>2, <1>5, <1>8
    <3>4. /\ \A j \in Node : match_index'[i][j] = 0 \/ (j = i /\ match_index'[i][j] = Len(noop))
          /\ \A j \in Node : next_index'[i][j] <= Len(noop) + 1
      BY <2>3
    <3>5. \A m \in ms : /\ m.type = "AppendEntries" /\ SentFrom(m, noop)
                        /\ m.leader_commit \in {0, c}
      BY <2>4
    <3> QED
      BY <1>4, <2>2, <3>1, <3>2, <3>3, <3>4, <3>5, FirstLeader
  <2> QED
    BY <1>5, <2>5 DEF SoleInv
<1> QED
  BY <1>6, <1>8, <1>9, <1>12, <1>15, <1>16 DEF BecomeLeader
-----------------------------------------------------------------------------
(***************************************************************************)
(* The followers' steps, and the replies.                                  *)
(***************************************************************************)
\* A prefix of the leader's log that a request of its is stored in becomes a
\* longer prefix, which ends no earlier than the request.
LEMMA StoredFollows ==
  ASSUME NEW l \in Seq(Entry), NEW r \in Seq(Entry), PrefixOf(r, l),
         NEW prev \in 0 .. Len(r), NEW es \in Seq(Entry), prev + Len(es) <= Len(l),
         \A n \in 1 .. Len(es) : es[n] = l[prev + n]
  PROVE  /\ Stored(r, prev, es) \in Seq(Entry)
         /\ PrefixOf(r, Stored(r, prev, es)) /\ PrefixOf(Stored(r, prev, es), l)
<1>1. PICK s \in Seq(Entry) : s = Stored(r, prev, es)
  BY StoredType
<1>2. /\ Len(l) \in Nat /\ Len(r) \in Nat /\ Len(s) \in Nat /\ Len(es) \in Nat /\ prev \in Nat
      /\ prev <= Len(r) /\ Len(r) <= Len(l) /\ \A k \in 1 .. Len(r) : r[k] = l[k]
  BY DEF PrefixOf
<1>3. \A n \in 1 .. Len(es) : prev + n <= Len(r) => r[prev + n] = es[n]
  BY <1>2
<1>4. CASE s = r
  BY <1>1, <1>4, PrefixReflexive
<1>5. CASE s # r
  <2>1. /\ Len(s) = prev + Len(es)
        /\ \A k \in 1 .. prev : s[k] = r[k]
        /\ \A n \in 1 .. Len(es) : s[prev + n] = es[n]
    BY <1>1, <1>3, <1>5, StoredMerges, SMTT(30)
  <2>2. Len(r) < prev + Len(es)
    <3> SUFFICES ASSUME prev + Len(es) <= Len(r) PROVE FALSE
      <4>1. PICK x \in Nat, y \in Nat : x = Len(r) /\ y = prev + Len(es)
        BY <1>2
      <4> QED
        BY <4>1
    <3>1. ASSUME NEW n \in 1 .. Len(es)
          PROVE  prev + n <= Len(r) /\ r[prev + n].term = es[n].term
      <4>1. prev + n <= Len(r)
        BY <1>2
      <4>2. r[prev + n] = es[n]
        BY <1>3, <4>1
      <4> QED
        BY <4>1, <4>2
    <3>2. DOMAIN es = 1 .. Len(es)
      OBVIOUS
    <3> QED
      BY <1>1, <1>5, <3>1, <3>2 DEF Stored
  <2>3. ASSUME NEW k \in 1 .. Len(s) PROVE s[k] = l[k]
    <3>1. CASE k <= prev
      BY <1>2, <2>1, <3>1, SMTT(30)
    <3>2. CASE k > prev
      <4>1. k - prev \in 1 .. Len(es) /\ prev + (k - prev) = k
        BY <1>2, <2>1, <3>2
      <4>2. s[k] = es[k - prev] /\ es[k - prev] = l[k]
        BY <2>1, <4>1
      <4> QED
        BY <4>2
    <3> QED
      BY <1>2, <3>1, <3>2
  <2>4. PrefixOf(s, l)
    BY <2>1, <2>3 DEF PrefixOf
  <2>5. PrefixOf(r, s)
    BY <1>2, <2>1, <2>2, <2>3 DEF PrefixOf
  <2> QED
    BY <1>1, <2>4, <2>5
<1> QED
  BY <1>4, <1>5

\* What lies before a committed index is committed.
LEMMA CommittedBelow ==
  ASSUME TypeOK, NEW n \in Nat, NEW a \in Nat, a <= n, Committed(n)
  PROVE  Committed(a)
<1>1. \A j \in Node : Len(log[j]) \in Nat
  BY DEF TypeOK
<1>2. LongEnough(n) \subseteq LongEnough(a) /\ LongEnough(a) \subseteq Node
  BY <1>1 DEF LongEnough
<1> QED
  BY <1>2, QuorumGrows DEF Committed

\* raft_recv_appendentries: the log stays a prefix of the leader's and gets no
\* shorter, so the last index that the reply names is one of the leader's log.
LEMMA AppendSole ==
  ASSUME Sound, TypeOK', SoleInv, NEW m \in msgs,
         RefuseStaleAppend(m) \/ RefuseMissingPrev(m) \/ RefuseConflictingPrev(m)
           \/ AcceptAppend(m)
  PROVE  SoleInv'
<1> USE DEF Sound
<1>1. m.type = "AppendEntries" /\ m \in AppendEntriesMsg
  BY MessageFields DEF RefuseStaleAppend, RefuseMissingPrev, RefuseConflictingPrev,
                       AcceptAppend, RecognizeLeader
<1>2. PICK i \in Node : i = m.to
  BY MessageFields
<1>3. /\ UNCHANGED elections /\ UNCHANGED peerVars
      /\ \A j \in Node : state'[j] = Leader => state[j] = Leader
  <2>1. CASE RefuseStaleAppend(m)
    BY <2>1 DEF RefuseStaleAppend, voteVars
  <2>2. CASE RecognizeLeader(m)
    BY <2>2, RecognizeRoles DEF RecognizeLeader, RolesStay, Leader, Follower
  <2>3. RefuseStaleAppend(m) \/ RecognizeLeader(m)
    BY DEF RefuseMissingPrev, RefuseConflictingPrev, AcceptAppend
  <2> QED
    BY <2>1, <2>2, <2>3
<1>4. elections # {}
  BY <1>1 DEF SoleInv, Unled
<1>5. ASSUME NEW e \in elections PROVE LedBy(e)'
  <2>1. LedBy(e) /\ e.leader \in Node
    BY DEF SoleInv, TypeOK
  <2>2. PICK l \in Seq(Entry), r \in Seq(Entry) : l = log[e.leader] /\ r = log[i]
    BY <2>1 DEF TypeOK
  <2>3. PrefixOf(r, l) /\ SentFrom(m, l) /\ Committed(m.leader_commit)
    BY <1>1, <2>1, <2>2 DEF LedBy, LogsFollow, MessagesFollow, RequestOf
  <2>4. ASSUME NEW s \in Seq(Entry), log' = [log EXCEPT ![i] = s],
               PrefixOf(r, s), PrefixOf(s, l),
               NEW c \in Nat, commit_index' = [commit_index EXCEPT ![i] = c],
               c = commit_index[i] \/ (c <= Len(s) /\ Committed(c)),
               NEW b, NEW n, b => n <= Len(s), Send({AppendReply(m, b, n, 0, 0)})
        PROVE  LedBy(e)'
    <3>1. PICK ms : ms = {AppendReply(m, b, n, 0, 0)}
      OBVIOUS
    <3>2. msgs' \subseteq msgs \cup ms
      BY <2>4, <3>1 DEF Send
    <3>3. log'[i] = s
      BY <2>4 DEF TypeOK
    <3>4. \A q \in ms : RequestOf(e, q)' /\ ReplyOf(q)'
      BY <1>2, <2>4, <3>1, <3>3 DEF RequestOf, ReplyOf, AppendReply
    <3>5. \A j \in Node : commit_index'[j] = commit_index[j] \/ CommitOf(j)'
      <4> SUFFICES ASSUME NEW j \in Node, commit_index'[j] # commit_index[j]
                   PROVE  CommitOf(j)'
        OBVIOUS
      <4>1. j = i /\ commit_index'[j] = c /\ c <= Len(s) /\ Committed(c)
        BY <2>4 DEF TypeOK
      <4>2. LogsGrow
        <5>1. \A k \in Node : Len(log[k]) \in Nat
          BY DEF TypeOK
        <5> QED
          BY <2>2, <2>4, <5>1 DEF LogsGrow, PrefixOf, TypeOK
      <4>3. Committed(c)'
        BY <4>1, <4>2, CommittedStays
      <4> QED
        BY <3>3, <4>1, <4>3 DEF CommitOf, Committed
    <3>6. state'[e.leader] = Leader => state[e.leader] = Leader /\ UNCHANGED <<match_index, next_index>>
      BY <1>3, <2>1 DEF peerVars
    <3> QED
      BY <2>1, <2>2, <2>4, <3>2, <3>4, <3>5, <3>6, GrowStep
  <2>5. PICK c \in Nat : c = commit_index[i]
    BY DEF TypeOK
  <2>6. CASE RefuseStaleAppend(m) \/ RefuseMissingPrev(m)
    <3>1. log' = [log EXCEPT ![i] = r] /\ commit_index' = [commit_index EXCEPT ![i] = c]
      <4>1. UNCHANGED logVars
        BY <2>6 DEF RefuseStaleAppend, RefuseMissingPrev
      <4> QED
        BY <2>2, <2>5, <4>1 DEF logVars, TypeOK
    <3>2. PICK b, n : b = FALSE /\ Send({AppendReply(m, b, n, 0, 0)})
      BY <2>6 DEF RefuseStaleAppend, RefuseMissingPrev
    <3> QED
      BY <2>3, <2>4, <2>5, <3>1, <3>2, PrefixReflexive
  <2>7. CASE RefuseConflictingPrev(m)
    <3>1. m.prev_index \in 1 .. Len(r) /\ ~HasPrev(r, m)
      BY <1>2, <2>2, <2>7 DEF RefuseConflictingPrev
    <3>2. r[m.prev_index] = l[m.prev_index] /\ m.prev_index > 0
      BY <2>3, <3>1 DEF PrefixOf
    <3> QED
      BY <2>3, <3>1, <3>2 DEF HasPrev, SentFrom
  <2>8. CASE AcceptAppend(m)
    <3>1. PICK prev \in Nat, es \in Seq(Entry), lc \in Nat :
            prev = m.prev_index /\ es = m.entries /\ lc = m.leader_commit
      BY <1>1 DEF AppendEntriesMsg
    <3>2. prev \in 0 .. Len(r)
      <4>1. HasPrev(r, m)
        BY <1>2, <2>2, <2>8 DEF AcceptAppend
      <4>2. Len(r) \in Nat
        BY <2>2
      <4> QED
        BY <3>1, <4>1, <4>2 DEF HasPrev
    <3>3. prev + Len(es) <= Len(l) /\ \A n \in 1 .. Len(es) : es[n] = l[prev + n]
      BY <2>3, <3>1 DEF SentFrom
    <3>4. PICK s \in Seq(Entry) : s = Stored(r, prev, es) /\ PrefixOf(r, s) /\ PrefixOf(s, l)
      BY <2>3, <3>2, <3>3, StoredFollows
    <3>5. PICK d : d = Least(Least(lc, prev + Len(es)), Len(s))
      OBVIOUS
    <3>6. d \in Nat /\ d <= Len(s) /\ d <= lc
      <4>1. PICK x \in Nat, y \in Nat, z \in Nat : x = prev + Len(es) /\ y = Len(s) /\ z = lc
        BY <3>1, <3>4
      <4>2. d = Least(Least(z, x), y)
        BY <3>5, <4>1
      <4> QED
        BY <4>1, <4>2 DEF Least
    <3>7. PICK new \in Nat : new = IF lc > c THEN d ELSE c
      BY <3>6
    <3>8. new = commit_index[i] \/ (new <= Len(s) /\ Committed(new))
      BY <2>3, <2>5, <3>1, <3>6, <3>7, CommittedBelow
    <3>9. /\ log' = [log EXCEPT ![i] = s] /\ commit_index' = [commit_index EXCEPT ![i] = new]
          /\ Send({AppendReply(m, TRUE, Len(s), 0, 0)})
      BY <1>2, <2>2, <2>5, <2>8, <3>1, <3>4, <3>5, <3>7 DEF AcceptAppend
    <3>10. PICK b, n : b = TRUE /\ n = Len(s)
      OBVIOUS
    <3>11. Send({AppendReply(m, b, n, 0, 0)}) /\ (b => n <= Len(s))
      BY <3>9, <3>10
    <3> QED
      BY <2>4, <3>4, <3>8, <3>9, <3>11
  <2> QED
    BY <2>6, <2>7, <2>8
<1> QED
  BY <1>3, <1>4, <1>5 DEF SoleInv

\* The index a leader advances to lies within its log, and a quorum's logs reach
\* as far as the match indexes say: AdvancedCommit may take it.
LEMMA AdvanceCovered ==
  ASSUME TypeOK, NEW i \in Node, NEW match \in [Node -> Nat],
         \A j \in Node : match[j] <= Len(log[j])
  PROVE  \/ AdvancedCommit(i, match) = commit_index[i]
         \/ AdvancedCommit(i, match) <= Len(log[i]) /\ Committed(AdvancedCommit(i, match))
<1> DEFINE Matching(n) == {i} \cup {j \in Node \ {i} : match[j] >= n}
           S == {n \in commit_index[i] + 1 .. Len(log[i]) :
                   log[i][n].term = current_term[i] /\ IsQuorum(Matching(n))}
<1>1. commit_index[i] \in Nat /\ \A j \in Node : Len(log[j]) \in Nat
  BY DEF TypeOK
<1>2. AdvancedCommit(i, match) = IF S = {} THEN commit_index[i] ELSE Greatest(S)
  BY DEF AdvancedCommit
<1>3. S \in SUBSET Nat /\ \A n \in S : n <= Len(log[i]) /\ IsQuorum(Matching(n))
  BY <1>1
<1>4. ASSUME S # {} PROVE Greatest(S) <= Len(log[i]) /\ Committed(Greatest(S))
  <2> HIDE DEF S, Matching
  <2>1. PICK n \in S : n = Greatest(S)
    BY <1>1, <1>3, <1>4, GreatestElement
  <2>2. n \in Nat /\ n <= Len(log[i]) /\ IsQuorum(Matching(n))
    BY <1>3
  <2>3. Matching(n) \subseteq LongEnough(n) /\ LongEnough(n) \subseteq Node
    <3>1. \A j \in Node : match[j] \in Nat /\ Len(log[j]) \in Nat /\ match[j] <= Len(log[j])
      BY <1>1
    <3> QED
      BY <2>2, <3>1 DEF Matching, LongEnough
  <2>4. IsQuorum(LongEnough(n))
    BY <2>2, <2>3, QuorumGrows
  <2> QED
    BY <2>1, <2>2, <2>4 DEF Committed
<1> HIDE DEF S
<1> QED
  BY <1>2, <1>4

\* raft_recv_appendentries_response: what the leader counts is in the peer's log.
LEMMA ReplySole ==
  ASSUME Sound, TypeOK', OneElection, SoleInv, NEW m \in msgs,
         RecvAppendSuccess(m) \/ RecvAppendRefusal(m)
  PROVE  SoleInv'
<1> USE DEF Sound
<1>1. m.type = "AppendReply" /\ m \in AppendReplyMsg
  BY MessageFields DEF RecvAppendSuccess, RecvAppendRefusal
<1>2. PICK i \in Node, j \in Node : i = m.to /\ j = m.from
  BY MessageFields
<1>3. state[i] = Leader /\ UNCHANGED <<state, log, msgs, elections>>
  BY <1>2 DEF RecvAppendSuccess, RecvAppendRefusal, voteVars, logVars
<1>4. elections # {}
  BY <1>1 DEF SoleInv, Unled
<1>5. ASSUME NEW e \in elections PROVE LedBy(e)'
  <2>1. LedBy(e) /\ e.leader = i
    BY <1>3, SoleLeader DEF SoleInv
  <2>2. PICK l \in Seq(Entry), match \in [Node -> Nat], next \in [Node -> Nat] :
          l = log[i] /\ match = match_index[i] /\ next = next_index[i]
    BY DEF TypeOK
  <2>3. \A k \in Node : /\ match[k] \in Nat /\ match[k] <= Len(log[k])
                        /\ next[k] \in Nat /\ next[k] <= Len(l) + 1
    BY <1>3, <2>1, <2>2 DEF LedBy, IndexesFollow
  <2>4. \A k \in Node : Len(log[k]) \in Nat /\ Len(log[k]) <= Len(l)
    BY <2>1, <2>2 DEF LedBy, LogsFollow, PrefixOf, TypeOK
  <2>5. /\ m.match_index \in Nat /\ m.conflict_term = 0 /\ m.success \in BOOLEAN
        /\ m.success => m.match_index <= Len(log[j])
    BY <1>1, <1>2, <2>1 DEF LedBy, MessagesFollow, ReplyOf, AppendReplyMsg
  <2>6. ASSUME NEW mt \in [Node -> Nat], NEW nx \in [Node -> Nat],
               match_index' = [match_index EXCEPT ![i] = mt],
               next_index' = [next_index EXCEPT ![i] = nx],
               \A k \in Node : mt[k] <= Len(log[k]) /\ nx[k] <= Len(l) + 1,
               NEW c \in Nat, commit_index' = [commit_index EXCEPT ![i] = c],
               c = commit_index[i] \/ (c <= Len(l) /\ Committed(c))
        PROVE  LedBy(e)'
    <3>1. log' = [log EXCEPT ![i] = l] /\ PrefixOf(log[i], l)
      BY <1>3, <2>2, PrefixReflexive DEF TypeOK
    <3>2. PICK ms : ms = {}
      OBVIOUS
    <3>3. msgs' \subseteq msgs \cup ms /\ \A q \in ms : RequestOf(e, q)' /\ ReplyOf(q)'
      BY <1>3, <3>2
    <3>4. ASSUME NEW k \in Node PROVE commit_index'[k] = commit_index[k] \/ CommitOf(k)'
      <4>1. CASE k = i
        <5>1. commit_index'[i] = c
          BY <2>6 DEF TypeOK
        <5>2. LogsGrow
          BY <1>3, <2>4 DEF LogsGrow
        <5>3. Committed(c) => Committed(c)'
          BY <5>2, CommittedStays
        <5>4. CASE c = commit_index[i]
          BY <4>1, <5>1, <5>4
        <5>5. CASE c <= Len(l) /\ Committed(c)
          <6>1. log'[i] = l /\ Committed(c)'
            BY <1>3, <2>2, <5>3, <5>5
          <6> QED
            BY <4>1, <5>1, <5>5, <6>1 DEF CommitOf, Committed
        <5> QED
          BY <2>6, <5>4, <5>5
      <4>2. CASE k # i
        BY <2>6, <4>2 DEF TypeOK
      <4> QED
        BY <4>1, <4>2
    <3>5. \A k \in Node : match_index'[i][k] <= Len(log'[k]) /\ next_index'[i][k] <= Len(log'[i]) + 1
      BY <1>3, <2>2, <2>6 DEF TypeOK
    <3> QED
      BY <2>1, <3>1, <3>3, <3>4, <3>5, GrowStep
  <2>7. CASE RecvAppendSuccess(m)
    <3>1. m.success /\ m.match_index <= Len(log[j])
      BY <2>5, <2>7 DEF RecvAppendSuccess
    <3>2. PICK mt \in [Node -> Nat], nx \in [Node -> Nat] :
            /\ mt = IF m.match_index > match[j] THEN [match EXCEPT ![j] = m.match_index] ELSE match
            /\ nx = IF m.match_index > match[j] THEN [next EXCEPT ![j] = m.match_index + 1] ELSE next
      <4>1. [match EXCEPT ![j] = m.match_index] \in [Node -> Nat]
        BY <2>5
      <4>2. [next EXCEPT ![j] = m.match_index + 1] \in [Node -> Nat]
        BY <2>5
      <4> QED
        BY <4>1, <4>2
    <3>3. \A k \in Node : mt[k] <= Len(log[k]) /\ nx[k] <= Len(l) + 1
      <4>1. m.match_index + 1 <= Len(l) + 1
        BY <2>4, <2>5, <3>1, SMTT(30)
      <4> TAKE k \in Node
      <4>2. mt[k] = match[k] \/ (k = j /\ mt[k] = m.match_index)
        BY <3>2
      <4>3. nx[k] = next[k] \/ nx[k] = m.match_index + 1
        BY <3>2
      <4> QED
        BY <2>3, <3>1, <4>1, <4>2, <4>3
    <3>4. PICK c \in Nat : c = AdvancedCommit(i, mt)
      BY AdvancedCommitType
    <3>5. c = commit_index[i] \/ (c <= Len(l) /\ Committed(c))
      BY <2>2, <3>3, <3>4, AdvanceCovered
    <3>6. /\ match_index' = [match_index EXCEPT ![i] = mt]
          /\ next_index' = [next_index EXCEPT ![i] = nx]
          /\ commit_index' = [commit_index EXCEPT ![i] = c]
      BY <1>2, <2>2, <2>7, <3>2, <3>4 DEF RecvAppendSuccess
    <3> QED
      BY <2>6, <3>3, <3>5, <3>6
  <2>8. CASE RecvAppendRefusal(m)
    <3>1. PICK n \in Nat : n = RolledBack(l, next[j], m)
      BY <1>1, <2>3, RolledBackType
    <3>2. n <= Len(l) + 1
      <4>1. n <= next[j]
        BY <2>3, <2>5, <3>1 DEF RolledBack
      <4> QED
        BY <2>3, <2>4, <4>1
    <3>3. PICK nx \in [Node -> Nat] : nx = [next EXCEPT ![j] = n]
      OBVIOUS
    <3>4. PICK c \in Nat : c = commit_index[i]
      BY DEF TypeOK
    <3>5. /\ match_index' = [match_index EXCEPT ![i] = match]
          /\ next_index' = [next_index EXCEPT ![i] = nx]
          /\ commit_index' = [commit_index EXCEPT ![i] = c]
      <4>1. /\ next_index' = [next_index EXCEPT ![i] = nx]
            /\ UNCHANGED <<match_index, commit_index>>
        BY <1>2, <2>2, <2>8, <3>1, <3>3 DEF RecvAppendRefusal, logVars
      <4> QED
        BY <2>2, <3>4, <4>1 DEF TypeOK
    <3>6. \A k \in Node : match[k] <= Len(log[k]) /\ nx[k] <= Len(l) + 1
      BY <2>3, <3>2, <3>3
    <3> QED
      BY <2>6, <3>4, <3>5, <3>6
  <2> QED
    BY <2>7, <2>8
<1> QED
  BY <1>3, <1>4, <1>5 DEF SoleInv
-----------------------------------------------------------------------------
(***************************************************************************)
(* The other steps, and the theorems.                                      *)
(***************************************************************************)
\* raft_become_candidate.
LEMMA CandidateSole ==
  ASSUME Sound, TypeOK', ElectionInv', OneElection', SoleInv, NEW i \in Node, BecomeCandidate(i)
  PROVE  SoleInv'
<1>1. PICK t \in Nat : t = current_term[i] + 1
  BY DEF Sound, TypeOK
<1>2. CASE BecomeLeader(i, t, {i})
  <2>1. PICK S : S = {i}
    OBVIOUS
  <2> QED
    BY <1>1, <1>2, <2>1, NewLeaderSole
<1>3. CASE /\ state' = [state EXCEPT ![i] = Candidate]
           /\ Send(VoteRequests(i, t, FALSE))
           /\ UNCHANGED <<logVars, peerVars, elections>>
  <2>1. PICK ms : ms = VoteRequests(i, t, FALSE)
    OBVIOUS
  <2>2. /\ msgs' \subseteq msgs \cup ms
        /\ \A m \in ms : m.type \notin {"AppendEntries", "AppendReply"}
    BY <1>3, <2>1 DEF Send, VoteRequests
  <2>3. \A j \in Node : state'[j] = Leader => state[j] = Leader
    BY <1>3 DEF Sound, TypeOK, Candidate, Leader
  <2>4. UNCHANGED <<logVars, elections>> /\ UNCHANGED peerVars
    BY <1>3
  <2> QED
    BY <2>2, <2>3, <2>4, QuietSole DEF Sound
<1> QED
  BY <1>1, <1>2, <1>3 DEF BecomeCandidate

\* Votes and pre-votes, and what makes a node step down.
LEMMA VoteSole ==
  ASSUME Sound, TypeOK', ElectionInv', OneElection', SoleInv, NEW m \in msgs,
         \/ RecvPrevote(m) \/ RecvRequestVote(m)
         \/ RecvPrevoteReply(m) \/ RecvVoteReply(m) \/ RecvHigherTermReply(m)
  PROVE  SoleInv'
<1>1. PICK i \in Node : i = m.to
  BY MessageFields DEF Sound
<1>2. ASSUME UNCHANGED <<logVars, elections>>, UNCHANGED peerVars,
             \A j \in Node : state'[j] = Leader => state[j] = Leader,
             UNCHANGED msgs \/ \E t, g : Send({VoteReply(m, t, g)})
      PROVE  SoleInv'
  <2>1. PICK ms : /\ msgs' \subseteq msgs \cup ms
                  /\ \A q \in ms : q.type \notin {"AppendEntries", "AppendReply"}
    <3>1. CASE UNCHANGED msgs
      <4>1. PICK ms : ms = {}
        OBVIOUS
      <4>2. /\ msgs' \subseteq msgs \cup ms
            /\ \A q \in ms : q.type \notin {"AppendEntries", "AppendReply"}
        BY <3>1, <4>1
      <4> QED
        BY <4>2
    <3>2. ASSUME NEW t, NEW g, Send({VoteReply(m, t, g)})
          PROVE  \E ms : /\ msgs' \subseteq msgs \cup ms
                         /\ \A q \in ms : q.type \notin {"AppendEntries", "AppendReply"}
      <4>1. PICK ms : ms = {VoteReply(m, t, g)}
        OBVIOUS
      <4>2. /\ msgs' \subseteq msgs \cup ms
            /\ \A q \in ms : q.type \notin {"AppendEntries", "AppendReply"}
        BY <3>2, <4>1 DEF Send, VoteReply
      <4> QED
        BY <4>2
    <3> QED
      BY <1>2, <3>1, <3>2
  <2> QED
    BY <1>2, <2>1, QuietSole DEF Sound
<1>3. ASSUME NEW t, NEW v, NEW l, BecomeFollower(i, t, v, l)
      PROVE  \A j \in Node : state'[j] = Leader => state[j] = Leader
  BY <1>3 DEF BecomeFollower, Sound, TypeOK, Follower, Leader
<1>4. CASE RecvPrevote(m)
  <2>1. UNCHANGED <<logVars, elections>> /\ UNCHANGED peerVars /\ UNCHANGED state
    BY <1>4 DEF RecvPrevote, voteVars
  <2>2. \E t, g : Send({VoteReply(m, t, g)})
    BY <1>4 DEF RecvPrevote
  <2> QED
    BY <1>2, <2>1, <2>2
<1>5. CASE RecvRequestVote(m)
  <2>1. UNCHANGED <<logVars, elections>> /\ UNCHANGED peerVars
    BY <1>5 DEF RecvRequestVote
  <2>2. \E t, g : Send({VoteReply(m, t, g)})
    BY <1>5 DEF RecvRequestVote
  <2>3. UNCHANGED state \/ \E t, v, l : BecomeFollower(i, t, v, l)
    BY <1>1, <1>5 DEF RecvRequestVote, voteVars
  <2>4. \A j \in Node : state'[j] = Leader => state[j] = Leader
    BY <1>3, <2>3
  <2> QED
    BY <1>2, <2>1, <2>2, <2>4
<1>6. CASE RecvPrevoteReply(m)
  <2>1. CASE BecomeCandidate(i)
    BY <2>1, CandidateSole
  <2>2. CASE ~BecomeCandidate(i)
    <3>1. /\ UNCHANGED <<logVars, elections>> /\ UNCHANGED peerVars
          /\ UNCHANGED state /\ UNCHANGED msgs
      BY <1>1, <1>6, <2>2 DEF RecvPrevoteReply
    <3> QED
      BY <1>2, <3>1
  <2> QED
    BY <2>1, <2>2
<1>7. CASE RecvVoteReply(m)
  <2>0. PICK got : got = votes_for_me[i] \cup {m.from}
    OBVIOUS
  <2>1. PICK t \in Nat : t = current_term[i]
    BY DEF Sound, TypeOK
  <2>2. CASE BecomeLeader(i, t, got)
    <3>1. state[i] = Candidate
      BY <1>1, <1>7 DEF RecvVoteReply
    <3> QED
      BY <2>1, <2>2, <3>1, NewLeaderSole
  <2>3. CASE ~BecomeLeader(i, t, got)
    <3>1. /\ UNCHANGED <<logVars, elections>> /\ UNCHANGED peerVars
          /\ UNCHANGED state /\ UNCHANGED msgs
      BY <1>1, <1>7, <2>0, <2>1, <2>3 DEF RecvVoteReply
    <3> QED
      BY <1>2, <3>1
  <2> QED
    BY <2>2, <2>3
<1>8. CASE RecvHigherTermReply(m)
  <2>1. /\ UNCHANGED <<logVars, elections>> /\ UNCHANGED peerVars /\ UNCHANGED msgs
        /\ \E t, v, l : BecomeFollower(i, t, v, l)
    BY <1>1, <1>8 DEF RecvHigherTermReply
  <2> QED
    BY <1>2, <1>3, <2>1
<1> QED
  BY <1>4, <1>5, <1>6, <1>7, <1>8

\* raft_tick and the lifecycle, where no node is created again.
LEMMA CallSole ==
  ASSUME CrashNodes = {}, Sound, TypeOK', ElectionInv', OneElection, OneElection', SoleInv,
         NEW i \in Node, Call(i)
  PROVE  SoleInv'
<1>1. CASE TickElection(i)
  <2>1. CASE BecomeCandidate(i)
    BY <2>1, CandidateSole
  <2>2. CASE StartPrevote(i)
    <3>1. PICK ms : ms = VoteRequests(i, current_term[i] + 1, TRUE)
      OBVIOUS
    <3>2. /\ msgs' \subseteq msgs \cup ms
          /\ \A m \in ms : m.type \notin {"AppendEntries", "AppendReply"}
      BY <2>2, <3>1 DEF StartPrevote, Send, VoteRequests
    <3>3. UNCHANGED <<logVars, elections>> /\ UNCHANGED peerVars /\ UNCHANGED state
      BY <2>2 DEF StartPrevote
    <3> QED
      BY <3>2, <3>3, QuietSole DEF Sound
  <2> QED
    BY <1>1, <2>1, <2>2 DEF TickElection
<1>2. CASE TickApply(i) \/ Shutdown(i)
  <2>1. /\ UNCHANGED <<logVars, elections>> /\ UNCHANGED peerVars
        /\ UNCHANGED state /\ UNCHANGED msgs
    BY <1>2 DEF TickApply, Shutdown, voteVars
  <2>2. PICK ms : ms = {}
    OBVIOUS
  <2>3. /\ msgs' \subseteq msgs \cup ms
        /\ \A m \in ms : m.type \notin {"AppendEntries", "AppendReply"}
    BY <2>1, <2>2
  <2> QED
    BY <2>1, <2>3, QuietSole DEF Sound
<1>3. ~Restart(i)
  BY DEF Restart
<1> QED
  BY <1>1, <1>2, <1>3, LeaderCallSole DEF Call

\* No step undoes an election.
LEMMA ElectionsGrow ==
  ASSUME [Next]_vars
  PROVE  elections \subseteq elections'
<1>1. ASSUME NEW i, BecomeCandidate(i) PROVE elections \subseteq elections'
  BY <1>1 DEF BecomeCandidate, BecomeLeader
<1>2. ASSUME NEW m, Receive(m) PROVE elections \subseteq elections'
  <2>1. CASE RecvPrevote(m) \/ RecvRequestVote(m) \/ RecvHigherTermReply(m)
    BY <2>1 DEF RecvPrevote, RecvRequestVote, RecvHigherTermReply
  <2>2. CASE CrashWhileVoting(m)
    BY <2>2 DEF CrashWhileVoting, Create
  <2>3. CASE RecvPrevoteReply(m)
    BY <1>1, <2>3 DEF RecvPrevoteReply
  <2>4. CASE RecvVoteReply(m)
    BY <2>4 DEF RecvVoteReply, BecomeLeader
  <2>5. CASE RefuseStaleAppend(m) \/ RecognizeLeader(m)
    BY <2>5 DEF RefuseStaleAppend, RecognizeLeader
  <2>6. CASE RefuseMissingPrev(m) \/ RefuseConflictingPrev(m) \/ AcceptAppend(m)
    BY <2>5, <2>6 DEF RefuseMissingPrev, RefuseConflictingPrev, AcceptAppend
  <2>7. CASE RecvAppendSuccess(m) \/ RecvAppendRefusal(m)
    BY <2>7 DEF RecvAppendSuccess, RecvAppendRefusal
  <2> QED
    BY <1>2, <2>1, <2>2, <2>3, <2>4, <2>5, <2>6, <2>7 DEF Receive
<1>3. ASSUME NEW i, Call(i) PROVE elections \subseteq elections'
  <2>1. CASE TickElection(i)
    BY <1>1, <2>1 DEF TickElection, StartPrevote
  <2>2. CASE TickHeartbeat(i) \/ SendRound(i) \/ TickApply(i) \/ Shutdown(i)
    BY <2>2 DEF TickHeartbeat, SendRound, TickApply, Shutdown
  <2>3. ASSUME NEW d, Propose(i, d) PROVE elections \subseteq elections'
    BY <2>3 DEF Propose
  <2>4. ASSUME NEW ds, ProposeBatch(i, ds) PROVE elections \subseteq elections'
    BY <2>4 DEF ProposeBatch
  <2>5. ASSUME NEW ds, NEW n, AbortBatch(i, ds, n) PROVE elections \subseteq elections'
    BY <2>5 DEF AbortBatch
  <2>6. CASE Restart(i)
    BY <2>6 DEF Restart, Create
  <2> QED
    BY <1>3, <2>1, <2>2, <2>3, <2>4, <2>5, <2>6 DEF Call
<1> QED
  BY <1>2, <1>3 DEF Next, vars

\* The invariant is inductive: an election that was the only one still is, or the
\* step was the election.
LEMMA CommitStep ==
  ASSUME CrashNodes = {}
  PROVE  TypeOK /\ TypeOK' /\ ElectionInv /\ ElectionInv' /\ LogInv /\ CommitInv /\ [Next]_vars
           => CommitInv'
<1> SUFFICES ASSUME Sound, TypeOK', ElectionInv', CommitInv, [Next]_vars, OneElection'
             PROVE  SoleInv'
  BY DEF CommitInv, Sound
<1>1. OneElection /\ SoleInv
  BY ElectionsGrow DEF OneElection, CommitInv
<1>2. ASSUME NEW m \in msgs, Receive(m) PROVE SoleInv'
  <2>1. ~CrashWhileVoting(m)
    BY DEF CrashWhileVoting
  <2>2. CASE RefuseStaleAppend(m) \/ RefuseMissingPrev(m) \/ RefuseConflictingPrev(m)
             \/ AcceptAppend(m)
    BY <1>1, <2>2, AppendSole
  <2>3. CASE RecvAppendSuccess(m) \/ RecvAppendRefusal(m)
    BY <1>1, <2>3, ReplySole
  <2>4. CASE \/ RecvPrevote(m) \/ RecvRequestVote(m)
             \/ RecvPrevoteReply(m) \/ RecvVoteReply(m) \/ RecvHigherTermReply(m)
    BY <1>1, <2>4, VoteSole
  <2> QED
    BY <1>2, <2>1, <2>2, <2>3, <2>4 DEF Receive
<1>3. ASSUME NEW i \in Node, Call(i) PROVE SoleInv'
  BY <1>1, <1>3, CallSole
<1>4. CASE UNCHANGED vars
  <2>1. /\ UNCHANGED <<logVars, elections>> /\ UNCHANGED peerVars
        /\ UNCHANGED state /\ UNCHANGED msgs
    BY <1>4 DEF vars, voteVars
  <2>2. PICK ms : ms = {}
    OBVIOUS
  <2>3. /\ msgs' \subseteq msgs \cup ms
        /\ \A m \in ms : m.type \notin {"AppendEntries", "AppendReply"}
    BY <2>1, <2>2
  <2> QED
    BY <1>1, <2>1, <2>3, QuietSole DEF Sound
<1> QED
  BY <1>2, <1>3, <1>4 DEF Next

\* In a cluster just created, nothing was appended and nobody was elected.
LEMMA CommitInit == Init => CommitInv
  BY DEF Init, CommitInv, SoleInv, Unled

\* The invariant holds of every cluster whose nodes are never created again.
LEMMA CommitInvariant ==
  ASSUME CrashNodes = {}
  PROVE  Spec => []CommitInv
<1>1. TypeOK /\ TypeOK' /\ ElectionInv /\ ElectionInv' /\ LogInv /\ CommitInv /\ [Next]_vars
        => CommitInv'
  BY CommitStep
<1> QED
  BY <1>1, CommitInit, TypeCorrect, ElectionInvariant, LogInvariant, PTL DEF Spec

\* As long as one node was elected once, and none restarts, match_index is what it
\* is called: up to it, the peer's log is the leader's, however replies are
\* delayed, repeated or reordered.
THEOREM MatchIndexesTruthful ==
  ASSUME CrashNodes = {}
  PROVE  Spec => [](OneElection => MatchIndexTruthful)
<1>1. TypeOK /\ ElectionInv /\ CommitInv => (OneElection => MatchIndexTruthful)
  <2> SUFFICES ASSUME TypeOK, ElectionInv, SoleInv, OneElection, NEW i \in Node, NEW j \in Node,
                      state[i] = Leader, NEW k \in 1 .. match_index[i][j]
               PROVE  k \in DOMAIN log[i] \cap DOMAIN log[j] /\ log[i][k] = log[j][k]
    BY DEF CommitInv, MatchIndexTruthful
  <2>1. PICK e \in elections : e.leader = i /\ LedBy(e)
    BY SoleLeader, NoLeader DEF SoleInv
  <2>2. /\ match_index[i][j] \in Nat /\ match_index[i][j] <= Len(log[j])
        /\ PrefixOf(log[j], log[i]) /\ log[i] \in Seq(Entry) /\ log[j] \in Seq(Entry)
    BY <2>1 DEF LedBy, IndexesFollow, LogsFollow, TypeOK
  <2>3. Len(log[i]) \in Nat /\ Len(log[j]) \in Nat /\ Len(log[j]) <= Len(log[i])
        /\ DOMAIN log[i] = 1 .. Len(log[i]) /\ DOMAIN log[j] = 1 .. Len(log[j])
    BY <2>2 DEF PrefixOf
  <2> QED
    BY <2>2, <2>3 DEF PrefixOf
<1> QED
  BY <1>1, TypeCorrect, ElectionInvariant, CommitInvariant, PTL

\* Until a second node is elected, what a node takes as committed is on a quorum.
THEOREM CommitsHaveQuorum ==
  ASSUME CrashNodes = {}
  PROVE  Spec => [](OneElection => CommitHasQuorum)
<1>1. TypeOK /\ CommitInv => (OneElection => CommitHasQuorum)
  <2> SUFFICES ASSUME TypeOK, SoleInv, NEW i \in Node, NEW k \in 1 .. commit_index[i]
               PROVE  /\ k \in DOMAIN log[i]
                      /\ IsQuorum({j \in Node : k \in DOMAIN log[j] /\ log[j][k] = log[i][k]})
    BY DEF CommitInv, CommitHasQuorum
  <2>1. PICK c \in Nat : c = commit_index[i] /\ k \in 1 .. c /\ c > 0
    BY DEF TypeOK
  <2>2. PICK e \in elections : LedBy(e)
    BY <2>1 DEF SoleInv, Unled
  <2>3. PICK l \in Seq(Entry) : l = log[e.leader]
    BY DEF TypeOK
  <2>4. c <= Len(log[i]) /\ IsQuorum(LongEnough(c)) /\ \A j \in Node : PrefixOf(log[j], l)
    BY <2>1, <2>2, <2>3 DEF LedBy, CommitsFollow, CommitOf, Committed, LogsFollow
  <2>5. \A j \in Node : Len(log[j]) \in Nat /\ DOMAIN log[j] = 1 .. Len(log[j])
    BY DEF TypeOK
  <2>6. ASSUME NEW j \in LongEnough(c) PROVE j \in Node /\ k \in DOMAIN log[j] /\ log[j][k] = l[k]
    <3>1. j \in Node /\ c <= Len(log[j])
      BY <2>5 DEF LongEnough
    <3>2. k \in 1 .. Len(log[j])
      BY <2>1, <2>5, <3>1
    <3> QED
      BY <2>4, <2>5, <3>1, <3>2 DEF PrefixOf
  <2>7. i \in LongEnough(c)
    BY <2>1, <2>4, <2>5 DEF LongEnough
  <2>8. PICK T : T = {j \in Node : k \in DOMAIN log[j] /\ log[j][k] = log[i][k]}
    OBVIOUS
  <2>9. LongEnough(c) \subseteq T /\ T \subseteq Node
    BY <2>6, <2>7, <2>8
  <2>10. IsQuorum(T)
    BY <2>4, <2>9, QuorumGrows
  <2> QED
    BY <2>6, <2>7, <2>8, <2>10
<1> QED
  BY <1>1, TypeCorrect, CommitInvariant, PTL

\* As long as there was one election only, and no node lost its log in a restart, no
\* two nodes take different entries as committed at one index.
THEOREM CommitsAgree ==
  ASSUME CrashNodes = {}
  PROVE  Spec => [](OneElection => CommittedAgree)
<1>1. TypeOK /\ CommitInv => (OneElection => CommittedAgree)
  <2> SUFFICES ASSUME TypeOK, SoleInv, NEW i \in Node, NEW j \in Node,
                      NEW k \in 1 .. Least(commit_index[i], commit_index[j]),
                      k \in DOMAIN log[i] \cap DOMAIN log[j]
               PROVE  log[i][k] = log[j][k]
    BY DEF CommitInv, CommittedAgree
  <2>1. log[i] # <<>> /\ log[i] \in Seq(Entry) /\ log[j] \in Seq(Entry)
    BY DEF TypeOK
  <2>2. PICK e \in elections : LedBy(e)
    BY <2>1 DEF SoleInv, Unled
  <2>3. PICK l \in Seq(Entry) : PrefixOf(log[i], l) /\ PrefixOf(log[j], l)
    BY <2>2 DEF LedBy, LogsFollow, TypeOK
  <2>4. k \in 1 .. Len(log[i]) /\ k \in 1 .. Len(log[j])
    BY <2>1
  <2> QED
    BY <2>3, <2>4 DEF PrefixOf
<1> QED
  BY <1>1, TypeCorrect, CommitInvariant, PTL
=============================================================================
