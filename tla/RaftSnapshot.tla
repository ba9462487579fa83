---------------------------- MODULE RaftSnapshot ----------------------------
(***************************************************************************)
(* Snapshots (raft_snapshot.c), and replication to peers some of whose log *)
(* was compacted (the branches of raft_replication.c that Raft leaves      *)
(* out): one leader and its peers, during the leader's term.               *)
(*                                                                         *)
(* Nodes compact their logs on their own; a peer whose next entry the      *)
(* leader no longer has is sent the leader's snapshot in chunks.  Each     *)
(* link delivers in the order sent, and may lose messages of the types in  *)
(* Lossy.                                                                  *)
(***************************************************************************)
EXTENDS CompactLog, FiniteSets

CONSTANTS
  Lead, Peer,    \* the leader and the peers it reaches
  ClusterSize,   \* num_nodes, those that are down included
  None,          \* no snapshot in progress; a chunk that was not received
  Term,          \* the leader's term
  Started,       \* [Lead and Peer -> what a node has when the term starts]
  AutoSnapshot,  \* nodes with RAFT_FLAG_AUTO_SNAPSHOT
  OnDemand,      \* nodes whose program calls raft_snapshot_create
  Threshold,     \* config.snapshot_threshold
  Polls,         \* nodes with a snapshot_poll callback: snapshots are asynchronous
  Failing,       \* what may fail: pairs of a node and "create", "poll" (a snapshot that
                 \* is under way), "write" or "restore"
  Chunks,        \* how many chunks a snapshot takes, by the index it is of
  MaxEntries,    \* config.max_entries_per_msg
  Lossy,         \* types of messages that may be lost
  CrashPeers,    \* peers that may be destroyed and created again, once each
  Deposers,      \* peers that may hear of a later term
  MaxInFlight,   \* bound: messages and replies under way between two nodes
  MaxIndex       \* bound: nothing is proposed beyond this index

Node == {Lead} \cup Peer
Offsets == 0 .. Highest({Chunks[k] : k \in 0 .. MaxIndex}) - 1

ASSUME SnapshotAssumption ==
  /\ Lead \notin Peer /\ Peer # {} /\ IsFiniteSet(Peer)
  /\ ClusterSize \in Nat /\ ClusterSize >= Cardinality(Node)
  /\ Term \in Nat \ {0} /\ Threshold \in Nat
  /\ MaxEntries \in Nat \ {0} /\ MaxInFlight \in Nat /\ MaxIndex \in Nat
  /\ Chunks \in [0 .. MaxIndex -> Nat \ {0}]
  /\ AutoSnapshot \subseteq Node /\ OnDemand \subseteq Node /\ Polls \subseteq Node
  /\ CrashPeers \subseteq Peer /\ Deposers \subseteq Peer

VARIABLES
  node,          \* what every node keeps, see NodeType
  current_term,  \* as in struct raft
  leading,       \* Lead is still in RAFT_STATE_LEADER
  next_index, match_index, \* of the leader's peers[]
  snapshot_send, \* the leader's progress with every peer
  received,      \* the chunks snapshot_write stored, by offset
  crashed,       \* history: peers that were created again
  to_peer, to_leader \* the links, oldest message first

leaderVars == <<leading, next_index, match_index, snapshot_send>>
links == <<to_peer, to_leader>>
vars == <<node, current_term, leaderVars, received, crashed, links>>
-----------------------------------------------------------------------------
(***************************************************************************)
(* What a node keeps.  machine is its state machine: the entries handed to *)
(* apply_entry, those a restored snapshot stands for included.  snapshot   *)
(* is snapshot_last_index and _term, and stored the snapshot its program   *)
(* last stored, which snapshot_read and snapshot_load find (one of index 0 *)
(* stands for none); pending is the one in progress.                       *)
(***************************************************************************)
Entry == [term : 1 .. Term, data : 1 .. MaxIndex]
Machine == Seq(Entry \cup {None})
Mark == [index : Nat, term : Nat]
Snapshot == [index : Nat, term : Nat, machine : Machine]
NodeType ==
  [log : [base : Nat, entries : Seq(Entry)], commit_index : Nat, last_applied : Nat,
   machine : Machine, snapshot : Mark, stored : Snapshot, pending : Snapshot \cup {None}]

\* Neither a state machine nor a snapshot is taken for None.
ASSUME NoneAssumption == None \notin Machine /\ None \notin Snapshot

\* What the leader starts with is within the bound.
ASSUME StartAssumption ==
  /\ Started \in [Node -> NodeType]
  /\ LET lead == Started[Lead]
     IN /\ LastIndex(lead.log) <= MaxIndex /\ lead.last_applied <= MaxIndex
        /\ lead.snapshot.index <= MaxIndex /\ lead.stored.index <= MaxIndex
        /\ lead.pending # None => lead.pending.index <= MaxIndex

\* The term of the entry before the ones sent: the snapshot's when that is the
\* last entry compacted, 0 when it is not known.
PrevTerm(nd, k) ==
  IF Holds(nd.log, k) THEN At(nd.log, k).term
  ELSE IF k = nd.snapshot.index THEN nd.snapshot.term ELSE 0
-----------------------------------------------------------------------------
(***************************************************************************)
(* raft_tick: a snapshot in progress is polled, committed entries are      *)
(* applied, and a snapshot is begun when the log has grown.                *)
(***************************************************************************)
\* The last index and term of a snapshot.
MarkOf(snapshot) == [index |-> snapshot.index, term |-> snapshot.term]

UncompactedFinish(nd, stored) == \* mutant
  [nd EXCEPT !.snapshot = MarkOf(nd.pending), !.stored = stored, !.pending = None]

\* raft_snapshot_finish, when stored is what the program has stored.
Finished(nd, stored) ==
  [nd EXCEPT !.snapshot = MarkOf(nd.pending),
             !.stored = stored,
             !.log = TruncateBefore(nd.log, nd.pending.index),
             !.pending = None]

\* raft_snapshot_poll, done being what its callback says.  It says no more than
\* that: the log gives way to a snapshot that failed as well.
Polled(n, nd, done) ==
  IF n \in Polls /\ nd.pending # None /\ done
  THEN {Finished(nd, nd.pending)}
       \cup (IF <<n, "poll">> \in Failing THEN {Finished(nd, nd.stored)} ELSE {})
  ELSE {nd}

\* The apply loop stops where the log does.
Applied(nd) ==
  LET more == CopyRange(nd.log, nd.last_applied + 1, nd.commit_index - nd.last_applied)
  IN IF nd.commit_index <= nd.last_applied THEN nd
     ELSE [nd EXCEPT !.last_applied = @ + Len(more), !.machine = @ \o more]

\* mutant: the snapshot is taken for all that is committed
SnapshotOfCommitted(nd) ==
  [index |-> nd.commit_index, term |-> PrevTerm(nd, nd.commit_index), machine |-> nd.machine]

\* What raft_snapshot_create saves: the state machine, as of last_applied.
SnapshotOf(nd) ==
  [index |-> nd.last_applied, term |-> PrevTerm(nd, nd.last_applied), machine |-> nd.machine]

\* The ways raft_snapshot_create may end: in progress, done, refused or failed.
Create(n, nd) ==
  LET started == [nd EXCEPT !.pending = SnapshotOf(nd)]
      known == Holds(nd.log, nd.last_applied) \/ nd.last_applied = nd.snapshot.index
  IN IF nd.pending # None \/ ~known THEN {nd}
     ELSE {IF n \in Polls THEN started ELSE Finished(started, started.pending)}
          \cup (IF <<n, "create">> \in Failing THEN {nd} ELSE {})

\* raft_maybe_snapshot
MaybeSnapshot(n, nd) ==
  IF /\ n \in AutoSnapshot
     /\ LastIndex(nd.log) - nd.snapshot.index >= Threshold
     /\ nd.last_applied > nd.snapshot.index
  THEN Create(n, nd) ELSE {nd}

\* A tick that sends no heartbeats.
Tick(n, done) ==
  /\ \E polled \in Polled(n, node[n], done) : \E nd \in MaybeSnapshot(n, Applied(polled)) :
       node' = [node EXCEPT ![n] = nd]
  /\ UNCHANGED <<current_term, leaderVars, received, crashed, links>>

\* The program asks for a snapshot.
SnapshotCreate(n) ==
  /\ n \in OnDemand
  /\ \E nd \in Create(n, node[n]) : node' = [node EXCEPT ![n] = nd]
  /\ UNCHANGED <<current_term, leaderVars, received, crashed, links>>
-----------------------------------------------------------------------------
(***************************************************************************)
(* What the leader sends (raft_send_heartbeats).                           *)
(***************************************************************************)
\* raft_peer_needs_snapshot
NeedsSnapshot(nd, p) == next_index[p] < nd.log.base + 1

AppendRequest(nd, p) ==
  [type |-> "AppendEntries", term |-> current_term[Lead],
   prev_index |-> next_index[p] - 1, prev_term |-> PrevTerm(nd, next_index[p] - 1),
   entries |-> CopyRange(nd.log, next_index[p], MaxEntries), leader_commit |-> nd.commit_index]

\* raft_send_installsnapshot: the next chunk of the snapshot stored last, under
\* the index and term the log was compacted to, wherever the transfer has got to.
\* Past the end there is nothing to read.
ChunkRequest(nd, p) ==
  LET o == snapshot_send[p].offset
      count == Chunks[nd.stored.index]
  IN [type |-> "InstallSnapshot", term |-> current_term[Lead],
      snapshot |-> [index |-> nd.snapshot.index, term |-> nd.snapshot.term,
                    machine |-> nd.stored.machine],
      offset |-> o, len |-> IF o < count THEN 1 ELSE 0, done |-> o + 1 >= count]

\* One round, by a leader that keeps nd; a transfer that waits for a reply is
\* left alone, and none is possible while no snapshot is stored.
Round(nd) ==
  LET chunkDue(p) ==
        NeedsSnapshot(nd, p) /\ ~snapshot_send[p].in_progress /\ nd.stored.index > 0
      sent(p) == IF chunkDue(p) THEN <<ChunkRequest(nd, p)>>
                 ELSE IF NeedsSnapshot(nd, p) THEN <<>> ELSE <<AppendRequest(nd, p)>>
  IN /\ \A p \in Peer : Len(to_peer[p]) + Len(to_leader[p]) < MaxInFlight
     /\ to_peer' = [p \in Peer |-> to_peer[p] \o sent(p)]
     /\ snapshot_send' = [p \in Peer |->
          IF chunkDue(p) THEN [snapshot_send[p] EXCEPT !.in_progress = TRUE]
          ELSE snapshot_send[p]]

\* A tick of the leader, the heartbeat interval having elapsed.
TickHeartbeat ==
  /\ leading
  /\ \E done \in BOOLEAN : \E nd \in Polled(Lead, node[Lead], done) :
       /\ Round(nd)
       /\ \E after \in MaybeSnapshot(Lead, Applied(nd)) : node' = [node EXCEPT ![Lead] = after]
  /\ UNCHANGED <<current_term, leading, next_index, match_index, received, crashed, to_leader>>

\* raft_propose
Propose ==
  LET k == LastIndex(node[Lead].log) + 1
      nd == [node[Lead] EXCEPT !.log = Extend(@, <<[term |-> current_term[Lead], data |-> k]>>)]
  IN /\ leading /\ k <= MaxIndex
     /\ node' = [node EXCEPT ![Lead] = nd]
     /\ Round(nd)
     /\ UNCHANGED <<current_term, leading, next_index, match_index, received, crashed, to_leader>>
-----------------------------------------------------------------------------
(***************************************************************************)
(* What a peer answers.                                                    *)
(***************************************************************************)
\* The peer takes the oldest request off its link and answers.
Answer(p, reply) ==
  /\ to_leader' = [to_leader EXCEPT ![p] = Append(@, reply)]
  /\ to_peer' = [to_peer EXCEPT ![p] = Tail(@)]

AppendReply(p, success, match, conflictTerm, conflictIndex) ==
  [type |-> "AppendReply", term |-> current_term[p], success |-> success, match_index |-> match,
   conflict_term |-> conflictTerm, conflict_index |-> conflictIndex]

SnapshotReply(p, success, offset, done) ==
  [type |-> "SnapshotReply", term |-> current_term[p], success |-> success,
   last_offset |-> offset, done |-> done]

\* The oldest message on a link is one of type t.
HeadIs(link, t) == link # <<>> /\ Head(link).type = t

\* A request of a term that is over.  resp->done is not initialized.
RefuseStaleTerm(p) ==
  /\ to_peer[p] # <<>> /\ Head(to_peer[p]).term < current_term[p]
  /\ LET m == Head(to_peer[p])
     IN \E junk \in BOOLEAN :
          Answer(p, IF m.type = "AppendEntries" THEN AppendReply(p, FALSE, 0, 0, 0)
                    ELSE SnapshotReply(p, FALSE, m.offset, junk))
  /\ UNCHANGED <<node, current_term, leaderVars, received, crashed>>

\* Rule 2 on a compacted log.  An entry covered by the snapshot is not looked at,
\* and one at its end is compared with the snapshot's term.
Conflicts(nd, m) ==
  /\ m.prev_index > nd.snapshot.index
  /\ Holds(nd.log, m.prev_index)
  /\ At(nd.log, m.prev_index).term # m.prev_term

\* mutants: what the snapshot covers is taken as held; terms are not compared
CoveredIsHeld(nd, m) ==
  m.prev_index <= nd.snapshot.index \/ (Holds(nd.log, m.prev_index) /\ ~Conflicts(nd, m))
AnyTerm(nd, m) == m.prev_index \in {0, nd.snapshot.index} \/ Holds(nd.log, m.prev_index)

HasPrev(nd, m) ==
  \/ m.prev_index = 0
  \/ m.prev_index = nd.snapshot.index /\ nd.snapshot.term = m.prev_term
  \/ /\ m.prev_index > nd.snapshot.index
     /\ Holds(nd.log, m.prev_index) /\ ~Conflicts(nd, m)

\* The match_index of a refusal without a conflicting entry.
RefusedAt(nd, m) ==
  IF m.prev_index = nd.snapshot.index THEN 0
  ELSE IF m.prev_index < nd.snapshot.index THEN nd.snapshot.index ELSE LastIndex(nd.log)

RefuseMissingPrev(p) ==
  LET m == Head(to_peer[p])
      nd == node[p]
  IN /\ HeadIs(to_peer[p], "AppendEntries") /\ m.term = current_term[p]
     /\ ~HasPrev(nd, m) /\ ~Conflicts(nd, m)
     /\ Answer(p, AppendReply(p, FALSE, RefusedAt(nd, m), 0, 0))
     /\ UNCHANGED <<node, current_term, leaderVars, received, crashed>>

RefuseConflictingPrev(p) ==
  LET m == Head(to_peer[p])
      nd == node[p]
      t == At(nd.log, m.prev_index).term
  IN /\ HeadIs(to_peer[p], "AppendEntries") /\ m.term = current_term[p]
     /\ Conflicts(nd, m)
     /\ node' = [node EXCEPT ![p].log = TruncateAfter(@, m.prev_index - 1)]
     /\ Answer(p, AppendReply(p, FALSE, m.prev_index - 1, t, Lowest(IndexesOfTerm(nd.log, t))))
     /\ UNCHANGED <<current_term, leaderVars, received, crashed>>

\* Entry e for index k: kept if it is there, else it and what follows give way,
\* and e goes to the end, which is where k is unless k was compacted.
StoredOne(l, k, e) ==
  IF Holds(l, k) /\ At(l, k).term = e.term THEN l
  ELSE Extend(IF Holds(l, k) THEN TruncateAfter(l, k - 1) ELSE l, <<e>>)

\* Rules 3 and 4.
Stored(l, prev, es) ==
  LET upTo[n \in 0 .. Len(es)] ==
        IF n = 0 THEN l ELSE StoredOne(upTo[n - 1], prev + n, es[n])
  IN upTo[Len(es)]

AcceptAppend(p) ==
  LET m == Head(to_peer[p])
      l == Stored(node[p].log, m.prev_index, m.entries)
      c == Lowest({m.leader_commit, m.prev_index + Len(m.entries), LastIndex(l)})
  IN /\ HeadIs(to_peer[p], "AppendEntries") /\ m.term = current_term[p]
     /\ HasPrev(node[p], m)
     /\ node' = [node EXCEPT ![p].log = l,
                             ![p].commit_index = IF m.leader_commit > @ THEN c ELSE @]
     /\ Answer(p, AppendReply(p, TRUE, LastIndex(l), 0, 0))
     /\ UNCHANGED <<current_term, leaderVars, received, crashed>>
-----------------------------------------------------------------------------
(***************************************************************************)
(* InstallSnapshot at a peer (raft_recv_installsnapshot).                  *)
(***************************************************************************)
\* The peer's own snapshot is as new.  resp->done is not initialized.
IgnoreOldSnapshot(p) ==
  LET m == Head(to_peer[p])
  IN /\ HeadIs(to_peer[p], "InstallSnapshot") /\ m.term = current_term[p]
     /\ m.snapshot.index <= node[p].snapshot.index
     /\ \E junk \in BOOLEAN : Answer(p, SnapshotReply(p, TRUE, m.offset, junk))
     /\ UNCHANGED <<node, current_term, leaderVars, received, crashed>>

NewChunk(p) ==
  /\ HeadIs(to_peer[p], "InstallSnapshot")
  /\ Head(to_peer[p]).term = current_term[p]
  /\ Head(to_peer[p]).snapshot.index > node[p].snapshot.index

\* The chunks the peer has once m is written.
Written(p, m) ==
  [o \in DOMAIN received[p] |->
     IF o = m.offset /\ m.len > 0 THEN m.snapshot.machine ELSE received[p][o]]

\* snapshot_write fails, or, for the last chunk, snapshot_restore does.
FailChunk(p) ==
  LET m == Head(to_peer[p])
  IN /\ NewChunk(p)
     /\ \/ /\ <<p, "write">> \in Failing
           /\ \E junk \in BOOLEAN : Answer(p, SnapshotReply(p, FALSE, m.offset, junk))
           /\ UNCHANGED received
        \/ /\ <<p, "restore">> \in Failing /\ m.done
           /\ Answer(p, SnapshotReply(p, FALSE, m.offset + m.len, TRUE))
           /\ received' = [received EXCEPT ![p] = Written(p, m)]
     /\ UNCHANGED <<node, current_term, leaderVars, crashed>>

StoreChunk(p) ==
  LET m == Head(to_peer[p])
  IN /\ NewChunk(p) /\ ~m.done
     /\ received' = [received EXCEPT ![p] = Written(p, m)]
     /\ Answer(p, SnapshotReply(p, TRUE, m.offset + m.len, FALSE))
     /\ UNCHANGED <<node, current_term, leaderVars, crashed>>

\* What snapshot_restore makes of the chunks, for a snapshot of that index: the
\* state machine they are all of, or nothing that makes sense.
Restored(chunks, index) ==
  IF chunks[0] # None /\ \A o \in 0 .. Chunks[Len(chunks[0])] - 1 : chunks[o] = chunks[0]
  THEN chunks[0] ELSE [k \in 1 .. index |-> None]

\* The last chunk: the snapshot supersedes the log.
InstallSnapshot(p) ==
  LET m == Head(to_peer[p])
      nd == node[p]
      k == m.snapshot.index
      machine == Restored(Written(p, m), k)
  IN /\ NewChunk(p) /\ m.done
     /\ node' = [node EXCEPT ![p] =
          [nd EXCEPT !.snapshot = MarkOf(m.snapshot),
                     !.stored = [m.snapshot EXCEPT !.machine = machine],
                     !.machine = machine,
                     !.log = EmptyLog(k),
                     !.commit_index = Highest({@, k}),
                     !.last_applied = Highest({@, k})]]
     /\ received' = [received EXCEPT ![p] = [o \in DOMAIN @ |-> None]]
     /\ Answer(p, SnapshotReply(p, TRUE, m.offset + m.len, TRUE))
     /\ UNCHANGED <<current_term, leaderVars, crashed>>
-----------------------------------------------------------------------------
(***************************************************************************)
(* What the leader makes of a reply.                                       *)
(***************************************************************************)
TakeReply(p) == to_leader' = [to_leader EXCEPT ![p] = Tail(@)]

StepDown(p) ==
  /\ leading
  /\ to_leader[p] # <<>> /\ Head(to_leader[p]).term > current_term[Lead]
  /\ leading' = FALSE
  /\ current_term' = [current_term EXCEPT ![Lead] = Head(to_leader[p]).term]
  /\ TakeReply(p)
  /\ UNCHANGED <<node, next_index, match_index, snapshot_send, received, crashed, to_peer>>

Idle == [in_progress |-> FALSE, offset |-> 0]

\* The highest index of the leader's term that a quorum's match_index covers.
AdvancedCommit(nd, match) ==
  LET covered(k) == 2 * Cardinality({Lead} \cup {p \in Peer : match[p] >= k}) > ClusterSize
      candidates == {k \in nd.commit_index + 1 .. LastIndex(nd.log) :
                       Holds(nd.log, k) /\ At(nd.log, k).term = current_term[Lead] /\ covered(k)}
  IN Highest({nd.commit_index} \cup candidates)

\* An index that is news also ends a snapshot transfer to the peer.
RecvAppendSuccess(p) ==
  LET m == Head(to_leader[p])
      news == m.match_index > match_index[p]
  IN /\ leading
     /\ HeadIs(to_leader[p], "AppendReply") /\ m.success /\ m.term = current_term[Lead]
     /\ IF news
        THEN /\ match_index' = [match_index EXCEPT ![p] = m.match_index]
             /\ next_index' = [next_index EXCEPT ![p] = m.match_index + 1]
             /\ snapshot_send' = [snapshot_send EXCEPT ![p] = Idle]
        ELSE UNCHANGED <<match_index, next_index, snapshot_send>>
     /\ node' = [node EXCEPT ![Lead].commit_index = AdvancedCommit(node[Lead], match_index')]
     /\ TakeReply(p)
     /\ UNCHANGED <<current_term, leading, received, crashed, to_peer>>

\* Where a leader with log l goes on after refusal m, when it was at next.
RolledBack(l, next, m) ==
  LET mine == Highest(IndexesOfTerm(l, m.conflict_term))
  IN IF m.conflict_term > 0
     THEN IF mine > 0 THEN mine + 1 ELSE m.conflict_index
     ELSE IF m.match_index > 0 /\ m.match_index < next
     THEN m.match_index + 1
     ELSE IF next > 1 THEN next - 1 ELSE next

RecvAppendRefusal(p) ==
  LET m == Head(to_leader[p])
  IN /\ leading
     /\ HeadIs(to_leader[p], "AppendReply") /\ ~m.success /\ m.term = current_term[Lead]
     /\ next_index' = [next_index EXCEPT ![p] = RolledBack(node[Lead].log, @, m)]
     /\ TakeReply(p)
     /\ UNCHANGED <<node, current_term, leading, match_index, snapshot_send, received, crashed,
                    to_peer>>

\* mutants: the offset is not reset when all is sent; a failure ends nothing
UnresetProgress(m) == [in_progress |-> FALSE, offset |-> IF m.success THEN m.last_offset ELSE 0]
StuckProgress(m) ==
  [in_progress |-> ~m.success, offset |-> IF m.success /\ ~m.done THEN m.last_offset ELSE 0]

\* The progress of a transfer after reply m.
Progress(m) ==
  [in_progress |-> FALSE, offset |-> IF m.success /\ ~m.done THEN m.last_offset ELSE 0]

\* The peer of a transfer that is done has the leader's latest snapshot.
RecvSnapshotReply(p) ==
  LET m == Head(to_leader[p])
      k == node[Lead].snapshot.index
  IN /\ leading
     /\ HeadIs(to_leader[p], "SnapshotReply") /\ m.term <= current_term[Lead]
     /\ snapshot_send' = [snapshot_send EXCEPT ![p] = Progress(m)]
     /\ IF m.success /\ m.done
        THEN /\ next_index' = [next_index EXCEPT ![p] = k + 1]
             /\ match_index' = [match_index EXCEPT ![p] = k]
        ELSE UNCHANGED <<next_index, match_index>>
     /\ TakeReply(p)
     /\ UNCHANGED <<node, current_term, leading, received, crashed, to_peer>>
-----------------------------------------------------------------------------
(***************************************************************************)
(* Surroundings: crashes, candidates and the network.                      *)
(***************************************************************************)
\* raft_create, with raft_snapshot_restore: all a node has is what it stored.
Restart(p) ==
  LET s == node[p].stored
  IN /\ p \in CrashPeers \ crashed
     /\ crashed' = crashed \cup {p}
     /\ node' = [node EXCEPT ![p] =
          [log |-> EmptyLog(s.index), commit_index |-> s.index, last_applied |-> s.index,
           machine |-> s.machine, snapshot |-> MarkOf(s), stored |-> s, pending |-> None]]
     /\ UNCHANGED <<current_term, leaderVars, received, links>>

\* A vote request of a later term reaches the peer.
HearLaterTerm(p) ==
  /\ p \in Deposers /\ current_term[p] = Term
  /\ current_term' = [current_term EXCEPT ![p] = Term + 1]
  /\ UNCHANGED <<node, leaderVars, received, crashed, links>>

Lose(p) ==
  /\ \/ /\ to_peer[p] # <<>> /\ Head(to_peer[p]).type \in Lossy
        /\ to_peer' = [to_peer EXCEPT ![p] = Tail(@)] /\ UNCHANGED to_leader
     \/ /\ to_leader[p] # <<>> /\ Head(to_leader[p]).type \in Lossy
        /\ TakeReply(p) /\ UNCHANGED to_peer
  /\ UNCHANGED <<node, current_term, leaderVars, received, crashed>>
-----------------------------------------------------------------------------
\* The leader was just elected: it has appended its no-op, and its first round
\* of heartbeats was lost.
Init ==
  /\ node = Started
  /\ current_term = [n \in Node |-> Term]
  /\ leading = TRUE
  /\ next_index = [p \in Peer |-> LastIndex(Started[Lead].log)]
  /\ match_index = [p \in Peer |-> 0]
  /\ snapshot_send = [p \in Peer |-> Idle]
  /\ received = [p \in Peer |-> [o \in Offsets |-> None]]
  /\ crashed = {}
  /\ to_peer = [p \in Peer |-> <<>>]
  /\ to_leader = [p \in Peer |-> <<>>]

RecvRequest(p) ==
  \/ RefuseStaleTerm(p) \/ RefuseMissingPrev(p) \/ RefuseConflictingPrev(p) \/ AcceptAppend(p)
  \/ IgnoreOldSnapshot(p) \/ StoreChunk(p) \/ InstallSnapshot(p)

RecvReply(p) ==
  StepDown(p) \/ RecvAppendSuccess(p) \/ RecvAppendRefusal(p) \/ RecvSnapshotReply(p)

Next ==
  \/ TickHeartbeat \/ Propose
  \/ \E n \in Node : SnapshotCreate(n) \/ \E done \in BOOLEAN : Tick(n, done)
  \/ \E p \in Peer :
       \/ RecvRequest(p) \/ RecvReply(p)
       \/ FailChunk(p) \/ Restart(p) \/ HearLaterTerm(p) \/ Lose(p)

Spec == Init /\ [][Next]_vars

\* Programs call raft_tick over and over, heartbeats fall due, snapshots in
\* progress end, and what is tried again and again is at last done: a message
\* gets through, a last chunk is stored and restored.
Fairness ==
  /\ WF_vars(TickHeartbeat)
  /\ \A n \in Node : WF_vars(Tick(n, TRUE))
  /\ \A p \in Peer :
       SF_vars(RecvRequest(p)) /\ SF_vars(InstallSnapshot(p)) /\ SF_vars(RecvReply(p))

FairSpec == Spec /\ Fairness
-----------------------------------------------------------------------------
Request ==
  [type : {"AppendEntries"}, term : Nat, prev_index : Nat, prev_term : Nat,
   entries : Seq(Entry), leader_commit : Nat]
  \cup [type : {"InstallSnapshot"}, term : Nat, snapshot : Snapshot, offset : Nat,
        len : {0, 1}, done : BOOLEAN]
Reply ==
  [type : {"AppendReply"}, term : Nat, success : BOOLEAN, match_index : Nat,
   conflict_term : Nat, conflict_index : Nat]
  \cup [type : {"SnapshotReply"}, term : Nat, success : BOOLEAN, last_offset : Nat, done : BOOLEAN]

\* Every variable keeps its type; no index and no next_index goes below zero,
\* and no transfer goes on past the end of the snapshot, where snapshot_read
\* has nothing (raft_snapshot.c:244).
TypeOK ==
  /\ node \in [Node -> NodeType]
  /\ current_term \in [Node -> Nat]
  /\ leading \in BOOLEAN
  /\ next_index \in [Peer -> Nat] /\ match_index \in [Peer -> Nat]
  /\ snapshot_send \in [Peer -> [in_progress : BOOLEAN, offset : Offsets]]
  /\ received \in [Peer -> [Offsets -> Machine \cup {None}]]
  /\ crashed \subseteq CrashPeers
  /\ to_peer \in [Peer -> Seq(Request)] /\ to_leader \in [Peer -> Seq(Reply)]

\* Whether entries were applied one by one or came with a snapshot, state
\* machines agree on them, and each is as far as its node says.
MachinesAgree ==
  /\ \A n \in Node : Len(node[n].machine) = node[n].last_applied
  /\ \A n, o \in Node : LET a == node[n].machine
                          b == node[o].machine
                      IN \A k \in DOMAIN a \cap DOMAIN b : a[k] = b[k]

\* raft_replication.c:163 is about "new entries not already in the log": an entry
\* is only ever held at the index its leader gave it.
EntriesInPlace ==
  \A n \in Node : \A k \in node[n].log.base + 1 .. LastIndex(node[n].log) :
    At(node[n].log, k).data = k

\* The log begins where the snapshot ends, however compaction, transfers and
\* restarts follow each other.
LogFollowsSnapshot == \A n \in Node : node[n].log.base = node[n].snapshot.index

\* Beyond the leader's snapshot, what the match_index of a peer that did not
\* restart covers, the peer has.
MatchIsHeld ==
  leading => \A p \in Peer \ crashed : \A k \in node[Lead].snapshot.index + 1 .. match_index[p] :
    \/ k <= node[p].snapshot.index
    \/ /\ Holds(node[p].log, k) /\ Holds(node[Lead].log, k)
       /\ At(node[p].log, k) = At(node[Lead].log, k)

\* In the end every node has applied all that the leader appended (what is
\* proposed is bounded here), unless the leader is deposed: no peer is too far
\* behind, or has too much, to be brought up to date.
Replicated ==
  <>[](leading => \A n \in Node : node[n].last_applied = LastIndex(node[Lead].log))
=============================================================================
