---------------------------- MODULE MachineProofs ----------------------------
(***************************************************************************)
(* Proofs about what snapshots and logs add up to: chunks are put together *)
(* right, state machines agree however an entry got to them, and           *)
(* match_index tells the truth.  The code promises none of this outright.  *)
(* Each theorem names the conditions under which it does, as predicates of *)
(* steps; what goes wrong without them are the hazards of raft_snapshot.c  *)
(* and raft_replication.c.                                                 *)
(***************************************************************************)
EXTENDS SnapshotProofs
-----------------------------------------------------------------------------
(***************************************************************************)
(* Snapshots in chunks.  Between two nodes, s is the leader's snapshot, k  *)
(* the index of the peer's own, chunks what the peer has stored, o the     *)
(* offset the leader goes on from.                                         *)
(***************************************************************************)
IsChunk(m) == m.type = "InstallSnapshot"
IsWhole(m) == m.offset = 0 /\ m.done
MoreWanted(r) == r.type = "SnapshotReply" /\ r.success /\ ~r.done

\* A transfer of several chunks is under way.
PartWay(o, requests, replies) ==
  \/ o > 0
  \/ \E m \in Range(requests) : IsChunk(m) /\ ~IsWhole(m)
  \/ \E r \in Range(replies) : MoreWanted(r) /\ r.last_offset > 0

\* The peer has all of s that is before offset o, or as good a snapshot.
Prepared(s, k, chunks, o) ==
  \/ o = 0
  \/ /\ o < Chunks[s.index]
     /\ s.index <= k \/ \A i \in 0 .. o - 1 : chunks[i] = s.machine

\* A transfer of several chunks has got beyond the first.
Begun(o, requests, replies) ==
  \/ o > 0
  \/ \E m \in Range(requests) : IsChunk(m) /\ m.offset > 0
  \/ \E r \in Range(replies) : MoreWanted(r) /\ r.last_offset > 0

\* A chunk as raft_send_installsnapshot reads it.
ProperChunk(m) ==
  /\ m.len = 1 /\ m.snapshot.index <= MaxIndex /\ Len(m.snapshot.machine) = m.snapshot.index
  /\ m.done <=> m.offset + 1 >= Chunks[m.snapshot.index]

\* Only a snapshot of one chunk may be an older one.
GoodPart(s, k, chunks, m) ==
  IsChunk(m) => /\ ProperChunk(m)
                /\ IsWhole(m) \/ (m.snapshot = s /\ Prepared(s, k, chunks, m.offset))

AllOf(s, requests) == \A m \in Range(requests) : IsChunk(m) => m.snapshot = s

\* What follows a part of s is of s.
PartsFirst(s, requests) ==
  \A i, j \in DOMAIN requests :
    i < j /\ IsChunk(requests[i]) /\ ~IsWhole(requests[i]) /\ IsChunk(requests[j]) =>
      requests[j].snapshot = s

ChunksInLine(s, k, chunks, o, requests, replies) ==
  /\ Prepared(s, k, chunks, o)
  /\ \A m \in Range(requests) : GoodPart(s, k, chunks, m)
  /\ \A r \in Range(replies) : MoreWanted(r) => Prepared(s, k, chunks, r.last_offset)
  /\ PartsFirst(s, requests)
  /\ Begun(o, requests, replies) => AllOf(s, requests)

\* A request goes off the link.
LEMMA PartsFirstTail ==
  ASSUME NEW s, NEW S, NEW q \in Seq(S), q # <<>>, PartsFirst(s, q)
  PROVE  /\ PartsFirst(s, Tail(q))
         /\ IsChunk(Head(q)) /\ ~IsWhole(Head(q)) => AllOf(s, Tail(q))
<1>1. /\ DOMAIN q = 1 .. Len(q) /\ Len(q) \in Nat /\ Head(q) = q[1] /\ 1 \in DOMAIN q
      /\ DOMAIN Tail(q) = 1 .. Len(q) - 1
      /\ \A i \in 1 .. Len(q) - 1 : Tail(q)[i] = q[i + 1]
  OBVIOUS
<1>0. PICK t : t = Tail(q)
  OBVIOUS
<1>2. PICK n \in Nat : n = Len(q) /\ t = Tail(q)
  BY <1>0, <1>1
<1>3. \A i \in DOMAIN t : i + 1 \in DOMAIN q /\ t[i] = q[i + 1] /\ i \in Nat /\ i >= 1
  BY <1>1, <1>2
<1>4. PartsFirst(s, t)
  <2>1. ASSUME NEW i \in DOMAIN t, NEW j \in DOMAIN t, i < j,
               IsChunk(t[i]), ~IsWhole(t[i]), IsChunk(t[j])
        PROVE  t[j].snapshot = s
    <3>1. i + 1 < j + 1 /\ i + 1 \in DOMAIN q /\ j + 1 \in DOMAIN q /\ t[i] = q[i + 1] /\ t[j] = q[j + 1]
      BY <1>3, <2>1
    <3> QED
      BY <2>1, <3>1 DEF PartsFirst
  <2> QED
    BY <2>1 DEF PartsFirst
<1>5. ASSUME IsChunk(Head(q)) /\ ~IsWhole(Head(q)) PROVE AllOf(s, t)
  <2>1. ASSUME NEW i \in DOMAIN t, IsChunk(t[i]) PROVE t[i].snapshot = s
    <3>1. 1 < i + 1 /\ i + 1 \in DOMAIN q /\ t[i] = q[i + 1]
      BY <1>3
    <3> QED
      BY <1>1, <1>5, <2>1, <3>1 DEF PartsFirst
  <2> QED
    BY <2>1 DEF AllOf, Range
<1> QED
  BY <1>2, <1>4, <1>5

\* A request is put on the link.
LEMMA PartsFirstAppend ==
  ASSUME NEW s, NEW S, NEW q \in Seq(S), NEW m \in S, PartsFirst(s, q), IsChunk(m) => m.snapshot = s
  PROVE  PartsFirst(s, Append(q, m))
<1>1. PICK n \in Nat : n = Len(q)
  OBVIOUS
<1> DEFINE a == Append(q, m)
<1>2. /\ DOMAIN q = 1 .. n /\ DOMAIN a = 1 .. n + 1
      /\ \A i \in 1 .. n : a[i] = q[i]
      /\ a[n + 1] = m
  BY <1>1
<1> HIDE DEF a
<1>3. ASSUME NEW i \in 1 .. n + 1, NEW j \in 1 .. n + 1, i < j,
             IsChunk(a[i]), ~IsWhole(a[i]), IsChunk(a[j])
      PROVE  a[j].snapshot = s
  <2>1. CASE j = n + 1
    BY <1>2, <1>3, <2>1
  <2>2. CASE j # n + 1
    <3>1. i \in 1 .. n /\ j \in 1 .. n
      BY <1>3, <2>2
    <3> QED
      BY <1>2, <1>3, <3>1 DEF PartsFirst
  <2> QED
    BY <2>1, <2>2
<1> QED
  BY <1>2, <1>3 DEF PartsFirst, a

-----------------------------------------------------------------------------
\* A request goes off the link, answered or lost.
LEMMA LineTail ==
  ASSUME NEW s, NEW k, NEW chunks, NEW o, NEW requests \in Seq(GoodRequest), NEW replies,
         requests # <<>>, ChunksInLine(s, k, chunks, o, requests, replies)
  PROVE  ChunksInLine(s, k, chunks, o, Tail(requests), replies)
<1>1. Range(Tail(requests)) \subseteq Range(requests)
  BY RangeIs
<1>2. PartsFirst(s, Tail(requests))
  BY PartsFirstTail DEF ChunksInLine
<1>3. PICK t : t = Tail(requests)
  OBVIOUS
<1>4. ChunksInLine(s, k, chunks, o, t, replies)
  BY <1>1, <1>2, <1>3 DEF ChunksInLine, Begun, AllOf
<1> QED
  BY <1>3, <1>4

\* The leader takes a reply, or loses it, and goes on from offset next.
LEMMA LineReplyTaken ==
  ASSUME NEW s, NEW k, NEW chunks, NEW o, NEW requests, NEW replies \in Seq(GoodReply), NEW next,
         replies # <<>>, ChunksInLine(s, k, chunks, o, requests, replies),
         \/ next \in {0, o}
         \/ MoreWanted(Head(replies)) /\ next = Head(replies).last_offset
  PROVE  ChunksInLine(s, k, chunks, next, requests, Tail(replies))
<1>1. PICK t, r : t = Tail(replies) /\ r = Head(replies)
  OBVIOUS
<1>2. Range(t) \subseteq Range(replies) /\ r \in Range(replies)
  BY <1>1, RangeIs
<1>3. Prepared(s, k, chunks, next)
  BY <1>1, <1>2 DEF ChunksInLine, Prepared
<1>4. Begun(next, requests, t) => Begun(o, requests, replies)
  BY <1>1, <1>2 DEF Begun
<1>5. ChunksInLine(s, k, chunks, next, requests, t)
  BY <1>2, <1>3, <1>4 DEF ChunksInLine
<1> QED
  BY <1>1, <1>5

\* The leader sends a chunk of its snapshot from where the transfer is, or entries.
LEMMA LineSent ==
  ASSUME NEW s, NEW k, NEW chunks, NEW o, NEW requests \in Seq(GoodRequest), NEW replies,
         ChunksInLine(s, k, chunks, o, requests, replies), NEW m \in GoodRequest,
         IsChunk(m) => m.snapshot = s /\ m.offset = o /\ ProperChunk(m)
  PROVE  ChunksInLine(s, k, chunks, o, Append(requests, m), replies)
<1>1. PICK a : a = Append(requests, m)
  OBVIOUS
<1>2. Range(a) = Range(requests) \cup {m}
  BY <1>1, RangeIs
<1>3. PartsFirst(s, a)
  BY <1>1, PartsFirstAppend DEF ChunksInLine
<1>4. GoodPart(s, k, chunks, m)
  BY DEF ChunksInLine, GoodPart
<1>5. Begun(o, a, replies) => Begun(o, requests, replies)
  BY <1>2 DEF Begun
<1>6. AllOf(s, requests) => AllOf(s, a)
  BY <1>2 DEF AllOf
<1>7. ChunksInLine(s, k, chunks, o, a, replies)
  BY <1>2, <1>3, <1>4, <1>5, <1>6 DEF ChunksInLine
<1> QED
  BY <1>1, <1>7

\* The peer answers.
LEMMA LineReply ==
  ASSUME NEW s, NEW k, NEW chunks, NEW o, NEW requests, NEW replies \in Seq(GoodReply),
         ChunksInLine(s, k, chunks, o, requests, replies), NEW r \in GoodReply,
         MoreWanted(r) => /\ Prepared(s, k, chunks, r.last_offset)
                          /\ r.last_offset > 0 => AllOf(s, requests)
  PROVE  ChunksInLine(s, k, chunks, o, requests, Append(replies, r))
<1>1. PICK a : a = Append(replies, r)
  OBVIOUS
<1>2. Range(a) = Range(replies) \cup {r}
  BY <1>1, RangeIs
<1>3. Begun(o, requests, a) => Begun(o, requests, replies) \/ (MoreWanted(r) /\ r.last_offset > 0)
  BY <1>2 DEF Begun
<1>4. ChunksInLine(s, k, chunks, o, requests, a)
  BY <1>2, <1>3 DEF ChunksInLine
<1> QED
  BY <1>1, <1>4

\* What the peer has changes: only a transfer that has begun depends on it.
LEMMA LineKept ==
  ASSUME NEW s, NEW k, NEW chunks, NEW o \in Nat, NEW requests \in Seq(GoodRequest),
         NEW replies \in Seq(GoodReply), ChunksInLine(s, k, chunks, o, requests, replies),
         NEW later, NEW written,
         Begun(o, requests, replies) =>
           \A n \in Nat : Prepared(s, k, chunks, n) => Prepared(s, later, written, n)
  PROVE  ChunksInLine(s, later, written, o, requests, replies)
<1>1. ASSUME NEW m \in Range(requests), IsChunk(m) PROVE m.offset \in Nat
  <2>1. m \in GoodRequest
    BY <1>1, RangeIs
  <2> QED
    BY <1>1, <2>1, ChunkFields DEF IsChunk
<1>2. ASSUME NEW r \in Range(replies), MoreWanted(r) PROVE r.last_offset \in Nat
  <2>1. r \in GoodReply
    BY <1>2, RangeIs
  <2> QED
    BY <1>2, <2>1, ReplyFields, OffsetsType DEF MoreWanted
<1>3. CASE Begun(o, requests, replies)
  <2>1. \A n \in Nat : Prepared(s, k, chunks, n) => Prepared(s, later, written, n)
    BY <1>3
  <2>2. Prepared(s, later, written, o)
    BY <2>1 DEF ChunksInLine
  <2>3. \A m \in Range(requests) : GoodPart(s, later, written, m)
    BY <1>1, <2>1 DEF ChunksInLine, GoodPart
  <2>4. \A r \in Range(replies) : MoreWanted(r) => Prepared(s, later, written, r.last_offset)
    BY <1>2, <2>1 DEF ChunksInLine
  <2> QED
    BY <2>2, <2>3, <2>4 DEF ChunksInLine
<1>4. CASE ~Begun(o, requests, replies)
  <2>1. o = 0
    BY <1>4 DEF Begun
  <2>2. \A m \in Range(requests) : IsChunk(m) => m.offset = 0
    BY <1>1, <1>4 DEF Begun
  <2>3. \A r \in Range(replies) : MoreWanted(r) => r.last_offset = 0
    BY <1>2, <1>4 DEF Begun
  <2>4. Prepared(s, later, written, 0)
    BY DEF Prepared
  <2>5. \A m \in Range(requests) : GoodPart(s, later, written, m)
    BY <2>2, <2>4 DEF ChunksInLine, GoodPart
  <2> QED
    BY <2>1, <2>3, <2>4, <2>5 DEF ChunksInLine
<1> QED
  BY <1>3, <1>4

\* No transfer of several chunks is under way: the leader's snapshot may change.
LEMMA LineIdle ==
  ASSUME NEW s, NEW k, NEW chunks, NEW o \in Nat, NEW requests \in Seq(GoodRequest),
         NEW replies \in Seq(GoodReply), ~PartWay(o, requests, replies),
         \A m \in Range(requests) : IsChunk(m) => ProperChunk(m)
  PROVE  ChunksInLine(s, k, chunks, o, requests, replies)
<1>1. o = 0
  BY DEF PartWay
<1>2. \A m \in Range(requests) : IsChunk(m) => IsWhole(m) /\ m.offset = 0
  BY DEF PartWay, IsWhole
<1>3. ASSUME NEW r \in Range(replies), MoreWanted(r) PROVE r.last_offset = 0
  <2>1. r \in GoodReply
    BY <1>3, RangeIs
  <2>2. r.last_offset \in Nat
    BY <1>3, <2>1, ReplyFields, OffsetsType DEF MoreWanted
  <2> QED
    BY <1>3, <2>2 DEF PartWay
<1>4. Prepared(s, k, chunks, 0)
  BY DEF Prepared
<1>5. \A m \in Range(requests) : GoodPart(s, k, chunks, m)
  BY <1>2 DEF GoodPart
<1>6. PartsFirst(s, requests)
  <2>1. \A i \in DOMAIN requests : requests[i] \in Range(requests)
    BY DEF Range
  <2> QED
    BY <1>2, <2>1 DEF PartsFirst
<1>7. ~Begun(o, requests, replies)
  BY <1>1, <1>2, <1>3 DEF Begun
<1> QED
  BY <1>1, <1>3, <1>4, <1>5, <1>6, <1>7 DEF ChunksInLine

-----------------------------------------------------------------------------
(***************************************************************************)
(* Every step keeps the chunks in line, when the leader does not compact   *)
(* its log in the middle of a transfer.                                    *)
(***************************************************************************)
Underway(p) == PartWay(snapshot_send[p].offset, to_peer[p], to_leader[p])

\* The leader's stored snapshot changes only when no transfer of several chunks is
\* under way, and none begins then.
Steady ==
  node'[Lead].stored # node[Lead].stored => \A p \in Peer : ~Underway(p) /\ ~Underway(p)'

\* A peer whose program did not store the snapshot its log gave way to starts
\* again only when no transfer of several chunks to it is under way.
Recoverable == \A p \in Peer : Restart(p) => HasStored(node[p]) \/ ~Underway(p)

\* What the leader's log gave way to is stored, if no snapshot of its own fails
\* (raft_snapshot.c:31), and is as large as it says.
WholeSnapshot(nd) == HasStored(nd) /\ Sized(nd)
LeadWhole == WholeSnapshot(node[Lead])

\* Every step leaves it so.
LEMMA LeadWholeStep ==
  ASSUME <<Lead, "poll">> \notin Failing
  PROVE  TransferInv /\ FollowInv /\ LeadWhole /\ [Next]_vars => LeadWhole'
<1> SUFFICES ASSUME TransferInv, FollowInv, LeadWhole, [Next]_vars PROVE WholeSnapshot(node'[Lead])
  BY DEF LeadWhole
<1>1. Lead \in Node /\ node[Lead] \in NodeType /\ WholeSnapshot(node[Lead])
  BY NodesAre DEF TransferInv, NodesInv, LeadWhole
<1>2. ASSUME NEW after, Tended(Lead, node[Lead], after) PROVE WholeSnapshot(after)
  BY <1>1, <1>2 DEF Tended, WholeSnapshot
<1>3. ASSUME NEW after, node' = [node EXCEPT ![Lead] = after],
             \/ Tended(Lead, node[Lead], after)
             \/ /\ after.snapshot = node[Lead].snapshot /\ after.stored = node[Lead].stored
                /\ after.pending = node[Lead].pending /\ after.machine = node[Lead].machine
                /\ after.last_applied = node[Lead].last_applied
      PROVE  WholeSnapshot(node'[Lead])
  <2>1. node'[Lead] = after
    BY <1>1, <1>3, NodeIs
  <2>2. WholeSnapshot(after)
    BY <1>1, <1>2, <1>3 DEF WholeSnapshot, HasStored, Sized
  <2> QED
    BY <2>1, <2>2
<1>4. CASE TickHeartbeat
  BY <1>3, <1>4, HeartbeatEffect
<1>5. CASE Propose
  BY <1>3, <1>5, ProposeEffect
<1>6. ASSUME NEW n \in Node, NEW done, Tick(n, done) \/ SnapshotCreate(n)
      PROVE  WholeSnapshot(node'[Lead])
  <2>1. PICK after : Tended(n, node[n], after) /\ node' = [node EXCEPT ![n] = after]
    BY <1>6, OwnEffect
  <2>2. CASE n = Lead
    BY <1>3, <2>1, <2>2
  <2>3. CASE n # Lead
    BY <1>1, <2>1, <2>3, NodeIs
  <2> QED
    BY <2>2, <2>3
<1>7. ASSUME NEW p \in Peer,
             \/ AcceptAppend(p) \/ RefuseConflictingPrev(p)
             \/ InstallSnapshot(p) \/ Restart(p) \/ RecvAppendSuccess(p)
      PROVE  WholeSnapshot(node'[Lead])
  <2>1. p \in Node /\ p # Lead
    BY NodesAre
  <2>2. CASE RecvAppendSuccess(p)
    BY <1>3, <2>2, SuccessEffect
  <2>3. CASE AcceptAppend(p) \/ RefuseConflictingPrev(p) \/ InstallSnapshot(p) \/ Restart(p)
    <3>1. node'[Lead] = node[Lead]
      BY <1>1, <2>1, <2>3, OthersStay
    <3> QED
      BY <1>1, <3>1
  <2> QED
    BY <1>7, <2>2, <2>3
<1>8. CASE StillStep
  BY <1>1, <1>8 DEF StillStep
<1> QED
  BY <1>4, <1>5, <1>6, <1>7, <1>8, WhichStep

\* So is what a round of heartbeats sends.
LEMMA HeartbeatWhole ==
  ASSUME TransferInv, LeadWhole, LeadWhole', NEW nd, NEW after, Tended(Lead, node[Lead], nd),
         \/ nd.snapshot = node[Lead].snapshot /\ nd.stored = node[Lead].stored
         \/ nd.snapshot = after.snapshot /\ nd.stored = after.stored,
         node' = [node EXCEPT ![Lead] = after]
  PROVE  WholeSnapshot(nd)
<1>1. node'[Lead] = after
  BY NodesAre, NodeIs
<1>2. HasStored(nd)
  BY <1>1 DEF LeadWhole, WholeSnapshot, HasStored
<1>3. Sized(nd)
  BY DEF LeadWhole, WholeSnapshot, Tended
<1> QED
  BY <1>2, <1>3 DEF WholeSnapshot

Line(p) ==
  ChunksInLine(node[Lead].stored, node[p].snapshot.index, received[p], snapshot_send[p].offset,
               to_peer[p], to_leader[p])
ChunkInv == \A p \in Peer : Line(p)

\* A node keeps its snapshot.
SameSnapshot(n) == node'[n].snapshot = node[n].snapshot /\ node'[n].stored = node[n].stored

\* What the links and the leader's records hold.
LEMMA LineTypes ==
  ASSUME TransferInv, NEW p \in Peer
  PROVE  /\ to_peer[p] \in Seq(GoodRequest) /\ to_leader[p] \in Seq(GoodReply)
         /\ snapshot_send[p].offset \in Nat
         /\ node[Lead] \in NodeType /\ node[p] \in NodeType
         /\ node[p].snapshot.index \in Nat /\ node[Lead].stored.index \in 0 .. MaxIndex
         /\ node[Lead].stored \in Snapshot
         /\ received[p] \in [Offsets -> Machine \cup {None}]
<1>1. snapshot_send[p].offset \in Nat
  BY OffsetsType DEF TransferInv, PeersInv
<1>2. node[Lead] \in NodeType /\ node[p] \in NodeType /\ node[Lead].stored.index <= MaxIndex
  BY NodesAre DEF TransferInv, NodesInv, Bounded
<1>3. node[p].snapshot.index \in Nat /\ node[Lead].stored.index \in 0 .. MaxIndex
      /\ node[Lead].stored \in Snapshot
  BY <1>2, NodeParts, SnapshotAssumption
<1> QED
  BY <1>1, <1>2, <1>3 DEF TransferInv, LinksInv, ReceivedInv

\* A step between the leader and one peer.
LEMMA OneLine ==
  ASSUME ChunkInv, NEW p \in Peer, Line(p)', node'[Lead].stored = node[Lead].stored,
         \A o \in Peer : o # p =>
           /\ node'[o].snapshot = node[o].snapshot /\ received'[o] = received[o]
           /\ snapshot_send'[o] = snapshot_send[o]
           /\ to_peer'[o] = to_peer[o] /\ to_leader'[o] = to_leader[o]
  PROVE  ChunkInv'
<1>1. ASSUME NEW o \in Peer, o # p PROVE Line(o)'
  BY <1>1 DEF ChunkInv, Line
<1> QED
  BY <1>1 DEF ChunkInv

\* A chunk is read within the snapshot.
LEMMA ProperSent ==
  ASSUME TransferInv, NEW nd \in NodeType, nd.stored.index <= MaxIndex, WholeSnapshot(nd),
         NEW p \in Peer,
         snapshot_send[p].offset = 0 \/ snapshot_send[p].offset < Chunks[nd.stored.index]
  PROVE  LET m == ChunkRequest(nd, p)
         IN ProperChunk(m) /\ m.snapshot = nd.stored /\ m.offset = snapshot_send[p].offset
            /\ m.type = "InstallSnapshot"
<1>1. PICK o \in Nat : o = snapshot_send[p].offset
  BY LineTypes
<1>2. nd.stored.index \in 0 .. MaxIndex
  BY NodeParts, SnapshotAssumption
<1>3. PICK count \in Nat : count = Chunks[nd.stored.index] /\ count > 0
  BY <1>2, SnapshotAssumption
<1>4. PICK m : m = ChunkRequest(nd, p)
  OBVIOUS
<1>5. PICK s \in Snapshot : s = nd.stored /\ nd.snapshot = MarkOf(s) /\ Len(s.machine) = s.index
  BY NodeParts DEF WholeSnapshot, HasStored, Sized
<1>6. nd.snapshot.index = s.index /\ nd.snapshot.term = s.term
  BY <1>5 DEF MarkOf
<1>7. s = [index |-> nd.snapshot.index, term |-> nd.snapshot.term, machine |-> s.machine]
  BY <1>6 DEF Snapshot
<1>8. /\ m.type = "InstallSnapshot" /\ m.snapshot = s /\ m.offset = o
      /\ m.len = IF o < count THEN 1 ELSE 0
      /\ m.done = (o + 1 >= count)
  BY <1>1, <1>3, <1>4, <1>5, <1>7 DEF ChunkRequest
<1>9. o < count
  BY <1>1, <1>3
<1> QED
  BY <1>1, <1>2, <1>3, <1>4, <1>5, <1>8, <1>9 DEF ProperChunk

\* raft_send_heartbeats of nd, by a leader that is left as after.
LEMMA LinesSent ==
  ASSUME TransferInv, TransferInv', ChunkInv, Steady, NEW nd \in NodeType, NEW after,
         nd.stored.index <= MaxIndex, nd.stored \in {node[Lead].stored, after.stored},
         WholeSnapshot(nd),
         Round(nd), node' = [node EXCEPT ![Lead] = after], UNCHANGED <<received, to_leader>>
  PROVE  ChunkInv'
<1> SUFFICES ASSUME NEW p \in Peer PROVE Line(p)'
  BY DEF ChunkInv
<1>1. node'[Lead] = after /\ node'[p] = node[p]
  BY NodesAre, NodeIs
<1>2. /\ \/ to_peer'[p] = to_peer[p]
         \/ NeedsSnapshot(nd, p) /\ to_peer'[p] = Append(to_peer[p], ChunkRequest(nd, p))
         \/ ~NeedsSnapshot(nd, p) /\ to_peer'[p] = Append(to_peer[p], AppendRequest(nd, p))
      /\ snapshot_send'[p].offset = snapshot_send[p].offset
  BY RoundIs
<1>3. PICK s, k, chunks, o, q, r :
        /\ s = node[Lead].stored /\ k = node[p].snapshot.index /\ chunks = received[p]
        /\ o = snapshot_send[p].offset /\ q = to_peer[p] /\ r = to_leader[p]
  OBVIOUS
<1>4. ChunksInLine(s, k, chunks, o, q, r)
  BY <1>3 DEF ChunkInv, Line
<1>5. q \in Seq(GoodRequest) /\ r \in Seq(GoodReply) /\ o \in Nat /\ to_peer'[p] \in Seq(GoodRequest)
  BY <1>3, LineTypes DEF TransferInv, LinksInv
<1>6. CASE after.stored = s
  <2>1. nd.stored = s /\ (o = 0 \/ o < Chunks[nd.stored.index])
    BY <1>3, <1>4, <1>6 DEF ChunksInLine, Prepared
  <2>2. ChunksInLine(s, k, chunks, o, to_peer'[p], r)
    <3>1. CASE to_peer'[p] = to_peer[p]
      BY <1>3, <1>4, <3>1
    <3>2. CASE NeedsSnapshot(nd, p) /\ to_peer'[p] = Append(to_peer[p], ChunkRequest(nd, p))
      <4>1. PICK m \in GoodRequest : m = ChunkRequest(nd, p)
        BY ChunkRequestType
      <4>2. ProperChunk(m) /\ m.snapshot = s /\ m.offset = o
        BY <1>3, <2>1, <4>1, ProperSent
      <4> QED
        BY <1>3, <1>4, <1>5, <3>2, <4>1, <4>2, LineSent
    <3>3. CASE ~NeedsSnapshot(nd, p) /\ to_peer'[p] = Append(to_peer[p], AppendRequest(nd, p))
      <4>1. PICK m \in GoodRequest : m = AppendRequest(nd, p)
        BY <3>3, AppendRequestType
      <4>2. ~IsChunk(m)
        BY <4>1 DEF AppendRequest, IsChunk
      <4> QED
        BY <1>3, <1>4, <1>5, <3>3, <4>1, <4>2, LineSent
    <3> QED
      BY <1>2, <3>1, <3>2, <3>3
  <2>3. ChunksInLine(node'[Lead].stored, node'[p].snapshot.index, received'[p],
                     snapshot_send'[p].offset, to_peer'[p], to_leader'[p])
    BY <1>1, <1>2, <1>3, <1>6, <2>2
  <2> QED
    BY <2>3 DEF Line
<1>7. CASE after.stored # s
  <2>1. ~PartWay(o, q, r) /\ ~PartWay(o, to_peer'[p], r)
    BY <1>1, <1>2, <1>3, <1>7 DEF Steady, Underway
  <2>2. o = 0
    BY <1>5, <2>1 DEF PartWay
  <2>3. ASSUME NEW m \in Range(to_peer'[p]), IsChunk(m) PROVE ProperChunk(m)
    <3>1. CASE m \in Range(to_peer[p])
      BY <1>3, <1>4, <2>3, <3>1 DEF ChunksInLine, GoodPart
    <3>2. CASE m = ChunkRequest(nd, p)
      BY <1>3, <2>2, <3>2, ProperSent
    <3>3. CASE m = AppendRequest(nd, p)
      BY <2>3, <3>3 DEF AppendRequest, IsChunk
    <3> QED
      BY <2>3, <3>1, <3>2, <3>3, RoundSends DEF Sends
  <2>4. ChunksInLine(after.stored, k, chunks, o, to_peer'[p], r)
    BY <1>5, <2>1, <2>3, LineIdle
  <2>5. ChunksInLine(node'[Lead].stored, node'[p].snapshot.index, received'[p],
                     snapshot_send'[p].offset, to_peer'[p], to_leader'[p])
    BY <1>1, <1>2, <1>3, <2>4
  <2> QED
    BY <2>5 DEF Line
<1> QED
  BY <1>6, <1>7

\* Preparations are kept by a peer whose own snapshot becomes newer.
LEMMA PreparedNewer ==
  ASSUME NEW s \in Snapshot, NEW k \in Nat, NEW later \in Nat, k <= later, NEW chunks, NEW n \in Nat,
         Prepared(s, k, chunks, n)
  PROVE  Prepared(s, later, chunks, n)
<1>1. s.index \in Nat
  BY DEF Snapshot
<1> QED
  BY <1>1 DEF Prepared

\* A tick without heartbeats, or raft_snapshot_create.
LEMMA LinesOwn ==
  ASSUME TransferInv, FollowInv, ChunkInv, Steady, NEW n \in Node, NEW done,
         Tick(n, done) \/ SnapshotCreate(n)
  PROVE  ChunkInv'
<1>1. PICK after : Tended(n, node[n], after) /\ node' = [node EXCEPT ![n] = after]
  BY OwnEffect
<1>2. UNCHANGED <<snapshot_send, received, to_peer, to_leader>>
  BY DEF Tick, SnapshotCreate, leaderVars, links
<1>3. node'[n] = after /\ \A o \in Node : o # n => node'[o] = node[o]
  BY <1>1, NodeIs
<1>4. Lead \in Node /\ \A p \in Peer : p \in Node /\ p # Lead
  BY NodesAre
<1>5. SUFFICES ASSUME NEW p \in Peer PROVE Line(p)'
  BY DEF ChunkInv
<1>6. PICK s, k, chunks, o, q, r :
        /\ s = node[Lead].stored /\ k = node[p].snapshot.index /\ chunks = received[p]
        /\ o = snapshot_send[p].offset /\ q = to_peer[p] /\ r = to_leader[p]
  OBVIOUS
<1>7. ChunksInLine(s, k, chunks, o, q, r)
  BY <1>6 DEF ChunkInv, Line
<1>8. q \in Seq(GoodRequest) /\ r \in Seq(GoodReply) /\ o \in Nat /\ k \in Nat /\ s \in Snapshot
  BY <1>6, LineTypes, NodeParts
<1>9. CASE node'[Lead].stored = s
  <2>1. PICK later \in Nat : later = node'[p].snapshot.index /\ k <= later
    <3>1. CASE n = p
      BY <1>1, <1>3, <1>6, <3>1, NodeParts DEF Tended
    <3>2. CASE n # p
      BY <1>3, <1>4, <1>6, <1>8, <3>2
    <3> QED
      BY <3>1, <3>2
  <2>2. ChunksInLine(s, later, chunks, o, q, r)
    <3>1. \A i \in Nat : Prepared(s, k, chunks, i) => Prepared(s, later, chunks, i)
      BY <1>8, <2>1, PreparedNewer
    <3> QED
      BY <1>7, <1>8, <3>1, LineKept
  <2>3. ChunksInLine(node'[Lead].stored, node'[p].snapshot.index, received'[p],
                     snapshot_send'[p].offset, to_peer'[p], to_leader'[p])
    BY <1>2, <1>6, <1>9, <2>1, <2>2
  <2> QED
    BY <2>3 DEF Line
<1>10. CASE node'[Lead].stored # s
  <2>1. ~PartWay(o, q, r)
    BY <1>6, <1>10 DEF Steady, Underway
  <2>2. \A m \in Range(q) : IsChunk(m) => ProperChunk(m)
    BY <1>7 DEF ChunksInLine, GoodPart
  <2>3. ChunksInLine(node'[Lead].stored, node'[p].snapshot.index, received'[p],
                     snapshot_send'[p].offset, to_peer'[p], to_leader'[p])
    BY <1>2, <1>6, <1>8, <2>1, <2>2, LineIdle
  <2> QED
    BY <2>3 DEF Line
<1> QED
  BY <1>9, <1>10

\* A peer answers: it has a snapshot of index later then, and has stored written.
LEMMA LinesAnswered ==
  ASSUME TransferInv, TransferInv', ChunkInv, NEW p \in Peer, to_peer[p] # <<>>,
         NEW reply \in GoodReply, Answer(p, reply),
         NEW s, s = node[Lead].stored, NEW k, k = node[p].snapshot.index,
         NEW later, later = node'[p].snapshot.index, NEW written, received' = [received EXCEPT ![p] = written],
         \A n \in Node : n # p => SameSnapshot(n), UNCHANGED snapshot_send,
         Begun(snapshot_send[p].offset, to_peer[p], to_leader[p]) =>
           \A n \in Nat : Prepared(s, k, received[p], n) => Prepared(s, later, written, n),
         MoreWanted(reply) => /\ Prepared(s, later, written, reply.last_offset)
                              /\ reply.last_offset > 0 => AllOf(s, Tail(to_peer[p]))
  PROVE  ChunkInv'
<1>1. PICK chunks, o, q, r :
        chunks = received[p] /\ o = snapshot_send[p].offset /\ q = to_peer[p] /\ r = to_leader[p]
  OBVIOUS
<1>2. q \in Seq(GoodRequest) /\ r \in Seq(GoodReply) /\ o \in Nat
  BY <1>1, LineTypes
<1>3. ChunksInLine(s, k, chunks, o, q, r)
  BY <1>1 DEF ChunkInv, Line
<1>4. ChunksInLine(s, later, written, o, q, r)
  BY <1>1, <1>2, <1>3, LineKept
<1>5. ChunksInLine(s, later, written, o, Tail(q), r)
  BY <1>1, <1>2, <1>4, LineTail
<1>6. ChunksInLine(s, later, written, o, Tail(q), Append(r, reply))
  BY <1>1, <1>2, <1>5, LineReply
<1>7. /\ to_peer \in [Peer -> Seq(GoodRequest)] /\ to_leader \in [Peer -> Seq(GoodReply)]
      /\ received \in [Peer -> [Offsets -> Machine \cup {None}]]
  BY DEF TransferInv, LinksInv, ReceivedInv
<1>8. /\ to_peer'[p] = Tail(q) /\ to_leader'[p] = Append(r, reply) /\ received'[p] = written
      /\ \A x \in Peer : x # p => /\ to_peer'[x] = to_peer[x] /\ to_leader'[x] = to_leader[x]
                                  /\ received'[x] = received[x]
  BY <1>1, <1>7 DEF Answer
<1>9. node'[Lead].stored = s /\ \A x \in Peer : x # p => node'[x].snapshot = node[x].snapshot
  BY NodesAre DEF SameSnapshot
<1>10. ChunksInLine(node'[Lead].stored, node'[p].snapshot.index, received'[p],
                    snapshot_send'[p].offset, to_peer'[p], to_leader'[p])
  BY <1>1, <1>6, <1>8, <1>9
<1>11. Line(p)'
  BY <1>10 DEF Line
<1> QED
  BY <1>8, <1>9, <1>11, OneLine

\* An answer that changes nothing at the peer.
LEMMA LinesRefused ==
  ASSUME TransferInv, TransferInv', ChunkInv, NEW p \in Peer, to_peer[p] # <<>>,
         NEW reply \in GoodReply, Answer(p, reply), ~MoreWanted(reply),
         \A n \in Node : SameSnapshot(n), UNCHANGED <<received, snapshot_send>>
  PROVE  ChunkInv'
<1>1. received' = [received EXCEPT ![p] = received[p]]
  BY DEF TransferInv, ReceivedInv
<1>2. node'[p].snapshot = node[p].snapshot
  BY NodesAre DEF SameSnapshot
<1>3. PICK s, k : s = node[Lead].stored /\ k = node[p].snapshot.index
  OBVIOUS
<1>4. k = node'[p].snapshot.index
  BY <1>2, <1>3
<1> QED
  BY <1>1, <1>3, <1>4, LinesAnswered

\* The answers to AppendEntries, and to requests of a term that is over.
LEMMA LinesAppend ==
  ASSUME TransferInv, TransferInv', FollowInv, ChunkInv, NEW p \in Peer, NotRepeated,
         \/ RefuseStaleTerm(p) \/ RefuseMissingPrev(p) \/ RefuseConflictingPrev(p) \/ AcceptAppend(p)
  PROVE  ChunkInv'
<1>1. to_peer[p] # <<>>
  BY DEF RefuseStaleTerm, RefuseMissingPrev, RefuseConflictingPrev, AcceptAppend, HeadIs
<1>2. \E reply : Answer(p, reply) /\ ~MoreWanted(reply)
  <2>1. ASSUME NEW success, NEW match, NEW t, NEW c PROVE ~MoreWanted(AppendReply(p, success, match, t, c))
    BY DEF AppendReply, MoreWanted
  <2>2. ASSUME NEW o, NEW done PROVE ~MoreWanted(SnapshotReply(p, FALSE, o, done))
    BY DEF SnapshotReply, MoreWanted
  <2>3. CASE RefuseStaleTerm(p)
    <3>1. PICK junk \in BOOLEAN :
            Answer(p, IF Head(to_peer[p]).type = "AppendEntries" THEN AppendReply(p, FALSE, 0, 0, 0)
                      ELSE SnapshotReply(p, FALSE, Head(to_peer[p]).offset, junk))
      BY <2>3 DEF RefuseStaleTerm
    <3>2. CASE Head(to_peer[p]).type = "AppendEntries"
      BY <2>1, <3>1, <3>2
    <3>3. CASE Head(to_peer[p]).type # "AppendEntries"
      BY <2>2, <3>1, <3>3
    <3> QED
      BY <3>2, <3>3
  <2>4. CASE RefuseMissingPrev(p)
    BY <2>1, <2>4 DEF RefuseMissingPrev
  <2>5. CASE RefuseConflictingPrev(p)
    BY <2>1, <2>5 DEF RefuseConflictingPrev
  <2>6. CASE AcceptAppend(p)
    BY <2>1, <2>6 DEF AcceptAppend
  <2> QED
    BY <2>3, <2>4, <2>5, <2>6
<1>3. PICK reply : Answer(p, reply) /\ ~MoreWanted(reply)
  BY <1>2
<1>4. reply \in GoodReply
  <2>1. to_leader[p] \in Seq(GoodReply) /\ to_leader'[p] \in Seq(GoodReply)
    BY DEF TransferInv, LinksInv
  <2>2. to_leader'[p] = Append(to_leader[p], reply)
    BY <1>3 DEF Answer, TransferInv, LinksInv
  <2>3. PICK r, x : r = to_leader[p] /\ x = to_leader'[p]
    OBVIOUS
  <2>4. x = Append(r, reply) /\ r \in Seq(GoodReply) /\ x \in Seq(GoodReply)
    BY <2>1, <2>2, <2>3
  <2>5. Len(r) + 1 \in 1 .. Len(x) /\ x[Len(r) + 1] = reply
    BY <2>4
  <2> QED
    BY <2>4, <2>5
<1>5. \A n \in Node : SameSnapshot(n)
  <2>1. CASE UNCHANGED node
    BY <2>1 DEF SameSnapshot
  <2>2. CASE RefuseConflictingPrev(p)
    <3>1. PICK m \in GoodRequest, nd \in NodeType, l \in LogType, after \in NodeType :
            Cuts(p, m, nd, l, after) /\ node' = [node EXCEPT ![p] = after]
      BY <2>2, ConflictEffect
    <3> QED
      BY <3>1, NodesAre, NodeIs DEF Cuts, SameSnapshot
  <2>3. CASE AcceptAppend(p)
    <3>1. PICK m \in GoodRequest, nd \in NodeType, l \in LogType, after \in NodeType :
            Accepts(p, m, nd, l, after) /\ node' = [node EXCEPT ![p] = after]
      BY <2>3, AcceptEffect
    <3> QED
      BY <3>1, NodesAre, NodeIs DEF Accepts, SameSnapshot
  <2> QED
    BY <2>1, <2>2, <2>3 DEF RefuseStaleTerm, RefuseMissingPrev
<1>6. UNCHANGED <<received, snapshot_send>>
  BY DEF RefuseStaleTerm, RefuseMissingPrev, RefuseConflictingPrev, AcceptAppend, leaderVars
<1> QED
  BY <1>1, <1>3, <1>4, <1>5, <1>6, LinesRefused

\* A chunk of s that is written keeps what is stored of s, and adds to it.
LEMMA WrittenPrepared ==
  ASSUME TransferInv, NEW p \in Peer, NEW m \in GoodRequest, IsChunk(m), m.len = 1,
         NEW s, s = m.snapshot, s.index \in 0 .. MaxIndex, NEW k \in Nat, NEW n \in Nat,
         Prepared(s, k, received[p], n)
  PROVE  /\ Prepared(s, k, Written(p, m), n)
         /\ n = m.offset /\ n + 1 < Chunks[s.index] => Prepared(s, k, Written(p, m), n + 1)
<1>1. PICK chunks \in [Offsets -> Machine \cup {None}] : chunks = received[p]
  BY DEF TransferInv, ReceivedInv
<1>2. PICK w : w = Written(p, m)
  OBVIOUS
<1>3. w = [o \in Offsets |-> IF o = m.offset THEN s.machine ELSE chunks[o]]
  BY <1>1, <1>2 DEF Written
<1>4. PICK count \in Nat : count = Chunks[s.index]
  BY SnapshotAssumption
<1>5. \A o \in Nat : o < count => o \in Offsets
  BY <1>4, OffsetsType
<1>6. n = 0 \/ (n < count /\ (s.index <= k \/ \A i \in 0 .. n - 1 : chunks[i] = s.machine))
  BY <1>1, <1>4 DEF Prepared
<1>7. n = 0 \/ (n < count /\ (s.index <= k \/ \A i \in 0 .. n - 1 : w[i] = s.machine))
  <2>1. ASSUME n < count, \A i \in 0 .. n - 1 : chunks[i] = s.machine, NEW i \in 0 .. n - 1
        PROVE  w[i] = s.machine
    BY <1>3, <1>5, <2>1
  <2> QED
    BY <1>6, <2>1
<1>8. ASSUME n = m.offset, n + 1 < count PROVE s.index <= k \/ \A i \in 0 .. n : w[i] = s.machine
  <2>1. SUFFICES ASSUME ~(s.index <= k), NEW i \in 0 .. n PROVE w[i] = s.machine
    OBVIOUS
  <2>2. i \in Offsets
    BY <1>5, <1>8
  <2>3. i # n => chunks[i] = s.machine
    BY <1>6, <2>1
  <2> QED
    BY <1>3, <1>8, <2>2, <2>3
<1>9. 0 .. (n + 1) - 1 = 0 .. n
  OBVIOUS
<1> QED
  BY <1>2, <1>4, <1>7, <1>8, <1>9 DEF Prepared

\* The chunk at the head of a link, when the peer has nothing as new.
LEMMA HeadChunk ==
  ASSUME TransferInv, ChunkInv, NEW p \in Peer, to_peer[p] # <<>>, IsChunk(Head(to_peer[p]))
  PROVE  LET m == Head(to_peer[p])
             s == node[Lead].stored
         IN /\ m \in GoodRequest /\ GoodPart(s, node[p].snapshot.index, received[p], m)
            /\ ProperChunk(m) /\ m.snapshot \in Snapshot /\ m.snapshot.index \in 0 .. MaxIndex
            /\ m.offset \in Nat
            /\ ~IsWhole(m) => m.snapshot = s /\ AllOf(s, Tail(to_peer[p]))
            /\ m.offset > 0 => AllOf(s, Tail(to_peer[p]))
            /\ Begun(snapshot_send[p].offset, to_peer[p], to_leader[p]) => m.snapshot = s
<1>1. PICK m, s, q : m = Head(to_peer[p]) /\ s = node[Lead].stored /\ q = to_peer[p]
  OBVIOUS
<1>2. m \in GoodRequest /\ m \in Range(q) /\ q \in Seq(GoodRequest)
  BY <1>1, RequestTaken
<1>3. ChunksInLine(s, node[p].snapshot.index, received[p], snapshot_send[p].offset, q, to_leader[p])
  BY <1>1 DEF ChunkInv, Line
<1>4. GoodPart(s, node[p].snapshot.index, received[p], m) /\ ProperChunk(m)
      /\ (~IsWhole(m) => m.snapshot = s)
  BY <1>1, <1>2, <1>3 DEF ChunksInLine, GoodPart
<1>5. m.snapshot \in Snapshot /\ m.snapshot.index \in Nat /\ m.offset \in Nat
  BY <1>1, <1>2, ChunkFields DEF IsChunk, Snapshot
<1>6. m.snapshot.index \in 0 .. MaxIndex
  BY <1>4, <1>5, SnapshotAssumption DEF ProperChunk
<1>7. ~IsWhole(m) => AllOf(s, Tail(q))
  BY <1>1, <1>2, <1>3, PartsFirstTail DEF ChunksInLine
<1>8. m.offset > 0 => ~IsWhole(m)
  BY <1>5 DEF IsWhole
<1>9. Begun(snapshot_send[p].offset, q, to_leader[p]) => m.snapshot = s
  BY <1>1, <1>2, <1>3 DEF ChunksInLine, AllOf
<1> QED
  BY <1>1, <1>2, <1>4, <1>5, <1>6, <1>7, <1>8, <1>9

\* A chunk of a snapshot as old as the peer's own.
LEMMA LinesIgnored ==
  ASSUME TransferInv, TransferInv', ChunkInv, NEW p \in Peer, IgnoreOldSnapshot(p)
  PROVE  ChunkInv'
<1>1. to_peer[p] # <<>> /\ IsChunk(Head(to_peer[p]))
  BY DEF IgnoreOldSnapshot, HeadIs, IsChunk
<1>2. PICK m, s, k : m = Head(to_peer[p]) /\ s = node[Lead].stored /\ k = node[p].snapshot.index
  OBVIOUS
<1>3. PICK junk \in BOOLEAN : Answer(p, SnapshotReply(p, TRUE, m.offset, junk))
  BY <1>2 DEF IgnoreOldSnapshot
<1>4. PICK reply : reply = SnapshotReply(p, TRUE, m.offset, junk)
  OBVIOUS
<1>5. /\ GoodPart(s, k, received[p], m) /\ m.offset \in Nat /\ m.offset \in Offsets
      /\ m.offset > 0 => AllOf(s, Tail(to_peer[p]))
  BY <1>1, <1>2, HeadChunk, ChunkFields DEF IsChunk
<1>6. reply \in GoodReply /\ reply.last_offset = m.offset
  BY <1>4, <1>5, SnapshotReplyType DEF TransferInv, SnapshotReply
<1>7. Prepared(s, k, received[p], m.offset)
  BY <1>1, <1>2, <1>5 DEF GoodPart, IsWhole, Prepared
<1>8. received' = [received EXCEPT ![p] = received[p]] /\ k = node'[p].snapshot.index
      /\ UNCHANGED <<node, snapshot_send>> /\ \A n \in Node : SameSnapshot(n)
  BY <1>2 DEF IgnoreOldSnapshot, TransferInv, ReceivedInv, leaderVars, SameSnapshot
<1> QED
  BY <1>1, <1>2, <1>3, <1>4, <1>5, <1>6, <1>7, <1>8, LinesAnswered

\* A chunk that is stored.
LEMMA LinesStored ==
  ASSUME TransferInv, TransferInv', ChunkInv, NEW p \in Peer, StoreChunk(p)
  PROVE  ChunkInv'
<1>1. to_peer[p] # <<>> /\ IsChunk(Head(to_peer[p]))
  BY DEF StoreChunk, NewChunk, HeadIs, IsChunk
<1>2. PICK m \in GoodRequest, s \in Snapshot, k \in Nat :
        m = Head(to_peer[p]) /\ s = node[Lead].stored /\ k = node[p].snapshot.index
  BY <1>1, RequestTaken, LineTypes, NodeParts
<1>3. PICK o \in Nat : o = m.offset
  BY <1>1, <1>2, HeadChunk
<1>4. PICK written : written = Written(p, m)
  OBVIOUS
<1>5. /\ ~m.done /\ received' = [received EXCEPT ![p] = written]
      /\ Answer(p, SnapshotReply(p, TRUE, m.offset + m.len, FALSE))
      /\ UNCHANGED <<node, snapshot_send>> /\ \A n \in Node : SameSnapshot(n)
  BY <1>2, <1>4 DEF StoreChunk, leaderVars, SameSnapshot
<1>6. /\ GoodPart(s, k, received[p], m) /\ ProperChunk(m) /\ m.snapshot = s
      /\ s.index \in 0 .. MaxIndex /\ AllOf(s, Tail(to_peer[p])) /\ ~IsWhole(m)
  BY <1>1, <1>2, <1>5, HeadChunk DEF IsWhole
<1>7. PICK count \in Nat : count = Chunks[s.index]
  BY <1>6, SnapshotAssumption
<1>8. m.len = 1 /\ o + 1 < count
  BY <1>3, <1>5, <1>6, <1>7 DEF ProperChunk
<1>9. k \in Nat /\ IsChunk(m)
  BY <1>1, <1>2, LineTypes
<1>10. Prepared(s, k, received[p], o)
  BY <1>3, <1>6, <1>9 DEF GoodPart
<1>11. Prepared(s, k, written, o + 1)
  BY <1>3, <1>4, <1>6, <1>7, <1>8, <1>9, <1>10, WrittenPrepared
<1>12. \A n \in Nat : Prepared(s, k, received[p], n) => Prepared(s, k, written, n)
  BY <1>4, <1>6, <1>8, <1>9, WrittenPrepared
<1>13. PICK reply : reply = SnapshotReply(p, TRUE, o + 1, FALSE)
  OBVIOUS
<1>14. o + 1 \in Offsets
  BY <1>6, <1>7, <1>8, OffsetsType
<1>15. reply \in GoodReply /\ reply.last_offset = o + 1
  <2>1. PICK next \in Nat : next = o + 1 /\ next \in Offsets
    BY <1>14
  <2>2. SnapshotReply(p, TRUE, next, FALSE) \in GoodReply
    BY <2>1, SnapshotReplyType DEF TransferInv
  <2>3. reply = SnapshotReply(p, TRUE, next, FALSE)
    BY <1>13, <2>1
  <2>4. reply.last_offset = next
    BY <2>3 DEF SnapshotReply
  <2> QED
    BY <2>1, <2>2, <2>3, <2>4
<1>16. Answer(p, reply) /\ k = node'[p].snapshot.index
  BY <1>2, <1>3, <1>5, <1>8, <1>13
<1> QED
  BY <1>1, <1>2, <1>5, <1>6, <1>11, <1>12, <1>15, <1>16, LinesAnswered

\* A chunk that a callback fails on.
LEMMA LinesFailed ==
  ASSUME TransferInv, TransferInv', ChunkInv, NEW p \in Peer, FailChunk(p)
  PROVE  ChunkInv'
<1>1. to_peer[p] # <<>> /\ IsChunk(Head(to_peer[p]))
  BY DEF FailChunk, NewChunk, HeadIs, IsChunk
<1>2. PICK m \in GoodRequest : m = Head(to_peer[p])
  BY <1>1, RequestTaken
<1>3. UNCHANGED <<node, snapshot_send>> /\ \A n \in Node : SameSnapshot(n)
  BY DEF FailChunk, leaderVars, SameSnapshot
<1>4. ASSUME NEW o \in Nat, NEW done \in BOOLEAN
      PROVE  SnapshotReply(p, FALSE, o, done) \in GoodReply /\ ~MoreWanted(SnapshotReply(p, FALSE, o, done))
  BY <1>4, SnapshotReplyType DEF TransferInv, SnapshotReply, MoreWanted
<1>5. m.offset \in Nat /\ m.offset + m.len \in Nat
  BY <1>1, <1>2, ChunkFields DEF IsChunk
<1>6. CASE /\ \E junk \in BOOLEAN : Answer(p, SnapshotReply(p, FALSE, m.offset, junk))
           /\ UNCHANGED received
  <2>1. PICK junk \in BOOLEAN : Answer(p, SnapshotReply(p, FALSE, m.offset, junk))
    BY <1>6
  <2> QED
    BY <1>1, <1>3, <1>4, <1>5, <1>6, <2>1, LinesRefused
<1>7. CASE /\ Answer(p, SnapshotReply(p, FALSE, m.offset + m.len, TRUE))
           /\ received' = [received EXCEPT ![p] = Written(p, m)]
  <2>1. PICK s, k : s = node[Lead].stored /\ k = node[p].snapshot.index
    OBVIOUS
  <2>2. /\ ProperChunk(m) /\ m.snapshot.index \in 0 .. MaxIndex
        /\ Begun(snapshot_send[p].offset, to_peer[p], to_leader[p]) => m.snapshot = s
    BY <1>1, <1>2, <2>1, HeadChunk
  <2>3. k \in Nat /\ IsChunk(m) /\ m.len = 1
    BY <1>1, <1>2, <2>1, <2>2, LineTypes DEF ProperChunk
  <2>4. PICK written : written = Written(p, m)
    OBVIOUS
  <2>5. m.snapshot = s => \A n \in Nat : Prepared(s, k, received[p], n) => Prepared(s, k, written, n)
    BY <2>2, <2>3, <2>4, WrittenPrepared
  <2>6. PICK reply \in GoodReply : reply = SnapshotReply(p, FALSE, m.offset + m.len, TRUE) /\ ~MoreWanted(reply)
    BY <1>4, <1>5
  <2>7. k = node'[p].snapshot.index
    BY <1>3, <2>1
  <2> QED
    BY <1>1, <1>3, <1>7, <2>1, <2>2, <2>4, <2>5, <2>6, <2>7, LinesAnswered
<1> QED
  BY <1>2, <1>6, <1>7 DEF FailChunk

\* The last chunk.
LEMMA LinesInstalled ==
  ASSUME TransferInv, TransferInv', ChunkInv, NEW p \in Peer, InstallSnapshot(p)
  PROVE  ChunkInv'
<1>1. PICK m \in GoodRequest, nd \in NodeType, k \in Nat, machine \in Machine, after \in NodeType :
        /\ Installs(p, m, nd, k, machine, after)
        /\ node' = [node EXCEPT ![p] = after]
        /\ received' = [received EXCEPT ![p] = [o \in Offsets |-> None]]
        /\ Answer(p, SnapshotReply(p, TRUE, m.offset + m.len, TRUE))
  BY InstallEffect
<1>2. to_peer[p] # <<>> /\ m = Head(to_peer[p]) /\ IsChunk(m) /\ k = m.snapshot.index
      /\ nd = node[p] /\ after.snapshot = MarkOf(m.snapshot) /\ m.snapshot \in Snapshot
  BY <1>1 DEF Installs, IsChunk
<1>3. PICK s, written : s = node[Lead].stored /\ written = [o \in Offsets |-> None]
  OBVIOUS
<1>4. Begun(snapshot_send[p].offset, to_peer[p], to_leader[p]) => m.snapshot = s
  BY <1>2, <1>3, HeadChunk
<1>5. ASSUME m.snapshot = s, NEW n \in Nat, Prepared(s, nd.snapshot.index, received[p], n)
      PROVE  Prepared(s, k, written, n)
  <2>1. s.index <= k
    BY <1>2, <1>5
  <2> QED
    BY <1>5, <2>1 DEF Prepared
<1>6. node'[p] = after /\ (\A n \in Node : n # p => SameSnapshot(n))
  <2>1. p \in Node /\ node' = [node EXCEPT ![p] = after]
    BY <1>1, NodesAre
  <2> QED
    BY <2>1, NodeIs DEF SameSnapshot
<1>7. after.snapshot.index = k
  BY <1>2 DEF MarkOf
<1>8. m.offset + m.len \in Nat
  BY <1>2, ChunkFields DEF IsChunk
<1>9. PICK reply : reply = SnapshotReply(p, TRUE, m.offset + m.len, TRUE)
  OBVIOUS
<1>10. reply \in GoodReply /\ ~MoreWanted(reply)
  BY <1>8, <1>9, SnapshotReplyType DEF TransferInv, SnapshotReply, MoreWanted
<1>11. UNCHANGED snapshot_send
  BY DEF InstallSnapshot, leaderVars
<1>12. k = node'[p].snapshot.index
  BY <1>6, <1>7
<1> QED
  BY <1>1, <1>2, <1>3, <1>4, <1>5, <1>6, <1>9, <1>10, <1>11, <1>12, LinesAnswered

\* The leader takes a reply, and what it makes of it goes for one peer.
LEMMA LinesReply ==
  ASSUME TransferInv, TransferInv', ChunkInv, NEW p \in Peer, RecvReply(p)
  PROVE  ChunkInv'
<1>1. to_leader[p] # <<>> /\ to_leader' = [to_leader EXCEPT ![p] = Tail(@)] /\ UNCHANGED <<received, to_peer>>
  BY DEF RecvReply, StepDown, RecvAppendSuccess, RecvAppendRefusal, RecvSnapshotReply, TakeReply, HeadIs
<1>2. PICK m : m = Head(to_leader[p])
  OBVIOUS
<1>3. PICK progress :
        /\ snapshot_send' = [snapshot_send EXCEPT ![p] = progress]
        /\ \/ progress.offset \in {0, snapshot_send[p].offset}
           \/ MoreWanted(m) /\ progress.offset = m.last_offset
  <2>1. snapshot_send = [snapshot_send EXCEPT ![p] = snapshot_send[p]]
    BY DEF TransferInv, PeersInv
  <2>2. CASE UNCHANGED snapshot_send
    BY <2>1, <2>2
  <2>3. CASE snapshot_send' = [snapshot_send EXCEPT ![p] = Idle]
    <3>1. Idle.offset = 0
      BY DEF Idle
    <3> QED
      BY <2>3, <3>1
  <2>4. CASE /\ snapshot_send' = [snapshot_send EXCEPT ![p] = Progress(m)]
             /\ m.type = "SnapshotReply"
    <3>1. IF MoreWanted(m) THEN Progress(m).offset = m.last_offset ELSE Progress(m).offset = 0
      BY <2>4 DEF Progress, MoreWanted
    <3> QED
      BY <2>4, <3>1
  <2> QED
    BY <1>2, <2>2, <2>3, <2>4
       DEF RecvReply, StepDown, RecvAppendSuccess, RecvAppendRefusal, RecvSnapshotReply, HeadIs
<1>4. \A n \in Node : SameSnapshot(n)
  <2>1. CASE UNCHANGED node
    BY <2>1 DEF SameSnapshot
  <2>2. CASE RecvAppendSuccess(p)
    <3>1. PICK nd \in NodeType, after \in NodeType :
            /\ nd = node[Lead] /\ after.snapshot = nd.snapshot /\ after.stored = nd.stored
            /\ node' = [node EXCEPT ![Lead] = after]
      BY <2>2, SuccessEffect
    <3> QED
      BY <3>1, NodesAre, NodeIs DEF SameSnapshot
  <2> QED
    BY <2>1, <2>2 DEF RecvReply, StepDown, RecvAppendRefusal, RecvSnapshotReply
<1>5. PICK s, k, chunks, o, q, r :
        /\ s = node[Lead].stored /\ k = node[p].snapshot.index /\ chunks = received[p]
        /\ o = snapshot_send[p].offset /\ q = to_peer[p] /\ r = to_leader[p]
  OBVIOUS
<1>6. ChunksInLine(s, k, chunks, o, q, r) /\ r \in Seq(GoodReply)
  BY <1>5, LineTypes DEF ChunkInv, Line
<1>7. ChunksInLine(s, k, chunks, progress.offset, q, Tail(r))
  BY <1>1, <1>2, <1>3, <1>5, <1>6, LineReplyTaken
<1>8. /\ to_leader'[p] = Tail(r) /\ snapshot_send'[p] = progress
      /\ \A x \in Peer : x # p => to_leader'[x] = to_leader[x] /\ snapshot_send'[x] = snapshot_send[x]
  BY <1>1, <1>3, <1>5 DEF TransferInv, LinksInv, PeersInv
<1>9. Lead \in Node /\ \A x \in Peer : x \in Node
  BY NodesAre
<1>10. ChunksInLine(node'[Lead].stored, node'[p].snapshot.index, received'[p],
                    snapshot_send'[p].offset, to_peer'[p], to_leader'[p])
  BY <1>1, <1>4, <1>5, <1>7, <1>8, <1>9 DEF SameSnapshot
<1>11. Line(p)'
  BY <1>10 DEF Line
<1> QED
  BY <1>1, <1>4, <1>8, <1>9, <1>11, OneLine DEF SameSnapshot

\* A message is lost.
LEMMA LinesLost ==
  ASSUME TransferInv, ChunkInv, NEW p \in Peer, Lose(p)
  PROVE  ChunkInv'
<1>1. UNCHANGED <<node, snapshot_send, received>>
  BY DEF Lose, leaderVars
<1>2. PICK s, k, chunks, o, q, r :
        /\ s = node[Lead].stored /\ k = node[p].snapshot.index /\ chunks = received[p]
        /\ o = snapshot_send[p].offset /\ q = to_peer[p] /\ r = to_leader[p]
  OBVIOUS
<1>3. ChunksInLine(s, k, chunks, o, q, r) /\ q \in Seq(GoodRequest) /\ r \in Seq(GoodReply)
  BY <1>2, LineTypes DEF ChunkInv, Line
<1>4. CASE q # <<>> /\ to_peer' = [to_peer EXCEPT ![p] = Tail(@)] /\ UNCHANGED to_leader
  <2>1. to_peer'[p] = Tail(q) /\ \A x \in Peer : x # p => to_peer'[x] = to_peer[x]
    BY <1>2, <1>4 DEF TransferInv, LinksInv
  <2>2. ChunksInLine(s, k, chunks, o, Tail(q), r)
    BY <1>3, <1>4, LineTail
  <2>3. ChunksInLine(node'[Lead].stored, node'[p].snapshot.index, received'[p],
                     snapshot_send'[p].offset, to_peer'[p], to_leader'[p])
    BY <1>1, <1>2, <1>4, <2>1, <2>2
  <2>4. Line(p)'
    BY <2>3 DEF Line
  <2> QED
    BY <1>1, <1>4, <2>1, <2>4, OneLine
<1>5. CASE r # <<>> /\ to_leader' = [to_leader EXCEPT ![p] = Tail(@)] /\ UNCHANGED to_peer
  <2>1. to_leader'[p] = Tail(r) /\ \A x \in Peer : x # p => to_leader'[x] = to_leader[x]
    BY <1>2, <1>5 DEF TransferInv, LinksInv
  <2>2. ChunksInLine(s, k, chunks, o, q, Tail(r))
    BY <1>3, <1>5, LineReplyTaken
  <2>3. ChunksInLine(node'[Lead].stored, node'[p].snapshot.index, received'[p],
                     snapshot_send'[p].offset, to_peer'[p], to_leader'[p])
    BY <1>1, <1>2, <1>5, <2>1, <2>2
  <2>4. Line(p)'
    BY <2>3 DEF Line
  <2> QED
    BY <1>1, <1>5, <2>1, <2>4, OneLine
<1> QED
  BY <1>2, <1>4, <1>5 DEF Lose, TakeReply

\* Steps that change no snapshot, no chunk and no link.
LEMMA LinesStill ==
  ASSUME TransferInv, ChunkInv, UNCHANGED <<snapshot_send, received, to_peer, to_leader>>,
         \A n \in Node : SameSnapshot(n)
  PROVE  ChunkInv'
<1>1. Lead \in Node /\ \A p \in Peer : p \in Node
  BY NodesAre
<1>2. ASSUME NEW p \in Peer PROVE Line(p)'
  BY <1>1, <1>2 DEF ChunkInv, Line, SameSnapshot
<1> QED
  BY <1>2 DEF ChunkInv

\* A peer starts again.
LEMMA LinesRestart ==
  ASSUME TransferInv, ChunkInv, Recoverable, NEW p \in Peer, Restart(p)
  PROVE  ChunkInv'
<1>1. PICK nd \in NodeType, index \in Nat, after \in NodeType :
        Restarts(p, nd, index, after) /\ node' = [node EXCEPT ![p] = after]
  BY RestartEffect
<1>2. p \in Node /\ p # Lead /\ Lead \in Node /\ Peer \subseteq Node
  BY NodesAre
<1>3. node'[p] = after /\ \A n \in Node : n # p => node'[n] = node[n]
  BY <1>1, <1>2, NodeIs
<1>4. UNCHANGED <<snapshot_send, received, to_peer, to_leader>>
  BY DEF Restart, leaderVars, links
<1>5. PICK s, k, chunks, o, q, r :
        /\ s = node[Lead].stored /\ k = node[p].snapshot.index /\ chunks = received[p]
        /\ o = snapshot_send[p].offset /\ q = to_peer[p] /\ r = to_leader[p]
  OBVIOUS
<1>6. ChunksInLine(s, k, chunks, o, q, r)
  BY <1>5 DEF ChunkInv, Line
<1>7. q \in Seq(GoodRequest) /\ r \in Seq(GoodReply) /\ o \in Nat
  BY <1>5, LineTypes
<1>8. ChunksInLine(s, after.snapshot.index, chunks, o, q, r)
  <2>1. CASE HasStored(node[p])
    <3>1. after.snapshot = node[p].snapshot
      BY <1>1, <2>1 DEF Restarts, HasStored
    <3> QED
      BY <1>5, <1>6, <3>1
  <2>2. CASE ~Underway(p)
    <3>1. ~PartWay(o, q, r)
      BY <1>5, <2>2 DEF Underway
    <3>2. \A m \in Range(q) : IsChunk(m) => ProperChunk(m)
      BY <1>6 DEF ChunksInLine, GoodPart
    <3> QED
      BY <1>7, <3>1, <3>2, LineIdle
  <2> QED
    BY <2>1, <2>2 DEF Recoverable
<1>9. ChunksInLine(node'[Lead].stored, node'[p].snapshot.index, received'[p],
                   snapshot_send'[p].offset, to_peer'[p], to_leader'[p])
  BY <1>2, <1>3, <1>4, <1>5, <1>8
<1>10. Line(p)'
  BY <1>9 DEF Line
<1> QED
  BY <1>2, <1>3, <1>4, <1>10, OneLine

\* Every step keeps the chunks in line.
LEMMA ChunkStep ==
  TransferInv /\ TransferInv' /\ FollowInv /\ LeadWhole /\ LeadWhole' /\ ChunkInv
    /\ [Next]_vars /\ [NotRepeated]_vars /\ [Steady]_vars /\ [Recoverable]_vars => ChunkInv'
<1> SUFFICES ASSUME TransferInv, TransferInv', FollowInv, LeadWhole, LeadWhole', ChunkInv,
                    [Next]_vars, [NotRepeated]_vars, [Steady]_vars, [Recoverable]_vars
             PROVE  ChunkInv'
  OBVIOUS
<1>1. CASE UNCHANGED vars
  BY <1>1, LinesStill DEF vars, leaderVars, links, SameSnapshot
<1>2. ASSUME NotRepeated, Steady, Recoverable, Next PROVE ChunkInv'
  <2>1. CASE TickHeartbeat
    <3>1. PICK nd \in NodeType, after \in NodeType :
            /\ Tended(Lead, node[Lead], nd)
            /\ \/ nd.snapshot = node[Lead].snapshot /\ nd.stored = node[Lead].stored
               \/ nd.snapshot = after.snapshot /\ nd.stored = after.stored
            /\ nd.stored.index <= MaxIndex
            /\ Round(nd) /\ node' = [node EXCEPT ![Lead] = after]
      BY <2>1, HeartbeatEffect
    <3>2. UNCHANGED <<received, to_leader>>
      BY <2>1 DEF TickHeartbeat
    <3>3. WholeSnapshot(nd)
      BY <3>1, HeartbeatWhole
    <3> QED
      BY <1>2, <3>1, <3>2, <3>3, LinesSent
  <2>2. CASE Propose
    <3>1. PICK was \in NodeType, nd \in NodeType :
            /\ was = node[Lead] /\ nd.snapshot = was.snapshot /\ nd.stored = was.stored
            /\ nd.pending = was.pending /\ nd.machine = was.machine
            /\ nd.last_applied = was.last_applied /\ nd.stored.index <= MaxIndex
            /\ Round(nd) /\ node' = [node EXCEPT ![Lead] = nd]
      BY <2>2, ProposeEffect
    <3>2. UNCHANGED <<received, to_leader>>
      BY <2>2 DEF Propose
    <3>3. WholeSnapshot(nd)
      BY <3>1 DEF LeadWhole, WholeSnapshot, HasStored, Sized
    <3> QED
      BY <1>2, <3>1, <3>2, <3>3, LinesSent
  <2>3. ASSUME NEW n \in Node, NEW done \in BOOLEAN, SnapshotCreate(n) \/ Tick(n, done)
        PROVE  ChunkInv'
    BY <1>2, <2>3, LinesOwn
  <2>4. ASSUME NEW p \in Peer, RecvRequest(p) \/ FailChunk(p) PROVE ChunkInv'
    <3>1. CASE RefuseStaleTerm(p) \/ RefuseMissingPrev(p) \/ RefuseConflictingPrev(p) \/ AcceptAppend(p)
      BY <1>2, <3>1, LinesAppend
    <3>2. CASE IgnoreOldSnapshot(p) \/ StoreChunk(p) \/ FailChunk(p) \/ InstallSnapshot(p)
      BY <3>2, LinesIgnored, LinesStored, LinesFailed, LinesInstalled
    <3> QED
      BY <2>4, <3>1, <3>2 DEF RecvRequest
  <2>5. ASSUME NEW p \in Peer, Restart(p) PROVE ChunkInv'
    BY <1>2, <2>5, LinesRestart
  <2>6. ASSUME NEW p \in Peer, HearLaterTerm(p) PROVE ChunkInv'
    BY <2>6, LinesStill DEF HearLaterTerm, leaderVars, links, SameSnapshot
  <2> QED
    BY <1>2, <2>1, <2>2, <2>3, <2>4, <2>5, <2>6, LinesReply, LinesLost DEF Next
<1> QED
  BY <1>1, <1>2

\* No transfer is under way at first.
LEMMA ChunkInit == Init => ChunkInv
<1> SUFFICES ASSUME Init PROVE ChunkInv
  OBVIOUS
<1>1. SUFFICES ASSUME NEW p \in Peer PROVE Line(p)
  BY DEF ChunkInv
<1>2. snapshot_send[p].offset = 0 /\ to_peer[p] = <<>> /\ to_leader[p] = <<>>
  BY DEF Init, Idle
<1>3. Range(to_peer[p]) = {} /\ Range(to_leader[p]) = {}
  BY <1>2 DEF Range
<1>4. ~PartWay(0, to_peer[p], to_leader[p])
  BY <1>3 DEF PartWay
<1>5. to_peer[p] \in Seq(GoodRequest) /\ to_leader[p] \in Seq(GoodReply)
  BY <1>2
<1>6. PICK o \in Nat : o = snapshot_send[p].offset
  BY <1>2
<1>7. ChunksInLine(node[Lead].stored, node[p].snapshot.index, received[p], o, to_peer[p], to_leader[p])
  BY <1>2, <1>3, <1>4, <1>5, <1>6, LineIdle
<1> QED
  BY <1>6, <1>7 DEF Line

-----------------------------------------------------------------------------
\* The state machine that a peer restores is that of the leader's snapshot, and
\* not one put together of chunks of two.
Whole == \A p \in Peer : InstallSnapshot(p) => node'[p].machine = Head(to_peer[p]).snapshot.machine

\* What snapshot_restore makes of chunks in line.
LEMMA RestoredWhole ==
  ASSUME TransferInv, ChunkInv, NEW p \in Peer, NEW m, NEW nd, NEW k, NEW machine, NEW after,
         Installs(p, m, nd, k, machine, after)
  PROVE  machine = m.snapshot.machine
<1>1. /\ to_peer[p] # <<>> /\ m = Head(to_peer[p]) /\ IsChunk(m) /\ m.done
      /\ nd = node[p] /\ k = m.snapshot.index /\ k > nd.snapshot.index
      /\ machine = Restored(Written(p, m), k)
  BY DEF Installs, IsChunk
<1>2. /\ m \in GoodRequest /\ GoodPart(node[Lead].stored, nd.snapshot.index, received[p], m)
      /\ ProperChunk(m) /\ m.snapshot \in Snapshot /\ k \in 0 .. MaxIndex
  BY <1>1, HeadChunk
<1>3. PICK o \in Nat, count \in Nat : o = m.offset /\ count = Chunks[k] /\ count > 0
  BY <1>1, <1>2, HeadChunk, SnapshotAssumption
<1>4. m.len = 1 /\ o + 1 >= count
  BY <1>1, <1>2, <1>3 DEF ProperChunk
<1>5. PICK chunks \in [Offsets -> Machine \cup {None}] : chunks = received[p]
  BY DEF TransferInv, ReceivedInv
<1>6. PICK x \in Machine : x = m.snapshot.machine
  BY <1>2 DEF Snapshot
<1>7. PICK w : w = Written(p, m)
  OBVIOUS
<1>8. w = [i \in Offsets |-> IF i = o THEN x ELSE chunks[i]]
  BY <1>3, <1>4, <1>5, <1>6, <1>7 DEF Written
<1>9. ASSUME NEW i \in 0 .. count - 1 PROVE w[i] = x
  <2>1. i \in Offsets
    BY <1>2, <1>3, OffsetsType
  <2>2. CASE o = 0
    <3>1. i = o
      BY <1>4, <2>2
    <3> QED
      BY <1>8, <2>1, <3>1
  <2>3. CASE o # 0
    <3>1. m.snapshot = node[Lead].stored /\ Prepared(m.snapshot, nd.snapshot.index, chunks, o)
      BY <1>1, <1>2, <1>3, <1>5, <2>3 DEF GoodPart, IsWhole
    <3>2. k \in Nat /\ nd.snapshot.index \in Nat
      BY <1>1, <1>2, LineTypes
    <3>3. \A j \in 0 .. o - 1 : chunks[j] = x
      BY <1>1, <1>6, <2>3, <3>1, <3>2 DEF Prepared
    <3>4. i = o \/ i \in 0 .. o - 1
      BY <1>4
    <3> QED
      BY <1>8, <2>1, <3>3, <3>4
  <2> QED
    BY <2>2, <2>3
<1>10. w[0] = x /\ x # None
  <2>1. 0 \in 0 .. count - 1
    BY <1>3
  <2>2. x # None
    BY <1>6, NoneAssumption
  <2> QED
    BY <1>9, <2>1, <2>2
<1>11. w[0] # None /\ \A i \in 0 .. Chunks[Len(w[0])] - 1 : w[i] = w[0]
  <2>1. Len(x) = k
    BY <1>1, <1>2, <1>6 DEF ProperChunk
  <2> QED
    BY <1>3, <1>9, <1>10, <2>1
<1>12. Restored(w, k) = w[0]
  BY <1>11 DEF Restored
<1> QED
  BY <1>1, <1>6, <1>7, <1>10, <1>12

\* So every step that installs a snapshot installs a whole one.
LEMMA WholeStep == TransferInv /\ ChunkInv => Whole
<1> SUFFICES ASSUME TransferInv, ChunkInv, NEW p \in Peer, InstallSnapshot(p)
             PROVE  node'[p].machine = Head(to_peer[p]).snapshot.machine
  BY DEF Whole
<1>1. PICK m \in GoodRequest, nd \in NodeType, k \in Nat, machine \in Machine, after \in NodeType :
        /\ Installs(p, m, nd, k, machine, after)
        /\ node' = [node EXCEPT ![p] = after]
        /\ received' = [received EXCEPT ![p] = [o \in Offsets |-> None]]
        /\ Answer(p, SnapshotReply(p, TRUE, m.offset + m.len, TRUE))
  BY InstallEffect
<1>2. machine = m.snapshot.machine /\ m = Head(to_peer[p]) /\ after.machine = machine
  <2>1. machine = m.snapshot.machine
    BY <1>1, RestoredWhole
  <2> QED
    BY <1>1, <2>1 DEF Installs
<1>3. p \in Node /\ node' = [node EXCEPT ![p] = after]
  BY <1>1, NodesAre
<1>4. node'[p] = after
  BY <1>3, NodeIs
<1> QED
  BY <1>2, <1>4

\* Whatever is lost, fails or restarts, a peer restores the snapshot it is sent,
\* in as many chunks as it takes: unless the leader compacts its log during the
\* transfer, without storing what its log gave way to, or a peer starts again
\* in the middle of one without what it had.
THEOREM SnapshotsArriveWhole ==
  ASSUME \A n \in Node : Sane(n, Started[n]), WholeSnapshot(Started[Lead]),
         <<Lead, "poll">> \notin Failing
  PROVE  Spec /\ [][NotOvertaken]_vars /\ [][NotRepeated]_vars /\ [][Steady]_vars
           /\ [][Recoverable]_vars => [][Whole]_vars
<1>1. Init => FollowInv /\ LeadWhole
  BY DEF Init, FollowInv, LeadWhole
<1>2. TransferInv /\ ChunkInv => [Whole]_vars
  BY WholeStep
<1> QED
  BY <1>1, <1>2, TransferInit, TransferStep, FollowStep, LeadWholeStep, ChunkInit, ChunkStep,
     PTL DEF Spec

-----------------------------------------------------------------------------
(***************************************************************************)
(* Machines agree.  One history stands for what the leader was elected     *)
(* with and what it proposed since: every machine and snapshot is a prefix *)
(* of it, the leader's log ends with it, the logs of peers match it, and   *)
(* requests on the links are parts of it.                                  *)
(***************************************************************************)
LeadAgrees(nd, h) == LastIndex(nd.log) = Len(h) /\ \A k \in Indexes(nd.log) : At(nd.log, k) = h[k]

\* A request with an entry before that the leader does not have is never accepted.
RequestAgrees(m, h) ==
  /\ m.type = "InstallSnapshot" => SnapshotAgrees(m.snapshot, h)
  /\ m.type = "AppendEntries" =>
       \/ m.prev_index > 0 /\ m.prev_term = 0
       \/ /\ m.prev_index + Len(m.entries) <= Len(h)
          /\ m.prev_term = TermIn(h, m.prev_index)
          /\ \A j \in 1 .. Len(m.entries) : m.entries[j] = h[m.prev_index + j]

RequestsAgree(h) == \A p \in Peer : \A m \in Range(to_peer[p]) : RequestAgrees(m, h)
Agreed(h) ==
  /\ \A n \in Node : NodeAgrees(node[n], h)
  /\ LeadAgrees(node[Lead], h)
  /\ RequestsAgree(h)
AgreedInv == \E h \in Seq(Entry) : Agreed(h)

\* A log that ends with the history matches it.
LEMMA LeadMatches ==
  ASSUME NEW h \in Seq(Entry), NEW nd \in NodeType, LeadAgrees(nd, h)
  PROVE  Matches(nd.log, h) /\ OwnTerm(nd.log, h) /\ Known(nd, h)
<1>1. nd.log \in LogType
  BY NodeParts
<1>2. \A k \in Indexes(nd.log) : k <= Len(h) /\ At(nd.log, k) = h[k]
  BY <1>1, IndexesType DEF LeadAgrees
<1> QED
  BY <1>2 DEF Matches, OwnTerm, Known

\* The history grows by an entry of the leader's term.
LEMMA HistoryGrows ==
  ASSUME NEW h \in Seq(Entry), NEW e \in Entry
  PROVE  LET longer == Append(h, e)
         IN /\ longer \in Seq(Entry) /\ Len(longer) = Len(h) + 1 /\ longer[Len(h) + 1] = e
            /\ \A k \in 1 .. Len(h) : longer[k] = h[k]
            /\ \A m \in Machine : Prefix(m, h) => Prefix(m, longer)
            /\ \A s \in Mark : MarkAgrees(s, h) => MarkAgrees(s, longer)
            /\ \A s \in Snapshot : SnapshotAgrees(s, h) => SnapshotAgrees(s, longer)
            /\ \A m \in GoodRequest : RequestAgrees(m, h) => RequestAgrees(m, longer)
<1>1. PICK longer : longer = Append(h, e)
  OBVIOUS
<1>2. PICK n \in Nat : n = Len(h)
  OBVIOUS
<1>3. /\ longer \in Seq(Entry) /\ Len(longer) = n + 1 /\ longer[n + 1] = e
      /\ \A k \in 1 .. n : longer[k] = h[k]
  BY <1>1, <1>2
<1>4. ASSUME NEW m \in Machine, Prefix(m, h) PROVE Prefix(m, longer)
  <2>1. Len(m) \in Nat /\ Len(m) <= n
    BY <1>2, <1>4 DEF Prefix, Machine
  <2> QED
    BY <1>3, <1>4, <2>1 DEF Prefix
<1>5. ASSUME NEW k \in Nat, k <= n PROVE TermIn(longer, k) = TermIn(h, k)
  BY <1>3, <1>5 DEF TermIn
<1>6. ASSUME NEW s \in Snapshot, SnapshotAgrees(s, h) PROVE SnapshotAgrees(s, longer)
  <2>1. s.machine \in Machine /\ s.index \in Nat /\ s.index = Len(s.machine) /\ s.index <= n
    BY <1>2, <1>6 DEF Snapshot, SnapshotAgrees, Prefix
  <2>2. Prefix(s.machine, longer) /\ TermIn(longer, s.index) = TermIn(h, s.index)
    BY <1>4, <1>5, <1>6, <2>1 DEF SnapshotAgrees
  <2> QED
    BY <1>6, <2>2 DEF SnapshotAgrees
<1>7. ASSUME NEW m \in GoodRequest, RequestAgrees(m, h) PROVE RequestAgrees(m, longer)
  <2>1. CASE m.type = "InstallSnapshot"
    <3>1. m.snapshot \in Snapshot
      BY <2>1, RequestFields
    <3> QED
      BY <1>6, <1>7, <2>1, <3>1 DEF RequestAgrees
  <2>2. CASE m.type = "AppendEntries"
    <3>1. PICK prev \in Nat, es \in Seq(Entry) : prev = m.prev_index /\ es = m.entries
      BY <2>2, RequestFields
    <3>2. PICK size \in Nat : size = Len(es)
      OBVIOUS
    <3>3. CASE prev > 0 /\ m.prev_term = 0
      BY <2>2, <3>1, <3>3 DEF RequestAgrees
    <3>4. CASE /\ prev + size <= n /\ m.prev_term = TermIn(h, prev)
               /\ \A j \in 1 .. size : es[j] = h[prev + j]
      <4>1. prev + size <= n + 1 /\ prev <= n
        BY <3>4
      <4>2. m.prev_term = TermIn(longer, prev)
        BY <1>5, <3>4, <4>1
      <4>3. \A j \in 1 .. size : prev + j \in 1 .. n
        BY <3>4
      <4>4. \A j \in 1 .. size : es[j] = longer[prev + j]
        BY <1>3, <3>4, <4>3
      <4> QED
        BY <1>3, <2>2, <3>1, <3>2, <4>1, <4>2, <4>4 DEF RequestAgrees
    <3> QED
      BY <1>2, <1>7, <2>2, <3>1, <3>2, <3>3, <3>4 DEF RequestAgrees
  <2>3. m.type \in {"InstallSnapshot", "AppendEntries"}
    BY RequestFields
  <2> QED
    BY <2>1, <2>2, <2>3
<1>8. ASSUME NEW s \in Mark, MarkAgrees(s, h) PROVE MarkAgrees(s, longer)
  <2>1. s.index \in Nat /\ s.index <= n /\ s.term = TermIn(h, s.index)
    BY <1>2, <1>8 DEF Mark, MarkAgrees
  <2>2. TermIn(longer, s.index) = TermIn(h, s.index) /\ s.index <= n + 1
    BY <1>5, <2>1
  <2> QED
    BY <1>3, <2>1, <2>2 DEF MarkAgrees
<1> QED
  BY <1>1, <1>2, <1>3, <1>4, <1>6, <1>7, <1>8

\* The machine and the snapshots of a node.
SavedAgrees(nd, h) ==
  /\ nd.last_applied = Len(nd.machine) /\ Prefix(nd.machine, h)
  /\ MarkAgrees(nd.snapshot, h) /\ SnapshotAgrees(nd.stored, h)
  /\ nd.pending # None => SnapshotAgrees(nd.pending, h)

\* A node agrees with a history that has grown.
LEMMA AgreesLonger ==
  ASSUME NEW h \in Seq(Entry), NEW e \in Entry, e.term = Term, NEW nd \in NodeType, NodeAgrees(nd, h)
  PROVE  NodeAgrees(nd, Append(h, e)) /\ SavedAgrees(nd, Append(h, e))
<1>1. PICK longer : longer = Append(h, e)
  OBVIOUS
<1>2. PICK n \in Nat : n = Len(h)
  OBVIOUS
<1>3. /\ Len(longer) = n + 1 /\ longer[n + 1] = e /\ \A k \in 1 .. n : longer[k] = h[k]
      /\ \A m \in Machine : Prefix(m, h) => Prefix(m, longer)
      /\ \A s \in Mark : MarkAgrees(s, h) => MarkAgrees(s, longer)
      /\ \A s \in Snapshot : SnapshotAgrees(s, h) => SnapshotAgrees(s, longer)
  BY <1>1, <1>2, HistoryGrows
<1>4. SavedAgrees(nd, longer)
  BY <1>3, NodeParts DEF NodeAgrees, SavedAgrees
<1>5. PICK l \in LogType : l = nd.log
  BY NodeParts
<1>6. \A k \in Indexes(l) : k \in Nat /\ k >= 1
  BY IndexesType
<1>7. Matches(l, h) /\ OwnTerm(l, h) /\ Known(nd, h)
  BY <1>5 DEF NodeAgrees
<1>8. Matches(l, longer)
  <2>1. SUFFICES ASSUME NEW k \in Indexes(l), k <= n + 1, At(l, k).term = longer[k].term,
                        NEW j \in Indexes(l), j <= k
                 PROVE  At(l, j) = longer[j]
    BY <1>3 DEF Matches
  <2>2. k <= n
    <3>1. CASE k = n + 1
      BY <1>2, <1>3, <1>7, <2>1, <3>1 DEF OwnTerm
    <3> QED
      BY <1>6, <2>1, <3>1
  <2>3. At(l, j) = h[j]
    <3>1. longer[k] = h[k]
      BY <1>3, <1>6, <2>2
    <3> QED
      BY <1>2, <1>7, <2>1, <2>2, <3>1 DEF Matches
  <2>4. j \in 1 .. n
    BY <1>6, <2>1, <2>2
  <2> QED
    BY <1>3, <2>3, <2>4
<1>9. OwnTerm(l, longer)
  BY <1>2, <1>3, <1>6, <1>7 DEF OwnTerm
<1>10. Known(nd, longer)
  <2>1. SUFFICES ASSUME NEW k \in Indexes(nd.log), k <= nd.commit_index \/ k <= nd.last_applied
                 PROVE  k <= n + 1 /\ At(nd.log, k) = longer[k]
    BY <1>3 DEF Known
  <2>2. k <= n /\ At(nd.log, k) = h[k] /\ k \in Nat /\ k >= 1
    BY <1>2, <1>5, <1>6, <1>7, <2>1 DEF Known
  <2> QED
    BY <1>3, <2>2
<1> QED
  BY <1>1, <1>4, <1>5, <1>8, <1>9, <1>10 DEF NodeAgrees, SavedAgrees

\* The log of the leader, extended by what it proposes.
LEMMA LeadLonger ==
  ASSUME NEW h \in Seq(Entry), NEW e \in Entry, e.term = Term, NEW was \in NodeType,
         NodeAgrees(was, h), LeadAgrees(was, h), NEW nd \in NodeType, nd.log = Extend(was.log, <<e>>),
         nd.snapshot = was.snapshot, nd.stored = was.stored, nd.pending = was.pending,
         nd.machine = was.machine, nd.last_applied = was.last_applied
  PROVE  NodeAgrees(nd, Append(h, e)) /\ LeadAgrees(nd, Append(h, e))
<1>1. PICK longer \in Seq(Entry) : longer = Append(h, e)
  BY HistoryGrows
<1>2. SavedAgrees(nd, longer)
  BY <1>1, AgreesLonger DEF SavedAgrees
<1>3. PICK l \in LogType, x \in LogType : l = was.log /\ x = Extend(l, <<e>>)
  BY NodeParts, ExtendIs
<1>4. /\ LastIndex(x) = LastIndex(l) + 1
      /\ \A j \in Indexes(l) : At(x, j) = At(l, j)
      /\ At(x, LastIndex(l) + 1) = e
      /\ \A j \in Indexes(x) : j \in Indexes(l) \/ j = LastIndex(l) + 1
  BY <1>3, ExtendIs
<1>5. PICK n \in Nat : n = Len(h) /\ n = LastIndex(l)
  <2>1. Len(h) \in Nat /\ LastIndex(l) = Len(h)
    BY <1>3 DEF LeadAgrees
  <2> QED
    BY <2>1
<1>6. Len(longer) = n + 1 /\ longer[n + 1] = e /\ \A k \in 1 .. n : longer[k] = h[k]
  <2>1. Len(longer) = Len(h) + 1 /\ longer[Len(h) + 1] = e /\ \A k \in 1 .. Len(h) : longer[k] = h[k]
    BY <1>1, HistoryGrows
  <2> QED
    BY <1>5, <2>1
<1>7. \A j \in Indexes(l) : j \in 1 .. n /\ At(l, j) = h[j]
  BY <1>3, <1>5, IndexesType DEF LeadAgrees
<1>8. LeadAgrees(nd, longer)
  BY <1>3, <1>4, <1>5, <1>6, <1>7 DEF LeadAgrees
<1>9. Matches(nd.log, longer) /\ OwnTerm(nd.log, longer) /\ Known(nd, longer)
  BY <1>8, LeadMatches
<1> QED
  BY <1>1, <1>2, <1>8, <1>9 DEF NodeAgrees, SavedAgrees

-----------------------------------------------------------------------------
\* What raft_send_heartbeats makes of a leader that agrees with the history.
LEMMA SentAgrees ==
  ASSUME TransferInv, NEW h \in Seq(Entry), NEW nd \in NodeType, NEW p \in Peer,
         NodeAgrees(nd, h), LeadAgrees(nd, h), nd.log.base = nd.snapshot.index, HasStored(nd)
  PROVE  /\ RequestAgrees(ChunkRequest(nd, p), h)
         /\ ~NeedsSnapshot(nd, p) => RequestAgrees(AppendRequest(nd, p), h)
<1>1. RequestAgrees(ChunkRequest(nd, p), h)
  <2>1. PICK m : m = ChunkRequest(nd, p)
    OBVIOUS
  <2>2. m.type = "InstallSnapshot" /\ m.snapshot = nd.stored
    <3>1. PICK s \in Snapshot : s = nd.stored /\ nd.snapshot = MarkOf(s)
      BY NodeParts DEF HasStored
    <3>2. s = [index |-> nd.snapshot.index, term |-> nd.snapshot.term, machine |-> s.machine]
      BY <3>1 DEF MarkOf, Snapshot
    <3> QED
      BY <2>1, <3>1, <3>2 DEF ChunkRequest
  <2> QED
    BY <2>1, <2>2 DEF RequestAgrees, NodeAgrees
<1>2. ASSUME ~NeedsSnapshot(nd, p) PROVE RequestAgrees(AppendRequest(nd, p), h)
  <2>1. PICK next \in Nat, max \in Nat : next = next_index[p] /\ max = MaxEntries
    BY SnapshotAssumption DEF TransferInv, PeersInv
  <2>2. PICK l \in LogType, base \in Nat : l = nd.log /\ base = l.base /\ base = nd.snapshot.index
    BY NodeParts
  <2>3. next >= base + 1
    BY <1>2, <2>1, <2>2 DEF NeedsSnapshot
  <2>4. PICK prev \in Nat : prev = next - 1 /\ prev >= base /\ next = prev + 1
    BY <2>3
  <2>5. PICK es, m : es = CopyRange(l, next, max) /\ m = AppendRequest(nd, p)
    OBVIOUS
  <2>6. /\ m.type = "AppendEntries" /\ m.entries = es /\ m.prev_index = prev
        /\ m.prev_term = PrevTerm(nd, prev)
    BY <2>1, <2>2, <2>4, <2>5 DEF AppendRequest
  <2>7. /\ Len(es) \in Nat
        /\ \A j \in 1 .. Len(es) : next + j - 1 \in Indexes(l) /\ es[j] = At(l, next + j - 1)
    BY <2>5, CopyRangeIs
  <2>8. PICK n \in Nat, size \in Nat : n = LastIndex(l) /\ size = Len(es)
    BY <2>7, IndexesType
  <2>9. n = Len(h) /\ \A k \in Indexes(l) : k \in Nat /\ k >= 1 /\ k <= n /\ At(l, k) = h[k]
    BY <2>2, <2>8, IndexesType DEF LeadAgrees
  <2>10. \A j \in 1 .. size : prev + j <= n /\ es[j] = h[prev + j]
    <3>1. ASSUME NEW j \in 1 .. size PROVE prev + j <= n /\ es[j] = h[prev + j]
      <4>1. next + j - 1 = prev + j
        BY <2>4
      <4> QED
        BY <2>7, <2>8, <2>9, <4>1
    <3> QED
      BY <3>1
  <2>11. CASE Holds(l, prev)
    <3>1. prev \in Indexes(l)
      BY <2>11, IndexesType
    <3>2. prev <= n /\ PrevTerm(nd, prev) = TermIn(h, prev)
      BY <2>2, <2>9, <2>11, <3>1 DEF PrevTerm, TermIn
    <3>3. prev + size <= n
      <4>1. CASE size # 0
        BY <2>10, <4>1
      <4> QED
        BY <3>2, <4>1
    <3> QED
      BY <2>5, <2>6, <2>8, <2>9, <2>10, <3>2, <3>3 DEF RequestAgrees
  <2>12. CASE ~Holds(l, prev) /\ prev = base
    <3>1. PrevTerm(nd, prev) = TermIn(h, prev)
      BY <2>2, <2>12 DEF PrevTerm, NodeAgrees, MarkAgrees
    <3>2. base <= n
      BY <2>2, <2>8, IndexesType
    <3>3. prev + size <= n
      <4>1. CASE size # 0
        BY <2>10, <4>1
      <4> QED
        BY <2>12, <3>2, <4>1
    <3> QED
      BY <2>5, <2>6, <2>8, <2>9, <2>10, <3>1, <3>3 DEF RequestAgrees
  <2>13. CASE ~Holds(l, prev) /\ prev # base
    <3>1. prev > 0 /\ PrevTerm(nd, prev) = 0
      BY <2>2, <2>4, <2>13 DEF PrevTerm
    <3> QED
      BY <2>5, <2>6, <3>1 DEF RequestAgrees
  <2> QED
    BY <2>11, <2>12, <2>13
<1> QED
  BY <1>1, <1>2

\* Requests agree when new ones are made by a leader that does.
LEMMA RequestsStillAgree ==
  ASSUME TransferInv, NEW h \in Seq(Entry), RequestsAgree(h),
         \/ Quiet
         \/ \E nd \in NodeType : /\ NodeAgrees(nd, h) /\ LeadAgrees(nd, h)
                                 /\ nd.log.base = nd.snapshot.index /\ HasStored(nd)
                                 /\ Sends(nd)
  PROVE  RequestsAgree(h)'
<1>1. SUFFICES ASSUME NEW p \in Peer, NEW m \in Range(to_peer'[p]) PROVE RequestAgrees(m, h)
  BY DEF RequestsAgree
<1>2. CASE m \in Range(to_peer[p])
  BY <1>2 DEF RequestsAgree
<1>3. CASE Quiet
  BY <1>1, <1>2, <1>3 DEF Quiet
<1>4. ASSUME NEW nd \in NodeType, NodeAgrees(nd, h), LeadAgrees(nd, h),
             nd.log.base = nd.snapshot.index, HasStored(nd), Sends(nd)
      PROVE  RequestAgrees(m, h)
  BY <1>1, <1>2, <1>4, SentAgrees DEF Sends
<1> QED
  BY <1>3, <1>4

\* A node that changes.
LEMMA AgreedChanges ==
  ASSUME TransferInv, NEW h \in Seq(Entry), Agreed(h), NEW n \in Node, NEW after,
         NodeAgrees(after, h), n = Lead => LeadAgrees(after, h),
         node' = [node EXCEPT ![n] = after], RequestsAgree(h)'
  PROVE  Agreed(h)'
<1>1. ASSUME NEW o \in Node PROVE NodeAgrees(node'[o], h)
  BY NodeIs DEF Agreed
<1>2. LeadAgrees(node'[Lead], h)
  BY NodesAre, NodeIs DEF Agreed
<1>3. (\A o \in Node : NodeAgrees(node'[o], h)) /\ LeadAgrees(node'[Lead], h) /\ RequestsAgree(h)'
  BY <1>1, <1>2
<1> QED
  BY <1>3 DEF Agreed

\* Ticks and raft_snapshot_create, at the leader.
LEMMA TendedLead ==
  ASSUME NEW h \in Seq(Entry), NEW n, NEW nd \in NodeType, NEW after, Tended(n, nd, after),
         NodeAgrees(nd, h), LeadAgrees(nd, h)
  PROVE  NodeAgrees(after, h) /\ LeadAgrees(after, h)
<1>1. nd.last_applied <= LastIndex(nd.log)
  BY DEF NodeAgrees, LeadAgrees, Prefix
<1>2. /\ LastIndex(after.log) = LastIndex(nd.log) /\ NodeAgrees(after, h)
      /\ \A k \in Indexes(after.log) : k \in Indexes(nd.log) /\ At(after.log, k) = At(nd.log, k)
  BY <1>1 DEF Tended
<1>3. LeadAgrees(after, h)
  BY <1>2 DEF LeadAgrees
<1> QED
  BY <1>2, <1>3

\* Entries that are stored.  What the peer has before them agrees, because an
\* entry of the same term does, or nothing is there.
LEMMA AcceptAgrees ==
  ASSUME TransferInv, NEW h \in Seq(Entry), Agreed(h), NEW p \in Peer, NEW m \in GoodRequest,
         NEW nd \in NodeType, NEW l \in LogType, NEW after \in NodeType, Accepts(p, m, nd, l, after)
  PROVE  /\ NodeAgrees(after, h)
         /\ m.prev_index + Len(m.entries) <= Len(h) /\ m.prev_index + Len(m.entries) <= LastIndex(l)
         /\ \A k \in Indexes(l) : k <= m.prev_index + Len(m.entries) => At(l, k) = h[k]
         /\ l = nd.log \/ LastIndex(l) = m.prev_index + Len(m.entries)
         /\ \A k \in Indexes(nd.log) : k <= Len(h) /\ At(nd.log, k) = h[k] =>
              k \in Indexes(l) /\ At(l, k) = h[k]
<1>1. PICK prev \in Nat, es \in Seq(Entry) : prev = m.prev_index /\ es = m.entries
  BY DEF Accepts
<1>2. PICK size \in Nat : size = Len(es)
  OBVIOUS
<1>3. PICK was \in LogType : was = nd.log
  BY NodeParts
<1>4. /\ to_peer[p] # <<>> /\ m = Head(to_peer[p]) /\ m.type = "AppendEntries"
      /\ nd = node[p] /\ HasPrev(nd, m) /\ was.base = nd.snapshot.index
      /\ was.base <= prev /\ prev <= LastIndex(was) /\ l.base = was.base
      /\ Overwritten(was, prev, es, size, l)
  BY <1>1, <1>2, <1>3 DEF Accepts
<1>5. NodeAgrees(nd, h) /\ RequestAgrees(m, h)
  BY <1>4, NodesAre, RequestTaken DEF Agreed, RequestsAgree
<1>6. Matches(was, h) /\ OwnTerm(was, h) /\ Known(nd, h) /\ MarkAgrees(nd.snapshot, h)
  BY <1>3, <1>5 DEF NodeAgrees
<1>7. \A k \in Indexes(was) : k \in Nat /\ k >= 1 /\ k > was.base /\ At(was, k) \in Entry
  BY IndexesType
<1>8. \A e \in Entry : e.term >= 1
  BY SnapshotAssumption DEF Entry
<1>9. PICK n \in Nat : n = Len(h) /\ \A k \in 1 .. n : h[k] \in Entry
  OBVIOUS
<1>10. \/ prev = 0
       \/ prev = nd.snapshot.index /\ nd.snapshot.term = m.prev_term
       \/ prev \in Indexes(was) /\ At(was, prev).term = m.prev_term
  BY <1>1, <1>3, <1>4, IndexesType DEF HasPrev, Conflicts
<1>11. ~(prev > 0 /\ m.prev_term = 0)
  <2>1. SUFFICES ASSUME prev > 0, m.prev_term = 0 PROVE FALSE
    OBVIOUS
  <2>2. CASE prev = nd.snapshot.index /\ nd.snapshot.term = 0
    <3>1. prev <= n /\ h[prev].term = 0
      BY <1>6, <1>9, <2>1, <2>2 DEF MarkAgrees, TermIn
    <3>2. h[prev] \in Entry
      BY <1>9, <2>1, <3>1
    <3> QED
      BY <1>8, <3>1, <3>2
  <2>3. CASE prev \in Indexes(was) /\ At(was, prev).term = 0
    BY <1>7, <1>8, <2>3
  <2> QED
    BY <1>10, <2>1, <2>2, <2>3
<1>12. /\ prev + size <= n /\ m.prev_term = TermIn(h, prev)
       /\ \A j \in 1 .. size : es[j] = h[prev + j]
  BY <1>1, <1>2, <1>4, <1>5, <1>9, <1>11 DEF RequestAgrees
<1>13. ASSUME NEW j \in Indexes(was), j <= prev PROVE At(was, j) = h[j]
  <2>1. prev # 0 /\ prev # was.base
    BY <1>4, <1>7, <1>13
  <2>2. prev \in Indexes(was) /\ At(was, prev).term = h[prev].term /\ prev <= n
    BY <1>4, <1>10, <1>12, <2>1 DEF TermIn
  <2> QED
    BY <1>6, <1>9, <1>13, <2>2 DEF Matches
<1>14. PICK upTo \in Nat : upTo = prev + size /\ upTo <= n
  BY <1>12
<1>15. /\ \A j \in Indexes(l) : j <= upTo => At(l, j) = h[j]
       /\ upTo <= LastIndex(l) /\ (l = was \/ LastIndex(l) = upTo)
       /\ \A k \in Indexes(was) : k <= n /\ At(was, k) = h[k] => k \in Indexes(l) /\ At(l, k) = h[k]
  <2>1. size <= Len(es)
    BY <1>2
  <2>2. \A j \in Indexes(was) : j <= prev => At(was, j) = h[j]
    BY <1>13
  <2>3. prev + size <= Len(h) /\ \A i \in 1 .. size : es[i] = h[prev + i]
    BY <1>9, <1>12
  <2>4. /\ \A j \in Indexes(l) : j <= prev + size => At(l, j) = h[j]
        /\ prev + size <= LastIndex(l) /\ (l = was \/ LastIndex(l) = prev + size)
        /\ \A k \in Indexes(was) : k <= Len(h) /\ At(was, k) = h[k] => k \in Indexes(l) /\ At(l, k) = h[k]
    BY <1>4, <1>6, <2>1, <2>2, <2>3, OverwrittenAgrees, SMTT(30)
  <2> QED
    BY <1>9, <1>14, <2>4
<1>16. Matches(l, h) /\ OwnTerm(l, h)
  BY <1>6, <1>9, <1>14, <1>15, OverwrittenMatches
<1>17. after.log = l /\ after.snapshot = nd.snapshot /\ after.stored = nd.stored
       /\ after.pending = nd.pending
       /\ after.machine = nd.machine /\ after.last_applied = nd.last_applied
       /\ (after.commit_index = nd.commit_index \/ after.commit_index <= upTo)
  BY <1>1, <1>2, <1>14 DEF Accepts
<1>18. Known(after, h)
  <2>1. SUFFICES ASSUME NEW k \in Indexes(l), k <= after.commit_index \/ k <= after.last_applied
                 PROVE  k <= n /\ At(l, k) = h[k]
    BY <1>9, <1>17 DEF Known
  <2>2. k \in Nat /\ k <= LastIndex(l) /\ LastIndex(l) \in Nat /\ after.commit_index \in Nat
    BY <2>1, IndexesType, NodeParts
  <2>3. CASE k <= upTo
    BY <1>14, <1>15, <2>2, <2>3
  <2>4. CASE ~(k <= upTo)
    <3>1. l = was
      BY <1>14, <1>15, <2>2, <2>4
    <3>2. after.commit_index <= upTo => ~(k <= after.commit_index)
      BY <2>2, <2>4
    <3>3. k <= nd.commit_index \/ k <= nd.last_applied
      BY <1>17, <2>1, <3>2
    <3>4. k \in Indexes(nd.log) /\ l = nd.log
      BY <1>3, <2>1, <3>1
    <3> QED
      BY <1>6, <1>9, <3>3, <3>4 DEF Known
  <2> QED
    BY <2>3, <2>4
<1>19. NodeAgrees(after, h)
  BY <1>5, <1>16, <1>17, <1>18 DEF NodeAgrees
<1> QED
  BY <1>1, <1>2, <1>3, <1>9, <1>14, <1>15, <1>19

\* A peer that has applied entries beyond the snapshot it is sent keeps last_applied,
\* and not what it applied.
NotAhead ==
  \A p \in Peer : InstallSnapshot(p) => node[p].last_applied <= Head(to_peer[p]).snapshot.index

\* What a peer does with a request, and what is left of it when it starts again.
LEMMA AgreedPeer ==
  ASSUME TransferInv, FollowInv, ChunkInv, NEW h \in Seq(Entry), Agreed(h), NEW p \in Peer,
         NotRepeated, NotAhead, RequestsAgree(h)',
         AcceptAppend(p) \/ RefuseConflictingPrev(p) \/ InstallSnapshot(p) \/ Restart(p)
  PROVE  Agreed(h)'
<1>1. p \in Node /\ p # Lead
  BY NodesAre
<1>2. ASSUME NEW after, NodeAgrees(after, h), node' = [node EXCEPT ![p] = after] PROVE Agreed(h)'
  BY <1>1, <1>2, AgreedChanges
<1>3. CASE AcceptAppend(p)
  <2>1. PICK m \in GoodRequest, nd \in NodeType, l \in LogType, after \in NodeType :
          Accepts(p, m, nd, l, after) /\ node' = [node EXCEPT ![p] = after]
    BY <1>3, AcceptEffect
  <2>2. NodeAgrees(after, h)
    BY <2>1, AcceptAgrees
  <2> QED
    BY <1>2, <2>1, <2>2
<1>4. CASE RefuseConflictingPrev(p)
  <2>1. PICK m \in GoodRequest, nd \in NodeType, l \in LogType, after \in NodeType :
          Cuts(p, m, nd, l, after) /\ node' = [node EXCEPT ![p] = after]
    BY <1>4, ConflictEffect
  <2>2. NodeAgrees(nd, h)
    BY <1>1, <2>1 DEF Cuts, Agreed
  <2>3. /\ after.log = l /\ after.snapshot = nd.snapshot /\ after.stored = nd.stored
        /\ after.pending = nd.pending /\ after.machine = nd.machine
        /\ after.last_applied = nd.last_applied
        /\ after.commit_index = nd.commit_index
        /\ \A k \in Indexes(l) : k \in Indexes(nd.log) /\ At(l, k) = At(nd.log, k)
    BY <2>1 DEF Cuts
  <2>4. Matches(l, h) /\ OwnTerm(l, h)
    BY <2>2, <2>3, PartMatches DEF NodeAgrees
  <2>5. Known(after, h)
    BY <2>2, <2>3 DEF NodeAgrees, Known
  <2>6. NodeAgrees(after, h)
    BY <2>2, <2>3, <2>4, <2>5 DEF NodeAgrees
  <2> QED
    BY <1>2, <2>1, <2>6
<1>5. ASSUME NEW k \in Nat, NEW nd, nd.log = EmptyLog(k)
      PROVE  Matches(nd.log, h) /\ OwnTerm(nd.log, h) /\ Known(nd, h)
  <2>1. Indexes(nd.log) = {}
    BY <1>5, EmptyLogIs
  <2> QED
    BY <2>1 DEF Matches, OwnTerm, Known
<1>6. CASE InstallSnapshot(p)
  <2>1. PICK m \in GoodRequest, nd \in NodeType, k \in Nat, machine \in Machine, after \in NodeType :
          /\ Installs(p, m, nd, k, machine, after)
          /\ node' = [node EXCEPT ![p] = after]
          /\ received' = [received EXCEPT ![p] = [o \in Offsets |-> None]]
          /\ Answer(p, SnapshotReply(p, TRUE, m.offset + m.len, TRUE))
    BY <1>6, InstallEffect
  <2>2. machine = m.snapshot.machine
    BY <2>1, RestoredWhole
  <2>3. /\ to_peer[p] # <<>> /\ m = Head(to_peer[p]) /\ m.type = "InstallSnapshot"
        /\ m.snapshot \in Snapshot /\ nd = node[p] /\ k = m.snapshot.index
        /\ after.log = EmptyLog(k) /\ after.machine = machine
        /\ after.snapshot = MarkOf(m.snapshot) /\ after.pending = nd.pending
        /\ after.stored = [m.snapshot EXCEPT !.machine = machine]
        /\ after.last_applied = Highest({nd.last_applied, k})
    BY <2>1 DEF Installs
  <2>4. NodeAgrees(nd, h) /\ SnapshotAgrees(m.snapshot, h)
    BY <1>1, <2>3, RequestTaken DEF Agreed, RequestsAgree, RequestAgrees
  <2>5. after.stored = m.snapshot /\ MarkAgrees(after.snapshot, h)
    <3>1. after.stored = m.snapshot
      BY <2>2, <2>3 DEF Snapshot
    <3> QED
      BY <2>3, <2>4, <3>1 DEF MarkAgrees, MarkOf, SnapshotAgrees, Prefix
  <2>6. after.last_applied = k
    <3>1. PICK a \in Nat : a = nd.last_applied
      BY NodeParts
    <3>2. a <= k
      BY <1>6, <2>3, <3>1 DEF NotAhead
    <3>3. k \in {a, k} /\ \A i \in {a, k} : i <= k
      BY <3>2
    <3>4. Highest({a, k}) = k
      BY <3>3 DEF Highest
    <3> QED
      BY <2>3, <3>1, <3>4
  <2>7. Matches(after.log, h) /\ OwnTerm(after.log, h) /\ Known(after, h)
    BY <1>5, <2>3
  <2>8. NodeAgrees(after, h)
    BY <2>2, <2>3, <2>4, <2>5, <2>6, <2>7 DEF NodeAgrees, SnapshotAgrees
  <2> QED
    BY <1>2, <2>1, <2>8
<1>7. CASE Restart(p)
  <2>1. PICK nd \in NodeType, k \in Nat, after \in NodeType :
          Restarts(p, nd, k, after) /\ node' = [node EXCEPT ![p] = after]
    BY <1>7, RestartEffect
  <2>2. /\ nd = node[p] /\ k = nd.stored.index
        /\ after.log = EmptyLog(k) /\ after.machine = nd.stored.machine
        /\ after.snapshot = MarkOf(nd.stored) /\ after.stored = nd.stored
        /\ after.pending = None /\ after.last_applied = k
    BY <2>1 DEF Restarts
  <2>3. SnapshotAgrees(nd.stored, h)
    BY <1>1, <2>2 DEF Agreed, NodeAgrees
  <2>4. Matches(after.log, h) /\ OwnTerm(after.log, h) /\ Known(after, h)
    BY <1>5, <2>2
  <2>5. MarkAgrees(after.snapshot, h)
    BY <2>2, <2>3 DEF MarkAgrees, MarkOf, SnapshotAgrees, Prefix
  <2>6. NodeAgrees(after, h)
    BY <2>2, <2>3, <2>4, <2>5 DEF NodeAgrees, SnapshotAgrees
  <2> QED
    BY <1>2, <2>1, <2>6
<1> QED
  BY <1>3, <1>4, <1>6, <1>7

\* raft_propose: the history grows.
LEMMA AgreedPropose ==
  ASSUME TransferInv, FollowInv, LeadWhole, NEW h \in Seq(Entry), Agreed(h), Propose
  PROVE  \E e \in Entry : /\ e = [term |-> Term, data |-> LastIndex(node[Lead].log) + 1]
                          /\ Agreed(Append(h, e))'
<1>1. PICK was \in NodeType, nd \in NodeType, e \in Entry, k \in Nat :
        /\ was = node[Lead] /\ k = LastIndex(was.log) + 1
        /\ e = [term |-> Term, data |-> k]
        /\ nd.log = Extend(was.log, <<e>>) /\ nd.snapshot = was.snapshot
        /\ nd.stored = was.stored /\ nd.pending = was.pending /\ nd.machine = was.machine
        /\ nd.last_applied = was.last_applied /\ nd.commit_index = was.commit_index
        /\ nd.stored.index <= MaxIndex
        /\ Round(nd) /\ node' = [node EXCEPT ![Lead] = nd]
  BY ProposeEffect
<1>2. PICK longer : longer = Append(h, e)
  OBVIOUS
<1>3. /\ longer \in Seq(Entry)
      /\ \A m \in GoodRequest : RequestAgrees(m, h) => RequestAgrees(m, longer)
  BY <1>2, HistoryGrows
<1>4. e.term = Term /\ Lead \in Node
  BY <1>1, NodesAre
<1>5. \A n \in Node : NodeAgrees(node[n], longer)
  BY <1>2, <1>4, AgreesLonger DEF Agreed, TransferInv, NodesInv
<1>6. NodeAgrees(nd, longer) /\ LeadAgrees(nd, longer)
  BY <1>1, <1>2, <1>4, LeadLonger DEF Agreed
<1>7. RequestsAgree(longer)
  <2>1. \A p \in Peer : \A m \in Range(to_peer[p]) : m \in GoodRequest
    BY RangeIs DEF TransferInv, LinksInv
  <2> QED
    BY <1>3, <2>1 DEF Agreed, RequestsAgree
<1>8. nd.log.base = nd.snapshot.index /\ HasStored(nd)
  <2>1. nd.log.base = nd.snapshot.index
    BY <1>1, <1>4 DEF FollowInv, Sane, Follows, Extend
  <2> QED
    BY <1>1, <2>1 DEF LeadWhole, WholeSnapshot, HasStored
<1>9. Sends(nd)
  BY <1>1, RoundSends
<1>10. RequestsAgree(longer)'
  BY <1>3, <1>6, <1>7, <1>8, <1>9, RequestsStillAgree
<1>11. ASSUME NEW n \in Node PROVE NodeAgrees(node'[n], longer)
  BY <1>1, <1>4, <1>5, <1>6, NodeIs
<1>12. LeadAgrees(node'[Lead], longer)
  BY <1>1, <1>4, <1>6, NodeIs
<1>13. (\A n \in Node : NodeAgrees(node'[n], longer)) /\ LeadAgrees(node'[Lead], longer)
       /\ RequestsAgree(longer)'
  BY <1>10, <1>11, <1>12
<1>14. Agreed(longer)'
  BY <1>13 DEF Agreed
<1> QED
  BY <1>1, <1>2, <1>14

\* Every other step.
LEMMA AgreedStay ==
  ASSUME TransferInv, FollowInv, LeadWhole, LeadWhole', ChunkInv, NEW h \in Seq(Entry), Agreed(h),
         [Next]_vars, [NotRepeated]_vars, [NotAhead]_vars, ~Propose
  PROVE  Agreed(h)'
<1>1. Lead \in Node /\ Peer \subseteq Node /\ \A n \in Node : node[n] \in NodeType
  BY NodesAre DEF TransferInv, NodesInv
<1>2. /\ \A n \in Node : NodeAgrees(node[n], h)
      /\ LeadAgrees(node[Lead], h) /\ RequestsAgree(h)
  BY DEF Agreed
<1>3. CASE TickHeartbeat
  <2>1. PICK nd \in NodeType, after \in NodeType :
          /\ Tended(Lead, node[Lead], nd) /\ Tended(Lead, node[Lead], after)
          /\ \/ nd.snapshot = node[Lead].snapshot /\ nd.stored = node[Lead].stored
             \/ nd.snapshot = after.snapshot /\ nd.stored = after.stored
          /\ nd.stored.index <= MaxIndex
          /\ Round(nd) /\ node' = [node EXCEPT ![Lead] = after]
    BY <1>3, HeartbeatEffect
  <2>2. NodeAgrees(nd, h) /\ LeadAgrees(nd, h) /\ NodeAgrees(after, h) /\ LeadAgrees(after, h)
    BY <1>1, <1>2, <2>1, TendedLead
  <2>3. nd.log.base = nd.snapshot.index /\ HasStored(nd)
    <3>1. WholeSnapshot(nd)
      BY <2>1, HeartbeatWhole
    <3> QED
      BY <2>1, <3>1 DEF Tended, Sane, Follows, WholeSnapshot
  <2>4. Sends(nd)
    BY <2>1, RoundSends
  <2>5. RequestsAgree(h)'
    BY <1>2, <2>2, <2>3, <2>4, RequestsStillAgree
  <2> QED
    BY <1>1, <2>1, <2>2, <2>5, AgreedChanges
<1>4. ASSUME Quiet PROVE RequestsAgree(h)'
  BY <1>2, <1>4, RequestsStillAgree
<1>5. ASSUME Quiet, NEW n \in Node, NEW done \in BOOLEAN, Tick(n, done) \/ SnapshotCreate(n)
      PROVE  Agreed(h)'
  <2>1. PICK after : Tended(n, node[n], after) /\ node' = [node EXCEPT ![n] = after]
    BY <1>5, OwnEffect
  <2>2. NodeAgrees(after, h)
    BY <1>2, <2>1 DEF Tended
  <2>3. n = Lead => LeadAgrees(after, h)
    BY <1>1, <1>2, <2>1, TendedLead
  <2> QED
    BY <1>4, <1>5, <2>1, <2>2, <2>3, AgreedChanges
<1>6. ASSUME Quiet, NEW p \in Peer, RecvAppendSuccess(p) PROVE Agreed(h)'
  <2>1. PICK nd \in NodeType, after \in NodeType :
          /\ nd = node[Lead]
          /\ after.log = nd.log /\ after.snapshot = nd.snapshot /\ after.stored = nd.stored
          /\ after.pending = nd.pending /\ after.machine = nd.machine
          /\ after.last_applied = nd.last_applied
          /\ node' = [node EXCEPT ![Lead] = after]
    BY <1>6, SuccessEffect
  <2>2. LeadAgrees(after, h)
    BY <1>2, <2>1 DEF LeadAgrees
  <2>3. Matches(after.log, h) /\ OwnTerm(after.log, h) /\ Known(after, h)
    BY <2>2, LeadMatches
  <2>4. NodeAgrees(nd, h)
    BY <1>1, <1>2, <2>1
  <2>5. NodeAgrees(after, h)
    BY <2>1, <2>3, <2>4 DEF NodeAgrees
  <2> QED
    BY <1>1, <1>4, <1>6, <2>1, <2>2, <2>5, AgreedChanges
<1>7. ASSUME Quiet, StillStep PROVE Agreed(h)'
  <2>1. RequestsAgree(h)'
    BY <1>4, <1>7
  <2>2. (\A n \in Node : NodeAgrees(node'[n], h)) /\ LeadAgrees(node'[Lead], h)
    BY <1>2, <1>7 DEF StillStep
  <2> QED
    BY <2>1, <2>2 DEF Agreed
<1>8. ASSUME Quiet, NEW p \in Peer,
             AcceptAppend(p) \/ RefuseConflictingPrev(p) \/ InstallSnapshot(p) \/ Restart(p)
      PROVE  Agreed(h)'
  <2>1. CASE NotRepeated /\ NotAhead
    BY <1>4, <1>8, <2>1, AgreedPeer
  <2>2. CASE UNCHANGED vars
    BY <1>7, <1>8, <2>2 DEF vars, StillStep
  <2> QED
    BY <2>1, <2>2
<1>9. TickHeartbeat \/ Quiet
  BY QuietStep
<1> QED
  BY <1>3, <1>5, <1>6, <1>7, <1>8, <1>9, WhichStep

\* State machines agree, whether entries were applied or came with a snapshot.
LEMMA AgreedMachines == AgreedInv => MachinesAgree
<1> SUFFICES ASSUME NEW h \in Seq(Entry), Agreed(h) PROVE MachinesAgree
  BY DEF AgreedInv
<1>1. \A n \in Node : node[n].last_applied = Len(node[n].machine) /\ Prefix(node[n].machine, h)
  BY DEF Agreed, NodeAgrees
<1>2. ASSUME NEW m, NEW o, Prefix(m, h), Prefix(o, h), NEW k, k \in 1 .. Len(m), k \in 1 .. Len(o)
      PROVE  m[k] = o[k]
  BY <1>2 DEF Prefix
<1> QED
  BY <1>1, <1>2 DEF MachinesAgree

\* Every step leaves the nodes in agreement with a history, the same or a longer one.
LEMMA AgreedStep ==
  TransferInv /\ FollowInv /\ LeadWhole /\ LeadWhole' /\ ChunkInv /\ AgreedInv
    /\ [Next]_vars /\ [NotRepeated]_vars /\ [NotAhead]_vars => AgreedInv'
<1> SUFFICES ASSUME TransferInv, FollowInv, LeadWhole, LeadWhole', ChunkInv,
                    [Next]_vars, [NotRepeated]_vars, [NotAhead]_vars,
                    NEW h \in Seq(Entry), Agreed(h)
             PROVE  \E later \in Seq(Entry) : Agreed(later)'
  BY DEF AgreedInv
<1>1. CASE Propose
  <2>1. PICK e \in Entry : Agreed(Append(h, e))'
    BY <1>1, AgreedPropose
  <2>2. Append(h, e) \in Seq(Entry)
    BY HistoryGrows
  <2> QED
    BY <2>1, <2>2
<1>2. CASE ~Propose
  BY <1>2, AgreedStay
<1> QED
  BY <1>1, <1>2

\* What the nodes start with agrees: there are entries that the leader's log ends
\* with, that machines and snapshots are prefixes of, and that logs match.
StartAgrees(h) == (\A n \in Node : NodeAgrees(Started[n], h)) /\ LeadAgrees(Started[Lead], h)

\* They agree with that history at first.
LEMMA AgreedStart ==
  ASSUME NEW h \in Seq(Entry), StartAgrees(h)
  PROVE  Init => Agreed(h)
<1> SUFFICES ASSUME Init PROVE Agreed(h)
  OBVIOUS
<1>1. ASSUME NEW p \in Peer PROVE Range(to_peer[p]) = {}
  BY DEF Init, Range
<1> QED
  BY <1>1 DEF Init, StartAgrees, Agreed, RequestsAgree

\* What the leader starts with is whole.
LEMMA LeadStart ==
  ASSUME \E h \in Seq(Entry) : StartAgrees(h), HasStored(Started[Lead])
  PROVE  Init => LeadWhole
<1>1. Sized(Started[Lead])
  BY NodesAre DEF StartAgrees, NodeAgrees, SnapshotAgrees, Sized
<1> QED
  BY <1>1 DEF Init, LeadWhole, WholeSnapshot

\* State machines agree on every entry, and are as far as last_applied says, through
\* compaction, transfers in chunks, losses, failures and restarts: where the nodes
\* start that way, the snapshots of the leader do not fail under way, and these
\* steps are not taken.  A peer restores a snapshot while one of its own is in
\* progress (NotOvertaken), or when it has applied more (NotAhead); a peer stores
\* entries it has compacted (NotRepeated); what the leader has stored changes during a
\* transfer (Steady); a peer whose own snapshot failed restarts during one (Recoverable).
THEOREM StateMachinesAgree ==
  ASSUME \A n \in Node : Sane(n, Started[n]), \E h \in Seq(Entry) : StartAgrees(h),
         HasStored(Started[Lead]), <<Lead, "poll">> \notin Failing
  PROVE  Spec /\ [][NotOvertaken]_vars /\ [][NotRepeated]_vars /\ [][NotAhead]_vars
           /\ [][Steady]_vars /\ [][Recoverable]_vars => []MachinesAgree
<1>1. Init => FollowInv
  BY DEF Init, FollowInv
<1>2. Init => LeadWhole
  BY LeadStart
<1>3. Init => AgreedInv
  BY AgreedStart DEF AgreedInv
<1> QED
  BY <1>1, <1>2, <1>3, TransferInit, TransferStep, FollowStep, LeadWholeStep, ChunkInit, ChunkStep,
     AgreedStep, AgreedMachines, PTL DEF Spec

-----------------------------------------------------------------------------
(***************************************************************************)
(* What match_index covers is held.  A reply's match_index is the last     *)
(* index of the peer's whole log, beyond what the request covered          *)
(* (raft_replication.c:211): it is true when what the peer has beyond is   *)
(* the leader's, and stays true as long as no snapshot takes entries away. *)
(***************************************************************************)
\* What a node has of the history, in its snapshot or in its log.
Has(nd, k, h) == k <= nd.snapshot.index \/ (k \in Indexes(nd.log) /\ At(nd.log, k) = h[k])

\* All of it up to match, beyond the leader's snapshot, which is of index b.
HasUpTo(nd, b, match, h) == \A k \in b + 1 .. match : Has(nd, k, h)

\* The leader knows the term of the entry before what it sends.
RequestCovers(m, h) ==
  m.type = "AppendEntries" =>
    m.prev_index + Len(m.entries) <= Len(h) /\ m.prev_term = TermIn(h, m.prev_index)

\* kept: the peer has not started again.
ReplyTrue(r, nd, b, kept, h) ==
  r.type = "AppendReply" =>
    /\ r.success => r.match_index <= Len(h) /\ (kept => HasUpTo(nd, b, r.match_index, h))
    /\ r.conflict_index <= Len(h)

PeerHolds(nd, b, next, match, requests, replies, kept, h) ==
  /\ next <= Len(h) + 1 /\ match <= Len(h)
  /\ kept => HasUpTo(nd, b, match, h)
  /\ \A m \in Range(requests) : RequestCovers(m, h)
  /\ \A r \in Range(replies) : ReplyTrue(r, nd, b, kept, h)

HoldsAt(p, h) ==
  PeerHolds(node[p], node[Lead].snapshot.index, next_index[p], match_index[p],
            to_peer[p], to_leader[p], p \notin crashed, h)
Held(h) == \A p \in Peer : HoldsAt(p, h)
HeldInv == \E h \in Seq(Entry) : Agreed(h) /\ Held(h)

\* A node that changes loses nothing of the history that it has.
Retains(nd, after, h) == \A k \in Nat : k <= Len(h) /\ Has(nd, k, h) => Has(after, k, h)

\* So what match covers stays covered, beyond a later snapshot of the leader too.
LEMMA RetainedUpTo ==
  ASSUME NEW h \in Seq(Entry), NEW nd, NEW after, Retains(nd, after, h),
         NEW b \in Nat, NEW later \in Nat, b <= later, NEW match \in Nat, match <= Len(h),
         HasUpTo(nd, b, match, h)
  PROVE  HasUpTo(after, later, match, h)
<1>1. Len(h) \in Nat
  OBVIOUS
<1>2. ASSUME NEW k \in later + 1 .. match PROVE Has(after, k, h)
  <2>1. k \in Nat /\ k <= Len(h) /\ k \in b + 1 .. match
    BY <1>1
  <2>2. Has(nd, k, h)
    BY <2>1 DEF HasUpTo
  <2> QED
    BY <2>1, <2>2 DEF Retains
<1> QED
  BY <1>2 DEF HasUpTo

\* A node that is left as it is.
LEMMA RetainsSame ==
  ASSUME NEW nd, NEW h
  PROVE  Retains(nd, nd, h)
  BY DEF Retains

\* The peer or the leader's snapshot changes.
LEMMA HeldNode ==
  ASSUME NEW h \in Seq(Entry), NEW nd, NEW b \in Nat, NEW next, NEW match \in Nat, NEW requests,
         NEW replies \in Seq(GoodReply), NEW kept,
         PeerHolds(nd, b, next, match, requests, replies, kept, h),
         NEW after, NEW later \in Nat, b <= later, NEW still,
         still => kept /\ Retains(nd, after, h)
  PROVE  PeerHolds(after, later, next, match, requests, replies, still, h)
<1>1. next <= Len(h) + 1 /\ match <= Len(h) /\ (kept => HasUpTo(nd, b, match, h))
  BY DEF PeerHolds
<1>2. still => HasUpTo(after, later, match, h)
  BY <1>1, RetainedUpTo
<1>3. ASSUME NEW r \in Range(replies) PROVE ReplyTrue(r, after, later, still, h)
  <2>1. ReplyTrue(r, nd, b, kept, h)
    BY <1>3 DEF PeerHolds
  <2>2. r \in GoodReply
    BY <1>3, RangeIs
  <2>3. SUFFICES ASSUME r.type = "AppendReply" PROVE ReplyTrue(r, after, later, still, h)
    BY DEF ReplyTrue
  <2>4. r.match_index \in Nat
    BY <2>2, <2>3, ReplyFields
  <2>5. ASSUME r.success, still PROVE HasUpTo(after, later, r.match_index, h)
    <3>1. r.match_index <= Len(h) /\ HasUpTo(nd, b, r.match_index, h) /\ Retains(nd, after, h)
      BY <2>1, <2>3, <2>5 DEF ReplyTrue
    <3> QED
      BY <2>4, <3>1, RetainedUpTo
  <2> QED
    BY <2>1, <2>3, <2>5 DEF ReplyTrue
<1> QED
  BY <1>1, <1>2, <1>3 DEF PeerHolds

\* A request goes off the link.
LEMMA HeldTail ==
  ASSUME NEW h, NEW nd, NEW b, NEW next, NEW match, NEW requests \in Seq(GoodRequest),
         NEW replies, NEW kept, PeerHolds(nd, b, next, match, requests, replies, kept, h),
         requests # <<>>
  PROVE  PeerHolds(nd, b, next, match, Tail(requests), replies, kept, h)
<1>1. Range(Tail(requests)) \subseteq Range(requests)
  BY RangeIs
<1> QED
  BY <1>1 DEF PeerHolds

\* The peer answers.
LEMMA HeldReply ==
  ASSUME NEW h, NEW nd, NEW b, NEW next, NEW match, NEW requests,
         NEW replies \in Seq(GoodReply), NEW kept,
         PeerHolds(nd, b, next, match, requests, replies, kept, h),
         NEW r, ReplyTrue(r, nd, b, kept, h)
  PROVE  PeerHolds(nd, b, next, match, requests, Append(replies, r), kept, h)
<1>1. replies \in Seq(GoodReply \cup {r}) /\ r \in GoodReply \cup {r}
  OBVIOUS
<1>2. Range(Append(replies, r)) = Range(replies) \cup {r}
  BY <1>1, RangeIs
<1> QED
  BY <1>2 DEF PeerHolds

\* The leader takes a reply, or loses it.
LEMMA HeldReplyTaken ==
  ASSUME NEW h, NEW nd, NEW b, NEW next, NEW match, NEW requests,
         NEW replies \in Seq(GoodReply), NEW kept,
         PeerHolds(nd, b, next, match, requests, replies, kept, h), replies # <<>>,
         NEW onward, onward <= Len(h) + 1, NEW has, has <= Len(h), kept => HasUpTo(nd, b, has, h)
  PROVE  PeerHolds(nd, b, onward, has, requests, Tail(replies), kept, h)
<1>1. Range(Tail(replies)) \subseteq Range(replies)
  BY RangeIs
<1> QED
  BY <1>1 DEF PeerHolds

\* The leader sends a request.
LEMMA HeldSent ==
  ASSUME NEW h, NEW nd, NEW b, NEW next, NEW match, NEW requests \in Seq(GoodRequest),
         NEW replies, NEW kept, PeerHolds(nd, b, next, match, requests, replies, kept, h),
         NEW m \in GoodRequest, RequestCovers(m, h)
  PROVE  PeerHolds(nd, b, next, match, Append(requests, m), replies, kept, h)
<1>1. Range(Append(requests, m)) = Range(requests) \cup {m}
  BY RangeIs
<1> QED
  BY <1>1 DEF PeerHolds

\* The history grows.
LEMMA HeldLonger ==
  ASSUME NEW h \in Seq(Entry), NEW e \in Entry, NEW nd \in NodeType, NEW b \in Nat, NEW next \in Nat,
         NEW match \in Nat, NEW requests \in Seq(GoodRequest), NEW replies \in Seq(GoodReply), NEW kept,
         PeerHolds(nd, b, next, match, requests, replies, kept, h)
  PROVE  PeerHolds(nd, b, next, match, requests, replies, kept, Append(h, e))
<1>0. PICK longer : longer = Append(h, e)
  OBVIOUS
<1>1. PICK n \in Nat : n = Len(h) /\ longer = Append(h, e)
  BY <1>0
<1>2. Len(longer) = n + 1 /\ \A k \in 1 .. n : longer[k] = h[k]
  BY <1>1, HistoryGrows
<1>4. next <= n + 1 /\ match <= n /\ (kept => HasUpTo(nd, b, match, h))
  BY <1>1 DEF PeerHolds
<1>6. ASSUME NEW m \in Nat, m <= n, HasUpTo(nd, b, m, h) PROVE HasUpTo(nd, b, m, longer)
  <2>1. SUFFICES ASSUME NEW k \in b + 1 .. m PROVE Has(nd, k, longer)
    BY DEF HasUpTo
  <2>2. k \in 1 .. n /\ Has(nd, k, h)
    BY <1>6, <2>1 DEF HasUpTo
  <2> QED
    BY <1>2, <2>2 DEF Has
<1>7. ASSUME NEW m \in Range(requests) PROVE RequestCovers(m, longer)
  <2>1. SUFFICES ASSUME m.type = "AppendEntries" PROVE RequestCovers(m, longer)
    BY DEF RequestCovers
  <2>2. m \in GoodRequest
    BY <1>7, RangeIs
  <2>3. m.prev_index \in Nat /\ Len(m.entries) \in Nat
    BY <2>1, <2>2, RequestFields
  <2>4. m.prev_index + Len(m.entries) <= n /\ m.prev_term = TermIn(h, m.prev_index)
    BY <1>1, <1>7, <2>1 DEF PeerHolds, RequestCovers
  <2>5. PICK prev \in Nat, size \in Nat : prev = m.prev_index /\ size = Len(m.entries)
    BY <2>3
  <2>6. prev <= n /\ prev + size <= n + 1
    BY <2>4, <2>5
  <2>7. TermIn(longer, prev) = TermIn(h, prev)
    BY <1>2, <2>6 DEF TermIn
  <2> QED
    BY <1>2, <2>4, <2>5, <2>6, <2>7 DEF RequestCovers
<1>8. ASSUME NEW r \in Range(replies) PROVE ReplyTrue(r, nd, b, kept, longer)
  <2>1. SUFFICES ASSUME r.type = "AppendReply" PROVE ReplyTrue(r, nd, b, kept, longer)
    BY DEF ReplyTrue
  <2>2. r \in GoodReply
    BY <1>8, RangeIs
  <2>3. r.match_index \in Nat /\ r.conflict_index \in Nat
    BY <2>1, <2>2, ReplyFields
  <2>4. /\ r.success => r.match_index <= n /\ (kept => HasUpTo(nd, b, r.match_index, h))
        /\ r.conflict_index <= n
    BY <1>1, <1>8, <2>1 DEF PeerHolds, ReplyTrue
  <2>5. r.success => r.match_index <= n + 1 /\ (kept => HasUpTo(nd, b, r.match_index, longer))
    BY <1>6, <2>3, <2>4
  <2>6. r.conflict_index <= n + 1
    BY <2>3, <2>4
  <2> QED
    BY <1>2, <2>5, <2>6 DEF ReplyTrue
<1>9. next <= n + 2 /\ match <= n + 1 /\ (kept => HasUpTo(nd, b, match, longer))
  BY <1>4, <1>6
<1>10. PeerHolds(nd, b, next, match, requests, replies, kept, longer)
  BY <1>2, <1>7, <1>8, <1>9 DEF PeerHolds
<1> QED
  BY <1>1, <1>10

\* A request goes as far as the leader's log does, and the leader knows the term
\* of the entry before.
LEMMA SentCovers ==
  ASSUME TransferInv, NEW h \in Seq(Entry), NEW nd \in NodeType, NEW p \in Peer,
         NodeAgrees(nd, h), LeadAgrees(nd, h), nd.log.base = nd.snapshot.index,
         ~NeedsSnapshot(nd, p), next_index[p] <= Len(h) + 1
  PROVE  RequestCovers(AppendRequest(nd, p), h)
<1>1. PICK next \in Nat, max \in Nat : next = next_index[p] /\ max = MaxEntries
  BY SnapshotAssumption DEF TransferInv, PeersInv
<1>2. PICK l \in LogType, base \in Nat : l = nd.log /\ base = l.base /\ base = nd.snapshot.index
  BY NodeParts
<1>3. PICK n \in Nat : n = Len(h) /\ n = LastIndex(l) /\ base <= n
  <2>1. Len(h) \in Nat /\ LastIndex(l) = Len(h) /\ base <= LastIndex(l)
    BY <1>2, IndexesType DEF LeadAgrees
  <2> QED
    BY <2>1
<1>4. next >= base + 1 /\ next <= n + 1
  BY <1>1, <1>2, <1>3, SnapshotAssumption DEF NeedsSnapshot
<1>5. PICK prev \in Nat : prev = next - 1 /\ prev >= base /\ next = prev + 1 /\ prev <= n
  BY <1>4
<1>6. PICK es, m : es = CopyRange(l, next, max) /\ m = AppendRequest(nd, p)
  OBVIOUS
<1>7. m.entries = es /\ m.prev_index = prev /\ m.prev_term = PrevTerm(nd, prev)
  BY <1>1, <1>2, <1>5, <1>6 DEF AppendRequest
<1>8. PICK size \in Nat : size = Len(es)
  BY <1>6, CopyRangeIs
<1>9. prev + size <= n
  <2>1. CASE size = 0
    BY <1>5, <2>1
  <2>2. CASE size # 0
    <3>1. size \in 1 .. size /\ next + size - 1 = prev + size
      BY <1>5, <2>2
    <3>2. next + size - 1 \in Indexes(l)
      BY <1>6, <1>8, <3>1, CopyRangeIs
    <3> QED
      BY <1>3, <3>1, <3>2, IndexesType
  <2> QED
    BY <2>1, <2>2
<1>10. PrevTerm(nd, prev) = TermIn(h, prev)
  <2>1. CASE Holds(l, prev)
    <3>1. prev \in Indexes(l) /\ prev # 0
      BY <2>1, IndexesType
    <3>2. At(l, prev) = h[prev]
      BY <1>2, <3>1 DEF LeadAgrees
    <3> QED
      BY <1>2, <2>1, <3>1, <3>2 DEF PrevTerm, TermIn
  <2>2. CASE ~Holds(l, prev)
    <3>1. prev = base
      BY <1>2, <1>3, <1>5, <2>2 DEF Holds
    <3> QED
      BY <1>2, <2>2, <3>1 DEF PrevTerm, NodeAgrees, MarkAgrees
  <2> QED
    BY <2>1, <2>2
<1> QED
  BY <1>3, <1>6, <1>7, <1>8, <1>9, <1>10 DEF RequestCovers

\* What there is between the leader and a peer.
LEMMA HeldTypes ==
  ASSUME TransferInv, NEW p \in Peer
  PROVE  /\ to_peer[p] \in Seq(GoodRequest) /\ to_leader[p] \in Seq(GoodReply)
         /\ next_index[p] \in Nat /\ match_index[p] \in Nat
         /\ node[p] \in NodeType /\ node[p].snapshot.index \in Nat
         /\ node[Lead] \in NodeType /\ node[Lead].snapshot.index \in Nat
<1>1. node[p] \in NodeType /\ node[Lead] \in NodeType
  BY NodesAre DEF TransferInv, NodesInv
<1> QED
  BY <1>1, NodeParts DEF TransferInv, LinksInv, PeersInv

\* A step of one peer.
LEMMA OneHeld ==
  ASSUME NEW h, Held(h), NEW p \in Peer, HoldsAt(p, h)',
         node'[Lead].snapshot.index = node[Lead].snapshot.index,
         \A o \in Peer : o # p =>
           /\ node'[o] = node[o] /\ next_index'[o] = next_index[o] /\ match_index'[o] = match_index[o]
           /\ to_peer'[o] = to_peer[o] /\ to_leader'[o] = to_leader[o]
           /\ o \in crashed' <=> o \in crashed
  PROVE  Held(h)'
<1>2. ASSUME NEW o \in Peer, o # p PROVE HoldsAt(o, h)'
  <2>1. PeerHolds(node[o], node[Lead].snapshot.index, next_index[o], match_index[o],
                  to_peer[o], to_leader[o], o \notin crashed, h)
    BY <1>2 DEF Held, HoldsAt
  <2>2. /\ node'[o] = node[o] /\ next_index'[o] = next_index[o] /\ match_index'[o] = match_index[o]
        /\ to_peer'[o] = to_peer[o] /\ to_leader'[o] = to_leader[o]
        /\ (o \notin crashed') <=> (o \notin crashed)
    BY <1>2
  <2>3. PeerHolds(node'[o], node'[Lead].snapshot.index, next_index'[o], match_index'[o],
                  to_peer'[o], to_leader'[o], o \notin crashed', h)
    BY <2>1, <2>2
  <2> QED
    BY <2>3 DEF HoldsAt
<1>3. \A o \in Peer : HoldsAt(o, h)'
  BY <1>2
<1> QED
  BY <1>3 DEF Held

\* A peer changes on its own, or starts again.
LEMMA HeldChanges ==
  ASSUME TransferInv, NEW h \in Seq(Entry), Held(h), NEW p \in Peer, NEW after,
         node' = [node EXCEPT ![p] = after],
         p \notin crashed' => p \notin crashed /\ Retains(node[p], after, h),
         \A o \in Peer : o # p => (o \in crashed' <=> o \in crashed),
         UNCHANGED <<next_index, match_index, to_peer, to_leader>>
  PROVE  Held(h)'
<1>1. p \in Node /\ Lead \in Node /\ p # Lead /\ Peer \subseteq Node
  BY NodesAre
<1>2. node'[p] = after /\ \A o \in Node : o # p => node'[o] = node[o]
  BY <1>1, NodeIs
<1>3. PICK b \in Nat, next \in Nat, match \in Nat :
        b = node[Lead].snapshot.index /\ next = next_index[p] /\ match = match_index[p]
  BY HeldTypes
<1>4. PeerHolds(node[p], b, next, match, to_peer[p], to_leader[p], p \notin crashed, h)
  BY <1>3 DEF Held, HoldsAt
<1>5. to_leader[p] \in Seq(GoodReply) /\ b <= b
  BY <1>3, HeldTypes
<1>6. PeerHolds(after, b, next, match, to_peer[p], to_leader[p], p \notin crashed', h)
  <2>1. PICK kept, still : kept = (p \notin crashed) /\ still = (p \notin crashed')
    OBVIOUS
  <2>2. PeerHolds(node[p], b, next, match, to_peer[p], to_leader[p], kept, h)
    BY <1>4, <2>1
  <2>3. still => kept /\ Retains(node[p], after, h)
    BY <2>1
  <2>4. PeerHolds(after, b, next, match, to_peer[p], to_leader[p], still, h)
    BY <1>5, <2>2, <2>3, HeldNode
  <2> QED
    BY <2>1, <2>4
<1>7. /\ node'[p] = after /\ node'[Lead].snapshot.index = b /\ next_index'[p] = next
      /\ match_index'[p] = match /\ to_peer'[p] = to_peer[p] /\ to_leader'[p] = to_leader[p]
  BY <1>1, <1>2, <1>3
<1>8. HoldsAt(p, h)'
  BY <1>6, <1>7 DEF HoldsAt
<1> QED
  BY <1>1, <1>2, <1>8, OneHeld

\* A peer takes a request, changes or not, and answers.
LEMMA HeldAnswers ==
  ASSUME TransferInv, NEW h \in Seq(Entry), Held(h), NEW p \in Peer, NEW after,
         to_peer[p] # <<>>, NEW r, Answer(p, r),
         ReplyTrue(r, after, node[Lead].snapshot.index, p \notin crashed, h),
         node'[p] = after, \A o \in Node : o # p => node'[o] = node[o],
         Retains(node[p], after, h),
         UNCHANGED <<next_index, match_index, crashed>>
  PROVE  Held(h)'
<1>1. p \in Node /\ Lead \in Node /\ p # Lead /\ Peer \subseteq Node
  BY NodesAre
<1>2. PICK b \in Nat, next \in Nat, match \in Nat :
        b = node[Lead].snapshot.index /\ next = next_index[p] /\ match = match_index[p]
  BY HeldTypes
<1>3. PICK requests \in Seq(GoodRequest), replies \in Seq(GoodReply) :
        requests = to_peer[p] /\ replies = to_leader[p]
  BY HeldTypes
<1>4. PeerHolds(node[p], b, next, match, requests, replies, p \notin crashed, h)
  BY <1>2, <1>3 DEF Held, HoldsAt
<1>5. PeerHolds(after, b, next, match, requests, replies, p \notin crashed, h)
  BY <1>2, <1>3, <1>4, HeldNode
<1>6. PeerHolds(after, b, next, match, Tail(requests), replies, p \notin crashed, h)
  BY <1>3, <1>5, HeldTail
<1>7. ReplyTrue(r, after, b, p \notin crashed, h)
  BY <1>2
<1>8. PeerHolds(after, b, next, match, Tail(requests), Append(replies, r), p \notin crashed, h)
  BY <1>3, <1>6, <1>7, HeldReply
<1>9. /\ to_peer'[p] = Tail(requests) /\ to_leader'[p] = Append(replies, r)
      /\ \A o \in Peer : o # p => to_peer'[o] = to_peer[o] /\ to_leader'[o] = to_leader[o]
  BY <1>3 DEF Answer, TransferInv, LinksInv
<1>10. /\ node'[p] = after /\ node'[Lead].snapshot.index = b /\ next_index'[p] = next
       /\ match_index'[p] = match /\ (p \notin crashed') = (p \notin crashed)
  BY <1>1, <1>2
<1>11. HoldsAt(p, h)'
  BY <1>8, <1>9, <1>10 DEF HoldsAt
<1> QED
  BY <1>1, <1>9, <1>11, OneHeld

\* The leader takes a reply.
LEMMA HeldTaken ==
  ASSUME TransferInv, NEW h \in Seq(Entry), Held(h), NEW p \in Peer, to_leader[p] # <<>>, TakeReply(p),
         next_index'[p] <= Len(h) + 1, match_index'[p] <= Len(h),
         p \notin crashed => HasUpTo(node[p], node[Lead].snapshot.index, match_index'[p], h),
         \A o \in Peer : o # p => next_index'[o] = next_index[o] /\ match_index'[o] = match_index[o],
         \A o \in Peer : node'[o] = node[o], node'[Lead].snapshot = node[Lead].snapshot,
         UNCHANGED <<crashed, to_peer>>
  PROVE  Held(h)'
<1>1. PICK requests \in Seq(GoodRequest), replies \in Seq(GoodReply) :
        requests = to_peer[p] /\ replies = to_leader[p]
  BY HeldTypes
<1>2. PeerHolds(node[p], node[Lead].snapshot.index, next_index[p], match_index[p], requests, replies,
                p \notin crashed, h)
  BY <1>1 DEF Held, HoldsAt
<1>3. PeerHolds(node[p], node[Lead].snapshot.index, next_index'[p], match_index'[p], requests,
                Tail(replies), p \notin crashed, h)
  BY <1>1, <1>2, HeldReplyTaken
<1>4. to_leader'[p] = Tail(replies) /\ \A o \in Peer : o # p => to_leader'[o] = to_leader[o]
  BY <1>1 DEF TakeReply, TransferInv, LinksInv
<1>5. to_peer'[p] = requests /\ node'[p] = node[p]
      /\ node'[Lead].snapshot.index = node[Lead].snapshot.index /\ (p \notin crashed') = (p \notin crashed)
  BY <1>1
<1>6. HoldsAt(p, h)'
  BY <1>3, <1>4, <1>5 DEF HoldsAt
<1> QED
  BY <1>4, <1>5, <1>6, OneHeld

\* A snapshot is not installed by a peer whose log goes beyond it: what is there
\* may be covered by the peer's answers.
Covered ==
  \A p \in Peer : InstallSnapshot(p) => LastIndex(node[p].log) <= Head(to_peer[p]).snapshot.index

\* Tending a node keeps what it has.
LEMMA TendedHeld ==
  ASSUME NEW h \in Seq(Entry), NEW n, NEW nd \in NodeType, NEW after, Tended(n, nd, after)
  PROVE  Retains(nd, after, h)
<1>1. /\ nd.snapshot.index <= after.snapshot.index
      /\ nd.snapshot.index \in Nat /\ after.snapshot.index \in Nat
      /\ \A k \in Indexes(after.log) : k \in Indexes(nd.log) /\ At(after.log, k) = At(nd.log, k)
      /\ \A k \in Indexes(nd.log) : k \in Indexes(after.log) \/ k <= after.snapshot.index
  <2>1. after \in NodeType
    BY DEF Tended
  <2> QED
    BY <2>1, NodeParts DEF Tended
<1>2. ASSUME NEW k \in Nat, Has(nd, k, h) PROVE Has(after, k, h)
  BY <1>1, <1>2 DEF Has
<1> QED
  BY <1>2 DEF Retains

\* The leader changes.
LEMMA HeldLead ==
  ASSUME TransferInv, NEW h \in Seq(Entry), Held(h), NEW after, node' = [node EXCEPT ![Lead] = after],
         after.snapshot.index \in Nat, node[Lead].snapshot.index <= after.snapshot.index, NEW p \in Peer
  PROVE  PeerHolds(node'[p], node'[Lead].snapshot.index, next_index[p], match_index[p],
                   to_peer[p], to_leader[p], p \notin crashed, h)
<1>1. node'[p] = node[p] /\ node'[Lead] = after
  BY NodesAre, NodeIs
<1>2. PICK b \in Nat, later \in Nat, next \in Nat, match \in Nat :
        /\ b = node[Lead].snapshot.index /\ later = after.snapshot.index
        /\ next = next_index[p] /\ match = match_index[p]
  BY HeldTypes
<1>3. PeerHolds(node[p], b, next, match, to_peer[p], to_leader[p], p \notin crashed, h)
  BY <1>2 DEF Held, HoldsAt
<1>4. Retains(node[p], node[p], h) /\ b <= later /\ to_leader[p] \in Seq(GoodReply)
  BY <1>2, RetainsSame, HeldTypes
<1>5. PeerHolds(node[p], later, next, match, to_peer[p], to_leader[p], p \notin crashed, h)
  BY <1>3, <1>4, HeldNode
<1> QED
  BY <1>1, <1>2, <1>5

\* raft_send_heartbeats of nd, by a leader that is left as after.
LEMMA HeldRound ==
  ASSUME TransferInv, NEW h \in Seq(Entry), Held(h), NEW nd \in NodeType,
         NodeAgrees(nd, h), LeadAgrees(nd, h), nd.log.base = nd.snapshot.index,
         nd.stored.index <= MaxIndex, Round(nd),
         NEW after, node' = [node EXCEPT ![Lead] = after], after.snapshot.index \in Nat,
         node[Lead].snapshot.index <= after.snapshot.index,
         UNCHANGED <<next_index, match_index, to_leader, crashed>>
  PROVE  Held(h)'
<1>2. ASSUME NEW p \in Peer PROVE HoldsAt(p, h)'
  <2>1. PICK now, b : now = node'[p] /\ b = node'[Lead].snapshot.index
    OBVIOUS
  <2>2. PICK next \in Nat, match \in Nat : next = next_index[p] /\ match = match_index[p]
    BY HeldTypes
  <2>3. PICK requests \in Seq(GoodRequest), replies \in Seq(GoodReply) :
          requests = to_peer[p] /\ replies = to_leader[p]
    BY HeldTypes
  <2>4. PeerHolds(now, b, next, match, requests, replies, p \notin crashed, h)
    BY <2>1, <2>2, <2>3, HeldLead
  <2>5. /\ \/ to_peer'[p] = requests
           \/ NeedsSnapshot(nd, p) /\ to_peer'[p] = Append(requests, ChunkRequest(nd, p))
           \/ ~NeedsSnapshot(nd, p) /\ to_peer'[p] = Append(requests, AppendRequest(nd, p))
    BY <2>3, RoundIs
  <2>6. PeerHolds(now, b, next, match, to_peer'[p], replies, p \notin crashed, h)
    <3>1. CASE to_peer'[p] = requests
      BY <2>4, <3>1
    <3>2. CASE NeedsSnapshot(nd, p) /\ to_peer'[p] = Append(requests, ChunkRequest(nd, p))
      <4>1. PICK m \in GoodRequest : m = ChunkRequest(nd, p)
        BY ChunkRequestType
      <4>2. RequestCovers(m, h)
        BY <4>1 DEF ChunkRequest, RequestCovers
      <4>3. PeerHolds(now, b, next, match, Append(requests, m), replies, p \notin crashed, h)
        BY <2>4, <4>2, HeldSent
      <4> QED
        BY <3>2, <4>1, <4>3
    <3>3. CASE ~NeedsSnapshot(nd, p) /\ to_peer'[p] = Append(requests, AppendRequest(nd, p))
      <4>1. PICK m \in GoodRequest : m = AppendRequest(nd, p)
        BY <3>3, AppendRequestType
      <4>2. next_index[p] <= Len(h) + 1
        BY <2>2, <2>4 DEF PeerHolds
      <4>3. RequestCovers(AppendRequest(nd, p), h)
        BY <3>3, <4>2, SentCovers
      <4>4. RequestCovers(m, h)
        BY <4>1, <4>3
      <4>5. PeerHolds(now, b, next, match, Append(requests, m), replies, p \notin crashed, h)
        BY <2>4, <4>4, HeldSent
      <4> QED
        BY <3>3, <4>1, <4>5
    <3> QED
      BY <2>5, <3>1, <3>2, <3>3
  <2>7. next_index'[p] = next /\ match_index'[p] = match /\ to_leader'[p] = replies
        /\ (p \notin crashed') = (p \notin crashed)
    BY <2>2, <2>3
  <2> QED
    BY <2>1, <2>6, <2>7 DEF HoldsAt
<1>3. \A p \in Peer : HoldsAt(p, h)'
  BY <1>2
<1> QED
  BY <1>3 DEF Held

\* A tick without heartbeats, or raft_snapshot_create.
LEMMA HeldOwn ==
  ASSUME TransferInv, FollowInv, NEW h \in Seq(Entry), Agreed(h), Held(h), NEW n \in Node, NEW done,
         Tick(n, done) \/ SnapshotCreate(n)
  PROVE  Held(h)'
<1>1. PICK after : Tended(n, node[n], after) /\ node' = [node EXCEPT ![n] = after]
  BY OwnEffect
<1>2. UNCHANGED <<next_index, match_index, to_peer, to_leader, crashed>>
  BY DEF Tick, SnapshotCreate, leaderVars, links
<1>3. CASE n \in Peer
  <2>1. Retains(node[n], after, h)
    BY <1>1, <1>3, HeldTypes, TendedHeld
  <2> QED
    BY <1>1, <1>2, <1>3, <2>1, HeldChanges
<1>4. CASE n = Lead
  <2>1. after.snapshot.index \in Nat /\ node[Lead].snapshot.index <= after.snapshot.index
    <3>1. after \in NodeType /\ node[Lead].snapshot.index <= after.snapshot.index
      BY <1>1, <1>4 DEF Tended
    <3> QED
      BY <3>1, NodeParts
  <2>2. ASSUME NEW p \in Peer PROVE HoldsAt(p, h)'
    <3>1. PeerHolds(node'[p], node'[Lead].snapshot.index, next_index[p], match_index[p],
                    to_peer[p], to_leader[p], p \notin crashed, h)
      BY <1>1, <1>4, <2>1, HeldLead
    <3>2. /\ next_index'[p] = next_index[p] /\ match_index'[p] = match_index[p]
          /\ to_peer'[p] = to_peer[p] /\ to_leader'[p] = to_leader[p]
          /\ (p \notin crashed') = (p \notin crashed)
      BY <1>2
    <3> QED
      BY <3>1, <3>2 DEF HoldsAt
  <2>3. \A p \in Peer : HoldsAt(p, h)'
    BY <2>2
  <2> QED
    BY <2>3 DEF Held
<1> QED
  BY <1>3, <1>4 DEF Node

\* A tick of the leader with heartbeats.
LEMMA HeldHeartbeat ==
  ASSUME TransferInv, FollowInv, NEW h \in Seq(Entry), Agreed(h), Held(h), TickHeartbeat
  PROVE  Held(h)'
<1>1. PICK nd \in NodeType, after \in NodeType :
        /\ Tended(Lead, node[Lead], nd) /\ Tended(Lead, nd, after)
        /\ Tended(Lead, node[Lead], after)
        /\ nd.stored.index <= MaxIndex
        /\ Round(nd) /\ node' = [node EXCEPT ![Lead] = after]
  BY HeartbeatEffect
<1>2. node[Lead] \in NodeType /\ NodeAgrees(node[Lead], h) /\ LeadAgrees(node[Lead], h)
  BY NodesAre DEF Agreed, TransferInv, NodesInv
<1>3. NodeAgrees(nd, h) /\ LeadAgrees(nd, h)
  BY <1>1, <1>2, TendedLead
<1>4. nd.log.base = nd.snapshot.index
  BY <1>1 DEF Tended, Sane, Follows
<1>5. after.snapshot.index \in Nat /\ node[Lead].snapshot.index <= after.snapshot.index
  <2>1. after \in NodeType /\ node[Lead].snapshot.index <= after.snapshot.index
    BY <1>1 DEF Tended
  <2> QED
    BY <2>1, NodeParts
<1>7. UNCHANGED <<next_index, match_index, to_leader, crashed>>
  BY DEF TickHeartbeat
<1> QED
  BY <1>1, <1>3, <1>4, <1>5, <1>7, HeldRound

\* raft_propose.
LEMMA HeldPropose ==
  ASSUME TransferInv, TransferInv', FollowInv, NEW h \in Seq(Entry), Agreed(h), Held(h),
         Propose
  PROVE  \E e \in Entry : /\ e = [term |-> Term, data |-> LastIndex(node[Lead].log) + 1]
                          /\ Held(Append(h, e))'
<1>1. PICK was \in NodeType, nd \in NodeType, e \in Entry, k \in Nat :
        /\ was = node[Lead] /\ k = LastIndex(was.log) + 1
        /\ e = [term |-> Term, data |-> k]
        /\ nd.log = Extend(was.log, <<e>>) /\ nd.snapshot = was.snapshot
        /\ nd.stored = was.stored /\ nd.pending = was.pending /\ nd.machine = was.machine
        /\ nd.last_applied = was.last_applied /\ nd.commit_index = was.commit_index
        /\ nd.stored.index <= MaxIndex
        /\ Round(nd) /\ node' = [node EXCEPT ![Lead] = nd]
  BY ProposeEffect
<1>2. PICK longer \in Seq(Entry) : longer = Append(h, e)
  BY HistoryGrows
<1>3. e.term = Term /\ NodeAgrees(was, h) /\ LeadAgrees(was, h) /\ Lead \in Node
  BY <1>1, NodesAre DEF Agreed
<1>4. NodeAgrees(nd, longer) /\ LeadAgrees(nd, longer)
  BY <1>1, <1>2, <1>3, LeadLonger
<1>5. Held(longer)
  <2>1. ASSUME NEW p \in Peer PROVE HoldsAt(p, longer)
    <3>1. PeerHolds(node[p], node[Lead].snapshot.index, next_index[p], match_index[p],
                    to_peer[p], to_leader[p], p \notin crashed, h)
      BY DEF Held, HoldsAt
    <3>2. PeerHolds(node[p], node[Lead].snapshot.index, next_index[p], match_index[p],
                    to_peer[p], to_leader[p], p \notin crashed, Append(h, e))
      BY <3>1, HeldTypes, HeldLonger
    <3> QED
      BY <1>2, <3>2 DEF HoldsAt
  <2> QED
    BY <2>1 DEF Held
<1>6. nd.log.base = nd.snapshot.index
  BY <1>1, <1>3 DEF FollowInv, Sane, Follows, Extend
<1>8. nd.snapshot.index \in Nat /\ node[Lead].snapshot.index <= nd.snapshot.index
  BY <1>1, NodeParts
<1>9. UNCHANGED <<next_index, match_index, to_leader, crashed>>
  BY DEF Propose
<1>10. Held(longer)'
  BY <1>1, <1>2, <1>4, <1>5, <1>6, <1>8, <1>9, HeldRound
<1> QED
  BY <1>1, <1>2, <1>10

\* A peer that takes a request has nothing beyond it that the leader does not have:
\* nothing is left over of an earlier leader's, which its answer would cover too.
NoLeftovers ==
  \A p \in Peer : AcceptAppend(p) =>
    LET m == Head(to_peer[p])
        l == node'[p].log
        lead == node[Lead].log
    IN \A k \in Indexes(l) : k > m.prev_index + Len(m.entries) =>
         k <= lead.base \/ (k \in Indexes(lead) /\ At(l, k) = At(lead, k))

\* Entries that are stored: what the peer answers with, the last index of its log,
\* covers the request and what it has beyond, which is the leader's too.
LEMMA HeldAccept ==
  ASSUME TransferInv, FollowInv, NEW h \in Seq(Entry), Agreed(h), Held(h), NotRepeated,
         NoLeftovers, NEW p \in Peer, AcceptAppend(p)
  PROVE  Held(h)'
<1>1. PICK m \in GoodRequest, nd \in NodeType, l \in LogType, after \in NodeType :
        /\ Accepts(p, m, nd, l, after)
        /\ node' = [node EXCEPT ![p] = after]
        /\ Answer(p, AppendReply(p, TRUE, LastIndex(l), 0, 0))
  BY AcceptEffect
<1>2. /\ m.prev_index + Len(m.entries) <= Len(h) /\ m.prev_index + Len(m.entries) <= LastIndex(l)
      /\ \A k \in Indexes(l) : k <= m.prev_index + Len(m.entries) => At(l, k) = h[k]
      /\ l = nd.log \/ LastIndex(l) = m.prev_index + Len(m.entries)
      /\ \A k \in Indexes(nd.log) : k <= Len(h) /\ At(nd.log, k) = h[k] =>
           k \in Indexes(l) /\ At(l, k) = h[k]
  BY <1>1, AcceptAgrees
<1>3. /\ to_peer[p] # <<>> /\ m = Head(to_peer[p]) /\ m.type = "AppendEntries"
      /\ m.prev_index \in Nat /\ m.entries \in Seq(Entry)
      /\ nd = node[p] /\ l.base = nd.log.base /\ nd.log.base = nd.snapshot.index
      /\ after.log = l /\ after.snapshot = nd.snapshot
  BY <1>1 DEF Accepts
<1>4. PICK upTo \in Nat, n \in Nat, b \in Nat :
        /\ upTo = m.prev_index + Len(m.entries) /\ n = Len(h) /\ b = node[Lead].snapshot.index
  <2>1. m.prev_index + Len(m.entries) \in Nat /\ Len(h) \in Nat
    BY <1>3
  <2> QED
    BY <2>1, HeldTypes
<1>5. PICK lead \in LogType :
        lead = node[Lead].log /\ lead.base = b /\ \A k \in Indexes(lead) : k <= n /\ At(lead, k) = h[k]
  <2>1. node[Lead].log \in LogType /\ node[Lead].log.base = b
    BY <1>4, HeldTypes, NodeParts, NodesAre DEF FollowInv, Sane, Follows
  <2>2. LeadAgrees(node[Lead], h)
    BY DEF Agreed
  <2> QED
    BY <1>4, <2>1, <2>2, IndexesType DEF LeadAgrees
<1>6. node'[p] = after /\ \A o \in Node : o # p => node'[o] = node[o]
  BY <1>1, NodesAre, NodeIs
<1>7. ASSUME NEW k \in Indexes(l), k > b PROVE k <= n /\ At(l, k) = h[k]
  <2>1. k \in Nat /\ k <= LastIndex(l)
    BY IndexesType
  <2>2. CASE k <= upTo
    BY <1>2, <1>4, <2>1, <2>2
  <2>3. CASE k > upTo
    <3>1. k <= lead.base \/ (k \in Indexes(lead) /\ At(l, k) = At(lead, k))
      BY <1>3, <1>4, <1>5, <1>6, <2>3 DEF NoLeftovers
    <3> QED
      BY <1>4, <1>5, <1>7, <2>1, <3>1
  <2> QED
    BY <1>4, <2>1, <2>2, <2>3
<1>8. LastIndex(l) \in Nat /\ LastIndex(l) <= n
  <2>1. PICK last \in Nat : last = LastIndex(l) /\ upTo <= last /\ upTo <= n
    BY <1>2, <1>4, IndexesType
  <2>2. b <= n
    BY <1>4, NodesAre DEF Agreed, NodeAgrees, MarkAgrees
  <2>3. ASSUME last > upTo, last > b PROVE last <= n
    <3>1. PICK prev \in Nat, size \in Nat, base \in Nat :
            prev = m.prev_index /\ size = Len(m.entries) /\ base = l.base
      BY <1>3, IndexesType
    <3>2. base <= prev /\ upTo = prev + size
      BY <1>1, <1>3, <1>4, <3>1 DEF Accepts
    <3>3. last \in base + 1 .. last
      BY <2>3, <3>1, <3>2
    <3>4. last \in Indexes(l)
      BY <2>1, <3>1, <3>3 DEF Indexes
    <3> QED
      BY <1>7, <2>1, <2>3, <3>4
  <2>4. last <= n
    BY <1>4, <2>1, <2>2, <2>3
  <2> QED
    BY <2>1, <2>4
<1>9. Retains(nd, after, h)
  BY <1>2, <1>3 DEF Retains, Has
<1>10. HasUpTo(after, b, LastIndex(l), h)
  <2>1. SUFFICES ASSUME NEW k \in b + 1 .. LastIndex(l) PROVE Has(after, k, h)
    BY DEF HasUpTo
  <2>2. k <= l.base \/ k \in Indexes(l)
    BY <1>4, <1>8, <2>1, IndexesType DEF Indexes
  <2>3. k > b
    BY <1>4, <1>8, <2>1
  <2> QED
    BY <1>3, <1>7, <2>2, <2>3 DEF Has
<1>11. PICK r : r = AppendReply(p, TRUE, LastIndex(l), 0, 0)
  OBVIOUS
<1>12. ReplyTrue(r, after, b, p \notin crashed, h)
  BY <1>4, <1>8, <1>10, <1>11 DEF ReplyTrue, AppendReply
<1>13. UNCHANGED <<next_index, match_index, crashed>>
  BY DEF AcceptAppend, leaderVars
<1> QED
  BY <1>1, <1>3, <1>4, <1>6, <1>9, <1>11, <1>12, <1>13, HeldAnswers

\* Rule 2: the entries that are dropped are not the leader's, because the one
\* before the request is not.
LEMMA HeldConflict ==
  ASSUME TransferInv, FollowInv, NEW h \in Seq(Entry), Agreed(h), Held(h),
         NEW p \in Peer, RefuseConflictingPrev(p)
  PROVE  Held(h)'
<1>1. PICK m \in GoodRequest, nd \in NodeType, l \in LogType, after \in NodeType :
        /\ Cuts(p, m, nd, l, after)
        /\ node' = [node EXCEPT ![p] = after]
        /\ Answer(p, AppendReply(p, FALSE, m.prev_index - 1, At(nd.log, m.prev_index).term,
                    Lowest(IndexesOfTerm(nd.log, At(nd.log, m.prev_index).term))))
  BY ConflictEffect
<1>0. PICK prev, t : prev = m.prev_index /\ t = At(nd.log, prev).term
  OBVIOUS
<1>2. PICK was \in LogType : was = nd.log /\ prev = m.prev_index /\ t = At(nd.log, prev).term
  BY <1>0, NodeParts
<1>3. /\ to_peer[p] # <<>> /\ m = Head(to_peer[p]) /\ m.type = "AppendEntries" /\ nd = node[p]
      /\ prev \in Indexes(was) /\ t # m.prev_term
      /\ Indexes(l) = {k \in Indexes(was) : k < prev} /\ LastIndex(l) = prev - 1
      /\ \A k \in Indexes(l) : At(l, k) = At(was, k)
      /\ after.log = l /\ after.snapshot = nd.snapshot
  BY <1>1, <1>2 DEF Cuts
<1>4. /\ LastIndex(was) \in Nat /\ prev \in Nat /\ prev > 0 /\ prev <= LastIndex(was)
      /\ \A k \in Indexes(was) : k \in Nat
  BY <1>3, IndexesType
<1>5. PICK n \in Nat : n = Len(h)
  OBVIOUS
<1>6. RequestCovers(m, h)
  BY <1>3, RequestTaken DEF Held, HoldsAt, PeerHolds
<1>7. prev <= n
  <2>1. Len(m.entries) \in Nat
    BY <1>3, RequestFields
  <2> QED
    BY <1>2, <1>3, <1>4, <1>5, <1>6, <2>1 DEF RequestCovers
<1>8. m.prev_term = h[prev].term
  BY <1>2, <1>3, <1>4, <1>6 DEF RequestCovers, TermIn
<1>9. Matches(was, h)
  BY <1>2, <1>3, NodesAre DEF Agreed, NodeAgrees
<1>10. Retains(nd, after, h)
  <2>1. SUFFICES ASSUME NEW k \in Nat, k <= n, Has(nd, k, h) PROVE Has(after, k, h)
    BY <1>5 DEF Retains
  <2>2. CASE k <= nd.snapshot.index
    BY <1>3, <2>2 DEF Has
  <2>3. CASE k \in Indexes(was) /\ At(was, k) = h[k]
    <3>1. CASE k < prev
      BY <1>3, <2>3, <3>1 DEF Has
    <3>2. CASE ~(k < prev)
      <4>1. prev <= k
        BY <1>4, <3>2
      <4>2. At(was, prev) = h[prev]
        BY <1>3, <1>5, <1>9, <2>1, <2>3, <4>1 DEF Matches
      <4> QED
        BY <1>2, <1>3, <1>8, <4>2
    <3> QED
      BY <3>1, <3>2
  <2> QED
    BY <1>2, <2>1, <2>2, <2>3 DEF Has
<1>11. PICK c : c = Lowest(IndexesOfTerm(was, t))
  OBVIOUS
<1>12. c <= n
  <2>1. prev \in IndexesOfTerm(was, t) /\ IndexesOfTerm(was, t) \in SUBSET Nat
    <3>1. \A k \in was.base + 1 .. LastIndex(was) : k \in Nat
      BY <1>4 DEF Indexes
    <3>2. prev \in was.base + 1 .. LastIndex(was)
      BY <1>3 DEF Indexes
    <3> QED
      BY <1>2, <3>1, <3>2 DEF IndexesOfTerm
  <2>2. c \in Nat /\ c <= prev
    BY <1>11, <2>1, LowestType
  <2> QED
    BY <1>4, <1>7, <2>2
<1>13. PICK r : r = AppendReply(p, FALSE, prev - 1, t, c)
  OBVIOUS
<1>14. ReplyTrue(r, after, node[Lead].snapshot.index, p \notin crashed, h)
  BY <1>5, <1>12, <1>13 DEF ReplyTrue, AppendReply
<1>15. UNCHANGED <<next_index, match_index, crashed>>
  BY DEF RefuseConflictingPrev, leaderVars
<1>16. node'[p] = after /\ \A o \in Node : o # p => node'[o] = node[o]
  BY <1>1, NodesAre, NodeIs
<1>17. Answer(p, r)
  BY <1>1, <1>2, <1>11, <1>13
<1> QED
  BY <1>3, <1>10, <1>14, <1>15, <1>16, <1>17, HeldAnswers

\* Requests that leave the peer's log as it is, and are answered with no index.
LEMMA HeldRefused ==
  ASSUME TransferInv, NEW h \in Seq(Entry), Held(h), NEW p \in Peer,
         \/ RefuseStaleTerm(p) \/ RefuseMissingPrev(p)
         \/ IgnoreOldSnapshot(p) \/ StoreChunk(p) \/ FailChunk(p)
  PROVE  Held(h)'
<1>1. node' = node /\ UNCHANGED <<next_index, match_index, crashed>> /\ to_peer[p] # <<>>
  BY DEF RefuseStaleTerm, RefuseMissingPrev, IgnoreOldSnapshot, StoreChunk, FailChunk, NewChunk,
         HeadIs, leaderVars
<1>2. PICK r : Answer(p, r) /\ (r.type = "AppendReply" => ~r.success /\ r.conflict_index = 0)
  <2>1. ASSUME NEW success, NEW o, NEW done PROVE SnapshotReply(p, success, o, done).type # "AppendReply"
    BY DEF SnapshotReply
  <2>2. ASSUME NEW k
        PROVE  LET r == AppendReply(p, FALSE, k, 0, 0) IN ~r.success /\ r.conflict_index = 0
    BY DEF AppendReply
  <2>3. CASE RefuseStaleTerm(p)
    BY <2>1, <2>2, <2>3 DEF RefuseStaleTerm
  <2>4. CASE RefuseMissingPrev(p)
    BY <2>2, <2>4 DEF RefuseMissingPrev
  <2>5. CASE IgnoreOldSnapshot(p)
    BY <2>1, <2>5 DEF IgnoreOldSnapshot
  <2>6. CASE StoreChunk(p) \/ FailChunk(p)
    <3>1. \E success, o, done : Answer(p, SnapshotReply(p, success, o, done))
      BY <2>6 DEF StoreChunk, FailChunk
    <3> QED
      BY <2>1, <3>1
  <2> QED
    BY <2>3, <2>4, <2>5, <2>6
<1>3. PICK nd : nd = node[p]
  OBVIOUS
<1>4. Retains(node[p], nd, h)
  BY <1>3, RetainsSame
<1>5. ReplyTrue(r, nd, node[Lead].snapshot.index, p \notin crashed, h)
  BY <1>2 DEF ReplyTrue
<1>6. node'[p] = nd /\ \A o \in Node : o # p => node'[o] = node[o]
  BY <1>1, <1>3
<1> QED
  BY <1>1, <1>2, <1>4, <1>5, <1>6, HeldAnswers

\* The last chunk: what the log had, the snapshot has.
LEMMA HeldInstall ==
  ASSUME TransferInv, NEW h \in Seq(Entry), Held(h), Covered,
         NEW p \in Peer, InstallSnapshot(p)
  PROVE  Held(h)'
<1>1. PICK m \in GoodRequest, nd \in NodeType, k \in Nat, machine \in Machine, after \in NodeType :
        /\ Installs(p, m, nd, k, machine, after)
        /\ node' = [node EXCEPT ![p] = after]
        /\ received' = [received EXCEPT ![p] = [o \in Offsets |-> None]]
        /\ Answer(p, SnapshotReply(p, TRUE, m.offset + m.len, TRUE))
  BY InstallEffect
<1>2. /\ to_peer[p] # <<>> /\ m = Head(to_peer[p]) /\ m.type = "InstallSnapshot"
      /\ m.snapshot \in Snapshot /\ nd = node[p] /\ k = m.snapshot.index /\ k > nd.snapshot.index
      /\ after.log = EmptyLog(k) /\ after.snapshot = MarkOf(m.snapshot)
  BY <1>1 DEF Installs
<1>3. after.snapshot.index = k
  BY <1>2 DEF MarkOf
<1>6. LastIndex(nd.log) <= k
  BY <1>2 DEF Covered
<1>7. Retains(nd, after, h)
  <2>1. SUFFICES ASSUME NEW j \in Nat, Has(nd, j, h) PROVE j <= k
    BY <1>3 DEF Retains, Has
  <2>2. nd.snapshot.index \in Nat /\ LastIndex(nd.log) \in Nat
        /\ (j \in Indexes(nd.log) => j <= LastIndex(nd.log))
    BY NodeParts, IndexesType
  <2> QED
    BY <1>2, <1>6, <2>1, <2>2 DEF Has
<1>8. PICK r : r = SnapshotReply(p, TRUE, m.offset + m.len, TRUE)
  OBVIOUS
<1>9. ReplyTrue(r, after, node[Lead].snapshot.index, p \notin crashed, h)
  BY <1>8 DEF ReplyTrue, SnapshotReply
<1>10. UNCHANGED <<next_index, match_index, crashed>>
  BY DEF InstallSnapshot, leaderVars
<1>11. node'[p] = after /\ \A o \in Node : o # p => node'[o] = node[o]
  BY <1>1, NodesAre, NodeIs
<1> QED
  BY <1>1, <1>2, <1>7, <1>8, <1>9, <1>10, <1>11, HeldAnswers

\* A peer that starts again has lost what it had, and is out of the reckoning.
LEMMA HeldRestart ==
  ASSUME TransferInv, NEW h \in Seq(Entry), Held(h), NEW p \in Peer, Restart(p)
  PROVE  Held(h)'
<1>1. PICK after : node' = [node EXCEPT ![p] = after]
  BY RestartEffect
<1>2. crashed' = crashed \cup {p} /\ UNCHANGED <<next_index, match_index, to_peer, to_leader>>
  BY DEF Restart, leaderVars, links
<1>3. p \in crashed' /\ \A o \in Peer : o # p => (o \in crashed' <=> o \in crashed)
  BY <1>2
<1> QED
  BY <1>1, <1>2, <1>3, HeldChanges

\* A success: match_index is what the reply says, or stays.
LEMMA HeldSuccess ==
  ASSUME TransferInv, NEW h \in Seq(Entry), Held(h), NEW p \in Peer, RecvAppendSuccess(p)
  PROVE  Held(h)'
<1>1. PICK nd \in NodeType, after \in NodeType :
        /\ nd = node[Lead]
        /\ after.log = nd.log /\ after.snapshot = nd.snapshot /\ after.pending = nd.pending
        /\ after.machine = nd.machine /\ after.last_applied = nd.last_applied
        /\ node' = [node EXCEPT ![Lead] = after]
  BY SuccessEffect
<1>2. (\A o \in Peer : node'[o] = node[o]) /\ node'[Lead].snapshot = node[Lead].snapshot
  BY <1>1, NodesAre, NodeIs
<1>3. to_leader[p] # <<>> /\ TakeReply(p) /\ UNCHANGED <<crashed, to_peer>>
  BY DEF RecvAppendSuccess, HeadIs
<1>4. PICK m \in GoodReply : m = Head(to_leader[p])
  BY <1>3, ReplyTaken
<1>5. /\ m.type = "AppendReply" /\ m.success
      /\ \/ /\ match_index' = [match_index EXCEPT ![p] = m.match_index]
            /\ next_index' = [next_index EXCEPT ![p] = m.match_index + 1]
         \/ UNCHANGED <<match_index, next_index>>
  BY <1>4 DEF RecvAppendSuccess, HeadIs
<1>6. /\ next_index[p] <= Len(h) + 1 /\ match_index[p] <= Len(h)
      /\ p \notin crashed => HasUpTo(node[p], node[Lead].snapshot.index, match_index[p], h)
      /\ ReplyTrue(m, node[p], node[Lead].snapshot.index, p \notin crashed, h)
  BY <1>3, <1>4, ReplyTaken DEF Held, HoldsAt, PeerHolds
<1>7. /\ m.match_index \in Nat /\ m.match_index <= Len(h)
      /\ p \notin crashed => HasUpTo(node[p], node[Lead].snapshot.index, m.match_index, h)
  BY <1>5, <1>6, ReplyFields DEF ReplyTrue
<1>8. m.match_index + 1 <= Len(h) + 1
  BY <1>7
<1>9. /\ \/ match_index'[p] = m.match_index /\ next_index'[p] = m.match_index + 1
         \/ match_index'[p] = match_index[p] /\ next_index'[p] = next_index[p]
      /\ \A o \in Peer : o # p => next_index'[o] = next_index[o] /\ match_index'[o] = match_index[o]
  BY <1>5 DEF TransferInv, PeersInv
<1>10. /\ next_index'[p] <= Len(h) + 1 /\ match_index'[p] <= Len(h)
       /\ p \notin crashed => HasUpTo(node[p], node[Lead].snapshot.index, match_index'[p], h)
  BY <1>6, <1>7, <1>8, <1>9
<1> QED
  BY <1>2, <1>3, <1>9, <1>10, HeldTaken

\* Where the leader goes on after a refusal is within its log, or next to it.
LEMMA RolledBackWithin ==
  ASSUME NEW l \in LogType, NEW n \in Nat, LastIndex(l) <= n, NEW next \in Nat, next <= n + 1,
         NEW m \in GoodReply, m.type = "AppendReply", m.conflict_index <= n
  PROVE  RolledBack(l, next, m) <= n + 1
<1>1. PICK mine : mine = Highest(IndexesOfTerm(l, m.conflict_term))
  OBVIOUS
<1>2. mine \in Nat /\ mine <= n
  <2>1. PICK S : S = IndexesOfTerm(l, m.conflict_term)
    OBVIOUS
  <2>2. S \in SUBSET Nat /\ \A k \in S : k <= n
    <3>1. \A k \in l.base + 1 .. LastIndex(l) : k \in Nat /\ k <= n
      BY IndexesType DEF Indexes
    <3> QED
      BY <2>1, <3>1 DEF IndexesOfTerm
  <2>3. Highest(S) \in Nat /\ (S # {} => Highest(S) \in S)
    BY <2>2, HighestType
  <2>4. S = {} => Highest(S) = 0
    BY DEF Highest
  <2> QED
    BY <1>1, <2>1, <2>2, <2>3, <2>4
<1>3. m.match_index \in Nat /\ m.conflict_index \in Nat /\ m.conflict_term \in Nat
  BY ReplyFields
<1>4. mine + 1 <= n + 1 /\ m.conflict_index <= n + 1 /\ next - 1 <= n + 1
      /\ (m.match_index < next => m.match_index + 1 <= n + 1)
  BY <1>2, <1>3
<1> QED
  BY <1>1, <1>4 DEF RolledBack

\* A refusal, and a reply to a chunk.
LEMMA HeldRefusal ==
  ASSUME TransferInv, NEW h \in Seq(Entry), Agreed(h), Held(h), NEW p \in Peer,
         RecvAppendRefusal(p) \/ RecvSnapshotReply(p)
  PROVE  Held(h)'
<1>1. /\ to_leader[p] # <<>> /\ TakeReply(p) /\ UNCHANGED <<node, crashed, to_peer>>
  BY DEF RecvAppendRefusal, RecvSnapshotReply, HeadIs
<1>2. PICK m \in GoodReply : m = Head(to_leader[p])
  BY <1>1, ReplyTaken
<1>3. PICK b \in Nat, n \in Nat, next \in Nat, match \in Nat :
        b = node[Lead].snapshot.index /\ n = Len(h) /\ next = next_index[p] /\ match = match_index[p]
  BY HeldTypes
<1>4. /\ next <= n + 1 /\ match <= n /\ (p \notin crashed => HasUpTo(node[p], b, match, h))
      /\ ReplyTrue(m, node[p], b, p \notin crashed, h)
  BY <1>1, <1>2, <1>3, ReplyTaken DEF Held, HoldsAt, PeerHolds
<1>5. /\ \A o \in Peer : o # p => next_index'[o] = next_index[o] /\ match_index'[o] = match_index[o]
      /\ next_index'[p] <= n + 1 /\ match_index'[p] <= n
      /\ p \notin crashed => HasUpTo(node[p], b, match_index'[p], h)
  <2>1. CASE RecvAppendRefusal(p)
    <3>1. PICK l \in LogType : l = node[Lead].log
      BY HeldTypes, NodeParts
    <3>2. /\ m.type = "AppendReply" /\ match_index' = match_index
          /\ next_index' = [next_index EXCEPT ![p] = RolledBack(l, @, m)]
      BY <1>2, <2>1, <3>1 DEF RecvAppendRefusal, HeadIs
    <3>3. LastIndex(l) <= n
      BY <1>3, <3>1 DEF Agreed, LeadAgrees
    <3>4. RolledBack(l, next, m) <= n + 1
      BY <1>3, <1>4, <3>2, <3>3, RolledBackWithin DEF ReplyTrue
    <3>5. next_index'[p] = RolledBack(l, next, m)
          /\ \A o \in Peer : o # p => next_index'[o] = next_index[o]
      BY <1>3, <3>2 DEF TransferInv, PeersInv
    <3> QED
      BY <1>3, <1>4, <3>2, <3>4, <3>5
  <2>2. CASE RecvSnapshotReply(p)
    <3>1. \/ /\ next_index' = [next_index EXCEPT ![p] = b + 1]
             /\ match_index' = [match_index EXCEPT ![p] = b]
          \/ UNCHANGED <<next_index, match_index>>
      BY <1>3, <2>2 DEF RecvSnapshotReply
    <3>2. b <= n
      BY <1>3, NodesAre DEF Agreed, NodeAgrees, MarkAgrees
    <3>3. HasUpTo(node[p], b, b, h)
      BY DEF HasUpTo
    <3>4. CASE /\ next_index' = [next_index EXCEPT ![p] = b + 1]
               /\ match_index' = [match_index EXCEPT ![p] = b]
      <4>1. next_index'[p] = b + 1 /\ match_index'[p] = b
            /\ \A o \in Peer : o # p => next_index'[o] = next_index[o] /\ match_index'[o] = match_index[o]
        BY <3>4 DEF TransferInv, PeersInv
      <4> QED
        BY <3>2, <3>3, <4>1
    <3>5. CASE UNCHANGED <<next_index, match_index>>
      BY <1>3, <1>4, <3>5
    <3> QED
      BY <3>1, <3>4, <3>5
  <2> QED
    BY <2>1, <2>2
<1> QED
  BY <1>1, <1>3, <1>5, HeldTaken

\* A message is lost, or tells the leader of a later term.
LEMMA HeldLost ==
  ASSUME TransferInv, NEW h \in Seq(Entry), Held(h), NEW p \in Peer, StepDown(p) \/ Lose(p)
  PROVE  Held(h)'
<1>1. UNCHANGED <<node, next_index, match_index, crashed>>
  BY DEF StepDown, Lose, leaderVars
<1>2. PeerHolds(node[p], node[Lead].snapshot.index, next_index[p], match_index[p],
                to_peer[p], to_leader[p], p \notin crashed, h)
  BY DEF Held, HoldsAt
<1>3. CASE to_leader[p] # <<>> /\ TakeReply(p) /\ UNCHANGED to_peer
  <2>1. /\ next_index'[p] <= Len(h) + 1 /\ match_index'[p] <= Len(h)
        /\ p \notin crashed => HasUpTo(node[p], node[Lead].snapshot.index, match_index'[p], h)
    BY <1>1, <1>2 DEF PeerHolds
  <2> QED
    BY <1>1, <1>3, <2>1, HeldTaken
<1>4. CASE to_peer[p] # <<>> /\ to_peer' = [to_peer EXCEPT ![p] = Tail(@)] /\ UNCHANGED to_leader
  <2>1. to_peer'[p] = Tail(to_peer[p]) /\ \A o \in Peer : o # p => to_peer'[o] = to_peer[o]
    BY <1>4 DEF TransferInv, LinksInv
  <2>2. PeerHolds(node[p], node[Lead].snapshot.index, next_index[p], match_index[p],
                  Tail(to_peer[p]), to_leader[p], p \notin crashed, h)
    BY <1>2, <1>4, HeldTail, HeldTypes
  <2>3. HoldsAt(p, h)'
    BY <1>1, <1>4, <2>1, <2>2 DEF HoldsAt
  <2> QED
    BY <1>1, <1>4, <2>1, <2>3, OneHeld
<1> QED
  BY <1>3, <1>4 DEF StepDown, Lose

\* A step that changes nothing of all that.
LEMMA HeldStill ==
  ASSUME NEW h, Held(h),
         UNCHANGED <<node, next_index, match_index, crashed, to_peer, to_leader>>
  PROVE  Held(h)'
<1>1. \A p \in Peer : HoldsAt(p, h)'
  BY DEF Held, HoldsAt
<1> QED
  BY <1>1 DEF Held

\* Every step but a proposal.
LEMMA HeldStay ==
  ASSUME TransferInv, FollowInv, NEW h \in Seq(Entry), Agreed(h), Held(h),
         [Next]_vars, [NotRepeated]_vars, [NoLeftovers]_vars, [Covered]_vars, ~Propose
  PROVE  Held(h)'
<1>1. CASE UNCHANGED vars
  BY <1>1, HeldStill DEF vars, leaderVars, links
<1>2. CASE Next /\ NotRepeated /\ NoLeftovers /\ Covered
  <2>1. CASE TickHeartbeat
    BY <2>1, HeldHeartbeat
  <2>2. ASSUME NEW n \in Node, NEW done \in BOOLEAN, SnapshotCreate(n) \/ Tick(n, done) PROVE Held(h)'
    BY <2>2, HeldOwn
  <2>3. ASSUME NEW p \in Peer, RecvRequest(p) PROVE Held(h)'
    BY <1>2, <2>3, HeldRefused, HeldConflict, HeldAccept, HeldInstall DEF RecvRequest
  <2>4. ASSUME NEW p \in Peer, RecvReply(p) PROVE Held(h)'
    BY <2>4, HeldLost, HeldSuccess, HeldRefusal DEF RecvReply
  <2>5. ASSUME NEW p \in Peer, FailChunk(p) \/ Restart(p) \/ Lose(p) PROVE Held(h)'
    BY <2>5, HeldRefused, HeldRestart, HeldLost
  <2>6. ASSUME NEW p \in Peer, HearLaterTerm(p) PROVE Held(h)'
    BY <2>6, HeldStill DEF HearLaterTerm, leaderVars, links
  <2> QED
    BY <1>2, <2>1, <2>2, <2>3, <2>4, <2>5, <2>6 DEF Next
<1> QED
  BY <1>1, <1>2

\* Every step: a proposal makes the history longer, for both parts alike.
LEMMA HeldStep ==
  TransferInv /\ TransferInv' /\ FollowInv /\ LeadWhole /\ LeadWhole' /\ ChunkInv /\ HeldInv
    /\ [Next]_vars /\ [NotRepeated]_vars /\ [NotAhead]_vars /\ [NoLeftovers]_vars
    /\ [Covered]_vars => HeldInv'
<1> SUFFICES ASSUME TransferInv, TransferInv', FollowInv, LeadWhole, LeadWhole', ChunkInv, [Next]_vars,
                    [NotRepeated]_vars, [NotAhead]_vars, [NoLeftovers]_vars, [Covered]_vars,
                    NEW h \in Seq(Entry), Agreed(h), Held(h)
             PROVE  \E later \in Seq(Entry) : Agreed(later)' /\ Held(later)'
  BY DEF HeldInv
<1>1. CASE Propose
  <2>1. PICK e \in Entry : /\ e = [term |-> Term, data |-> LastIndex(node[Lead].log) + 1]
                           /\ Agreed(Append(h, e))'
    BY <1>1, AgreedPropose
  <2>2. PICK x \in Entry : /\ x = [term |-> Term, data |-> LastIndex(node[Lead].log) + 1]
                           /\ Held(Append(h, x))'
    BY <1>1, HeldPropose
  <2>3. PICK longer \in Seq(Entry) : longer = Append(h, e)
    BY HistoryGrows
  <2>4. Agreed(longer)' /\ Held(longer)'
    BY <2>1, <2>2, <2>3
  <2> QED
    BY <2>4
<1>2. CASE ~Propose
  BY <1>2, AgreedStay, HeldStay
<1> QED
  BY <1>1, <1>2

\* Nothing is covered at first.
LEMMA HeldInit ==
  ASSUME NEW h \in Seq(Entry), StartAgrees(h)
  PROVE  Init => Held(h)
<1> SUFFICES ASSUME Init, NEW p \in Peer PROVE HoldsAt(p, h)
  BY DEF Held
<1>1. LastIndex(Started[Lead].log) = Len(h)
  BY DEF StartAgrees, LeadAgrees
<1>2. /\ next_index[p] = Len(h) /\ match_index[p] = 0 /\ to_peer[p] = <<>> /\ to_leader[p] = <<>>
  BY <1>1 DEF Init
<1>3. HasUpTo(node[p], node[Lead].snapshot.index, 0, h)
  <2>1. node[Lead].snapshot.index \in Nat
    BY StartAssumption, NodesAre, NodeParts DEF Init
  <2> QED
    BY <2>1 DEF HasUpTo
<1>4. Range(<<>>) = {}
  BY DEF Range
<1>5. Len(h) <= Len(h) + 1 /\ 0 <= Len(h)
  OBVIOUS
<1> QED
  BY <1>2, <1>3, <1>4, <1>5 DEF HoldsAt, PeerHolds

\* What a peer has of the history is what the leader has.
LEMMA HeldMatch == TransferInv /\ FollowInv /\ HeldInv => MatchIsHeld
<1> SUFFICES ASSUME TransferInv, FollowInv, NEW h \in Seq(Entry), Agreed(h), Held(h),
                    NEW p \in Peer \ crashed,
                    NEW k \in node[Lead].snapshot.index + 1 .. match_index[p]
             PROVE  \/ k <= node[p].snapshot.index
                    \/ /\ Holds(node[p].log, k) /\ Holds(node[Lead].log, k)
                       /\ At(node[p].log, k) = At(node[Lead].log, k)
  BY DEF MatchIsHeld, HeldInv
<1>1. p \in Peer /\ p \notin crashed
  OBVIOUS
<1>2. PICK l \in LogType, b \in Nat, lead \in LogType, n \in Nat, match \in Nat :
        /\ l = node[p].log /\ b = node[Lead].snapshot.index /\ lead = node[Lead].log
        /\ n = Len(h) /\ match = match_index[p]
  <2>1. node[p].log \in LogType /\ node[Lead].log \in LogType
    BY <1>1, HeldTypes, NodeParts
  <2>2. node[Lead].snapshot.index \in Nat /\ match_index[p] \in Nat /\ Len(h) \in Nat
    BY <1>1, HeldTypes
  <2> QED
    BY <2>1, <2>2
<1>3. match <= n /\ HasUpTo(node[p], b, match, h)
  BY <1>1, <1>2 DEF Held, HoldsAt, PeerHolds
<1>4. k \in Nat /\ k > b /\ k <= n
  BY <1>2, <1>3
<1>5. k <= node[p].snapshot.index \/ (k \in Indexes(l) /\ At(l, k) = h[k])
  BY <1>2, <1>3 DEF HasUpTo, Has
<1>6. lead.base = b /\ LastIndex(lead) = n /\ \A j \in Indexes(lead) : At(lead, j) = h[j]
  BY <1>2, NodesAre DEF FollowInv, Sane, Follows, Agreed, LeadAgrees
<1>7. k \in Indexes(lead)
  BY <1>2, <1>4, <1>6 DEF Indexes
<1>8. Holds(lead, k) /\ At(lead, k) = h[k] /\ (k \in Indexes(l) => Holds(l, k))
  BY <1>4, <1>6, <1>7, IndexesType
<1> QED
  BY <1>2, <1>5, <1>8

\* What match_index covers beyond the leader's snapshot, the peer has, unless it
\* was created again: whatever a message holds, where the conditions of
\* StateMachinesAgree are met, no peer takes a request with entries of an earlier
\* leader left over beyond it (NoLeftovers), and none gives up entries for a
\* snapshot that does not cover them (Covered).
THEOREM MatchesAreHeld ==
  ASSUME \A n \in Node : Sane(n, Started[n]), \E h \in Seq(Entry) : StartAgrees(h),
         HasStored(Started[Lead]), <<Lead, "poll">> \notin Failing
  PROVE  Spec /\ [][NotOvertaken]_vars /\ [][NotRepeated]_vars /\ [][NotAhead]_vars
           /\ [][Steady]_vars /\ [][Recoverable]_vars
           /\ [][NoLeftovers]_vars /\ [][Covered]_vars => []MatchIsHeld
<1>1. Init => FollowInv
  BY DEF Init, FollowInv
<1>2. Init => LeadWhole
  BY LeadStart
<1>3. Init => HeldInv
  BY AgreedStart, HeldInit DEF HeldInv
<1> QED
  BY <1>1, <1>2, <1>3, TransferInit, TransferStep, FollowStep, LeadWholeStep, ChunkInit, ChunkStep,
     HeldStep, HeldMatch, PTL DEF Spec

-----------------------------------------------------------------------------
(***************************************************************************)
(* Nothing is left over of an earlier leader's where every peer starts     *)
(* with entries that the leader has too, however far behind it is.         *)
(***************************************************************************)
\* All that is in a log is of the history.
OnlyOf(nd, h) == \A k \in Indexes(nd.log) : k <= Len(h) /\ At(nd.log, k) = h[k]

\* So it is at every peer.
OnlyHistory(h) == \A p \in Peer : OnlyOf(node[p], h)
LagInv == \E h \in Seq(Entry) : Agreed(h) /\ OnlyHistory(h)

\* A peer that changes.
LEMMA LagChanges ==
  ASSUME TransferInv, NEW h, OnlyHistory(h), NEW p \in Peer, NEW after, OnlyOf(after, h),
         node' = [node EXCEPT ![p] = after]
  PROVE  OnlyHistory(h)'
<1>1. ASSUME NEW o \in Peer PROVE OnlyOf(node'[o], h)
  BY NodesAre, NodeIs DEF OnlyHistory
<1> QED
  BY <1>1 DEF OnlyHistory

\* The history grows.
LEMMA LagLonger ==
  ASSUME TransferInv, NEW h \in Seq(Entry), NEW e \in Entry, OnlyHistory(h)
  PROVE  OnlyHistory(Append(h, e))
<1>0. PICK n \in Nat : n = Len(h)
  OBVIOUS
<1>1. PICK longer \in Seq(Entry) : n = Len(h) /\ longer = Append(h, e)
  BY <1>0, HistoryGrows
<1>2. Len(longer) = n + 1 /\ \A k \in 1 .. n : longer[k] = h[k]
  BY <1>1, HistoryGrows
<1>3. ASSUME NEW p \in Peer, NEW k \in Indexes(node[p].log)
      PROVE  k <= n + 1 /\ At(node[p].log, k) = longer[k]
  <2>1. k \in Nat /\ k >= 1
    BY <1>3, HeldTypes, NodeParts, IndexesType
  <2>2. k <= n /\ At(node[p].log, k) = h[k]
    BY <1>1, <1>3 DEF OnlyHistory, OnlyOf
  <2> QED
    BY <1>2, <2>1, <2>2
<1> QED
  BY <1>1, <1>2, <1>3 DEF OnlyHistory, OnlyOf

\* What a peer does with a request leaves it with entries of the history.
LEMMA LagPeer ==
  ASSUME TransferInv, FollowInv, NEW h \in Seq(Entry), Agreed(h), OnlyHistory(h), NEW p \in Peer,
         NotRepeated,
         AcceptAppend(p) \/ RefuseConflictingPrev(p) \/ InstallSnapshot(p) \/ Restart(p)
  PROVE  OnlyHistory(h)'
<1>1. OnlyOf(node[p], h)
  BY DEF OnlyHistory
<1>2. ASSUME NEW k \in Nat, NEW nd, nd.log = EmptyLog(k) PROVE OnlyOf(nd, h)
  BY <1>2, EmptyLogIs DEF OnlyOf
<1>3. CASE AcceptAppend(p)
  <2>1. PICK m \in GoodRequest, nd \in NodeType, l \in LogType, after \in NodeType :
          Accepts(p, m, nd, l, after) /\ node' = [node EXCEPT ![p] = after]
    BY <1>3, AcceptEffect
  <2>2. /\ m.prev_index + Len(m.entries) <= Len(h)
        /\ \A k \in Indexes(l) : k <= m.prev_index + Len(m.entries) => At(l, k) = h[k]
        /\ l = nd.log \/ LastIndex(l) = m.prev_index + Len(m.entries)
    BY <2>1, AcceptAgrees
  <2>3. after.log = l /\ nd = node[p]
    BY <2>1 DEF Accepts
  <2>4. OnlyOf(after, h)
    <3>1. CASE l = nd.log
      BY <1>1, <2>3, <3>1 DEF OnlyOf
    <3>2. CASE LastIndex(l) = m.prev_index + Len(m.entries)
      <4>1. PICK upTo : upTo = m.prev_index + Len(m.entries)
        OBVIOUS
      <4>2. upTo \in Nat /\ Len(h) \in Nat /\ \A k \in Indexes(l) : k \in Nat /\ k <= upTo
        BY <3>2, <4>1, IndexesType
      <4> QED
        BY <2>2, <2>3, <4>1, <4>2 DEF OnlyOf
    <3> QED
      BY <2>2, <3>1, <3>2
  <2> QED
    BY <2>1, <2>4, LagChanges
<1>4. CASE RefuseConflictingPrev(p)
  <2>1. PICK m \in GoodRequest, nd \in NodeType, l \in LogType, after \in NodeType :
          Cuts(p, m, nd, l, after) /\ node' = [node EXCEPT ![p] = after]
    BY <1>4, ConflictEffect
  <2>2. /\ nd = node[p] /\ after.log = l
        /\ \A k \in Indexes(l) : k \in Indexes(nd.log) /\ At(l, k) = At(nd.log, k)
    BY <2>1 DEF Cuts
  <2>3. OnlyOf(after, h)
    BY <1>1, <2>2 DEF OnlyOf
  <2> QED
    BY <2>1, <2>3, LagChanges
<1>5. CASE InstallSnapshot(p)
  <2>1. PICK m \in GoodRequest, nd \in NodeType, k \in Nat, machine \in Machine, after \in NodeType :
          /\ Installs(p, m, nd, k, machine, after)
          /\ node' = [node EXCEPT ![p] = after]
          /\ received' = [received EXCEPT ![p] = [o \in Offsets |-> None]]
          /\ Answer(p, SnapshotReply(p, TRUE, m.offset + m.len, TRUE))
    BY <1>5, InstallEffect
  <2>2. OnlyOf(after, h)
    BY <1>2, <2>1 DEF Installs
  <2> QED
    BY <2>1, <2>2, LagChanges
<1>6. CASE Restart(p)
  <2>1. PICK nd \in NodeType, k \in Nat, after \in NodeType :
          Restarts(p, nd, k, after) /\ node' = [node EXCEPT ![p] = after]
    BY <1>6, RestartEffect
  <2>2. OnlyOf(after, h)
    BY <1>2, <2>1 DEF Restarts
  <2> QED
    BY <2>1, <2>2, LagChanges
<1> QED
  BY <1>3, <1>4, <1>5, <1>6

\* Every step but a proposal keeps it so.
LEMMA LagStay ==
  ASSUME TransferInv, FollowInv, NEW h \in Seq(Entry), Agreed(h), OnlyHistory(h),
         [Next]_vars, [NotRepeated]_vars
  PROVE  OnlyHistory(h)'
<1>1. ASSUME \A p \in Peer : node'[p] = node[p] PROVE OnlyHistory(h)'
  BY <1>1 DEF OnlyHistory
<1>2. ASSUME NEW after, node' = [node EXCEPT ![Lead] = after] PROVE OnlyHistory(h)'
  BY <1>1, <1>2, NodesAre, NodeIs
<1>3. CASE TickHeartbeat \/ Propose
  BY <1>2, <1>3, HeartbeatEffect, ProposeEffect
<1>4. ASSUME NEW n \in Node, NEW done, Tick(n, done) \/ SnapshotCreate(n) PROVE OnlyHistory(h)'
  <2>1. PICK after : Tended(n, node[n], after) /\ node' = [node EXCEPT ![n] = after]
    BY <1>4, OwnEffect
  <2>2. CASE n \in Peer
    <3>1. OnlyOf(after, h)
      BY <2>1, <2>2 DEF Tended, OnlyHistory, OnlyOf
    <3> QED
      BY <2>1, <2>2, <3>1, LagChanges
  <2> QED
    BY <1>2, <2>1, <2>2 DEF Node
<1>5. ASSUME NEW p \in Peer, RecvAppendSuccess(p) PROVE OnlyHistory(h)'
  BY <1>2, <1>5, SuccessEffect
<1>6. ASSUME NEW p \in Peer,
             AcceptAppend(p) \/ RefuseConflictingPrev(p) \/ InstallSnapshot(p) \/ Restart(p)
      PROVE  OnlyHistory(h)'
  <2>1. CASE NotRepeated
    BY <1>6, <2>1, LagPeer
  <2>2. CASE UNCHANGED vars
    BY <1>1, <2>2 DEF vars
  <2> QED
    BY <2>1, <2>2
<1>7. CASE StillStep
  BY <1>1, <1>7 DEF StillStep
<1> QED
  BY <1>3, <1>4, <1>5, <1>6, <1>7, WhichStep

\* So does every step, of a history that may have grown.
LEMMA LagStep ==
  TransferInv /\ TransferInv' /\ FollowInv /\ LeadWhole /\ LeadWhole' /\ ChunkInv /\ LagInv
    /\ [Next]_vars /\ [NotRepeated]_vars /\ [NotAhead]_vars => LagInv'
<1> SUFFICES ASSUME TransferInv, TransferInv', FollowInv, LeadWhole, LeadWhole', ChunkInv,
                    [Next]_vars, [NotRepeated]_vars, [NotAhead]_vars,
                    NEW h \in Seq(Entry), Agreed(h), OnlyHistory(h)
             PROVE  \E later \in Seq(Entry) : Agreed(later)' /\ OnlyHistory(later)'
  BY DEF LagInv
<1>1. OnlyHistory(h)'
  BY LagStay
<1>2. CASE Propose
  <2>1. PICK e \in Entry : Agreed(Append(h, e))'
    BY <1>2, AgreedPropose
  <2>2. PICK longer \in Seq(Entry) : longer = Append(h, e)
    BY HistoryGrows
  <2>3. OnlyHistory(longer)'
    <3>1. \A p \in Peer : node'[p] = node[p]
      <4>1. PICK after : node' = [node EXCEPT ![Lead] = after]
        BY <1>2, ProposeEffect
      <4> QED
        BY <4>1, NodesAre, NodeIs
    <3>2. OnlyHistory(longer)
      BY <2>2, LagLonger
    <3> QED
      BY <3>1, <3>2 DEF OnlyHistory
  <2> QED
    BY <2>1, <2>2, <2>3
<1>3. CASE ~Propose
  BY <1>1, <1>3, AgreedStay
<1> QED
  BY <1>2, <1>3

\* Then no request leaves anything over.
LEMMA LagLeftovers ==
  TransferInv /\ FollowInv /\ LagInv /\ [NotRepeated]_vars => [NoLeftovers]_vars
<1> SUFFICES ASSUME TransferInv, FollowInv, NEW h \in Seq(Entry), Agreed(h), OnlyHistory(h), NotRepeated,
                    NEW p \in Peer, AcceptAppend(p),
                    NEW lead, lead = node[Lead].log, NEW k \in Indexes(node'[p].log)
             PROVE  k <= lead.base \/ (k \in Indexes(lead) /\ At(node'[p].log, k) = At(lead, k))
  BY DEF LagInv, NoLeftovers
<1>1. OnlyHistory(h)'
  BY LagPeer
<1>2. k <= Len(h) /\ At(node'[p].log, k) = h[k]
  BY <1>1 DEF OnlyHistory, OnlyOf
<1>3. lead \in LogType /\ LastIndex(lead) = Len(h) /\ \A j \in Indexes(lead) : At(lead, j) = h[j]
  BY HeldTypes, NodeParts DEF Agreed, LeadAgrees
<1>4. k \in Nat
  <2>1. node'[p].log \in LogType
    <3>1. PICK m \in GoodRequest, nd \in NodeType, l \in LogType, after \in NodeType :
            node' = [node EXCEPT ![p] = after]
      BY AcceptEffect
    <3>2. node'[p] = after
      BY <3>1, NodesAre, NodeIs
    <3> QED
      BY <3>1, <3>2, NodeParts
  <2> QED
    BY <2>1, IndexesType
<1>5. k <= lead.base \/ k \in Indexes(lead)
  <2>1. PICK base \in Nat, n \in Nat : base = lead.base /\ n = LastIndex(lead)
    BY <1>3, IndexesType
  <2>2. k <= base \/ k \in base + 1 .. n
    BY <1>2, <1>3, <1>4, <2>1
  <2> QED
    BY <2>1, <2>2 DEF Indexes
<1> QED
  BY <1>2, <1>3, <1>5

\* Where no peer starts with an entry the leader does not have, as when the log it
\* has is a part of the leader's, match_index is true without that condition: what
\* requests hold, how they are refused, lost and sent again is left open.
THEOREM LaggingMatchesAreHeld ==
  ASSUME \A n \in Node : Sane(n, Started[n]), HasStored(Started[Lead]),
         <<Lead, "poll">> \notin Failing,
         \E h \in Seq(Entry) : StartAgrees(h) /\ \A p \in Peer : OnlyOf(Started[p], h)
  PROVE  Spec /\ [][NotOvertaken]_vars /\ [][NotRepeated]_vars /\ [][NotAhead]_vars
           /\ [][Steady]_vars /\ [][Recoverable]_vars /\ [][Covered]_vars => []MatchIsHeld
<1>1. Init => FollowInv
  BY DEF Init, FollowInv
<1>2. Init => LeadWhole
  BY LeadStart
<1>3. Init => HeldInv
  BY AgreedStart, HeldInit DEF HeldInv
<1>4. Init => LagInv
  <2>1. PICK h \in Seq(Entry) : StartAgrees(h) /\ \A p \in Peer : OnlyOf(Started[p], h)
    OBVIOUS
  <2>2. Init => OnlyHistory(h)
    BY <2>1 DEF Init, OnlyHistory
  <2> QED
    BY <2>1, <2>2, AgreedStart DEF LagInv
<1> QED
  BY <1>1, <1>2, <1>3, <1>4, TransferInit, TransferStep, FollowStep, LeadWholeStep, ChunkInit, ChunkStep,
     HeldStep, HeldMatch, LagStep, LagLeftovers, PTL DEF Spec
==============================================================================
