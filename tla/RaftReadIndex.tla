--------------------------- MODULE RaftReadIndex ---------------------------
(***************************************************************************)
(* ReadIndex (raft_readindex.c) on top of Raft: clients ask any node for   *)
(* an index that is safe to read at; the leader answers once a quorum has  *)
(* acknowledged a round of heartbeats sent after the request.              *)
(*                                                                         *)
(* Every step is a step of Raft, or leaves Raft's variables alone.  The    *)
(* field seq of a message is kept beside Raft's message, as a tag.         *)
(***************************************************************************)
EXTENDS RaftProperties

CONSTANTS
  Request,    \* the ids clients give their reads
  Slot,       \* pending_reads[], RAFT_MAX_PENDING_READ_INDEX of them
  Free,       \* a slot that is not active
  Clients,    \* nodes with clients that read
  MaxSeq      \* bound: node i starts no heartbeat round beyond MaxSeq[i]

ASSUME ReadAssumption ==
  /\ Slot \subseteq Nat /\ IsFiniteSet(Slot)
  /\ Clients \subseteq Node
  /\ MaxSeq \in [Node -> Nat]

VARIABLES
  heartbeat_seq, pending_reads, \* as in struct raft
  rounds,    \* every AppendEntries sent, with its seq
  acked,     \* every successful reply to one, with the seq it echoes
  read_msgs, \* every readindex request and response ever sent
  asked,     \* history: the requests made, with what was true at the time
  completed  \* history: what on_readindex_complete was called with

seqVars  == <<heartbeat_seq, rounds>>
readVars == <<pending_reads, read_msgs, asked, completed>>
allVars  == <<vars, seqVars, acked, readVars>>

ReadInit ==
  /\ Init
  /\ heartbeat_seq = [i \in Node |-> 0]
  /\ pending_reads = [i \in Node |-> [s \in Slot |-> Free]]
  /\ rounds = {} /\ acked = {} /\ read_msgs = {} /\ asked = {} /\ completed = {}
-----------------------------------------------------------------------------
(***************************************************************************)
(* raft_send_heartbeats numbers its rounds.                                *)
(***************************************************************************)
Tagged(ms, seq) == {[msg |-> m, seq |-> seq] : m \in ms}

\* One round, of what i has once the step is done.
Round(i) ==
  /\ heartbeat_seq' = [heartbeat_seq EXCEPT ![i] = @ + 1]
  /\ rounds' = rounds \cup Tagged(Heartbeats(i, current_term'[i], log'[i], commit_index'[i],
                                             next_index'[i]), heartbeat_seq'[i])

\* The rounds of a new leader: one before its no-op, and one with it, unless
\* the no-op could not be stored.
LeaderRounds(i) ==
  LET next == [j \in Node |-> Len(log[i]) + 1]
      seq == heartbeat_seq[i] + 1
      first == Tagged(Heartbeats(i, current_term'[i], log[i], commit_index[i], next), seq)
      second == Tagged(Heartbeats(i, current_term'[i], log'[i], commit_index'[i], next), seq + 1)
  IN IF log' = log
     THEN /\ heartbeat_seq' = [heartbeat_seq EXCEPT ![i] = seq]
          /\ rounds' = rounds \cup first
     ELSE /\ heartbeat_seq' = [heartbeat_seq EXCEPT ![i] = seq + 1]
          /\ rounds' = rounds \cup first \cup second

\* The steps that may make i leader.
Stand(i) ==
  /\ \/ TickElection(i)
     \/ \E m \in msgs : m.to = i /\ (RecvPrevoteReply(m) \/ RecvVoteReply(m))
  /\ IF elections' = elections THEN UNCHANGED seqVars ELSE LeaderRounds(i)
  /\ UNCHANGED <<acked, readVars>>

Beat(i) ==
  /\ heartbeat_seq[i] < MaxSeq[i]
  /\ \/ TickHeartbeat(i)
     \/ \E d \in Data \cup {Noop} : Propose(i, d)
     \/ \E ds \in Batches : ProposeBatch(i, ds)
  /\ Round(i)
  /\ UNCHANGED <<acked, readVars>>

\* A successful reply echoes the seq of its request.
Acknowledge(r) ==
  /\ AcceptAppend(r.msg)
  /\ acked' = acked \cup Tagged({AppendReply(r.msg, TRUE, Len(log'[r.msg.to]), 0, 0)}, r.seq)
  /\ UNCHANGED <<seqVars, readVars>>
-----------------------------------------------------------------------------
(***************************************************************************)
(* Reads pending on a leader (raft_readindex.c).                           *)
(***************************************************************************)
\* mutant: an acknowledgement of the last round sent before the request counts
LastRoundSent(i) == heartbeat_seq[i]

\* The first round whose acknowledgements count for a read queued now.
RequiredSeq(i) == heartbeat_seq[i] + 1

FreeSlots(i) == {s \in Slot : pending_reads[i][s] = Free}

\* queue_read_index: request q of node from takes the first free slot.
Queue(i, q, from) ==
  LET s == CHOOSE k \in FreeSlots(i) : \A n \in FreeSlots(i) : k <= n
  IN pending_reads' = [pending_reads EXCEPT ![i][s] =
       [req |-> q, from |-> from, term |-> current_term[i], acks |-> {i},
        required_seq |-> RequiredSeq(i)]]

\* What a request is answered with: the index and err, by leader i in term t.
Answer(q, i, t, index, err) ==
  [req |-> q, by |-> i, term |-> t, read_index |-> index, err |-> err]

Response(to, answer) == [type |-> "ReadResponse", to |-> to, answer |-> answer]

\* Answers go to the node that asked, or straight to the local client.
Deliver(i, answers) ==
  /\ completed' = completed \cup {a[2] : a \in {b \in answers : b[1] = None}}
  /\ read_msgs' = read_msgs \cup {Response(a[1], a[2]) : a \in {b \in answers : b[1] # None}}

\* raft_readindex_record_ack, then raft_readindex_check_quorum: every read of
\* another term fails, and one that a quorum confirmed is answered with the
\* commit index, which this reply has not advanced yet.
RecordAck(i, peer, seq) ==
  LET mine(p) == p.term = current_term[i]
      noted(p) == IF p # Free /\ mine(p) /\ seq >= p.required_seq
                  THEN [p EXCEPT !.acks = @ \cup {peer}] ELSE p
      after == [s \in Slot |-> noted(pending_reads[i][s])]
      ended == {s \in Slot : after[s] # Free /\ (~mine(after[s]) \/ IsQuorum(after[s].acks))}
      result(p) == IF mine(p) THEN Answer(p.req, i, p.term, commit_index[i], "OK")
                   ELSE Answer(p.req, i, p.term, 0, "STALE_TERM")
  IN /\ pending_reads' = [pending_reads EXCEPT ![i] =
                            [s \in Slot |-> IF s \in ended THEN Free ELSE after[s]]]
     /\ Deliver(i, {<<after[s].from, result(after[s])>> : s \in ended})

Confirm(a) ==
  /\ RecvAppendSuccess(a.msg)
  /\ RecordAck(a.msg.to, a.msg.from, a.seq)
  /\ UNCHANGED <<seqVars, acked, asked>>
-----------------------------------------------------------------------------
(***************************************************************************)
(* Requests.                                                               *)
(***************************************************************************)
\* History: the request, the latest term that had a leader, and the highest
\* index any node took as committed.
Asked(q) ==
  [req |-> q, term |-> Greatest({0} \cup {e.term : e \in elections}),
   commit_index |-> Greatest({commit_index[i] : i \in Node})]

\* raft_request_read_index_async at a leader; alone, it answers at once.
AskLeader(i, q) ==
  /\ state[i] = Leader
  /\ \A a \in asked : a.req # q
  /\ asked' = asked \cup {Asked(q)}
  /\ IF Node = {i}
     THEN /\ Deliver(i, {<<None, Answer(q, i, current_term[i], commit_index[i], "OK")>>})
          /\ UNCHANGED <<vars, seqVars, acked, pending_reads>>
     ELSE /\ FreeSlots(i) # {} /\ heartbeat_seq[i] < MaxSeq[i]
          /\ Queue(i, q, None)
          /\ SendRound(i) /\ Round(i)
          /\ UNCHANGED <<acked, read_msgs, completed>>

\* raft_request_read_index_async elsewhere: the request goes to the known leader.
AskFollower(i, q) ==
  /\ state[i] # Leader
  /\ leader_id[i] # None
  /\ \A a \in asked : a.req # q
  /\ asked' = asked \cup {Asked(q)}
  /\ read_msgs' = read_msgs \cup {[type |-> "ReadRequest", req |-> q, from |-> i,
                                   to |-> leader_id[i]]}
  /\ UNCHANGED <<vars, seqVars, acked, pending_reads, completed>>

\* raft_recv_readindex: a refusal is the response; a queued read is answered
\* later.  (A leader that is alone gets no requests from others.)
RecvReadRequest(m) ==
  LET i == m.to
      respond(t, index, err) == Deliver(i, {<<m.from, Answer(m.req, i, t, index, err)>>})
                                /\ UNCHANGED pending_reads
  IN /\ m.type = "ReadRequest"
     /\ IF state[i] # Leader THEN respond(current_term[i], 0, "NOT_LEADER")
        ELSE IF FreeSlots(i) = {} THEN respond(current_term[i], 0, "NOMEM")
        ELSE Queue(i, m.req, m.from) /\ UNCHANGED <<read_msgs, completed>>
     /\ UNCHANGED <<vars, seqVars, acked, asked>>

\* raft_recv_readindex_response hands the answer to the client.
RecvReadResponse(m) ==
  /\ m.type = "ReadResponse"
  /\ completed' = completed \cup {m.answer}
  /\ UNCHANGED <<vars, seqVars, acked, pending_reads, read_msgs, asked>>
-----------------------------------------------------------------------------
\* A node that starts anew has no pending reads and counts its rounds from 0.
Forget(i) ==
  /\ Restart(i) \/ \E m \in msgs : m.to = i /\ CrashWhileVoting(m)
  /\ heartbeat_seq' = [heartbeat_seq EXCEPT ![i] = 0]
  /\ pending_reads' = [pending_reads EXCEPT ![i] = [s \in Slot |-> Free]]
  /\ UNCHANGED <<rounds, acked, read_msgs, asked, completed>>

\* All other steps: raft_become_follower, in particular, leaves the pending
\* reads where they are.
Other ==
  /\ \/ \E m \in msgs :
          \/ RecvPrevote(m) \/ RecvRequestVote(m) \/ RecvHigherTermReply(m)
          \/ RefuseStaleAppend(m) \/ RefuseMissingPrev(m) \/ RefuseConflictingPrev(m)
          \/ RecvAppendRefusal(m)
     \/ \E i \in Node :
          \/ TickApply(i) \/ Shutdown(i)
          \/ \E ds \in Batches : \E n \in 1 .. Len(ds) - 1 : AbortBatch(i, ds, n)
  /\ UNCHANGED <<seqVars, acked, readVars>>

ReadNext ==
  \/ \E i \in Node : Stand(i) \/ Beat(i) \/ Forget(i)
  \/ \E r \in rounds : r.msg \in msgs /\ Acknowledge(r)
  \/ \E a \in acked : a.msg \in msgs /\ Confirm(a)
  \/ \E i \in Clients, q \in Request : AskLeader(i, q) \/ AskFollower(i, q)
  \/ \E m \in read_msgs : RecvReadRequest(m) \/ RecvReadResponse(m)
  \/ Other

ReadSpec == ReadInit /\ [][ReadNext]_allVars
-----------------------------------------------------------------------------
\* The leader that answers a read was not superseded when the read was asked
\* for: no stale, duplicated or reordered acknowledgement lets a deposed leader
\* answer, although pending reads outlive its leadership.
ReadConfirmed ==
  \A c \in completed, a \in asked : (c.req = a.req /\ c.err = "OK") => c.term >= a.term

\* raft_types.h:148 calls read_index the "Commit index safe for linearizable
\* reads": no lower than what any node had committed when the read was asked for.
ReadIndexSafe ==
  \A c \in completed, a \in asked :
    (c.req = a.req /\ c.err = "OK") => c.read_index >= a.commit_index
=============================================================================
