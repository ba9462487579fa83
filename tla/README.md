# lil-raft in TLA+

TLA+ models of [lil-raft](../src/readme.md), the runs of TLC that check them and
the theorems that TLAPS proves about them. File and line references are to
`src/src/`.

## The system

lil-raft is a Raft library in C without threads, I/O or dependencies. A program
creates one `raft_t` per node, calls `raft_tick` from its loop, hands incoming
messages to the `raft_recv_*` functions, and provides callbacks that send,
store and apply. Every call runs to completion; what is concurrent is the
cluster: calls on different nodes interleave, and messages are lost,
duplicated, delayed and reordered.

| Part | State | Operations | Talks to |
|---|---|---|---|
| Roles and timers, `raft.c` | term, vote, role, known leader, tallies, timeouts, commit and apply indexes, shutdown flag | `raft_become_*`, `raft_create`, `raft_shutdown`, `raft_tick` | all others; `persist_vote`, `load_vote`, `apply_entry` |
| Elections, `raft_election.c` | `votes_for_me`, `prevotes_for_me` | pre-vote and vote requests and replies | roles, last entry of the log, `send_requestvote` |
| Replication, `raft_replication.c` | `peers[].next_index`, `match_index` | heartbeats, AppendEntries and its reply, `raft_propose`, `_batch`, `_noop` | log, roles, snapshots, ReadIndex, `log_append`, `send_appendentries` |
| Log, `raft_log.c` | array of entries, `base_index` | append, truncate before and after, look up, copy, search for a term | replication, snapshots |
| Snapshots, `raft_snapshot.c` | last snapshot, pending snapshot, transfer progress per peer | create (synchronous or polled), restore, send and receive chunks | log, replication, tick, snapshot callbacks |
| ReadIndex, `raft_readindex.c` | 64 pending reads with ack masks, `heartbeat_seq` | queue, acknowledge, complete, answer peers | replication replies, commit index |
| Storage callbacks, `raft_types.h` | the embedder's disk | `persist_vote`, `load_vote`, `log_append`, `log_append_batch`, `log_truncate_after` | elections, replication |

What makes each of them correct:

- *Roles and elections*: one leader per term, whatever is delayed, duplicated
  or restarted; a vote once given is not given again; the leader a node names
  is the leader of its term; a quorum's pre-votes for its term precede every
  candidacy, and a node under a live leader does not start one.
- *Replication*: logs that share an entry share all before it; a leader keeps
  every entry of its term; `match_index` and `commit_index` only cover what a
  peer, or a quorum, holds; the commit index does not go back; `next_index`
  stays above zero and a peer is repaired in the end.
- *Log*: the array with its base index behaves as a sequence with a removed prefix.
- *Snapshots*: a snapshot stands for exactly what its state machine applied; the
  log begins where the snapshot ends; a peer that was sent a snapshot has the
  same state machine as one that applied the entries; a transfer ends.
- *ReadIndex*: a read is answered by a leader that was not superseded before the
  request, with an index no older than any commit before it; every slot is released.
- *Storage*: what is acknowledged is on disk, and what is on disk is a prefix
  of the log in memory.

The behaviours that are hard to test are listed at their lines under `hazards`
in `PROJECT.json`, each with the properties that cover it or the reason why none
does.

## Modules

| Module | Content |
|---|---|
| `Raft` | A cluster of nodes over an asynchronous network: elections with pre-vote, replication, proposals, crash, restart and shutdown. State, one action per way a call can end, and the mutated operators against which the properties are tested. |
| `RaftProperties` | Messages, the type invariant, safety invariants and action properties of `Raft`. |
| `TermLeadership` | Abstract: what clients are told of terms and leaders. `RaftProperties` states that `Raft` implements it. |
| `CompactLog` | Operators on a log with a removed prefix, the log that callers of `raft_log.c` see. |
| `LogSpec` | Abstract: the state machine of such a log. |
| `RaftLog` | The array of `raft_log.c`, shown to implement `LogSpec`. |
| `RaftReadIndex` | `raft_readindex.c`, composed with every step of `Raft`. |
| `RaftSnapshot` | A leader and its peers during one term: compaction, snapshot transfer and replication over `CompactLog`s, with liveness. |
| `MCRaft`, `MCRaftLog`, `MCRaftReadIndex`, `MCRaftSnapshot` | Values, symmetries and views for TLC. The `.cfg` files are their runs. |
| `MCMachineProofs` | `MCRaftSnapshot` with the hypotheses on the start of the theorems about machines, for TLC to evaluate. |
| `RaftProofs` | Theorems about `Raft`: types, elections, votes, rounds of pre-votes. |
| `ReplicationProofs`, `CommitProofs` | On top of it: logs and leaders' entries; `match_index` and commitment under one election. |
| `LeadershipProofs` | `Raft` implements `TermLeadership`. |
| `ReadIndexProofs` | `RaftReadIndex` is still `Raft`, and its reads are confirmed. |
| `RaftLogProofs` | `RaftLog` implements `LogSpec`. |
| `SnapshotProofs` | Types of `RaftSnapshot`, that logs follow snapshots, and that entries stay in place. |
| `MachineProofs` | On top of it: chunks make whole snapshots, state machines agree, and `match_index` is true. |

How they fit: `Raft` is the cluster with logs whose `base_index` is 0.
`RaftReadIndex` adds reads to it without changing a step of it (theorem
`ReadsAreRaft`). `RaftLog` shows that the array behaves as a `CompactLog` for
any base, and `RaftSnapshot` builds on `CompactLog`. `RaftSnapshot` looks at one
leader's term instead of at elections: who leads, and that there is one leader
per term, is what `Raft` is about.

### How `Raft` corresponds to the code

`Raft` is the configuration without snapshot callbacks. `base_index` is then
always 0 and a log is the sequence of its entries.

| Code | Model |
|---|---|
| `raft_tick` | `TickElection`, `TickHeartbeat`, `TickApply`, by what has elapsed; each ends with the apply loop (`ApplyCommitted`) |
| `raft_recv_requestvote` | `RecvPrevote`, `RecvRequestVote`, and `CrashWhileVoting`, which ends the process between the two writes of the vote |
| `raft_recv_requestvote_response` | `RecvPrevoteReply`, `RecvVoteReply`, `RecvHigherTermReply`; ignored replies change nothing and have no action |
| `raft_recv_appendentries` | `RefuseStaleAppend`, `RefuseMissingPrev`, `RefuseConflictingPrev`, `AcceptAppend`; the last three begin with `RecognizeLeader` |
| `raft_recv_appendentries_response` | `RecvAppendSuccess`, `RecvAppendRefusal`, `RecvHigherTermReply` |
| `raft_propose`, `raft_propose_noop` | `Propose` |
| `raft_propose_batch` | `ProposeBatch`, `AbortBatch` (an append in the middle fails) |
| `raft_request_read_index_async` | `SendRound`, the round of heartbeats it sends |
| `raft_shutdown`; end of the process and `raft_create` | `Shutdown`; `Restart` |
| `raft_become_follower`, `_candidate`, `_leader` | operators of the same names, with what the caller assigns afterwards as arguments |

Data is abstracted: a payload is a model value; `votes_received` is the size of
the set `votes_for_me`; the two flags that make pre-vote replies count are one
set, empty when no pre-vote is in progress. Time is abstract: at any tick a
timeout may or may not have elapsed. `msgs` holds every message ever sent and
none is removed, so each may be received at any time, again, or never. `stable`
is what `persist_vote` last wrote. `elections` is history: who was elected,
when, by whom. So is the field `round` of a vote reply, the term it was asked for:
no handler reads it, as the reply of the code does not have it
(`raft_types.h:84-88`).

### How `RaftLog` corresponds to the code

`entries`, `count`, `capacity` and `base_index` are the fields of `raft_log_t`.
A slot beyond `count` keeps what was written to it last; freed payloads are
`Junk`. `AppendChunk` is any of the four append functions, `AppendFails` an
allocation that fails after the array has grown, `TruncateLogAfter`,
`TruncateLogBefore` and `Supersede` (clear, then a new base) the three ways to
shorten a log. The lookups are operators of the same names.

### How `RaftReadIndex` corresponds to the code

Each disjunct of `ReadNext` is a set of steps of `Raft` together with what
happens to reads in it. `heartbeat_seq` numbers the rounds; the field `seq` of
a message is kept beside it, in `rounds` for AppendEntries and in `acked` for
their replies. `pending_reads` are the slots, with `acks` for the bits of
`ack_mask` and `from` = `None` for -1. `AskLeader` and `AskFollower` are
`raft_request_read_index_async`, `RecvReadRequest` is `raft_recv_readindex`,
`Confirm` the response handler with `raft_readindex_record_ack` and
`_check_quorum`, `RecvReadResponse` hands the answer on. `asked` and
`completed` are history. A response with `err` 0 and index 0, which means
"queued" (`raft_types.h:148`), is not passed on as an answer.

### How `RaftSnapshot` corresponds to the code

`node[n]` is what a node keeps: log, commit and apply index; index and term of the
snapshot its log gave way to (`snapshot`) and of the one in progress (`pending`);
and of the program, as `machine`, its state machine: the
entries handed to `apply_entry`, those a restored snapshot stands for included; and as
`stored` the snapshot it last stored. `snapshot` and `stored` are not always of the
same index: `snapshot_poll` says "complete" of a snapshot that failed as well
(`raft_types.h:333`), and `raft_snapshot_finish` then cuts the log all the same, which is
the second outcome of `Polled` where `<<n, "poll">>` is in `Failing`. A stored
snapshot of index 0 stands for none.

| Code | Model |
|---|---|
| `raft_tick` | `Tick`: poll, apply, maybe snapshot; `TickHeartbeat` is one with a round of heartbeats |
| `raft_snapshot_create`, `_finish`, `_poll`, `raft_maybe_snapshot` | `Create`, `Finished`, `Polled`, `MaybeSnapshot`; `SnapshotCreate` is a call by the program |
| `raft_send_heartbeats`, `raft_send_installsnapshot` | `Round`, with `AppendRequest` and `ChunkRequest` |
| `raft_recv_appendentries` | `RefuseStaleTerm`, `RefuseMissingPrev`, `RefuseConflictingPrev`, `AcceptAppend` with the branches for a compacted log |
| `raft_recv_installsnapshot` | `RefuseStaleTerm`, `IgnoreOldSnapshot`, `FailChunk`, `StoreChunk`, `InstallSnapshot` |
| the two response handlers | `StepDown`, `RecvAppendSuccess`, `RecvAppendRefusal`, `RecvSnapshotReply` |
| `raft_create` with `raft_snapshot_restore` | `Restart` |

A snapshot is `Chunks[k]` chunks for index `k`; a chunk is the state machine it
is a piece of, so that chunks of different snapshots can be told apart, and
`Restored` is what `snapshot_restore` makes of them: the state machine if all are
of the same, otherwise nothing that makes sense. `resp->done`, which the early
returns of `raft_recv_installsnapshot` leave unset, is a choice of both values.
Links deliver in the order sent, as over TCP, and lose the types of messages in
`Lossy`.

Assumed of the program: callbacks do not call back into the node, a reply goes
to the sender of the request and names the replier, and a write that returns
success is durable. What `snapshot_read` and `snapshot_load` find is the snapshot
stored last, and `snapshot_write` keeps chunks by offset, over a restart too.

## Runs

Three nodes give quorums of two that overlap in one node, the case where a
single double vote or lost vote elects two leaders. Message types left out of
`Delivered` are lost by the network, which is one of its behaviours; it keeps
an instance small where they play no part (append replies in the election runs
only add steps down that late vote replies cause as well). The bounds are
constants: `MaxTerm` per node, `MaxLog` for proposals, `MaxSeq` for rounds,
`MaxCapacity`, `MaxIndex`, `MaxInFlight`. The sets `CrashNodes`, `StopNodes`,
`Batches`, `NoopFails`, `PreVoteFlag`, `AutoSnapshot`, `OnDemand`, `Polls`,
`Failing`, `Lossy`, `CrashPeers` and `Deposers` switch on what may happen.

| Run | Instance | Checks |
|---|---|---|
| `elections` | 3 nodes, each may stand up to term 2, may crash and be shut down at any time | `OneLeaderPerTerm`, `KnownLeaderElected`, `ElectionIsBacked`, `VoteKept`, `ImplementsTermLeadership` |
| `one_term` | 3 nodes, pre-vote on, one leader, log up to the no-op and two entries or a batch, one entry per message | `CommitHasQuorum`, `MatchIndexTruthful` |
| `logs` | 3 nodes, terms up to 3, logs of up to 2 entries before a proposal, no-ops that may fail | `LogMatching`, `LeaderHoldsItsTerm` |
| `two_terms` | 3 nodes, a leader of term 1 and one of term 2, all message types | `TypeOK`, `NextIndexPositive` |
| `log_array` | arrays of 1 to 4 slots, chunks of one entry or of three that need two doublings at once, any cut at indexes up to 3 | `TypeOK`, `IndexFieldRight`, `LookupsAgree`, `ImplementsLog` |
| `reads` | 3 nodes; `n1` leads in term 1, `n2` in term 2, `n1` again in term 3; `n1` may restart at any time; one read, asked for at `n1` as a leader or as a follower; `n1` starts no round on its own after its second | `ReadConfirmed` |
| `transfer` | a leader of term 3 that compacted two entries; `p1` has one of them, `p2` has both and one of its own; proposals up to index 5, snapshots of two chunks from index 3 on, snapshots of leader and peers, failing callbacks, asynchronous snapshots of `p1` that fail or not, a restart of each peer, a later term heard of by `p1`, AppendEntries and snapshot replies may be lost | `TypeOK`, `MachinesAgree`, `EntriesInPlace`, `LogFollowsSnapshot`, `MatchIsHeld` |
| `catch_up` | the same start, fair; `p1` compacts on its own, `p2` may restart, AppendEntries may be lost, callbacks fail now and then | `Replicated` |

Why the bounds are enough: two terms are what a vote, a step down and a second
vote take; `logs` has three, since a conflict that a third leader repairs needs
an entry of term 1 that term 2 overwrites. In `log_array` a chunk of three is
appended to an array of one slot, and indexes lie below, in and above every log
that occurs. `reads` has the case that is delicate, a node with a read still
pending that leads again, with or without a restart that sets its sequence
numbers back; one slot and one read are enough, as slots do not
look at each other. In `transfer` both kinds of lag occur together: a peer with too
little, whose next entry is compacted, and a peer with too much, whose
conflicting entry must give way; five indexes leave room for snapshots on either side
while the transfer is on. One message per link is under way at a time, which
still lets a request or its reply be outstanding while both sides take snapshots.

The theorems about machines have hypotheses (see Proofs). That those on the start can
be met is `LaggingStarts`, an assumption that TLC evaluates in `transfer`. Those on
steps are met by every step of this instance, which is tuned so that the cases in which
the code fails do not come up: `p1`, which takes
asynchronous snapshots, has nothing to take one of before it has caught up; the leader
is elected with a snapshot; replies to AppendEntries are not lost; and `Threshold` and
`MaxIndex` leave the leader no second snapshot of two chunks. So the run says nothing
about those cases. They are listed, with instances in which TLC finds them, under Other
disagreements.

Every property of a passing run is paired in `PROJECT.json` with a mutated
operator that breaks it in the same run. The runs of `MCRaft` and
`MCRaftReadIndex` use a view that merges states with the same future: it
leaves out `last_applied` (read by the apply loop only), tallies and peer indexes
of nodes that will reset them before reading them, messages whose receipt
changes nothing now or later; in `reads` and `stale_read` also what is stored (always the
term and vote in memory) and acknowledgements and sequence numbers that no
read waits for. Of the properties checked under these views, `TypeOK` speaks of all
variables, and is checked of one state of those merged; that it holds of all is theorem
`TypeCorrect`. Node
permutations are a symmetry where no constant tells nodes apart. The runs of
reads and snapshots do not check for deadlock: when reads or rounds are used up,
or all is replicated up to the bound and nothing is lost, nothing is left to do.

### Fairness

`catch_up` is the only run that needs it (`FairSpec` of `RaftSnapshot`).
`WF(TickHeartbeat)` and `WF(Tick(n, TRUE))`: a program calls `raft_tick` over and over,
the heartbeat interval passes, and a snapshot that was begun is done at some poll.
`SF(RecvRequest(p))` and `SF(RecvReply(p))`: AppendEntries are sent again in each
round, so one of infinitely many gets through although any may be lost;
`SF(InstallSnapshot(p))`: the last chunk is sent again after each failure, and
storing and restoring it succeeds at some try. Only what the code itself tries
again is assumed to succeed at last: chunks and their replies are not lost in
`catch_up`, since the code never sends one again (see below).

### What the violated runs show

| Run | Property | In the code |
|---|---|---|
| `diverge` | `CommittedAgree` | A follower acknowledges its whole log, also what a request did not cover (`raft_replication.c:211`), so a leader commits what only it holds, and the next one commits something else there. |
| `stale_prevote` | `CandidateHadPrevotes` | A pre-vote reply does not say which round it answers, and counts in whatever round is open (`raft_election.c:234`): a node that stood for term 1 and times out again stands for term 2 with a grant for term 1, duplicated or late. |
| `stale_read` | `ReadIndexSafe` | A leader answers reads from its commit index before its term has committed anything, and before the acknowledgement at hand has advanced it (`raft_replication.c:256`). |
| `lost_apply` | `MachinesAgree` | A peer ahead of the snapshot it is sent goes back to it, but its `last_applied` does not (`raft_snapshot.c:377`). |

What is left of `CandidateHadPrevotes` is `CandidateAsked`: the node did ask all others
for the term it stands for. It is theorem `CandidatesAsked`, and in no run.
`MatchIndexTruthful` and `CommitHasQuorum` hold in `one_term`, which has no
second leader and no crash. `MachinesAgree` holds in `transfer`, where the leader does
not miss acknowledgements and so never sends a peer a snapshot of less than it
has applied. `EntriesInPlace` and `MatchIsHeld` hold there because the leader is elected
with a snapshot, and so sends no request that begins with the first entry
(theorem `NothingIsRepeated`).

### Other disagreements

Each of these was found by TLC in the instance named, and is not kept as a run.

- `MatchIndexTruthful` with a second leader: run `diverge` with that invariant.
- `CommitHasQuorum` in `diverge`'s instance with `MaxTerm <- OnlyFirst` and
  `CrashNodes = {n2}`: `raft_create` does not read the stored log back
  (`raft.c:234`), although `raft_internal.h:88-91` lists the log as persistent.
- A late AppendEntries lowers the commit index (`raft_replication.c:201`), against
  the comment at 195-196: `one_term` with `MaxLog = 3`.
- A pre-vote is not cancelled by an AppendEntries of the same term
  (`raft_replication.c:112`), in `stale_prevote`'s instance: `n1` leads in term 1, the timeout
  of `n2` elapses and it asks for pre-votes for term 2, then it hears of `n1`; the replies
  to its round still make it stand for election, against `raft_types.h:19` and
  against what refuses pre-votes under a live leader (`raft_election.c:153`). The grants
  may be of the right round, so `CandidateHadPrevotes` is not what this breaks.
- The reply to a new leader's first AppendEntries carries the old term
  (`raft_replication.c:96`), against `raft_types.h:104`, and is dropped as stale.
- On a single node a batch is not committed (`raft_replication.c:410`).
- `LogFollowsSnapshot` in `catch_up`'s instance with `OnDemand = {p1}`,
  `Failing = {}`, `Chunks <- OneEach`, `Lossy = {}`: an asynchronous
  snapshot that ends after an InstallSnapshot sets `snapshot_last_index` back
  (`raft_snapshot.c:47`), against `raft_log.c:389`. The peer then refuses what
  the leader sends. The passing runs leave this out: the peer that takes
  asynchronous snapshots, `p1`, has nothing to take one of before it has caught up.
- `Replicated` in `catch_up`'s instance with `AutoSnapshot = {}`,
  `OnDemand = {p1, p2}`, `Polls = {}`, `Failing = {}`, `Chunks <- OneEach`,
  `Lossy = {}`: a peer whose own snapshot is as new as the leader's answers
  without setting `resp->done` (`raft_snapshot.c:319-323`); when that reads 0 every
  time, the leader sends the snapshot again for ever. `raft_types.h:133` has `done`
  for just this case.
- `MachinesAgree` with `AutoSnapshot = {l1}`, `OnDemand = {}`, `Polls = {}`,
  `Failing = {}`, `Lossy = {}`, `CrashPeers = {}`, two chunks for every index, and a `p2`
  in `Started` that has the leader's first three entries: `p2` keeps up, the
  leader commits and compacts between the two chunks for `p1`, and sends pieces of two
  snapshots (`raft_snapshot.c:245-260`). In the passing runs the leader's first
  snapshot takes one chunk, and `Threshold` and `MaxIndex` allow it only one more.
- `MachinesAgree` in `transfer`'s instance with `AutoSnapshot = {l1}`, `Polls = {l1}`,
  `OnDemand = {}`, `Failing = {<<l1, "poll">>}` (named by a definition), `Lossy =
  {"AppendEntries"}`, `CrashPeers = {}` and `Deposers = {}`: an asynchronous snapshot of
  the leader, of index 4, fails, its log is cut to there all the same
  (`raft_snapshot.c:31`), and `p2` is sent what is stored, a state machine of two entries,
  as the snapshot of index 4. With `Failing = {}` the property holds there.
- `MatchIsHeld` in `transfer`'s instance with `MaxEntries = 1`, `MaxInFlight = 2`, no snapshots,
  failures, losses or restarts (`AutoSnapshot`, `OnDemand`, `Polls`, `Failing`, `Lossy`, `CrashPeers`
  and `Deposers` empty), and a `Started` without snapshots in which the leader's entries
  are of terms 1, 2, 2, 3 and those of `p1` of terms 1, 1, 1: a second refusal of the same
  request sets `next_index` below what the two have in common, and the next
  acknowledgement, of one entry, covers what `p1` has left of term 1 as well
  (`raft_replication.c:211`). With `MaxEntries = 64`, or one message at a time, it holds there.
- `EntriesInPlace`, and `MatchIsHeld`, with `Started <- Behind`, `AutoSnapshot = {p1}`,
  `OnDemand = {}`, `Threshold = 1`, `Polls = {}`, `Failing = {}`, `Chunks <- OneEach`, `Lossy = {}`,
  `CrashPeers = {}`, `Deposers = {}`, `Term = 2`, `MaxIndex = 2` and `MaxInFlight = 2`: `p1`
  stores two entries and compacts the first before the leader has the acknowledgement;
  the next heartbeat has `prev_log_index` 0 again, which is not checked
  (`raft_replication.c:121`), nothing is found at a compacted index, and the
  entry is appended once more, behind the log (169-179), against the comment at 163. The
  leader is then told of an index it does not have.

Seen while modelling, and outside the instances above: a lost chunk or reply
leaves `in_progress` set for good, as `last_sent_ms` is never read
(`raft_replication.c:35`); `raft_readindex_clear_pending`
is never called, although `raft_internal.h:277` says to call it from
`raft_become_follower`, so slots stay taken while a deposed leader follows.

## Proofs

The theorems hold for every value of the constants that satisfies the
assumptions the modules name (`NodeAssumption`, `PayloadAssumption`,
`ConfigAssumption`, `LogAssumption`, `ReadAssumption`, `SnapshotAssumption`,
`StartAssumption`, `NoneAssumption`). Some have hypotheses of their own, because the
program, but for `Recoverable`, does not keep the property without them:

| Theorem | Hypothesis | Without it |
|---|---|---|
| `CandidatesAsked` | `PreVoteFlag \subseteq {TRUE}`: pre-vote is on; `"RequestVote" \in Delivered`, so that the model records requests | a node without pre-vote stands at once, as it should |
| `MatchIndexesTruthful`, `CommitsHaveQuorum`, `CommitsAgree` | `CrashNodes = {}`, and in each state `OneElection` | run `diverge` and the two instances made of it above |
| `LogsFollowSnapshots` and all below | `NotOvertaken`: no peer installs a snapshot while one of its own is in progress | the asynchronous snapshot named above (`raft_snapshot.c:47`) |
| `EntriesStayInPlace` and all below | `NotRepeated`: entries from the first on are not stored by a peer that has compacted them | the heartbeat with `prev_log_index` 0 named above (`raft_replication.c:121`); `NothingIsRepeated` proves it for a leader elected with a snapshot |
| `SnapshotsArriveWhole` and all below | `Steady`: what the leader has stored does not change in the middle of a transfer of several chunks | the pieces of two snapshots named above (`raft_snapshot.c:245`) |
| | `<<Lead, "poll">> \notin Failing`, and at the start the leader has stored what its log gave way to (`HasStored`; with sizes that fit, `WholeSnapshot`) | the leader's snapshot that failed, named above (`raft_snapshot.c:31`) |
| | `Recoverable`: a peer whose own asynchronous snapshot failed is not restarted in the middle of a transfer of several chunks | the proof does not follow the transfer over such a restart, after which the peer is behind where it was; no violation is known |
| `StateMachinesAgree` and all below | `NotAhead`: a snapshot is not installed by a peer that has applied more | run `lost_apply` |
| `MatchesAreHeld`, `LaggingMatchesAreHeld` | `Covered`: a snapshot is not installed by a peer whose log goes beyond it | the log is cleared, acknowledged entries included (`raft_snapshot.c:370`) |
| `MatchesAreHeld` | `NoLeftovers`: an accepted request leaves nothing beyond it in the log of the peer that the leader does not have | the acknowledgement of leftovers named above (`raft_replication.c:211`) |
| `LaggingMatchesAreHeld` | in its place: no peer starts with an entry the leader does not have (`OnlyOf`) | the same |

The nodes of `RaftSnapshot` start with what the property at hand says of them, as
this module looks at one term; `StateMachinesAgree` and the two about `match_index` take it that
there is a history they all agree with (`StartAgrees`), which is what commitment in
earlier terms should leave behind. The hypotheses on steps are predicates of the
states before and after, written `[][Condition]_vars` beside `Spec`. They are about
which schedules occur, and that what is claimed is kept on those is what is proved;
every step of `transfer` meets all of them but the start of `LaggingMatchesAreHeld`,
as its `p2` has an entry of its own.

### Elections (`RaftProofs`)

- `TypeCorrect`: `Spec => []TypeOK`. `TypeOK` is inductive. The proof has a lemma
  for each operator that builds a value (heartbeats, the stored log, the
  rolled-back `next_index`, the advanced commit index) and one per handler.
- `ElectionInvariant`: `Spec => []ElectionInv`, and from it
  `LeadersUnique` (`OneLeaderPerTerm`), `LeadersKnown` (`KnownLeaderElected`),
  `LeadersBacked` (`ElectionIsBacked`) and `VotesStand` (`VoteKept`).

`OneLeaderPerTerm` is not inductive: it says nothing about votes. `ElectionInv`
adds what a vote is worth. A granted vote, a message `Granted(v, c, t)`, stands as
long as `v` is in term `t`, and `v` is then a follower (`GrantsStand`), which is
why clearing `voted_for` without a new term (`raft.c:61` called from
`raft_replication.c:113`) forgets no granted vote: the receiver is then a
candidate or a leader, and such a node granted none in the term. A node grants
one vote per term (`OneGrantPerTerm`), a candidate's tally is itself and nodes
that granted it (`TallyIsGranted`), and each election rests on a quorum of such
grants and the leader's own vote (`ElectionIsGranted`). Two elections in a term
would share a voter, by the majority lemma of the library, which would have
granted two votes, or have granted one while voting for itself.
`StableVote` (what is stored is what is in memory) carries all this over a
restart, and the clause on messages (an AppendEntries was sent by the elected
leader of its term) gives `KnownLeaderElected`.

The proof of the step has one lemma per way a step touches votes: `QuietStep`,
`JoinTerm`, `GiveVote`, `YieldTerm`, `RestartStep`, `TallyStep`, `StandStep` and
`LeadStep`; each action is then one of them.

`CandidatesAsked` (`CandidateAsked`). While a node has a round of pre-votes open, it is
still in the term in which it began the round, and the requests for the next term to all
other nodes have been sent; its tally holds grants that were sent to it, of this
round or of earlier ones (`PrevoteInv`). A message that was sent stays sent, and a step
down, which alone changes the term of such a node without an election, closes the
round.

### Logs (`ReplicationProofs`)

`LogInvariant`, and from it `LogsMatch` (`LogMatching`), `LeadersHoldTheirTerm`
(`LeaderHoldsItsTerm`) and `NextIndexesPositive` (`NextIndexPositive`).

`LogMatching` is not inductive, as the next AppendEntries to be received may be of
any earlier term and carry entries that no log has any more: conflicts and restarts
remove them. The invariant therefore speaks of *pieces*, which are the logs of all
nodes and the entries, with index and term of the one before, of every request
ever sent. `PiecesInv` says that any two pieces that have an index of the same
term agree from there down to where the later one starts (`Agree`), and that entries
of a term are found at most as far as its leader's log goes. Storing a request in a
log gives a piece that agrees with all others because both parts did and they meet in an index of the same
term; truncating, sending and restarting cut a piece out of another (`CutFrom`),
which keeps agreement. A proposal is new in its term, as there is one leader per
term (`LeadersUnique`), which has all of it. A node that is a candidate has no
entries of its term yet (`CandidatesUnelected`), which starts this off.

### Commitment (`CommitProofs`)

`MatchIndexesTruthful`, `CommitsHaveQuorum` and `CommitsAgree` say how far what a
leader counts may be trusted. A reply names the last index of the whole log of the
peer, not of what the request covered, and nothing in the code makes that the
leader's: `diverge` shows the consequence with two elections. While one node has been elected once
(`OneElection`) and no log was lost in a restart, it cannot happen, and `LedBy` says why: every log
is a prefix of the leader's, every request is cut out of it, and every index in a
reply, in `match_index`, in `commit_index` and in a request's `leader_commit` lies
within the log it speaks of, the last two also within a quorum of logs. No log gets
shorter (`LogsGrow`), so all of this stands while messages are late or repeated. A
batch that fails half way leaves entries in the leader's log that it does not count
itself (`raft_replication.c:375`), which the invariant allows.

### Refinement of `TermLeadership` (`LeadershipProofs`)

`LeadershipImplemented`: `Spec => ImplementsTermLeadership`. Each action of `Raft`
touches the term and the known leader of one node, and never lowers the term;
what is new in `elections` has that node as leader of its new term. That it wins a term
nobody else has won is `OneLeaderPerTerm` after the step, and that a leader it
names was elected is `KnownLeaderElected` after the step: both come from the
theorems above, so the abstract specification is where they meet. A restart is a step
too: that it does not lower the term rests on `StableVote`.

### Reads (`ReadIndexProofs`)

`ReadsAreRaft`: `ReadSpec => Spec`, with one step per disjunct of `ReadNext`. The
theorems about `Raft` thus hold with reads under way.

`ReadsConfirmed` (`ReadConfirmed`). A read is harmful if a later term had a leader
when it was asked for. `ElectionIsBacked` gives that leader a quorum of voters that left
the term of the read before it was queued. `PendingSafe` says that none of them is among the
acknowledgements of the slot, nor among those under way that would count
(`OutOfReach`): an acknowledgement carries the term its sender was in, and it is of a round sent
when the read was queued or later, by `required_seq`. As the acknowledgements that
complete the read are a quorum too, the two would share a voter. That
`required_seq` tells rounds apart needs `RoundsNumbered`: in one term the rounds of
a leader count on. After a restart they start at 0 again, but the node leads only in a
later term then, and a slot keeps the term it was queued in.

### The log (`RaftLogProofs`)

`TypeOK` and `IndexFieldRight` of `RaftLog` are inductive together
(`LogTypeCorrect`, `LogIndexRight`). `LogImplements`: `Spec => ImplementsLog`, with one
lemma per operation that computes the abstract log after it; shifting is the one that
needs work, as the slot an entry is in changes. `LogLookups`: the lookups agree,
a property of each state of that type.

### Snapshots (`SnapshotProofs`)

`SnapshotTypeCorrect`: `Spec => []TypeOK`, for any peers, any sizes of snapshots
and any start within the bound. In `TypeOK` it is that the offset of a transfer
lies within a snapshot and that indexes, which the handlers subtract from, are
natural numbers. It is not inductive: the offset comes back in a reply, which the
peer copied from a request. `TransferInv` adds the messages: the
chunk of a request that is not the last has another behind it, and a reply
names an offset that was sent. It also adds that no index of the leader passes `MaxIndex`
(`Bounded`), as `Chunks` gives sizes up to there.

`LogsFollowSnapshots` (`LogFollowsSnapshot`). `FollowInv` adds that no snapshot is
ahead of what was applied, and that one in progress at a node that polls is between the
two (`Ready`). The latter lasts as long as no newer snapshot is installed meanwhile,
which is `NotOvertaken`. The leader may poll, and so may peers at any other time.

`EntriesStayInPlace` (`EntriesInPlace`). `PlaceInv` says it of logs and of the
entries of requests, as a request may be received long after the leader's log has
moved. The work is in rule 3 of `raft_recv_appendentries`, a loop that looks up,
truncates and appends: `Overwritten` says what comes of it, namely the old log, or the old one
up to the first entry that is missing or of another term and the request's from there.
It needs that the entries of the request do not begin before the log does, and that is
where `NotRepeated` comes in. `NothingIsRepeated` has an invariant of its own: with a
compacted leader, `next_index` may go down to 1, but then a snapshot is due and no
entries are sent.

### Snapshots and state machines (`MachineProofs`)

`SnapshotsArriveWhole`: what a peer restores is the state machine of the leader's snapshot.
`ChunkInv` follows a transfer along the offset the leader keeps, the chunk on
its way, the chunks the peer has written and the reply on its way back: as long as
the leader has one snapshot, all chunks below the offset are of that snapshot, or the
peer has it already. Lost chunks, failed writes and restarts set the offset back or
leave it, and chunks stay written until the last one is restored. `Steady` excludes that what the
leader has stored changes while this goes on, and no more: transfers of one chunk, and snapshots of
the leader between transfers, are allowed. `LeadWhole` adds that what the leader has stored
is what its log gave way to, which is where a failed asynchronous snapshot of it would
come in; one of a peer only matters when that peer restarts (`Recoverable`).

`StateMachinesAgree` (`MachinesAgree`). The property compares two machines and says nothing
of where entries come from. `AgreedInv` has one history `h` for all: there are entries, those the
leader was elected with and those it proposed since, such that the leader's log
ends with them, every state machine, snapshot and snapshot in progress is a prefix of
them, and requests on the links carry parts of them. Logs of peers may differ from
`h` where an earlier leader left something else, but they match it (`Matches`: one common
term at an index, and all before is common), entries of the leader's own term are in it
(`OwnTerm`), and what is committed or applied is (`Known`). A proposal extends `h`;
every other step keeps it. A request is accepted only with the entry before it, which
by `Matches` makes all that the peer then commits part of `h`; a snapshot is restored whole,
as in `SnapshotsArriveWhole`, and `NotAhead` keeps `last_applied` in step with it.

`MatchesAreHeld` (`MatchIsHeld`). On top of `AgreedInv`, with the same `h`,
`HeldInv` says of each peer what it has of `h`, in its snapshot or its log: all that `match_index`
and each acknowledgement on its way covers beyond the leader's snapshot (`HasUpTo`),
for as long as the peer does not restart. A snapshot of the leader covers more, installing one
that goes beyond the peer's log (`Covered`) and compaction take nothing away, and requests are parts of
`h`. An acknowledgement names the last index of the whole log, and `NoLeftovers` is
what makes that true: beyond the request, the peer has only what the leader has. Nothing is
assumed of how long requests and logs are.

`LaggingMatchesAreHeld` has `NoLeftovers` from the start: `OnlyHistory`, that every peer's
log is of `h`, is invariant, since all a peer ever adds to its log is of `h`.

### Only model-checked

- `Replicated`, a liveness property, which is out of reach of the proof system.
- That the hypotheses on steps can all be met at once. In `transfer`'s instance they are (TLC, over
  all its steps); it depends on how threshold, sizes of snapshots and losses fit
  together, and in the instances named above one or the other is not.

## Not modelled

- What `log_append`, `log_append_batch` and `log_fsync` leave on disk: the
  library never reads it back (`log_get`, `log_first_index`, `log_last_index` and
  `log_truncate_after` are not called), so no behaviour depends on it. Failing writes of
  votes and failing allocations, other than in a batch, for a new leader's
  no-op and in the array.
- Elections between nodes whose whole log is in a snapshot (the snapshot term
  then stands in for the last term), and more than one leader in `RaftSnapshot`.
- Clocks and the pseudo-random timeout, printing, getters, memory management,
  error codes for invalid arguments and integer wrap-around of terms.

## Plan

What would come next:

1. Conditions of a deployment in place of conditions on steps: for which thresholds and
   sizes of snapshots `Steady`, `NotAhead` and `NoLeftovers` follow from the code.
2. Elections in `RaftSnapshot`, with the snapshot term in place of the last term of an
   empty log, so that a start that agrees (`StartAgrees`) is a theorem about the term before.
3. `RaftStorage`: one node with its disk and writes that fail.
