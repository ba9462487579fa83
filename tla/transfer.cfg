SPECIFICATION Spec
CONSTANTS
  l1 = l1
  p1 = p1
  p2 = p2
  Lead = l1
  Peer = {p1, p2}
  ClusterSize = 3
  None = None
  Term = 3
  Started <- Lagging
  AutoSnapshot = {l1, p1}
  OnDemand = {p2}
  Threshold = 2
  Polls = {p1}
  Failing <- Failures
  Chunks <- ByIndex
  MaxEntries = 64
  Lossy = {"AppendEntries", "SnapshotReply"}
  CrashPeers = {p1, p2}
  Deposers = {p1}
  MaxInFlight = 1
  MaxIndex = 5
CHECK_DEADLOCK FALSE
INVARIANT TypeOK
INVARIANT MachinesAgree
INVARIANT EntriesInPlace
INVARIANT LogFollowsSnapshot
INVARIANT MatchIsHeld
