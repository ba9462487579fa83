SPECIFICATION FairSpec
CONSTANTS
  l1 = l1
  p1 = p1
  p2 = p2
  Lead = l1
  Peer = {p1, p2}
  ClusterSize = 3
  None = None
  Term = 3
  Started <- Lagging
  AutoSnapshot = {p1}
  OnDemand = {}
  Threshold = 2
  Polls = {p1}
  Failing <- Failures
  Chunks <- ByIndex
  MaxEntries = 64
  Lossy = {"AppendEntries"}
  CrashPeers = {p2}
  Deposers = {}
  MaxInFlight = 1
  MaxIndex = 5
CHECK_DEADLOCK FALSE
PROPERTY Replicated
