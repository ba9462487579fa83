SPECIFICATION Spec
CONSTANTS
  l1 = l1
  p1 = p1
  p2 = p2
  Lead = l1
  Peer = {p1, p2}
  ClusterSize = 3
  None = None
  Term = 3
  Started <- Lagging
  AutoSnapshot = {l1}
  OnDemand = {}
  Threshold = 2
  Polls = {l1}
  Failing = {}
  Chunks <- OneEach
  MaxEntries = 64
  Lossy = {"AppendReply"}
  CrashPeers = {}
  Deposers = {}
  MaxInFlight = 1
  MaxIndex = 5
CHECK_DEADLOCK FALSE
INVARIANT MachinesAgree
