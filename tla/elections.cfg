SPECIFICATION Spec
CONSTANTS
  n1 = n1
  n2 = n2
  n3 = n3
  d1 = d1
  d2 = d2
  Node = {n1, n2, n3}
  None = None
  Data = {}
  Noop = Noop
  Batches <- NoBatches
  PreVoteFlag = {FALSE}
  NoopFails = {FALSE}
  MaxEntries = 64
  CrashNodes = {n1, n2, n3}
  StopNodes = {n1, n2, n3}
  Delivered = {"RequestVote", "VoteReply", "AppendEntries"}
  MaxTerm <- AllTwice
  MaxLog = 0
SYMMETRY Symmetry
VIEW View
INVARIANT OneLeaderPerTerm
INVARIANT KnownLeaderElected
INVARIANT ElectionIsBacked
PROPERTY VoteKept
PROPERTY ImplementsTermLeadership
