SPECIFICATION Spec
CONSTANTS
  n1 = n1
  n2 = n2
  n3 = n3
  d1 = d1
  d2 = d2
  Node = {n1, n2, n3}
  None = None
  Data = {}
  Noop = Noop
  Batches <- NoBatches
  PreVoteFlag = {FALSE}
  NoopFails = {FALSE, TRUE}
  MaxEntries = 64
  CrashNodes = {}
  StopNodes = {}
  Delivered = {"RequestVote", "VoteReply", "AppendEntries"}
  MaxTerm <- AllThrice
  MaxLog = 2
SYMMETRY Symmetry
VIEW View
INVARIANT LogMatching
INVARIANT LeaderHoldsItsTerm
