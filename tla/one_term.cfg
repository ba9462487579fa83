SPECIFICATION Spec
CONSTANTS
  n1 = n1
  n2 = n2
  n3 = n3
  d1 = d1
  d2 = d2
  Node = {n1, n2, n3}
  None = None
  Data = {d1, d2}
  Noop = Noop
  Batches <- OneBatch
  PreVoteFlag = {TRUE}
  NoopFails = {FALSE}
  MaxEntries = 1
  CrashNodes = {}
  StopNodes = {}
  Delivered = {"RequestVote", "VoteReply", "AppendEntries", "AppendReply"}
  MaxTerm <- OnlyFirst
  MaxLog = 2
SYMMETRY PeerSymmetry
VIEW View
INVARIANT CommitHasQuorum
INVARIANT MatchIndexTruthful
