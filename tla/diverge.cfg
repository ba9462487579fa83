SPECIFICATION Spec
CONSTANTS
  n1 = n1
  n2 = n2
  n3 = n3
  d1 = d1
  d2 = d2
  Node = {n1, n2, n3}
  None = None
  Data = {}
  Noop = Noop
  Batches <- NoBatches
  PreVoteFlag = {FALSE}
  NoopFails = {FALSE}
  MaxEntries = 64
  CrashNodes = {}
  StopNodes = {}
  Delivered = {"RequestVote", "VoteReply", "AppendEntries", "AppendReply"}
  MaxTerm <- FirstSecondFirst
  MaxLog = 0
VIEW View
INVARIANT CommittedAgree
