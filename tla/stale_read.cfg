SPECIFICATION ReadSpec
CONSTANTS
  n1 = n1
  n2 = n2
  n3 = n3
  d1 = d1
  d2 = d2
  r1 = r1
  r2 = r2
  Node = {n1, n2, n3}
  None = None
  Data = {}
  Noop = Noop
  Batches <- NoBatches
  PreVoteFlag = {FALSE}
  NoopFails = {FALSE}
  MaxEntries = 64
  CrashNodes = {}
  StopNodes = {}
  Delivered = {"RequestVote", "VoteReply", "AppendEntries", "AppendReply"}
  MaxTerm <- FirstThenSecond
  MaxLog = 0
  Request = {r1}
  Slot <- OneSlot
  Free = Free
  Clients = {n2}
  MaxSeq <- ThreeRounds
CHECK_DEADLOCK FALSE
VIEW ReadView
INVARIANT ReadIndexSafe
