SPECIFICATION FairSpec
CONSTANTS
  c1 = c1
  c2 = c2
  THR_NUM = 2
  MaxTasks = 3
  Clients = {c1, c2}
  Mortal = {}
  ReqNum <- TwoAndOne
  MaxFd = 4
  FD_SETSIZE = 2
  SplitReads = FALSE
INVARIANTS Inv ScanCounts OwnResponse
PROPERTIES EveryClientServed
CHECK_DEADLOCK FALSE
