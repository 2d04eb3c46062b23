SPECIFICATION Spec
CONSTANTS
  c1 = c1
  c2 = c2
  THR_NUM = 2
  MaxTasks = 2
  Clients = {c1, c2}
  Mortal = {c1, c2}
  ReqNum <- OneEach
  MaxFd = 2
  FD_SETSIZE = 1
  SplitReads = TRUE
INVARIANT SlotsMatch
CHECK_DEADLOCK FALSE
