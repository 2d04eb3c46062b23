CONSTANTS
  c1 = c1
  c2 = c2
  c3 = c3
  p = p
  q = q
  Clients = {c1, c2, c3}
  Programs = {p, q}
  Threads <- MCThreads
  Names = {1, 2}
  Size <- MCSize
  Old <- MCOld
  Cut = {}
  Mortal = {}
  Failures = {"memory", "open", "write", "short", "thread"}
  FirstSeqs = {1}
  SEQ_SIZE = 3
  FD_SETSIZE = 2
SPECIFICATION SelectSpec
CHECK_DEADLOCK FALSE
INVARIANTS Inv ServerStaysUp SlotHoldsOwnData
PROPERTIES SeqConsecutive ConnectedEnds ImplementsTransferService
