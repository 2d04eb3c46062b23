CONSTANTS
  c1 = c1
  c2 = c2
  a = a
  b = b
  Clients = {c1, c2}
  Names = {a, b}
  Size <- MCSize
  Old <- MCOld
  Cut = {c2}
  Mortal = {c1, c2}
  Failures = {"file", "memory", "open", "write", "short"}
  FirstSeqs = {0, 1}
  SEQ_SIZE = 3
SPECIFICATION Spec
CHECK_DEADLOCK FALSE
INVARIANTS Inv BufferMatches StoredIsSent FilesWhole
PROPERTIES EveryTransferEnds ImplementsTransferService
