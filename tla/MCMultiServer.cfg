CONSTANTS
  c1 = c1
  c2 = c2
  a = a
  b = b
  Clients = {c1, c2}
  Names = {a, b}
  Size <- MCSize
  Old <- MCOld
  Cut = {}
  Mortal = {c1}
  Failures = {"memory", "open", "write", "short", "fork"}
  FirstSeqs = {1}
  SEQ_SIZE = 3
SPECIFICATION MultiSpec
CHECK_DEADLOCK FALSE
INVARIANTS NoZombieForgotten
PROPERTIES TransferEndsAlone ImplementsTransferService
