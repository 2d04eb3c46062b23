SPECIFICATION ListSpec
CONSTANTS
  Nodes = {n1, n2, n3, n4}
  NULL = NULL
INVARIANTS ListIsFifo OwnedOnce
