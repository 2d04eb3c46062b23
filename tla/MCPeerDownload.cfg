CONSTANTS
  c1 = c1
  c2 = c2
  a = a
  d = d
  b = b
  Children = {c1, c2}
  Names = {a, b}
  Begins <- MCBegins
  Dests = {d}
  Units <- MCUnits
  Data <- MCData
  Versions <- MCVersions
  Gets <- MCGets
  Mortal = {c1}
  Failures = {"open", "store"}
  Cut = {c1}
  PACKET = 2
  SockBuf = 1
  FD_SETSIZE = 1
SPECIFICATION Spec
CHECK_DEADLOCK FALSE
INVARIANTS Inv DownloadRight
PROPERTIES GetEnds
