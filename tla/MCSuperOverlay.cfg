CONSTANTS
    c1 = c1
    c2 = c2
    c3 = c3
    f1 = f1
    f2 = f2
    f3 = f3
    Children = {c1, c2, c3}
    Names = {f1, f2, f3}
    Home <- HomesSplit3
    Begins <- OneBegins
    FilesOf <- Many3
    CHILD_NUMBER = 1
    HASH_TABLE_SIZE = 2
    RecvFiles = 2
    RecvShares = 1
    MaxSearches = 1
    Mortal = {2, c1}
    InOrder = FALSE
SPECIFICATION Spec
CHECK_DEADLOCK FALSE
INVARIANTS Inv InfosTrue AckedStored SharedOrLost SearchRight
