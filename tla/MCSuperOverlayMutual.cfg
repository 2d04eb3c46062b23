CONSTANTS
    c1 = c1
    c2 = c2
    c3 = c3
    f1 = f1
    f2 = f2
    f3 = f3
    Children = {c1, c2, c3}
    Names = {f1, f2}
    Home <- HomesSplit3
    Begins <- OneBegins
    FilesOf <- OneEach3
    CHILD_NUMBER = 3
    HASH_TABLE_SIZE = 4
    RecvFiles = 2
    RecvShares = 2
    MaxSearches = 0
    Mortal = {}
    InOrder = TRUE
SPECIFICATION FairSpec
CHECK_DEADLOCK FALSE
PROPERTY EveryChildRegistered
