CONSTANTS
    c1 = c1
    c2 = c2
    c3 = c3
    f1 = f1
    f2 = f2
    f3 = f3
    Children = {c1, c2}
    Names = {f1, f2}
    Home <- HomesOne
    Begins <- OneBegins
    FilesOf <- OneEach
    CHILD_NUMBER = 2
    HASH_TABLE_SIZE = 4
    RecvFiles = 2
    RecvShares = 2
    MaxSearches = 1
    Mortal = {1, 2}
    InOrder = FALSE
SPECIFICATION FairSpec
CHECK_DEADLOCK FALSE
PROPERTIES EveryChildRegistered EverySearchAnswered
