CONSTANTS
    HASH_TABLE_SIZE = 5
    Names <- SomeNames
    Owners = {o1, o2}
    CharSum <- SomeSums
    Begins <- SomeBegins
SPECIFICATION Spec
CHECK_DEADLOCK FALSE
INVARIANTS ChainsIntact SearchFindsStored SearchEnds
