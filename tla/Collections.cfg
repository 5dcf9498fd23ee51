SPECIFICATION CollectionsSpec
CONSTANTS
    Values = {a, b}
    NoValue = NoValue
    Width = 4
    MaxIndex = 3
    MaxRemovals = 3
    MaxCount = 2
    Cap = 3
    Kinds = {1, 2}
    MaxElements = 5
INVARIANTS
    KeysFindTheirValues
    FreeListIsSound
    GoodKeysKeepTheirs
    OwnedOnce
    HoldsItsSequence
CHECK_DEADLOCK FALSE
