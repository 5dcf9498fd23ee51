SPECIFICATION Spec
CONSTANTS
    Values = {a, b}
    NoValue = NoValue
    Width = 3
    MaxIndex = 2
    MaxRemovals = 4
    MaxCount = 1
INVARIANT
    DeadKeysFindNothing
CHECK_DEADLOCK FALSE
