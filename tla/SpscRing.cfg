SPECIFICATION Safety
CONSTANTS
    Producers = {t1, t2}
    Consumers = {t2, t3}
    Observers = {}
    NoItem = NoItem
    Capacity = 2
    Width = 4
    Start = 12
    MaxItems = 4
INVARIANTS
    SlotAccess
PROPERTIES
    ImplementsQueue
