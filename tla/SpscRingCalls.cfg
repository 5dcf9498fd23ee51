SPECIFICATION Spec
CONSTANTS
    Producers = {t1, t2}
    Consumers = {t2}
    Observers = {t1}
    NoItem = NoItem
    Capacity = 3
    Width = 5
    Start = 24
    MaxItems = 4
INVARIANTS
    CountWasTrue
PROPERTIES
    CallsReturn
    ImplementsQueue
