SPECIFICATION Spec
CONSTANTS
    Producers = {p1, p2}
    Consumers = {c1}
    NoWaker = NoWaker
    Capacity = 2
    MaxItems = 3
    MaxWakers = 2
INVARIANTS
    EndIsFinal
    NoLostWakeup
PROPERTIES
    SleeperIsPolled
