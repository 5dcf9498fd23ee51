SPECIFICATION Spec
CONSTANTS
    Senders = {s1, s2}
    Consumers = {c1, c2}
    Capacity = 2
    MaxFutures = 2
    MaxWakers = 1
INVARIANTS
    TypeOK
    NoLostNotification
    WaitersAreExact
    EndIsFinal
PROPERTIES
    SleeperIsPolled
    BlockedBailOut
