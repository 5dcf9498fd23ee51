SPECIFICATION ProducersRunSpec
CONSTANTS
    Producers = {p1}
    Consumers = {c1}
    Observers = {}
    NoItem = NoItem
    Capacity = 1
    Width = 8
    Start = 0
    MaxItems = 2
PROPERTIES
    PushDoesNotBlock
