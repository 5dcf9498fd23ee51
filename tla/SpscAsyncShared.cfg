SPECIFICATION Spec
CONSTANTS
    Producers = {p1}
    Consumers = {c1, c2}
    NoWaker = NoWaker
    Capacity = 2
    MaxItems = 1
    MaxWakers = 1
PROPERTIES
    AwaitResolves
