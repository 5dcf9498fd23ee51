SPECIFICATION Spec
CONSTANTS
    Senders = {s1, s2}
    Receiver = r
    NoWaker = NoWaker
    Buffer = 1
    MaxItems = 3
    MaxWakers = 2
INVARIANTS
    NothingLeftBehind
    NoLostWakeup
PROPERTIES
    SleepersArePolled
