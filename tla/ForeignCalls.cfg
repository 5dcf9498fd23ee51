SPECIFICATION ForeignSpec
CONSTANTS
    Callbacks = {k1, k2, k3}
    NoCallback = NoCallback
    MaxWakers = 2
    Threads = {t1, t2, t3}
    MaxHeld = 2
    StackBytes = 2
    MaxBytes = 4
    MaxDepth = 2
    MaxTokens = 10
INVARIANTS
    References
    FirstResultIsAnswer
    TimeoutIsLate
    PanicsAreContained
    FreedOnce
    TextWasTerminated
    ParsesTheGrammar
PROPERTIES
    WaitEnds
    ImplementsGate
