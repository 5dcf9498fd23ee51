SPECIFICATION FuturesSpec
CONSTANTS
    Tasks = {t1, t2, t3}
    NoWaker = NoWaker
    MaxFutures = 3
    MaxWakers = 2
    MaxChildren = 3
    MaxPolls = 6
INVARIANTS
    MutualExclusion
    LockIsOffered
    ChildrenAreArmed
PROPERTIES
    LockIsTaken
    Resolves
