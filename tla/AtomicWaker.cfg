SPECIFICATION Spec
CONSTANTS
    Threads = {t1, t2, t3}
    Tasks = {w1, w2}
    NoTask = NoTask
INVARIANTS
    CellExclusion
    AssertionsHold
    NoLostWake
PROPERTIES
    WakeArrives
