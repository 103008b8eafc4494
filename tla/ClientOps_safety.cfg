SPECIFICATION Spec
CONSTANTS
    Tasks = {t1, t2, t3}
    Closers = {c1, c2}
    NoTask = NoTask
SYMMETRY Symmetry
INVARIANTS
    ActiveCountsLeases
    NoLostWakeup
    AckMeansReleased
