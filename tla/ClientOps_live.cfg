SPECIFICATION FairSpec
CONSTANTS
    Tasks = {t1, t2}
    Closers = {c1}
    NoTask = NoTask
INVARIANTS
    TypeOK
    PermitIsLive
PROPERTIES
    CancelEndsWork
    ImplementsContract
    CallsEndIfAnswered
