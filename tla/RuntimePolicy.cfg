SPECIFICATION FairSpec
CONSTANTS
    Threads = {t1, t2}
    Extensions = {x1, x2}
    Counts = {2, 5}
    Overrides = {3, Unset, Malformed}
    Unset = Unset
    Malformed = Malformed
    Available = 8
    NoThread = NoThread
INVARIANTS
    PoolsAgree
    AcceptedIsFrozen
PROPERTIES
    CallsReturn
