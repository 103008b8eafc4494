SPECIFICATION Spec
CONSTANTS
    n1 = n1
    n2 = n2
    r1 = r1
    Nexts = {}
    Reads <- OneRead
    Tasks <- OneRead
    Closers = {c1}
    NoTask = NoTask
    Length = 1
INVARIANTS
    PendingReadRaises
