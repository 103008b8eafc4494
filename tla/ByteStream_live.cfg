SPECIFICATION FairSpec
CONSTANTS
    n1 = n1
    n2 = n2
    r1 = r1
    Nexts <- OneNext
    Reads <- OneRead
    Tasks <- OneNextOneRead
    Closers = {c1}
    NoTask = NoTask
    Length = 2
PROPERTIES
    CancelEndsWork
    ImplementsContract
    CallsEndIfAnswered
