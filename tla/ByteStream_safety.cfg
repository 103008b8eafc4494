SPECIFICATION Spec
CONSTANTS
    n1 = n1
    n2 = n2
    r1 = r1
    Nexts <- TwoNexts
    Reads <- OneRead
    Tasks <- TwoNextsOneRead
    Closers = {c1}
    NoTask = NoTask
    Length = 2
SYMMETRY Symmetry
INVARIANTS
    SlotStaysEmpty
    SingleOwner
    CancelledAdvanceKeepsStream
    ReadIsFinal
    StopMeansOver
    BodyIsTheRest
