SPECIFICATION Spec
CONSTANTS
    Tasks = {caller, other}
    Caller = caller
    N = 3
    MaxRecorded = 2
    MaxAttempts = 4
    Unknown = Unknown
    NoTask = NoTask
INVARIANTS
    TypeOK
    Nested
    MetadataIsHonest
PROPERTIES
    SendsOnceInside
