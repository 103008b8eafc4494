SPECIFICATION FairSpec
CONSTANTS
    MaxPolls = 5
    Declared = 6
    ChunkSizes = {0, 1, 4}
INVARIANTS
    TypeOK
    EarlyDropLeavesSource
PROPERTIES
    ImplementsPullStream
    AbandonedPollIsCancelled
