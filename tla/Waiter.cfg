SPECIFICATION FairSpec
CONSTANTS
    Acceptors <- SomeAcceptors
    Statuses = {"READY", "FAILED", "PENDING"}
    ErrorCodes = {"NotFound", "Gone", "Denied"}
    MaxAttempts = 3
    Delay = 1
    Timeouts = {1, 3, NoDeadline}
    NoDeadline = NoDeadline
    MaxTime = 5
INVARIANTS
    UnreachableState
    LateAnswerIsTimeout
    DeadlineIsReal
    CancellationWins
PROPERTIES
    DeadlineBinds
