\* A queue used as its owner should: no overflow, removals at the head.
CONSTANTS
    Senders = {s1, s2}
    None = None
    Ids = {a, b}
    SYS_TIMEOUT = SYS_TIMEOUT
    QueueLength = 2
    MaxWrites = 4
    MaxTicks = 2
    Overflow = FALSE
    MidRemoval = FALSE
    ForeignPeek = FALSE
SPECIFICATION LiveSpec
INVARIANTS TypeOK SenderTracked NoLostWakeup
PROPERTIES TimeoutNotEarly ImplementsPromise SendReturns
CHECK_DEADLOCK FALSE
