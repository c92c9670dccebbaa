SPECIFICATION FairSpec
CONSTANTS
    Workers = {1, 2}
    Interval <- Intervals
    Offset <- Offsets
    Slots = {slot0}
    Versions = {v1}
    None = None
    Epoch = 3
    Horizon = 5
    MaxFaults = 2
INVARIANTS TypeOK
PROPERTIES ImplementsLedger ImplementsPool MarksAdvance NoQueueJumping CaughtUp
CHECK_DEADLOCK FALSE
