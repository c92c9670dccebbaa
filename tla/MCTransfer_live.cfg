SPECIFICATION FairSpec
CONSTANTS
    Batches = {b1, p1}
    Foreign = {}
    Poison = {p1}
    Senders = {s1}
    Handlers = {h1}
    None = None
    Limit = 2
    MaxAttempts = 1
    MaxPruned = 1
INVARIANTS NeverLost
PROPERTIES WatermarkMonotone ImplementsPromise EventuallyAcknowledged
CHECK_DEADLOCK FALSE
