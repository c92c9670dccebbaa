SPECIFICATION FairSpec
CONSTANTS
    Batches = {f1}
    Foreign = {f1}
    Poison = {}
    Senders = {s1}
    Handlers = {h1}
    None = None
    Limit = 1
    MaxAttempts = 1
    MaxPruned = 0
PROPERTIES EventuallyAcknowledged
CHECK_DEADLOCK FALSE
