SPECIFICATION Spec
CONSTANTS
    Batches = {f1}
    Foreign = {f1}
    Poison = {}
    Senders = {s1, s2}
    Handlers = {h1, h2}
    None = None
    Limit = 1
    MaxAttempts = 2
    MaxPruned = 2
SYMMETRY Symmetry
INVARIANTS DeliveryInv EffectsAccounted AttemptBudget
PROPERTIES AckedStaysAcked
CHECK_DEADLOCK FALSE
