SPECIFICATION Spec
CONSTANTS
    Threshold = 2
    MaxObservations = 5
    Windows = {2, 5}
    Overlap = 2
INVARIANTS TypeOK ConstraintsHold ConfirmedByLookups StreakUnbroken DeletedAgrees Converged LatestWins
CHECK_DEADLOCK FALSE
