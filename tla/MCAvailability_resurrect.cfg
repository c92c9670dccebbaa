SPECIFICATION Spec
CONSTANTS
    Threshold = 2
    MaxObservations = 4
    Windows = {4}
    Overlap = 1
PROPERTIES OlderChangesNothing
CHECK_DEADLOCK FALSE
