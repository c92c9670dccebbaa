SPECIFICATION FairSpec
CONSTANTS
    Workers = {1}
    Interval <- Intervals
    Offset <- Offsets
    Slots = {slot0}
    Versions = {v1, v2}
    None = None
    Epoch = 3
    Horizon = 5
    MaxFaults = 2
PROPERTIES ResumesInterrupted
CHECK_DEADLOCK FALSE
