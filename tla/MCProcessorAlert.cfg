CONSTANTS
    Partitions = {p1}
    MaxOffset = 1
    AlertTypes = {tempHigh, spike}
    MaxRestarts = 0
    ProduceReliable = FALSE
SPECIFICATION Spec
CHECK_DEADLOCK FALSE
INVARIANTS
    ActiveIsAnnounced
