CONSTANTS
    Partitions = {p1}
    MaxOffset = 2
    BatchSize = 2
    MaxRestarts = 0
    DlqReliable = TRUE
SPECIFICATION Spec
CHECK_DEADLOCK FALSE
PROPERTIES
    CommittedIsKept
