CONSTANTS
    Partitions = {p1, p2}
    MaxOffset = 1
    AlertTypes = {tempHigh}
    MaxRestarts = 1
    ProduceReliable = TRUE
SPECIFICATION FairSpec
CHECK_DEADLOCK FALSE
INVARIANTS
    CommittedIsProcessed
    ProcessorInv
PROPERTIES
    SigtermDrains
