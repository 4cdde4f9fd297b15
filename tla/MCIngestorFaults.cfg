CONSTANTS
    Partitions = {p1, p2}
    MaxOffset = 1
    BatchSize = 2
    MaxRestarts = 1
    DlqReliable = FALSE
SPECIFICATION Spec
SYMMETRY PartitionSymmetry
CHECK_DEADLOCK FALSE
INVARIANTS
    TypeOK
    HoldsTheUncommitted
    CommittedIsTraced
    IngestorInv
    OneInsertPerIncarnation
    TwoTracesPerIncarnation
PROPERTIES
    DeliversAtLeastOnce
