CONSTANTS
    Partitions = {p1}
    MaxOffset = 2
    AlertTypes = {tempHigh, spike}
    MaxRestarts = 1
    ProduceReliable = FALSE
SPECIFICATION Spec
SYMMETRY ProcessorSymmetry
CHECK_DEADLOCK FALSE
INVARIANTS
    TypeOK
    OneAggregatePerIncarnation
    NoRepeatedAlert
    SwallowedAlertLeavesDeadLetter
PROPERTIES
    DeliversAtLeastOnce
