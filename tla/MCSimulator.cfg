CONSTANTS
    Devices = {d1, d2}
    Partitions = {p1, p2}
    SpikeTicks = {2}
    DriftTicks = {1}
    MaxReadings = 2
SPECIFICATION FairSpec
CHECK_DEADLOCK FALSE
INVARIANTS
    TypeOK
    OrderedPerDevice
    ClosedLast
PROPERTIES
    ExcursionLength
    SigtermStops
