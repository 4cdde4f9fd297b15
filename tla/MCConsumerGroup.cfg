CONSTANTS
    Partitions = {p1, p2}
    MaxOffset = 2
    Instances = {i1, i2}
    None = None
SPECIFICATION FairSpec
CHECK_DEADLOCK FALSE
INVARIANTS
    GroupInv
    MembersHoldTheirOwn
    WindowsAreCurrent
PROPERTIES
    GroupDeliversAtLeastOnce
    JoinersGetIn
