CONSTANTS
    Partitions = {p1}
    MaxOffset = 2
    BatchSize = 2
    MaxRestarts = 1
    DlqReliable = TRUE
SPECIFICATION FairSpec
CHECK_DEADLOCK FALSE
PROPERTIES
    DecodedNeverLost
    SigtermDrains
    FlushedWhilePollsReturn
