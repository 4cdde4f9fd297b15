CONSTANTS
    Callers = {c1, c2}
    Schemas = {s1, s2}
    Devices = {d1}
    Rows = {a, b}
    None = None
SPECIFICATION FairSpec
INVARIANTS
    TypeOK
    LookupsInv
    DecodedAsWritten
    OneFetchEach
    FailureHasACause
    KnownDeviceIsServed
PROPERTIES
    EventuallyCurrent
