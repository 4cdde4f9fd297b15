CONSTANTS
    Devices = {d1, d2}
    WindowSize = 1
    TempHigh = 20
    TempLow = 10
    SpikeSpread = 20
    Temperatures = {0, 30}
    MaxTime = 3
    MaxReadings = 4
SPECIFICATION Spec
SYMMETRY DeviceSymmetry
CHECK_DEADLOCK FALSE
INVARIANTS
    TypeOK
    EvictsTheStaleFront
    ExactOnceSettled
    ActiveIsTheLastVerdict
    OneAlertPerEpisode
