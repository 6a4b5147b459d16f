SPECIFICATION Spec
CONSTANTS
    Ports = {p1, p2}
    Devices = {m1, m2}
    NoMachine = NoMachine
    NoMac = NoMac
    KeepFor = 1
    PruneEvery = 1
    MaxDelay = 0
    MaxTime = 3
    MaxRecords = 4
SYMMETRY Symmetric
PROPERTIES
    MovedOutStaysOut
CHECK_DEADLOCK FALSE
