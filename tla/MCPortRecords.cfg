SPECIFICATION Spec
CONSTANTS
    Ports = {p1, p2}
    Devices = {m1, m2}
    NoMachine = NoMachine
    NoMac = NoMac
    KeepFor = 1
    PruneEvery = 1
    MaxDelay = 1
    MaxTime = 3
    MaxRecords = 3
SYMMETRY Symmetric
INVARIANTS
    TypeOK
    OneDeviceAPort
    ReadWhereAcked
    LastStoredKept
PROPERTIES
    OnlyAnAckMoves
CHECK_DEADLOCK FALSE
