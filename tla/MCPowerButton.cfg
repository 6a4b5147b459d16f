SPECIFICATION Spec
CONSTANTS
    None = None
    SETTLE = 1
    ANSWER = 1
    Hold <- MCHold
    MaxTime = 4
    MaxPresses = 2
    MaxFlight = 1
INVARIANTS
    TypeOK
    DrawnFromTheNewer
    TwirlEnds
    OwnHoldKept
