SPECIFICATION Spec
CONSTANTS
    None = None
    MaxTime = 2
    MaxChanges = 1
    MaxFlight = 2
    MaxWire = 1
INVARIANTS
    NotUndone
