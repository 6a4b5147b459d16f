SPECIFICATION Spec
CONSTANTS
    None = None
    MaxTime = 2
    MaxChanges = 2
    MaxFlight = 1
    MaxWire = 1
INVARIANTS
    TypeOK
    NotUndone
    ReadingBelieved
PROPERTIES
    EndsUpDrawn
