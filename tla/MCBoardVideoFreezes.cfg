SPECIFICATION VideoSpec
CONSTANTS
    Attempts = {a1, a2}
    NoPeer = NoPeer
    MaxErrors = 3
INVARIANT
    FallsBack
