CONSTANTS
    d1 = d1
    d2 = d2
    p1 = p1
    p2 = p2
    a = a
    b = b
    NoValue = NoValue
    Designs <- MCDesigns
    Pages <- MCPages
    Pressing <- MCPressing
    Tables <- MCTables
    FirstDelay = 1
    LongestDelay = 4
    StableAfter = 3
    MaxSaid = 3
    MaxLeaving = 2
    Attempts = {a1, a2}
    NoPeer = NoPeer
    MaxErrors = 3
    BoxAttempts = {a1}
    MaxBoxErrors = 1
SPECIFICATION PagesSpec
INVARIANTS
    ComingBack
    CacheTrue
    ButtonsFreed
    SortKept
    
    OnlyRunningConnects
    OnePicture
    BoxIsAsked
PROPERTIES
    BackoffHeld
    KeepsOutbox
    EverythingGoesOut
    DrawsTheLatest
    KeepsBox
    LiveViewComesBack
    PictureComesBack
