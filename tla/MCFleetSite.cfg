SPECIFICATION SiteSpec
CONSTANTS
    p1 = p1
    p2 = p2
    NoHost = NoHost
    NoBoot = 0
    Absent = Absent
    Serials = {1}
    Hosts = {p1, p2}
    SetupHosts = {}
    Docs <- MCDocs
    Boots <- MCBoots
    Results = {"pass", "fail"}
    Statuses <- MCStatuses
    Checks <- MCChecks
    CheckedInWithin = 0
    MissingAfter = 0
    MaxTime = 1
    MaxEvents = 2
    MaxBoots = 2
    MaxChecks = 1
    MaxRestarts = 1
    MaxQueue = 2
INVARIANTS
    CaughtUpWhenQuiet
    OfferedPassedItsBoot
PROPERTIES
    EndsUpRegistered
    ImplementsRegistry
CHECK_DEADLOCK FALSE
