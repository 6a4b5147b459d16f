SPECIFICATION Spec
CONSTANTS
    p1 = p1
    p9 = p9
    b1 = b1
    b2 = b2
    NoHost = NoHost
    NoBoot = NoBoot
    Absent = Absent
    Serials = {1, 2}
    Hosts <- MCHosts
    SetupHosts <- MCSetupHosts
    Docs <- MCDocs
    Boots <- MCBoots
    Results = {"pass"}
    Statuses <- MCStatuses
    Checks <- MCChecks
    CheckedInWithin = 0
    MissingAfter = 1
    MaxTime = 2
    MaxEvents = 2
INVARIANTS
    TypeOK
    OfferedWasHeard
    LatestIsLastConfirmed
    PagesAgree
PROPERTIES
    MissingUntilHeard
    PortPassesToTheHeard
CHECK_DEADLOCK FALSE
