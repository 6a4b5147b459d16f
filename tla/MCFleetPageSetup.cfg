SPECIFICATION PageSpec
CONSTANTS
    p1 = p1
    p9 = p9
    b1 = b1
    NoHost = NoHost
    NoBoot = NoBoot
    Absent = Absent
    Serials = {1, 2}
    Hosts <- MCHosts
    SetupHosts <- MCSetupHosts
    Docs <- MCDocs
    Boots <- MCBoots
    Results = {"pass"}
    Statuses <- MCStatuses
    Checks <- MCChecks
    CheckedInWithin = 0
    MissingAfter = 0
    MaxTime = 1
    MaxEvents = 1
INVARIANTS
    SetupPortNeverOffered
