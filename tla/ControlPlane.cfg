CONSTANTS
    a = a
    b = b
    installed = installed
    added = added
    Masters = {a, b}
    Zones = {installed, added}
    Placements <- AllPlacements
    StartBackends <- InstalledOnly
    Workers = 2
    MaxFaults = 1
SPECIFICATION FairSpec
INVARIANTS
    BackendsBounded
PROPERTIES
    KeepsServiceContract
    BackendsKept
    MastersServe
    DeletionsComplete
CHECK_DEADLOCK FALSE
