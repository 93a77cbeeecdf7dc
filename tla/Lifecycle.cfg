SPECIFICATION Spec
CONSTANTS
    zoneA = zoneA
    zoneB = zoneB
    badZone = badZone
    badProject = badProject
    NoPlace = NoPlace
    Places = {zoneA}
    InvalidZones = {}
    UnknownProjects = {}
    Role = "worker"
    NPools = 2
    StartSpecs <- Good
    EditSpecs = {}
    StartHooks = {TRUE}
    StartGroups = {}
    CacheLag = TRUE
    MaxFaults = 2
INVARIANTS
    PhaseTruthful
    NoOrphan
    DeleteOnlyWhenReady
    AddressesAfterProviderID
    PoolsReleased
PROPERTIES
    DeletionIsFinal
    KeepsContract
CHECK_DEADLOCK FALSE
