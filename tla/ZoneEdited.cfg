SPECIFICATION Spec
CONSTANTS
    zoneA = zoneA
    zoneB = zoneB
    badZone = badZone
    badProject = badProject
    NoPlace = NoPlace
    Places = {zoneA, zoneB}
    InvalidZones = {}
    UnknownProjects = {}
    Role = "worker"
    NPools = 0
    StartSpecs <- Good
    EditSpecs <- GoodOrOtherZone
    StartHooks = {FALSE}
    StartGroups = {}
    CacheLag = TRUE
    MaxFaults = 0
INVARIANTS KnownInstanceNotLost
CHECK_DEADLOCK FALSE
