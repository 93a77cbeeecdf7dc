SPECIFICATION Spec
CONSTANTS
    zoneA = zoneA
    zoneB = zoneB
    badZone = badZone
    badProject = badProject
    NoPlace = NoPlace
    Places = {zoneA, badZone, badProject}
    InvalidZones = {badZone}
    UnknownProjects = {badProject}
    Role = "master"
    NPools = 1
    StartSpecs <- Good
    EditSpecs <- GoodOrUnreachable
    StartHooks = {FALSE}
    StartGroups = {}
    CacheLag = TRUE
    MaxFaults = 1
INVARIANTS KnownInstanceNotLost FailedOnlyIfRemoved
CHECK_DEADLOCK FALSE
