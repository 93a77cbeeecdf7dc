SPECIFICATION FairSpec
CONSTANTS
    zoneA = zoneA
    zoneB = zoneB
    badZone = badZone
    badProject = badProject
    NoPlace = NoPlace
    Places = {badZone}
    InvalidZones = {badZone}
    UnknownProjects = {}
    Role = "worker"
    NPools = 0
    StartSpecs <- BadZone
    EditSpecs = {}
    StartHooks = {FALSE}
    StartGroups = {}
    CacheLag = TRUE
    MaxFaults = 1
PROPERTIES InvalidPlaceFails
CHECK_DEADLOCK FALSE
