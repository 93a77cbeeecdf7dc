SPECIFICATION FairSpec
CONSTANTS
    zoneA = zoneA
    zoneB = zoneB
    badZone = badZone
    badProject = badProject
    NoPlace = NoPlace
    Places = {zoneA}
    InvalidZones = {}
    UnknownProjects = {}
    Role = "worker"
    NPools = 0
    StartSpecs <- Malformed
    EditSpecs = {}
    StartHooks = {FALSE}
    StartGroups = {}
    CacheLag = TRUE
    MaxFaults = 0
PROPERTIES DeletionCompletes
CHECK_DEADLOCK FALSE
