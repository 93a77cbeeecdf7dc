SPECIFICATION FairSpec
CONSTANTS
    zoneA = zoneA
    zoneB = zoneB
    badZone = badZone
    badProject = badProject
    NoPlace = NoPlace
    Places = {zoneA, badZone}
    InvalidZones = {badZone}
    UnknownProjects = {}
    Role = "master"
    NPools = 1
    StartSpecs <- GoodOrBadZone
    EditSpecs = {}
    StartHooks = {FALSE}
    StartGroups = {zoneA}
    CacheLag = TRUE
    MaxFaults = 1
PROPERTIES ImplementsContract ProvisioningSettles MasterServes
CHECK_DEADLOCK FALSE
