SPECIFICATION FairSpec
CONSTANTS
    n1 = n1
    t2a = t2a
    nosuch = nosuch
    Types = {n1, t2a, nosuch}
    UnknownTypes = {nosuch}
    ArmTypes = {t2a}
    MaxEdits = 2
    MaxFaults = 2
INVARIANT GivenUpOnlyIfInvalid
PROPERTIES CapacityConverges ImageBoots OwnersChoicesKept
