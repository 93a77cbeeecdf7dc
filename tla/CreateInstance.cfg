CONSTANTS
    mine = mine
    yours = yours
    theirs = theirs
    key = key
    other = other
    good = good
    bad = bad
    owned = owned
    LabelKeys = {mine, yours, theirs, owned}
    OwnedKey = owned
    TagKeys = {key, other}
    TagValues = {good, bad}
    KnownTags <- GoodTags
    MaxLabels = 2
    MaxTags = 1
    MaxInt32 = 3
    MaxUnits = 5
    Starts <- AllStarts
    MaxFaults = 2
SPECIFICATION FairSpec
INVARIANTS
    FailedHasNoInstance
    Schedulable
    BootsUnlessChosen
    LabelsAndTags
PROPERTIES
    QuotaExact
    CreateSettles
CHECK_DEADLOCK FALSE
