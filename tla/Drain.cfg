CONSTANTS
    a = a
    b = b
    c = c
    NoMachine = NoMachine
    Machines = {a, b, c}
    Lags = {TRUE, FALSE}
    Hooked = {a}
    Excluded = {c}
    Linked = {a, b, c}
    MaxFaults = 2
SPECIFICATION FairSpec
INVARIANTS
    OneAtATime
    EvictedOnlyWhenDue
    DrainedIsEmpty
PROPERTIES
    DrainsComplete
CHECK_DEADLOCK FALSE
