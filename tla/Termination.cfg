SPECIFICATION FairSpec
CONSTANTS
    MaxFaults = 3
    MaxBeats = 2
    MaxClock = 2
INVARIANTS
    MarkedOnlyOnNotice
    MarkingReported
PROPERTIES
    HeartbeatsKept
    FirstTransitionKept
    NoticeReported
    StopReturns
