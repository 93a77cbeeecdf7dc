SPECIFICATION Spec
CONSTANTS
    MaxFaults = 1
    MaxBeats = 0
    MaxClock = 0
INVARIANT TriesUntilTimeout
