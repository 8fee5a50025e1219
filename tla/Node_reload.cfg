\* The file changes once.
CONSTANTS
    broken = broken
    Kept <- MCKept
    Cleared <- MCCleared
    Defaults <- MCDefaults
    Valid <- MCValid
    Fallback <- MCFallback
    Contents <- MCContents
    Unreadable = broken
    MaxWrites = 1
    Options <- MCOptions
    WarmUp = 1
    QuitDelay = 1
    FlushTime = 2
    MaxLag = 1
    Horizon = 17
SPECIFICATION Spec
INVARIANTS
    IntervalReloaded
CHECK_DEADLOCK FALSE
