\* Five command lines; the file changes twice, at any moment.
CONSTANTS
    broken = broken
    Kept <- MCKept
    Cleared <- MCCleared
    Defaults <- MCDefaults
    Valid <- MCValid
    Fallback <- MCFallback
    Contents <- MCContents
    Unreadable = broken
    MaxWrites = 2
    Options <- MCOptions
    WarmUp = 1
    QuitDelay = 1
    FlushTime = 2
    MaxLag = 1
    Horizon = 17
SPECIFICATION Spec
INVARIANTS
    TypeOK
    PublishesInFull
    LastMessageGrace
    EndsInTime
    StopsSoonAfterSignal
    SettingsCurrent
PROPERTIES
    StopsOnSignal
CHECK_DEADLOCK FALSE
