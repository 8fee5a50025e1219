\* One node that announces and one that listens, both of which may restart; an
\* announcement in a row may be lost; the interval is reloaded once; the wall
\* clock is set back by 3 ticks or ahead by 4, once.
CONSTANTS
    a = a
    b = b
    Nodes = {a, b}
    Announcers = {a}
    Bound = {b}
    Intervals = {2}
    Sec = 2
    Expiry = 5
    MaxMissed = 1
    MaxDelay = 1
    MaxLag = 1
    MaxRuns = 2
    MaxReloads = 1
    Jumps <- MCJumps
    MaxJumps = 1
    Horizon = 12
SPECIFICATION Spec
INVARIANTS
    TypeOK
    KnownInTime
    GoneInTime
PROPERTIES
    NotDroppedEarly
