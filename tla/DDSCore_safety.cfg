\* One publisher, a listener that may restart, room for one id in each de-duplication set.
CONSTANTS
    a = a
    b = b
    c = c
    t1 = t1
    Nodes = {a, b}
    Topics = {t1}
    Publishers = {a}
    Restarters = {b}
    Qos = {"reliable", "best_effort"}
    MaxRetries = 1
    DedupCap = 1
    RetainLast = TRUE
    MaxId = 2
    MaxRuns = 2
    MaxSubscribed <- MCListenersTwice
    MaxLost = 0
    MaxDuplicated = 1
SPECIFICATION Spec
CHECK_DEADLOCK FALSE
INVARIANTS
    TypeOK
    AckSound
    SettledOnce
    DedupWindow
    OnlyDuplicatesDropped
    ListenerUpToDate
