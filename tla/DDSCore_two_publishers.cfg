\* Two publishers on one topic and no network fault.
CONSTANTS
    a = a
    b = b
    c = c
    t1 = t1
    Nodes = {a, b, c}
    Topics = {t1}
    Publishers = {a, b}
    Restarters = {}
    Qos = {"reliable"}
    MaxRetries = 1
    DedupCap = 2
    RetainLast = FALSE
    MaxId = 1
    MaxRuns = 1
    MaxSubscribed <- MCOnce
    MaxLost = 0
    MaxDuplicated = 0
SPECIFICATION Spec
CHECK_DEADLOCK FALSE
INVARIANTS
    OnlyDuplicatesDropped
