\* retain_last on, and two nodes that publish on one topic.
CONSTANTS
    a = a
    b = b
    c = c
    t1 = t1
    Nodes = {a, b}
    Topics = {t1}
    Publishers = {a, b}
    Restarters = {}
    Qos = {"reliable"}
    MaxRetries = 0
    DedupCap = 2
    RetainLast = TRUE
    MaxId = 1
    MaxRuns = 1
    MaxSubscribed <- MCListenersTwice
    MaxLost = 0
    MaxDuplicated = 0
SPECIFICATION Spec
CHECK_DEADLOCK FALSE
PROPERTIES
    RetainedIsMostRecent
