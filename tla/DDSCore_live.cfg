\* One publisher, two receivers, one lost and one duplicated datagram.
CONSTANTS
    a = a
    b = b
    c = c
    t1 = t1
    Nodes = {a, b, c}
    Topics = {t1}
    Publishers = {a}
    Restarters = {}
    Qos = {"reliable"}
    MaxRetries = 1
    DedupCap = 1
    RetainLast = FALSE
    MaxId = 1
    MaxRuns = 1
    MaxSubscribed <- MCOnce
    MaxLost = 1
    MaxDuplicated = 1
SPECIFICATION Spec
CHECK_DEADLOCK FALSE
PROPERTIES
    TablesAsPromised
    EventuallyAccepted
