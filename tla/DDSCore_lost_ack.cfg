\* One reliable message, one retransmission, one lost datagram.
CONSTANTS
    a = a
    b = b
    c = c
    t1 = t1
    Nodes = {a, b}
    Topics = {t1}
    Publishers = {a}
    Restarters = {}
    Qos = {"reliable"}
    MaxRetries = 1
    DedupCap = 2
    RetainLast = FALSE
    MaxId = 1
    MaxRuns = 1
    MaxSubscribed <- MCOnce
    MaxLost = 1
    MaxDuplicated = 0
SPECIFICATION Spec
CHECK_DEADLOCK FALSE
PROPERTIES
    GivenUpWhenAllLost
