\* The publisher is restarted while an ACK is in flight.
CONSTANTS
    a = a
    b = b
    c = c
    t1 = t1
    Nodes = {a, b}
    Topics = {t1}
    Publishers = {a}
    Restarters = {a}
    Qos = {"reliable"}
    MaxRetries = 1
    DedupCap = 2
    RetainLast = FALSE
    MaxId = 1
    MaxRuns = 2
    MaxSubscribed <- MCOnce
    MaxLost = 0
    MaxDuplicated = 0
SPECIFICATION Spec
CHECK_DEADLOCK FALSE
INVARIANTS
    AckSound
