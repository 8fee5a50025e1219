\* a connects to b, which listens; sessions break, a starts again, both crash.
CONSTANTS
    a = a
    b = b
    short = short
    long = long
    Nodes = {a, b}
    Listeners = {b}
    connect <- MCconnect
    MaxAttempts = 2
    Frames = {short, long}
    Payload <- MCPayload
    Header = 2
    MaxSessions = 2
    MaxFrames = 2
    MaxStarts <- MCMaxStarts
SPECIFICATION Spec
INVARIANTS
    TypeOK
    OneLinkPerStart
    GivenUpInTurn
    ArrivedIsReceived
PROPERTIES
    EventuallyLinked
    Implements
CHECK_DEADLOCK FALSE
