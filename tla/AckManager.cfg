\* Two keys with any mix of settings and a ring of one; the wall clock is set
\* back by 2 or ahead by 3, once.
CONSTANTS
    k1 = k1
    k2 = k2
    Keys = {k1, k2}
    Configs <- MCConfigs
    DeadCap = 1
    MaxAcks = 2
    MaxLag = 1
    Jumps <- MCJumps
    MaxJumps = 1
SPECIFICATION Spec
INVARIANTS
    TypeOK
    RetryBudget
    DeadLettersComplete
    NeverGivesUpEarly
    GivesUpInTime
PROPERTIES
    SettledForGood
    Implements
    EventuallySettled
