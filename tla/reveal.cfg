SPECIFICATION Spec
CONSTANTS
    N = 3
    ArmTime = 1
    Interval = 4
    Genesis = 0
    DrandPeriod = 3
    MaxChunks = 5
    FastPath = 1
    PageLimit = 2
    MaxNow = 14
    MaxFaults = 2
INVARIANT TypeOK
INVARIANT RefIsWhole
INVARIANT PublishedOpens
INVARIANT ShownIsMemo
PROPERTY MemoIsRevealed
CHECK_DEADLOCK FALSE
