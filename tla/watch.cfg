SPECIFICATION Spec
CONSTANTS
    a = a
    b = b
    Topics <- TwoTopics
    Posted <- JustA
    NoTopic = NoTopic
    PageLimit = 2
    Attempts = 2
    Mine = a
    Others <- OtherTransfers
    MaxTransfers = 2
    MaxFaults = 1
INVARIANT TypeOK
INVARIANT NothingIsSkipped
INVARIANT CancelIsOnChain
INVARIANT DoneIsOnChain
INVARIANT DeviceIsReleased
CHECK_DEADLOCK FALSE
PROPERTY ReleaseIsFinal
PROPERTY AllAreReleased
PROPERTY SignedIsHonored
