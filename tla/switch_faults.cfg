SPECIFICATION Spec
CONSTANTS
    N = 3
    Deadline <- MintedDeadlines
    Requests = {r1, r2}
    r1 = r1
    r2 = r2
    Arm = Arm
    Watcher = Watcher
    NoSchedule = NoSchedule
    Second = 2
    MaxNow = 6
    MaxFaults = 1
SYMMETRY Symmetry
INVARIANT TypeOK
INVARIANT RecordMatchesNetwork
INVARIANT NoEarlyRelease
INVARIANT NeverDisarmed
INVARIANT PassedIsAnnounced
INVARIANT BurnedStaysSecret
INVARIANT AcceptedCheckinPostpones
INVARIANT OneCheckinPerPeriod
INVARIANT AcceptedOnce
PROPERTY KeepsPromise
CHECK_DEADLOCK FALSE
