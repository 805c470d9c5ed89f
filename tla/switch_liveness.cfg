SPECIFICATION FairSpec
CONSTANTS
    N = 2
    Deadline <- MintedDeadlines
    Requests = {r1}
    r1 = r1
    Arm = Arm
    Watcher = Watcher
    NoSchedule = NoSchedule
    Second = 2
    MaxNow = 5
    MaxFaults = 2
PROPERTY SilenceReleases
CHECK_DEADLOCK FALSE
