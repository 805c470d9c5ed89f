SPECIFICATION Spec
CONSTANTS
    N = 2
    Deadline <- MintedDeadlines
    Requests = {r1}
    r1 = r1
    Arm = Arm
    Watcher = Watcher
    NoSchedule = NoSchedule
    Second = 2
    MaxNow = 5
    MaxFaults = 0
PROPERTY RejectLeavesStore
CHECK_DEADLOCK FALSE
