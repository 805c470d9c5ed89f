SPECIFICATION Spec
CONSTANTS
    N = 2
    Deadline <- MintedDeadlines
    Requests = {r1}
    r1 = r1
    Arm = Arm
    Watcher = Watcher
    NoSchedule = NoSchedule
    Second = 2
    MaxNow = 5
    MaxFaults = 0
INVARIANT ExactlyOneRung
CHECK_DEADLOCK FALSE
