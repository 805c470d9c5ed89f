SPECIFICATION Spec
CONSTANTS
    a = a
    b = b
    Topics <- TwoTopics
    Posted = {}
    NoTopic = NoTopic
    PageLimit = 2
    Attempts = 2
    Mine = a
    Others <- OtherTransfers
    MaxTransfers = 2
    MaxFaults = 1
PROPERTY CancelsAreHonored
CHECK_DEADLOCK FALSE
