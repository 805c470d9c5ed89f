SPECIFICATION Spec
CONSTANTS
    N = 3
    Checkins = {c1, c2}
    Cancels = {k1}
    c1 = c1
    c2 = c2
    k1 = k1
    Calls <- AllCalls
    Records <- Record
    Steps <- PageSteps
    NoRecord = NoRecord
    Torn = Torn
    MaxFaults = 1
INVARIANT TypeOK
INVARIANT FilesAreWhole
INVARIANT ToldIsDurable
INVARIANT ShownIsDone
INVARIANT OneProofAtATime
PROPERTY OneAtATime
PROPERTY TabSettles
CHECK_DEADLOCK FALSE
