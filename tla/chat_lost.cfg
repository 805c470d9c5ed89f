SPECIFICATION Spec
CONSTANTS
    Seals = {m1}
    Terms = {t1}
    Proofs = {w1}
    Person = person
    Signings = {g1}
    Arms = {a1}
    None = None
    MaxFaults = 1
INVARIANT NothingLost
CHECK_DEADLOCK FALSE
