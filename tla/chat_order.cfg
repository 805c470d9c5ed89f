SPECIFICATION Spec
CONSTANTS
    Seals = {m1}
    Terms = {t1}
    Proofs = {w1, w2}
    Person = person
    Signings = {g1}
    Arms = {a1}
    None = None
    MaxFaults = 0
PROPERTY ArmedStaysArmed
CHECK_DEADLOCK FALSE
