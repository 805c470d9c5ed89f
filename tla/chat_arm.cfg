SPECIFICATION Spec
CONSTANTS
    Seals = {m1, m2}
    Terms = {t1, t2}
    Proofs = {w1, w2}
    Person = person
    Signings = {g1, g2}
    Arms = {a1, a2}
    None = None
    MaxFaults = 1
SYMMETRY Symmetry
INVARIANT TypeOK
INVARIANT SwitchIsWhatWasSigned
INVARIANT TabIsConsistent
PROPERTY KeepsToMachine
CHECK_DEADLOCK FALSE
