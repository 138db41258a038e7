SPECIFICATION Spec
CONSTANTS
    k1 = k1
    k2 = k2
    b1 = b1
    t1 = t1
    t2 = t2
    Absent = Absent
    Untouched = Untouched
    Base = Base
    Keys = {k1, k2}
    Values = {1}
    Batches = {b1}
    Txns = {t1}
    SharedClone = TRUE
    MayFail = TRUE
INVARIANTS
    KeepsWhatItWrote
PROPERTIES
    RetryCompletes
