SPECIFICATION Spec
CONSTANTS
    k1 = k1
    k2 = k2
    default = default
    a = a
    s1 = s1
    b1 = b1
    b2 = b2
    Absent = Absent
    Untouched = Untouched
    Keys = {k1, k2}
    Values = {1}
    Columns = {default}
    Default = default
    ColOf <- DefaultKeys
    Configs = {{default}}
    Stores = {}
    Batches = {b1, b2}
    MaxOps <- TwoBatches
PROPERTIES
    ImplementsAtomicBatch
    CommitKeepsRecord
CHECK_DEADLOCK FALSE
