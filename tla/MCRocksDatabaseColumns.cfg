SPECIFICATION Spec
CONSTANTS
    k1 = k1
    k2 = k2
    default = default
    a = a
    s1 = s1
    b1 = b1
    b2 = b2
    Absent = Absent
    Untouched = Untouched
    Keys = {k1, k2}
    Values = {1}
    Columns = {default, a}
    Default = default
    ColOf <- KeysInTwo
    Configs = {{default}, {default, a}, {a}}
    Stores = {s1}
    Batches = {b1}
    MaxOps <- OneBatch
INVARIANTS
    ColumnsInStep
PROPERTIES
    ImplementsAtomicBatch
CHECK_DEADLOCK FALSE
