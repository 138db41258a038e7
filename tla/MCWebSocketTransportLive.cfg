SPECIFICATION FairSpec
CONSTANTS
    c1 = c1
    c2 = c2
    c3 = c3
    NoCaller = NoCaller
    Callers = {c1, c2}
    KindOf <- BatchAndSingle
    MayEnd = TRUE
    MaxNotes = 0
    MaxControl = 1
PROPERTIES
    CallsReturn
CHECK_DEADLOCK FALSE
