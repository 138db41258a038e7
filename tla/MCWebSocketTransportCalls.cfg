SPECIFICATION Spec
CONSTANTS
    c1 = c1
    c2 = c2
    c3 = c3
    NoCaller = NoCaller
    Callers = {c1, c2, c3}
    KindOf <- AllKinds
    MayEnd = TRUE
    MaxNotes = 2
    MaxControl = 1
INVARIANTS
    RepliesGoHome
    StreamComplete
PROPERTIES
    OnlyDroppedStreamEnds
CHECK_DEADLOCK FALSE
