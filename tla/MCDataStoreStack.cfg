CONSTANTS
    Keys <- MCKeys
    Values = {v}
    Absent = Absent
    Untouched = Untouched
    Clients = {c1, c2}
    Stacks <- MCStacks
    Layers <- MCLayers
    Bottom <- MCBottom
    Place <- MCPlace
    KeyTransform <- MCKeyTransform
    Db = Db
    Refusals <- MCRefusals
SPECIFICATION Spec
INVARIANTS
    ViewsKeepApart
    RecordIsAsked
SYMMETRY MCSymmetry
