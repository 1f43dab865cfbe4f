SPECIFICATION Spec
CONSTANTS
    e1 = e1
    e2 = e2
    e3 = e3
    e4 = e4
    v1 = v1
    v2 = v2
    Ids = {e1, e2, e3, e4}
    NoId = none
    Values = {v1, v2}
    Dimensions <- MCDimensions
    TypeOrder <- MCTypeOrder
    Originals <- MCOriginals
    MaxEvents = 3
    MaxCauses = 2
    MaxList = 2
    MaxEdits = 4
INVARIANTS
    CosmeticEditsKeepIdentity
    DifferenceIsExplained
PROPERTIES
    MaterialEditIsNoticed
CHECK_DEADLOCK FALSE
