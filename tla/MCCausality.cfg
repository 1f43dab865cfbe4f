SPECIFICATION Spec
CONSTANTS
    Ids = {a, b, c}
    NoId = none
    MaxEvents = 3
    MaxCauses = 2
SYMMETRY IdSymmetry
INVARIANTS
    AcceptedIsWellFormed
    WellFormedIsAccepted
    ReportedCycleIsReal
CHECK_DEADLOCK FALSE
