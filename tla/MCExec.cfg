SPECIFICATION FairSpec
CONSTANTS
    c = c   d1 = d1   d2 = d2
    Child = c
    Descendants = {d1, d2}
    CanDetach = TRUE
    Containers = {"group", "job", "none"}
    MaxOutput = 2
    MaxEmit = 3
    ExitCodes <- ZeroOrSignal
    Expectations <- SomeExpectations
INVARIANTS
    VerdictIsEarned
    TreeDiesAtTimeout
PROPERTIES
    RunReturns
