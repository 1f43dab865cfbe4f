SPECIFICATION RunSpec
CONSTANTS
    c = c   d1 = d1  
    Child = c
    Descendants = {d1}
    CanDetach = FALSE
    Containers = {"group"}
    MaxOutput = 1
    MaxEmit = 0
    ExitCodes <- ZeroOrOne
    Expectations <- ExpectZero
    Sources <- MCSources
    Base <- MCBase
    Sizes <- OneTo3
    Docs <- MCDocs
    Options <- MCOptions
    Litters = TRUE
    MaxFiles = 2
    MaxFileSize = 2
    MaxTotalSize = 3
INVARIANTS
    NothingRunsUnstaged
    CleanupIsExact
PROPERTIES
    ImplementsContract
