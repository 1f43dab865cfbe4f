SPECIFICATION ReadersSpec
CONSTANTS
    d1 = d1   d2 = d2
    f1 = f1   f2 = f2
    Adders = {a1}
    Checkers = {v1}
    Verifier = v1
    Listers = {l1}
    Docs <- MCDocs
    Fps <- MCFps
    FpOf <- MCFpOf
    IdOf <- MCIdOf
    Redacted <- MCDocs
    Victims = {d1}
    ShardOf <- MCShardOf
    MaxLibraryEntries = 2
    MaxOccurrences = 2
    MaxListResults = 2
    Base <- Subdirectory
    Names <- MCNames
    Contents <- MCContents
    Commands <- MCCommands
    MaxScenarios = 2
    MaxTimeout = 3
    MaxEdits = 1
INVARIANTS
    AckedIsListed
    DocumentsDecide
    SameLinkSameAnswer
    KnownIsAnnotated
CHECK_DEADLOCK FALSE
