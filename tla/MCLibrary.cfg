SPECIFICATION RetrySpec
CONSTANTS
    d1 = d1   d1x = d1x   d1y = d1y   d2 = d2   d3 = d3
    f1 = f1   f2 = f2
    i1 = i1   i2 = i2     i3 = i3
    Adders = {a1, a2}
    Checkers = {c1}
    Docs <- VersionDocs
    Fps <- OneFp
    FpOf <- VersionFpOf
    IdOf <- VersionIdOf
    Redacted <- OnlyD1
    Victims = {}
    MaxLibraryEntries = 1
    MaxOccurrences = 2
INVARIANTS
    TypeOK
    UniqueIncidentIds
    AckedOccurrenceKept
    KnownIsNeverNoMatch
    NoSpuriousCorruption
    PrivacyHeld
PROPERTIES
    RetryHeals
CHECK_DEADLOCK FALSE
