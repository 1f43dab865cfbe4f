SPECIFICATION SerialSpec
CONSTANTS
    d1 = d1   d1x = d1x   d1y = d1y   d2 = d2   d3 = d3
    f1 = f1   f2 = f2
    i1 = i1   i2 = i2     i3 = i3
    Adders = {a1, a2}
    Checkers = {}
    Docs <- ForkDocs
    Fps <- TwoFps
    FpOf <- ForkFpOf
    IdOf <- ForkIdOf
    Redacted <- ForkDocs
    Victims = {}
    MaxLibraryEntries = 2
    MaxOccurrences = 2
INVARIANTS
    IncidentIdNeverForks
CHECK_DEADLOCK FALSE
