SPECIFICATION ModesSpec
CONSTANTS
    d1 = d1   d1x = d1x   d1y = d1y   d2 = d2   d3 = d3
    f1 = f1   f2 = f2     f3 = f3
    i1 = i1   i2 = i2     i3 = i3
    a1 = a1   a2 = a2
    Adders = {a1, a2}
    Checkers = {c1}
    Docs <- SerialDocs
    Fps <- ThreeFps
    FpOf <- SerialFpOf
    IdOf <- SerialIdOf
    Redacted <- SerialDocs
    Victims = {d1, d2}
    MaxLibraryEntries = 1
    MaxOccurrences = 2
INVARIANTS
    CapsHold
    CorruptNeverMatched
PROPERTIES
    CorruptIsNeverReplaced
    ImplementsMemory
CHECK_DEADLOCK FALSE
