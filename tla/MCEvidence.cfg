SPECIFICATION TamperSpec
CONSTANTS
    x = x   y = y
    Putters = {p1}
    Readers = {r1}
    Sources = {s1}
    Chunks = {x, y}
    Versions <- TornVersions
    Damages <- SomeDamages
    Documents <- SomeDocuments
    MaxLost = 1
    MaxObjectSize = 1
    MaxEntries = 2
    MaxTotalBytes = 1
INVARIANTS
    KnownIsFound
    ReadsWithinCap
    DamageIsSeen
PROPERTIES
    DamageIsNeverRepaired
    ImplementsContentStore
CHECK_DEADLOCK FALSE
