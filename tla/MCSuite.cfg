SPECIFICATION Spec
CONSTANTS
    N = 3
    Timeouts <- OneOrTwo
    WithFiles <- Second
    Roots <- SomeRoots
    Edits = TRUE
    Overhead = 1
    MaxHeld = 1
    MaxScenarios = 3
    MaxTotal = 3
INVARIANTS
    PassMeansAllPassed
    SkippedExactly
    SuiteTimeBounded
PROPERTIES
    ImplementsSuiteContract
