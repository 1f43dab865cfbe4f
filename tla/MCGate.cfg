SPECIFICATION Spec
CONSTANTS
    N = 2
    fp1 = fp1
    fp2 = fp2
    Fingerprints <- TwoFingerprints
    Outcomes <- ThreeOutcomes
    Policies <- SomePolicies
    Outputs <- NoOutput
    Escapes <- Plain
    MaxReport = 0
    MaxRules = 2
    MaxDistinct = 2
    Pipelines = {TRUE, FALSE}
    MaxCycles = 2
SYMMETRY Symmetry
VIEW Seen
INVARIANTS
    PassMeansEveryRule
    FailIsEarned
    StrictPassCoversSuite
    ScriptedIsFresh
