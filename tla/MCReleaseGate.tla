--------------------------- MODULE MCReleaseGate ---------------------------
(***************************************************************************)
(* Two scenarios, two fingerprints, two suite runs and one gate.           *)
(***************************************************************************)
EXTENDS ReleaseGate

CONSTANTS fp1, fp2
TwoFingerprints == {fp1, fp2}
Symmetry == Permutations(TwoFingerprints)

\* A scenario that passes, one that is skipped, and one that is not valid: its
\* link is any or none, and so it stands for the other outcomes, which like it
\* make the result FAIL.
ThreeOutcomes == {"PASS", "INVALID", "SKIPPED"}

With(rules, library, reporting) ==
    [rules |-> rules, library |-> library, report |-> reporting]

Strict == <<RequireOccurrence, RequireResult("PASS")>>

\* The strict policy with --library and --report and with neither, one that
\* wants a FAIL, one without rules and one with an empty value.
SomePolicies ==
    {With(Strict, TRUE, TRUE), With(Strict, FALSE, FALSE), With(<<RequireResult("FAIL")>>, TRUE, FALSE),
     With(<<RequireResult("")>>, TRUE, FALSE), With(<<>>, TRUE, FALSE)}
StrictPolicy == {With(Strict, TRUE, FALSE)}

\* Once the gate has read its report, neither its steps nor a property look at
\* the suite runs: states that differ only there are explored as one.
Seen ==
    <<scripted, known, gateVars,
      IF gate \in {"idle", "policy", "report", "read"} THEN <<cycle, suiteVars>> ELSE <<>> >>

NoOutput == {}
Plain == {1}

\* Both streams of a scenario at their limit of 1 MiB, in KiB.  With two of
\* the code's 100 scenarios MaxReport is 2/100 of its 256 MiB.
FullOutput == {2 * 1024}
PlainOrEscaped == {1, 6}
=============================================================================
