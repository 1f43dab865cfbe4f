--------------------------- MODULE MCScenarioExec ---------------------------
(***************************************************************************)
(* One command with at most two descendants and an output limit of two.    *)
(***************************************************************************)
EXTENDS ScenarioExec

CONSTANTS c, d1, d2

\* Exit code 0 with output that contains something, and nothing but exit -1.
SomeExpectations ==
    {[exit |-> 0, accepts |-> 1..MaxOutput], [exit |-> -1, accepts |-> 0..MaxOutput]}
ZeroOrSignal == {0, -1}
=============================================================================
