--------------------------- MODULE MCScenarioRun ---------------------------
(***************************************************************************)
(* Two files of sizes 1 to 3 with limits 2 per file and 3 in all, so that  *)
(* an edit breaks either limit; one command and at most one descendant.    *)
(***************************************************************************)
EXTENDS ScenarioRun

CONSTANTS c, d1

ZeroOrOne == {0, 1}
OneTo3 == 1..3
ExpectZero == {[exit |-> 0, accepts |-> 0..MaxOutput]}

\* --workspace with either of the other flags, or no flag at all: these two are
\* read by different steps, and a run without --workspace is one with
\* --workspace naming nothing.
MCOptions ==
    {[explicit |-> FALSE, keep |-> FALSE, report |-> FALSE],
     [explicit |-> TRUE, keep |-> TRUE, report |-> FALSE],
     [explicit |-> TRUE, keep |-> FALSE, report |-> TRUE]}

MCBase == Rel(<<"scenarios">>)
MCSources == {Rel(<<"f1">>), Rel(<<"f2">>)}

\* f1 staged at x and f2 at the given path.
Staging(second) ==
    [valid |-> TRUE, staged |-> FALSE,
     files |-> <<[source |-> Rel(<<"f1">>), destination |-> Rel(<<"x">>)],
                 [source |-> Rel(<<"f2">>), destination |-> second]>>]

\* Two files; one destination written in two ways, or below the other, or
\* above the workspace; a staged command; a document that is not valid.
MCDocs == {Staging(Rel(<<"y">>)), Staging(Rel(<<".", "x">>)),
           Staging(Rel(<<"x", "y">>)), Staging(Rel(<<"..", "y">>)),
           [valid |-> TRUE, files |-> <<>>, staged |-> TRUE],
           [valid |-> FALSE, files |-> <<>>, staged |-> FALSE]}
=============================================================================
