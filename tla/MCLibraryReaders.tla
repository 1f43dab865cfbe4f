-------------------------- MODULE MCLibraryReaders --------------------------
(***************************************************************************)
(* The commands that read the library next to one add: `library list`, or  *)
(* `scenario verify` and `suite verify`; two incidents of two failure      *)
(* classes, which live in two shards.  Readers do not disturb each other,  *)
(* so each behaviour has one of them, and the verify commands are run with *)
(* one command line over a library that moves, and with all of them, edits *)
(* and Ctrl-C over one that does not.                                      *)
(***************************************************************************)
EXTENDS LibraryListing, Verify

CONSTANTS d1, d2, f1, f2, Base

VARIABLE reader     \* "list", "library" or "documents"

MCDocs == {d1, d2}
MCFps == {f1, f2}
MCFpOf == [d \in MCDocs |-> IF d = d1 THEN f1 ELSE f2]
MCIdOf == [d \in MCDocs |-> d]
MCShardOf == [f \in MCFps |-> <<"shard", f>>]

-----------------------------------------------------------------------------
\* Two scenario files; the second may be written with a redundant "./".
PathA == Rel(<<"a">>)
PathB == Rel(<<"b">>)
MCNames == {PathA, PathB}

File(ok, f, seconds, sources) ==
    [loads |-> TRUE, ok |-> ok, link |-> f, timeout |-> seconds, sources |-> sources]

Missing == [File(FALSE, MalformedLink, 0, <<>>) EXCEPT !.loads = FALSE]
Invalid == File(FALSE, MalformedLink, 1, <<>>)
MCContents == {Missing, Invalid, File(TRUE, f1, 1, <<>>),
               File(TRUE, f2, 2, <<Rel(<<"fixture">>)>>)}

DotContents == {File(TRUE, f1, 1, <<>>), File(TRUE, f1, 1, <<Rel(<<"fixture">>)>>)}

\* The directory the document is in, and the current directory.
Subdirectory == Rel(<<"suites">>)
CurrentDirectory == Rel(<<>>)

Suite(paths, library) ==
    [name |-> "suite", base |-> Base, loads |-> TRUE, ok |-> TRUE,
     paths |-> paths, library |-> library, source |-> "none"]

OneScenario(source, library) ==
    [Suite(<<PathA>>, library) EXCEPT !.name = "scenario", !.source = source]

MCCommands ==
    {Suite(<<PathA, PathB>>, library) : library \in BOOLEAN} \cup
    {OneScenario(source, TRUE) : source \in {"none", "broken", f1}} \cup
    {Suite(paths, TRUE) : paths \in {
        <<>>, <<PathA, Rel(<<".", "a">>)>>, <<PathA, Rel(<<"..", "a">>)>>,
        <<PathA, PathB, PathA>>}} \cup
    {[Suite(<<PathA>>, TRUE) EXCEPT !.loads = FALSE],
     [Suite(<<PathA>>, TRUE) EXCEPT !.ok = FALSE]}

DotCommands == {Suite(<<PathA, PathB>>, FALSE), OneScenario("none", FALSE)}

-----------------------------------------------------------------------------
\* A suite of valid scenarios.
BeginCrossReference ==
    /\ VBegin
    /\ cmd' = Suite(<<PathA, PathB>>, TRUE)
    /\ \A n \in MCNames : files'[n].ok

ReadersInit == ListingInit /\ VInit /\ reader \in {"list", "library", "documents"}

ReadersSpec ==
    ReadersInit /\ [][/\ \/ reader = "list" /\ ListingNext /\ UNCHANGED vVars
                         \/ /\ reader = "library"
                            /\ VNext \/ LibraryMoves
                            /\ VBegin => BeginCrossReference
                            /\ UNCHANGED lsVars
                         \/ /\ reader = "documents"
                            /\ VNext \/ Cancel \/ EditScenario
                            /\ UNCHANGED lsVars
                      /\ UNCHANGED reader]_<<allVars, vVars, reader>>

\* The documents alone, which nobody edits.
DocumentsSpec ==
    /\ ReadersInit /\ reader = "documents"
    /\ [][(VNext \/ Cancel) /\ UNCHANGED <<lsVars, reader>>]_<<allVars, vVars, reader>>
=============================================================================
