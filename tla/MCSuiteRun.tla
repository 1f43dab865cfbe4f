----------------------------- MODULE MCSuiteRun -----------------------------
(***************************************************************************)
(* Three scenarios, the second with workspace_files, whose timeouts fit in *)
(* MaxTotal only as long as nobody edits them.                             *)
(***************************************************************************)
EXTENDS SuiteRun

Second == {2}
OneOrTwo == {1, 2}
SomeRoots == {"notGiven", "absent", "occupied"}
=============================================================================
