----------------------------- MODULE MCEvidence -----------------------------
(***************************************************************************)
(* Evidence of at most one chunk.  An edit between the versions x and yx   *)
(* can make a read return y, which no version holds, or exceed the limit.  *)
(***************************************************************************)
EXTENDS EvidenceStore, TLC

CONSTANTS x, y

TornVersions == {<<x>>, <<y, x>>}
\* Removed, replaced by a link, grown beyond MaxObjectSize.
SomeDamages == {Absent, Irregular, Regular(<<y, x>>)}

\* One digest twice, two digests together beyond MaxTotalBytes, one entry
\* too many.
SomeDocuments == {<<<<x>>, <<x>>>>, <<<<y>>, <<x>>>>, <<<<x>>, <<x>>, <<x>>>>}
=============================================================================
