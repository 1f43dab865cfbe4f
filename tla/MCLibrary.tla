------------------------------ MODULE MCLibrary ------------------------------
(***************************************************************************)
(* Small libraries for TLC.  d1 and d1x are two versions of one incident   *)
(* with the same fingerprint; d1y is a version changed so that its         *)
(* fingerprint changed; d1, d2 and d3 are three incidents of one failure   *)
(* class.                                                                  *)
(***************************************************************************)
EXTENDS Library

CONSTANTS d1, d1x, d1y, d2, d3, f1, f2, i1, i2, i3

VersionDocs == {d1, d1x}
ForkDocs == {d1, d1y}
ClassDocs == {d1, d2, d3}
OneFp == {f1}
TwoFps == {f1, f2}
OnlyD1 == {d1}

Fingerprint(d) == IF d = d1y THEN f2 ELSE f1
Incident(d) == CASE d = d2 -> i2 [] d = d3 -> i3 [] OTHER -> i1

VersionFpOf == [d \in VersionDocs |-> Fingerprint(d)]
VersionIdOf == [d \in VersionDocs |-> Incident(d)]
ForkFpOf == [d \in ForkDocs |-> Fingerprint(d)]
ForkIdOf == [d \in ForkDocs |-> Incident(d)]
ClassFpOf == [d \in ClassDocs |-> Fingerprint(d)]
ClassIdOf == [d \in ClassDocs |-> Incident(d)]
=============================================================================
