--------------------------- MODULE MCLibrarySerial ---------------------------
(***************************************************************************)
(* One add at a time on a fingerprint: a behaviour has one class of three  *)
(* incidents, one add, one check and a second actor, or three classes of   *)
(* one incident each and two adds that race for the last fingerprint that  *)
(* the library will hold.                                                  *)
(***************************************************************************)
EXTENDS MCLibrary

CONSTANTS f3, a1, a2

VARIABLE classes    \* "one" or "three"

ThreeFps == {f1, f2, f3}
SerialDocs == {d1, d2, d3, d1x, d1y}
SerialIdOf == [d \in SerialDocs |-> Incident(d)]
SerialFpOf == [d \in SerialDocs |-> CASE d = d1x -> f3 [] d = d1y -> f2 [] OTHER -> f1]

SerialInit == Init /\ classes \in {"one", "three"}

AddOf(p, documents) ==
    \/ \E d \in documents, a \in BOOLEAN : Begin(p, d, a)
    \/ AddStep(p) \/ AddFails(p) \/ AddKilled(p)

OneClass ==
    /\ classes = "one"
    /\ \/ AddOf(a1, ClassDocs)
       \/ \E c \in Checkers : CkBegin(c, f1) \/ CkStep(c) \/ CkFails(c)
       \/ Tamper

ThreeClasses ==
    /\ classes = "three"
    /\ \E p \in {a1, a2} : AddOf(p, {d1, d1x, d1y})
    /\ Exclusive'

SerialStep == (OneClass \/ ThreeClasses) /\ UNCHANGED classes

ModesSpec == SerialInit /\ [][SerialStep]_<<vars, classes>>
=============================================================================
