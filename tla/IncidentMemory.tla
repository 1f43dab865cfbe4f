---------------------------- MODULE IncidentMemory ----------------------------
(***************************************************************************)
(* What the incident library promises a caller: a memory of incident       *)
(* documents grouped by fingerprint.  A document enters its group once, at *)
(* most one per incident.id and at most MaxOccurrences per group, nothing  *)
(* ever leaves, and only members are acknowledged.                         *)
(***************************************************************************)
EXTENDS Integers, FiniteSets

CONSTANTS Docs, Fps, FpOf, IdOf, MaxOccurrences

VARIABLES
    members,    \* documents remembered under each fingerprint
    acked       \* documents a caller was told are remembered

memVars == <<members, acked>>

Init ==
    /\ members = [f \in Fps |-> {}]
    /\ acked = {}

Insert(d) ==
    /\ \A e \in members[FpOf[d]] : IdOf[e] # IdOf[d]
    /\ Cardinality(members[FpOf[d]]) < MaxOccurrences
    /\ members' = [members EXCEPT ![FpOf[d]] = @ \cup {d}]
    /\ UNCHANGED acked

Acknowledge(d) ==
    /\ d \in members[FpOf[d]]
    /\ acked' = acked \cup {d}
    /\ UNCHANGED members

Next == \E d \in Docs : Insert(d) \/ Acknowledge(d)

Spec == Init /\ [][Next]_memVars

=============================================================================
