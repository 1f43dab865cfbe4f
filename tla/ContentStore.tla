---------------------------- MODULE ContentStore ----------------------------
(***************************************************************************)
(* What the evidence store promises: contents, named by their digest, that *)
(* are never changed and never leave, and an acknowledgement only for what *)
(* is there.                                                               *)
(***************************************************************************)
CONSTANT Contents

VARIABLES
    stored,     \* contents that can be retrieved by digest
    acked       \* contents a caller was told are stored

Init == stored = {} /\ acked = {}

Store(d) == stored' = stored \cup {d} /\ UNCHANGED acked

Acknowledge(d) ==
    /\ d \in stored
    /\ acked' = acked \cup {d}
    /\ UNCHANGED stored

Next == \E d \in Contents : Store(d) \/ Acknowledge(d)

Spec == Init /\ [][Next]_<<stored, acked>>

=============================================================================
