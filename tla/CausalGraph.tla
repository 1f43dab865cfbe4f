---------------------------- MODULE CausalGraph ----------------------------
(***************************************************************************)
(* The causal part of an incident document, as internal/validate and       *)
(* internal/fingerprint read it: a sequence of events, each with an id and *)
(* the ids of the events that caused it.  Acyclicity is stated by a        *)
(* ranking of the ids, independently of the depth-first search that        *)
(* looks for a cycle.                                                      *)
(***************************************************************************)
EXTENDS Integers, Sequences, SequencesExt

CONSTANTS
    Ids,   \* non-empty event ids
    NoId   \* the empty id

ASSUME NoIdAssumption == NoId \notin Ids

Declared(events) == { events[i].id : i \in DOMAIN events } \ {NoId}

(* The maps byID and typeByID are filled in file order: of two events with *)
(* one id the last one stays.                                              *)
ById(events) ==
    [id \in Declared(events) |->
        events[SelectLastInSeq(events, LAMBDA e : e.id = id)]]

(* The edges of the graph: from an event to each declared cause of it.     *)
CausesOf(events, id) == ToSet(ById(events)[id].causedBy) \cap Declared(events)

Acyclic(events) ==
    \E rank \in [Declared(events) -> 1..Len(events)] :
        \A id \in Declared(events) :
            \A cause \in CausesOf(events, id) : rank[cause] < rank[id]

(* What a document must satisfy for validation to accept its events.       *)
WellFormed(events) ==
    /\ \A i \in DOMAIN events : events[i].id # NoId
    /\ \A i, j \in DOMAIN events : events[i].id = events[j].id => i = j
    /\ \A i \in DOMAIN events : ToSet(events[i].causedBy) \subseteq Declared(events)
    /\ Acyclic(events)
=============================================================================
