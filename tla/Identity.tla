------------------------------ MODULE Identity ------------------------------
(***************************************************************************)
(* The identity of an incident: internal/fingerprint (what is hashed) and  *)
(* internal/compare (how two documents are told apart), over a valid       *)
(* document `a` and a copy `b` of it that an author keeps editing.  The    *)
(* hash is taken to be injective, so a fingerprint is its payload.         *)
(*                                                                         *)
(* A list that the code treats as a set (preconditions, invariants, side   *)
(* effects, corrected behaviour, technology categories) is lists[d] of the *)
(* dimension d that reports it; a type is the sequence of its tokens,      *)
(* because the summary of the causal structure concatenates types.         *)
(***************************************************************************)
EXTENDS CausalGraph, FiniteSets

CONSTANTS
    Dimensions,  \* the dimensions that hold a list, "trigger" among them
    Values,      \* the entries of a list
    TypeOrder,   \* the event types, each a sequence of tokens, as sort.Strings orders them
    Originals,   \* the documents the author starts from
    MaxEvents, MaxCauses, MaxList,  \* bounds: lengths of the parts of a document
    MaxEdits     \* bound: edits the author makes

Types == ToSet(TypeOrder)

ASSUME DimensionsAssumption == "trigger" \in Dimensions

ASSUME TypeOrderAssumption ==
    /\ TypeOrder \in Seq(Types)
    /\ \A type \in Types : type \in Seq(ToSet(type))

VARIABLES
    a, b,     \* the two documents
    edit,     \* how the last edit counts: "none", "cosmetic" or "material"
    changed,  \* some edit so far was material
    edits     \* number of edits so far

vars == <<a, b, edit, changed, edits>>

Event == [id : Ids, type : Types, causedBy : Seq(Ids)]
Document ==
    [trigger : BOOLEAN,    \* trigger.type and trigger.description
     lists   : [Dimensions -> Seq(Values)],
     events  : Seq(Event),
     record  : BOOLEAN]    \* every field that is excluded from the identity

ASSUME OriginalsAssumption ==
    \A doc \in Originals : doc \in Document /\ WellFormed(doc.events)

DocumentsOK ==
    /\ a \in Originals /\ b \in Document
    /\ Len(b.events) <= MaxEvents
    /\ edit \in {"none", "cosmetic", "material"}
    /\ changed \in BOOLEAN
    /\ edits \in 0..MaxEdits

-----------------------------------------------------------------------------
(* fingerprint.Compute.                                                    *)

(* The types of the causes of an event, through typeByID; an id that names *)
(* no event is skipped.                                                    *)
CauseTypeSeq(events, e) ==
    [n \in 1..Len(e.causedBy) |-> ById(events)[e.causedBy[n]].type]

EventIdentity(events, e) ==
    [type |-> e.type, causes |-> ToSet(CauseTypeSeq(events, e))]

\* Mutant: the loop that drops duplicates starts at the second entry
BugDedupeSorted(list) == { list[i] : i \in 2..Len(list) }
DedupeSorted(list) == ToSet(list)

\* Mutant: of the trigger only the preconditions are kept
BugIdentityPayload(doc) ==
    [trigger |-> FALSE,
     lists   |-> [d \in Dimensions |-> DedupeSorted(doc.lists[d])],
     events  |-> [i \in DOMAIN doc.events |-> EventIdentity(doc.events, doc.events[i])]]
IdentityPayload(doc) ==
    [trigger |-> doc.trigger,
     lists   |-> [d \in Dimensions |-> DedupeSorted(doc.lists[d])],
     events  |-> [i \in DOMAIN doc.events |-> EventIdentity(doc.events, doc.events[i])]]

Payload ==
    [trigger : BOOLEAN,
     lists   : [Dimensions -> SUBSET Values],
     events  : Seq([type : Types, causes : SUBSET Types])]

TypeOK == DocumentsOK /\ IdentityPayload(a) \in Payload /\ IdentityPayload(b) \in Payload

Identical == IdentityPayload(a) = IdentityPayload(b)

-----------------------------------------------------------------------------
(* compare.Documents: the differences named for two documents that are not *)
(* identical.  sortedCopy keeps duplicates: two lists differ as bags.      *)

Occurrences(list, x) == Cardinality({ i \in DOMAIN list : list[i] = x })

SameSorted(s, t) == \A v \in Values : Occurrences(s, v) = Occurrences(t, v)

SortedTypes(types) ==
    FlattenSeq([n \in DOMAIN TypeOrder |->
        [k \in 1..Occurrences(types, TypeOrder[n]) |-> TypeOrder[n]]])

Joined(types, separator) ==
    FlattenSeq([n \in DOMAIN types |->
        IF n = 1 THEN types[n] ELSE separator \o types[n]])

\* Mutant: the summary leaves the causes out
BugEventSummary(events, e) == e.type
EventSummary(events, e) ==
    LET causes == SortedTypes(CauseTypeSeq(events, e))
    IN  IF causes = <<>> THEN e.type
        ELSE e.type \o <<"<-[">> \o Joined(causes, <<", ">>) \o <<"]">>

EventStructureSignature(events) ==
    Joined([i \in DOMAIN events |-> EventSummary(events, events[i])], <<" | ">>)

DiffDimensions ==
    { d \in Dimensions :
        \/ ~SameSorted(a.lists[d], b.lists[d])
        \/ d = "trigger" /\ a.trigger # b.trigger }
    \cup (IF EventStructureSignature(a.events) # EventStructureSignature(b.events)
          THEN {"causal event structure"} ELSE {})

Differences == IF Identical THEN {} ELSE DiffDimensions

-----------------------------------------------------------------------------
(* The author's edits, each leaving a valid document, counted as the docs  *)
(* count them: cosmetic when the failure pattern is the same afterwards.   *)

Init ==
    /\ a \in Originals /\ b = a
    /\ edit = "none" /\ changed = FALSE /\ edits = 0

Edit(doc, cosmetic) ==
    /\ edits < MaxEdits
    /\ b' = doc
    /\ edit' = IF cosmetic THEN "cosmetic" ELSE "material"
    /\ changed' = (changed \/ ~cosmetic)
    /\ edits' = edits + 1
    /\ UNCHANGED a

EditEvents(events, cosmetic) ==
    Edit([b EXCEPT !.events = events], cosmetic) /\ WellFormed(events)

EditList(d, list, cosmetic) == Edit([b EXCEPT !.lists[d] = list], cosmetic)

Swapped(seq, i) == [seq EXCEPT ![i] = seq[i + 1], ![i + 1] = seq[i]]

(* Title, timestamps, application, descriptions, evidence, privacy.        *)
RewordRecord == Edit([b EXCEPT !.record = ~@], TRUE)

RewordTrigger == Edit([b EXCEPT !.trigger = ~@], FALSE)

ReorderList(d) ==
    \E i \in 1..(Len(b.lists[d]) - 1) : EditList(d, Swapped(b.lists[d], i), TRUE)

(* An entry listed again adds nothing to the set; a new one does.          *)
AddEntry(d) ==
    \E v \in Values :
        /\ Len(b.lists[d]) < MaxList
        /\ EditList(d, Append(b.lists[d], v), v \in ToSet(b.lists[d]))

(* Validation wants an invariant and a corrected behaviour to be listed;   *)
(* the preconditions of the trigger may be empty.                          *)
RemoveEntry(d) ==
    \E i \in DOMAIN b.lists[d] :
        /\ d = "trigger" \/ Len(b.lists[d]) > 1
        /\ EditList(d, RemoveAt(b.lists[d], i),
                    \E j \in DOMAIN b.lists[d] : j # i /\ b.lists[d][j] = b.lists[d][i])

RenameEvent ==
    \E i \in DOMAIN b.events, id \in Ids \ Declared(b.events) :
        LET Renamed(old) == IF old = b.events[i].id THEN id ELSE old
        IN  EditEvents([j \in DOMAIN b.events |->
                [id       |-> Renamed(b.events[j].id),
                 type     |-> b.events[j].type,
                 causedBy |-> [n \in DOMAIN b.events[j].causedBy |->
                                  Renamed(b.events[j].causedBy[n])]]], TRUE)

RetypeEvent ==
    \E i \in DOMAIN b.events : \E t \in Types \ {b.events[i].type} :
        EditEvents([b.events EXCEPT ![i].type = t], FALSE)

AppendEvent ==
    \E id \in Ids \ Declared(b.events), t \in Types :
        /\ Len(b.events) < MaxEvents
        /\ EditEvents(Append(b.events, [id |-> id, type |-> t, causedBy |-> <<>>]), FALSE)

RemoveEvent ==
    \E i \in DOMAIN b.events : EditEvents(RemoveAt(b.events, i), FALSE)

ReorderCauses ==
    \E i \in DOMAIN b.events : \E n \in 1..(Len(b.events[i].causedBy) - 1) :
        EditEvents([b.events EXCEPT ![i].causedBy = Swapped(@, n)], TRUE)

(* Whether some cause of event i, other than its n-th, has the type t.     *)
HasOtherCauseOfType(i, n, t) ==
    \E m \in DOMAIN b.events[i].causedBy \ {n} : \E e \in ToSet(b.events) :
        e.id = b.events[i].causedBy[m] /\ e.type = t

(* A causal edge between types that no edge of the event had, or the last  *)
(* such edge, is a different mechanism; one more or one less is not.       *)
AddCause ==
    \E i \in DOMAIN b.events, e \in ToSet(b.events) :
        /\ Len(b.events[i].causedBy) < MaxCauses
        /\ EditEvents([b.events EXCEPT ![i].causedBy = Append(@, e.id)],
                      HasOtherCauseOfType(i, 0, e.type))

RemoveCause ==
    \E i \in DOMAIN b.events : \E n \in DOMAIN b.events[i].causedBy :
        \E e \in ToSet(b.events) :
            /\ e.id = b.events[i].causedBy[n]
            /\ EditEvents([b.events EXCEPT ![i].causedBy = RemoveAt(@, n)],
                          HasOtherCauseOfType(i, n, e.type))

(* The order of the events is signal, unless the two differ in type alone  *)
(* neither by their own nor by their causes'.                              *)
ReorderEvents ==
    \E i \in 1..(Len(b.events) - 1) :
        LET e == b.events[i]
            f == b.events[i + 1]
            HasCauseOfType(g, t) ==
                \E h \in ToSet(b.events) : h.id \in ToSet(g.causedBy) /\ h.type = t
        IN  EditEvents(Swapped(b.events, i),
                /\ e.type = f.type
                /\ \A t \in Types : HasCauseOfType(e, t) <=> HasCauseOfType(f, t))

Next ==
    \/ RewordRecord \/ RewordTrigger
    \/ \E d \in Dimensions : ReorderList(d) \/ AddEntry(d) \/ RemoveEntry(d)
    \/ RenameEvent \/ RetypeEvent \/ AppendEvent \/ RemoveEvent
    \/ ReorderEvents \/ ReorderCauses \/ AddCause \/ RemoveCause

Spec == Init /\ [][Next]_vars

-----------------------------------------------------------------------------
(* Any number of cosmetic edits leaves the fingerprint what it was: events *)
(* renamed with their references, lists reordered or repeated, one more    *)
(* cause of a type an event already had.                                   *)
CosmeticEditsKeepIdentity == ~changed => Identical

(* Every material edit changes the fingerprint, whatever was edited before *)
(* it: no dimension hides behind another.                                  *)
MaterialEditIsNoticed ==
    [][edit' = "material" => IdentityPayload(b') # IdentityPayload(b)]_vars

(* No type is empty or contains a separator of the summary.  Validation     *)
(* does not ask for it.                                                    *)
PlainTypes ==
    \A type \in Types :
        type # <<>> /\ ToSet(type) \cap {" | ", ", ", "<-["} = {}

(* Two documents that are not identical are told apart by some dimension:  *)
(* `compare` explains the difference it reports.                           *)
DifferenceIsExplained == ~Identical => Differences # {}

(* A dimension that is named differs between the two identities.           *)
NamedDimensionDiffers ==
    \A d \in Differences \ {"causal event structure"} :
        \/ DedupeSorted(a.lists[d]) # DedupeSorted(b.lists[d])
        \/ d = "trigger" /\ a.trigger # b.trigger
=============================================================================
