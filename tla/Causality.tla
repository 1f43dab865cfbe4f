----------------------------- MODULE Causality -----------------------------
(***************************************************************************)
(* internal/validate/validate.go, checkEventsAndCausality and findCycle:   *)
(* the pass over event ids, the pass over dangling causes, and the         *)
(* depth-first search, one step per iteration and per call of visit.  A    *)
(* frame of the recursion is the id being visited and the index of the     *)
(* cause it looks at next; the code's `path` is the ids of the frames.     *)
(* The command's context may expire at any moment: only the first pass     *)
(* looks at it.                                                            *)
(***************************************************************************)
EXTENDS CausalGraph

CONSTANTS
    MaxEvents,  \* bound: events in a document
    MaxCauses   \* bound: causes listed by one event

ASSUME CausalityAssumption == MaxEvents \in Nat /\ MaxCauses \in Nat

VARIABLES
    events,   \* doc.Events
    expired,  \* ctx.Err() # nil
    pc,       \* "ids", "dangling", "search" or "end"
    i,        \* index of the loop that runs
    seen,     \* the ids seen, the result of the pass
    issues,   \* kinds of issue added to the result
    state,    \* unvisited, visiting or done, per declared id
    frames,   \* the recursion stack of visit
    cycle     \* the path findCycle returns, <<>> for nil

vars == <<events, expired, pc, i, seen, issues, state, frames, cycle>>

Event == [id : Ids \cup {NoId}, causedBy : BoundedSeq(Ids, MaxCauses)]
Frame == [id : Ids, next : 1..(MaxCauses + 1)]
Issue == {"empty id", "duplicate id", "dangling cause", "cycle", "aborted"}

TypeOK ==
    /\ events \in Seq(Event) /\ Len(events) <= MaxEvents
    /\ expired \in BOOLEAN
    /\ pc \in {"ids", "dangling", "search", "end"}
    /\ i \in 1..(MaxEvents + 1)
    /\ seen \subseteq Declared(events)
    /\ issues \subseteq Issue
    /\ state \in [Declared(events) -> {"unvisited", "visiting", "done"}]
    /\ frames \in Seq(Frame)
    /\ cycle \in Seq(Ids)

Init ==
    /\ \E n \in 0..MaxEvents : events \in [1..n -> Event]
    /\ expired = FALSE /\ pc = "ids" /\ i = 1
    /\ seen = {} /\ issues = {}
    /\ state = [id \in Declared(events) |-> "unvisited"]
    /\ frames = <<>> /\ cycle = <<>>

-----------------------------------------------------------------------------
(* The two passes.                                                         *)

\* Mutant: the id pass forgets to test for a duplicate
BugIdIssue(id) == IF id = NoId THEN {"empty id"} ELSE {}

IdIssue(id) ==
    CASE id = NoId   -> {"empty id"}
      [] id \in seen -> {"duplicate id"}
      [] OTHER       -> {}

CheckId ==
    /\ pc = "ids" /\ i <= Len(events) /\ ~expired
    /\ issues' = issues \cup IdIssue(events[i].id)
    /\ seen' = seen \cup ({events[i].id} \ {NoId})
    /\ i' = i + 1
    /\ UNCHANGED <<events, expired, pc, state, frames, cycle>>

AbortIds ==
    /\ pc = "ids" /\ i <= Len(events) /\ expired
    /\ issues' = issues \cup {"aborted"}
    /\ pc' = "end"
    /\ UNCHANGED <<events, expired, i, seen, state, frames, cycle>>

IdsChecked ==
    /\ pc = "ids" /\ i > Len(events)
    /\ pc' = "dangling"
    /\ UNCHANGED <<events, expired, i, seen, issues, state, frames, cycle>>

Dangling == \E e \in ToSet(events) : ~(ToSet(e.causedBy) \subseteq seen)

CheckDangling ==
    /\ pc = "dangling"
    /\ issues' = issues \cup (IF Dangling THEN {"dangling cause"} ELSE {})
    /\ pc' = "search" /\ i' = 1
    /\ UNCHANGED <<events, expired, seen, state, frames, cycle>>

-----------------------------------------------------------------------------
(* findCycle.                                                              *)

path == [n \in DOMAIN frames |-> frames[n].id]
Current == frames[Len(frames)]
Causes == ById(events)[Current.id].causedBy
Cause == Causes[Current.next]
Searching == pc = "search" /\ frames # <<>>
HasCause == Searching /\ Current.next <= Len(Causes)

(* The frames after the current one has looked at its next cause.          *)
Advanced == [frames EXCEPT ![Len(frames)].next = @ + 1]

(* visit on an unvisited id.                                               *)
Push(stack, id) ==
    /\ frames' = Append(stack, [id |-> id, next |-> 1])
    /\ state' = [state EXCEPT ![id] = "visiting"]

IsRoot(id) == id # NoId /\ state[id] # "done"

VisitRoot ==
    /\ pc = "search" /\ frames = <<>> /\ i <= Len(events)
    /\ IsRoot(events[i].id)
    /\ Push(<<>>, events[i].id)
    /\ UNCHANGED <<events, expired, pc, i, seen, issues, cycle>>

SkipRoot ==
    /\ pc = "search" /\ frames = <<>> /\ i <= Len(events)
    /\ ~IsRoot(events[i].id)
    /\ i' = i + 1
    /\ UNCHANGED <<events, expired, pc, seen, issues, state, frames, cycle>>

(* A dangling cause is skipped; visit on a done id returns nil at once.    *)
Skipped(cause) == cause \in Declared(events) => state[cause] = "done"

SkipCause ==
    /\ HasCause /\ Skipped(Cause)
    /\ frames' = Advanced
    /\ UNCHANGED <<events, expired, pc, i, seen, issues, state, cycle>>

VisitCause ==
    /\ HasCause
    /\ Cause \in Declared(events) /\ state[Cause] = "unvisited"
    /\ Push(Advanced, Cause)
    /\ UNCHANGED <<events, expired, pc, i, seen, issues, cycle>>

\* Mutant: the whole path is reported, the way into the cycle included
BugCloseCycle ==
    /\ HasCause
    /\ Cause \in Declared(events) /\ state[Cause] = "visiting"
    /\ cycle' = Append(path, Cause)
    /\ issues' = issues \cup {"cycle"}
    /\ pc' = "end"
    /\ UNCHANGED <<events, expired, i, seen, state, frames>>

(* visit on an id that is being visited: the part of the path from its     *)
(* first occurrence, closed by the id; only the id, if it is not there.    *)
CloseCycle ==
    /\ HasCause
    /\ Cause \in Declared(events) /\ state[Cause] = "visiting"
    /\ cycle' = IF Contains(path, Cause)
                THEN Append(SubSeq(path, SelectInSeq(path, LAMBDA p : p = Cause), Len(path)),
                            Cause)
                ELSE <<Cause>>
    /\ issues' = issues \cup {"cycle"}
    /\ pc' = "end"
    /\ UNCHANGED <<events, expired, i, seen, state, frames>>

\* Mutant: a visited id is left without being marked done
BugLeave ==
    /\ Searching /\ ~HasCause
    /\ frames' = Front(frames)
    /\ UNCHANGED <<events, expired, pc, i, seen, issues, state, cycle>>

Leave ==
    /\ Searching /\ ~HasCause
    /\ state' = [state EXCEPT ![Current.id] = "done"]
    /\ frames' = Front(frames)
    /\ UNCHANGED <<events, expired, pc, i, seen, issues, cycle>>

NoCycle ==
    /\ pc = "search" /\ frames = <<>> /\ i > Len(events)
    /\ pc' = "end"
    /\ UNCHANGED <<events, expired, i, seen, issues, state, frames, cycle>>

(* The 30 s timeout of the command, or a signal.                           *)
Expire ==
    /\ ~expired /\ pc # "end"
    /\ expired' = TRUE
    /\ UNCHANGED <<events, pc, i, seen, issues, state, frames, cycle>>

Check ==
    \/ CheckId \/ AbortIds \/ IdsChecked \/ CheckDangling
    \/ VisitRoot \/ SkipRoot \/ SkipCause \/ VisitCause \/ CloseCycle
    \/ Leave \/ NoCycle

Next == Check \/ Expire

Spec == Init /\ [][Next]_vars

-----------------------------------------------------------------------------
(* A document whose events raise no issue is well formed: ids present and  *)
(* unique, every cause declared, and a ranking of the events exists in     *)
(* which every cause comes before its effect -- whatever the order of the  *)
(* events in the file and whenever the context expired.                    *)
AcceptedIsWellFormed == pc = "end" /\ issues = {} => WellFormed(events)

(* A well-formed document is refused only because the context expired: the *)
(* search never takes two paths that meet again for a cycle.               *)
WellFormedIsAccepted ==
    pc = "end" /\ WellFormed(events) => issues \subseteq {"aborted"}

(* The reported path is a cycle of the graph: every id on it is caused by  *)
(* the next, it ends where it starts, and nothing on it repeats otherwise, *)
(* whichever ids are duplicated or missing.                                *)
ReportedCycleIsReal ==
    "cycle" \in issues =>
        /\ Len(cycle) >= 2 /\ cycle[1] = cycle[Len(cycle)]
        /\ IsInjective(Front(cycle))
        /\ \A n \in 1..(Len(cycle) - 1) : cycle[n + 1] \in CausesOf(events, cycle[n])

(* The recursion is bounded by the number of declared ids, and what is     *)
(* being visited is exactly the path, so no id is pushed twice.            *)
PathIsWhatIsVisited ==
    /\ IsInjective(path)
    /\ ToSet(path) = { id \in DOMAIN state : state[id] = "visiting" }

=============================================================================
