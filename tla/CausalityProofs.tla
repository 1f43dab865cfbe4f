--------------------------- MODULE CausalityProofs ---------------------------
(***************************************************************************)
(* Theorems about Causality, for documents with any number of events: what *)
(* the three passes and the depth-first search decide is what CausalGraph  *)
(* defines by the existence of a ranking.                                  *)
(***************************************************************************)
EXTENDS Causality, FoldProofs, FiniteSetTheorems, SequenceTheorems, TLAPS

Done == {id \in Declared(events) : state[id] = "done"}
Listed(id) == ById(events)[id].causedBy

Types ==
    /\ events \in Seq(Event) /\ Len(events) <= MaxEvents
    /\ pc \in {"ids", "dangling", "search", "end"}
    /\ i \in 1..(Len(events) + 1)
    /\ issues \subseteq Issue
    /\ state \in [Declared(events) -> {"unvisited", "visiting", "done"}]
    /\ frames \in Seq(Frame)
    /\ cycle \in Seq(Ids)

\* The events that the pass over the ids has been through.
SeenUpTo == IF pc = "ids" THEN i - 1 ELSE Len(events)

SeenInv ==
    "aborted" \notin issues =>
        /\ seen \subseteq Ids
        /\ \A id \in Ids : id \in seen <=> \E n \in 1..SeenUpTo : events[n].id = id

\* Issues that cannot be there yet.
IssueInv ==
    /\ pc # "end" => "aborted" \notin issues /\ "cycle" \notin issues
    /\ pc \in {"ids", "dangling"} => "dangling cause" \notin issues

\* What the absence of an issue says of the events.
CleanInv ==
    "aborted" \notin issues =>
        /\ "empty id" \notin issues => \A n \in 1..SeenUpTo : events[n].id # NoId
        /\ "empty id" \notin issues /\ "duplicate id" \notin issues =>
             \A m, n \in 1..SeenUpTo : events[m].id = events[n].id => m = n
        /\ pc \in {"search", "end"} /\ "dangling cause" \notin issues =>
             \A n \in DOMAIN events : ToSet(events[n].causedBy) \subseteq Declared(events)

\* What an issue says of the events.
BlameInv ==
    /\ "empty id" \in issues => \E n \in DOMAIN events : events[n].id = NoId
    /\ "duplicate id" \in issues =>
         \E m, n \in DOMAIN events : m # n /\ events[m].id = events[n].id
    /\ "dangling cause" \in issues =>
         \E n \in DOMAIN events : ~(ToSet(events[n].causedBy) \subseteq Declared(events))

PassInv == SeenInv /\ IssueInv /\ CleanInv /\ BlameInv

\* The stack of the search is a path of the graph, and what is being visited.
PathInv ==
    /\ pc \in {"ids", "dangling"} => frames = <<>> /\ Done = {}
    /\ \A n \in DOMAIN frames : frames[n].id \in Declared(events)
    /\ \A m, n \in DOMAIN frames : frames[m].id = frames[n].id => m = n
    /\ \A id \in Declared(events) :
         state[id] = "visiting" <=> \E n \in DOMAIN frames : frames[n].id = id
    /\ \A n \in 1..(Len(frames) - 1) :
         frames[n + 1].id \in CausesOf(events, frames[n].id)

\* Of an id on the stack, the causes looked at are done, but for the one that
\* is being visited.
LookedInv ==
    \A n \in DOMAIN frames : \A k \in 1..(frames[n].next - 1) :
        LET cause == Listed(frames[n].id)[k] IN
        /\ k \in DOMAIN Listed(frames[n].id)
        /\ cause \in Declared(events) =>
             \/ state[cause] = "done"
             \/ n + 1 \in DOMAIN frames /\ cause = frames[n + 1].id

Ranked(rank) ==
    /\ rank \in [Done -> 1..Cardinality(Done)]
    /\ \A id \in Done : \A cause \in CausesOf(events, id) :
         cause \in Done /\ rank[cause] < rank[id]

\* The order in which ids become done puts causes before their effects.
RankInv == \E rank : Ranked(rank)

\* The roots before i are done, and all ids are when the search found nothing.
RootInv ==
    /\ pc = "search" => \A n \in 1..(i - 1) : events[n].id \in Declared(events) => events[n].id \in Done
    /\ pc = "end" /\ issues \cap {"aborted", "cycle"} = {} => Done = Declared(events)

IInv ==
    /\ Types /\ PassInv
    /\ PathInv /\ LookedInv /\ RankInv /\ RootInv
    /\ ReportedCycleIsReal

-----------------------------------------------------------------------------
(* Documents                                                               *)

\* ById of a declared id is an event with that id.
LEMMA ByIdIsEvent ==
  ASSUME events \in Seq(Event), NEW id \in Declared(events)
  PROVE  \E n \in DOMAIN events : events[n].id = id /\ ById(events)[id] = events[n]
  <1> DEFINE I == {n \in 1..Len(events) : events[n].id = id}
  <1>1. Len(events) \in Nat /\ DOMAIN events = 1..Len(events)
    BY LenProperties
  <1>2. I # {} /\ I \in SUBSET (1..Len(events))
    BY <1>1 DEF Declared
  <1>3. Max(I) \in I
    BY <1>1, <1>2, MaxIsIn
  <1>4. ById(events)[id] = events[Max(I)]
    BY <1>2 DEF ById, SelectLastInSeq
  <1> QED
    BY <1>1, <1>3, <1>4

\* The causes that the search walks over.
LEMMA ListedCauses ==
  ASSUME events \in Seq(Event), NEW id \in Declared(events)
  PROVE  /\ id \in Ids
         /\ Listed(id) \in Seq(Ids)
         /\ Len(Listed(id)) \in Nat /\ Len(Listed(id)) <= MaxCauses
         /\ DOMAIN Listed(id) = 1..Len(Listed(id))
         /\ CausesOf(events, id) =
              {Listed(id)[k] : k \in DOMAIN Listed(id)} \cap Declared(events)
  <1>1. PICK n \in DOMAIN events : events[n].id = id /\ ById(events)[id] = events[n]
    BY ByIdIsEvent
  <1>2. events[n] \in Event
    BY LenProperties, ElementOfSeq
  <1>3. id \in Ids /\ Listed(id) \in BoundedSeq(Ids, MaxCauses)
    BY <1>1, <1>2 DEF Event, Listed, Declared
  <1>4. PICK k \in 0..MaxCauses : Listed(id) \in [1..k -> Ids]
    BY <1>3 DEF BoundedSeq, SeqOf
  <1>5. Listed(id) \in Seq(Ids) /\ k \in Nat /\ k <= MaxCauses
    BY <1>4, CausalityAssumption, SeqDef
  <1>6. Len(Listed(id)) = k
    BY <1>4, <1>5, LenProperties
  <1> QED
    BY <1>3, <1>4, <1>5, <1>6 DEF CausesOf, Listed, ToSet

\* No more ids are declared than there are events.
LEMMA DeclaredIsFinite ==
  ASSUME events \in Seq(Event)
  PROVE  IsFiniteSet(Declared(events)) /\ Cardinality(Declared(events)) <= Len(events)
  <1> DEFINE all == {events[n].id : n \in 1..Len(events)}
             f == [n \in 1..Len(events) |-> events[n].id]
  <1>1. Len(events) \in Nat /\ DOMAIN events = 1..Len(events)
    BY LenProperties
  <1>2. IsFiniteSet(1..Len(events)) /\ Cardinality(1..Len(events)) = Len(events)
    BY <1>1, FS_Interval
  <1>3. f \in Surjection(1..Len(events), all)
    <2>1. f \in [1..Len(events) -> all]
      OBVIOUS
    <2>2. \A x \in all : \E n \in 1..Len(events) : f[n] = x
      OBVIOUS
    <2> QED
      BY <2>1, <2>2 DEF Surjection
  <1>4. IsFiniteSet(all) /\ Cardinality(all) <= Len(events)
    BY <1>2, <1>3, FS_Surjection
  <1>5. Declared(events) \in SUBSET all
    BY <1>1 DEF Declared
  <1>6. /\ IsFiniteSet(Declared(events)) /\ Cardinality(Declared(events)) <= Cardinality(all)
        /\ Cardinality(all) \in Nat /\ Cardinality(Declared(events)) \in Nat
    BY <1>4, <1>5, FS_Subset, FS_CardinalityType
  <1> QED
    BY <1>1, <1>4, <1>6

-----------------------------------------------------------------------------
(* The stack                                                               *)

LEMMA Sizes ==
  ASSUME Types
  PROVE  /\ Len(events) \in Nat /\ DOMAIN events = 1..Len(events)
         /\ \A n \in DOMAIN events : events[n].id \in Ids \cup {NoId}
         /\ Len(frames) \in Nat /\ DOMAIN frames = 1..Len(frames)
         /\ frames # <<>> <=> Len(frames) > 0
         /\ \A n \in DOMAIN frames : frames[n] \in Frame
  <1>1. /\ Len(events) \in Nat /\ DOMAIN events = 1..Len(events)
        /\ \A n \in DOMAIN events : events[n] \in Event
    BY LenProperties, ElementOfSeq DEF Types
  <1>2. /\ Len(frames) \in Nat /\ DOMAIN frames = 1..Len(frames)
        /\ \A n \in DOMAIN frames : frames[n] \in Frame
    BY LenProperties, ElementOfSeq DEF Types
  <1>3. frames # <<>> <=> Len(frames) > 0
    BY <1>2, EmptySeq DEF Types
  <1> QED
    BY <1>1, <1>2, <1>3 DEF Event

\* The frame on top.
LEMMA Top ==
  ASSUME Types, PathInv, Searching
  PROVE  /\ Len(frames) \in DOMAIN frames /\ Len(frames) \in Nat /\ Len(frames) > 0
         /\ Current = frames[Len(frames)] /\ Current \in Frame
         /\ Current.id \in Declared(events) /\ Current.next \in Nat \ {0}
         /\ Causes = Listed(Current.id)
         /\ Len(Causes) \in Nat /\ DOMAIN Causes = 1..Len(Causes)
         /\ state[Current.id] = "visiting"
  <1>1. /\ Len(frames) \in DOMAIN frames /\ Len(frames) \in Nat /\ Len(frames) > 0
        /\ Current = frames[Len(frames)] /\ Current \in Frame
    BY Sizes DEF Searching, Current
  <1>2. Current.id \in Declared(events) /\ Causes = Listed(Current.id)
    BY <1>1 DEF PathInv, Causes, Listed
  <1>3. Current.next \in Nat \ {0}
    BY <1>1, CausalityAssumption DEF Frame
  <1>4. Len(Causes) \in Nat /\ DOMAIN Causes = 1..Len(Causes)
    BY <1>2, ListedCauses DEF Types
  <1>5. state[Current.id] = "visiting"
    BY <1>1, <1>2 DEF PathInv
  <1> QED
    BY <1>1, <1>2, <1>3, <1>4, <1>5

\* The cause that is looked at.
LEMMA TopCause ==
  ASSUME Types, PathInv, HasCause
  PROVE  /\ Current.next \in DOMAIN Listed(Current.id)
         /\ Cause = Listed(Current.id)[Current.next] /\ Cause \in Ids
         /\ Cause \in Declared(events) => Cause \in CausesOf(events, Current.id)
  <1>1. /\ Current.next \in DOMAIN Listed(Current.id)
        /\ Cause = Listed(Current.id)[Current.next]
    BY Top DEF HasCause, Cause
  <1>2. /\ Listed(Current.id) \in Seq(Ids)
        /\ CausesOf(events, Current.id) =
             {Listed(Current.id)[k] : k \in DOMAIN Listed(Current.id)} \cap Declared(events)
    BY Top, ListedCauses DEF HasCause, Types
  <1>3. Cause \in Ids
    BY <1>1, <1>2, LenProperties
  <1> QED
    BY <1>1, <1>2, <1>3

\* The stack after the top frame has moved on.
LEMMA AdvancedStack ==
  ASSUME Types, PathInv, HasCause
  PROVE  /\ Advanced \in Seq(Frame) /\ Len(Advanced) = Len(frames)
         /\ DOMAIN Advanced = DOMAIN frames
         /\ \A n \in DOMAIN frames :
              /\ Advanced[n].id = frames[n].id
              /\ n # Len(frames) => Advanced[n] = frames[n]
         /\ Advanced[Len(frames)].next = Current.next + 1
  <1> DEFINE top == [Current EXCEPT !.next = @ + 1]
  <1>1. /\ Len(frames) \in DOMAIN frames /\ Current = frames[Len(frames)]
        /\ Current \in Frame /\ Current.next \in Nat /\ Searching
    BY Top DEF HasCause
  <1>2. Current.next + 1 \in 1..(MaxCauses + 1)
    <2>1. /\ events \in Seq(Event) /\ Current.id \in Declared(events)
          /\ Causes = Listed(Current.id) /\ Current.next <= Len(Causes)
          /\ Current.next \in Nat \ {0}
      BY <1>1, Top DEF HasCause, Types
    <2>2. Len(Causes) \in Nat /\ Len(Causes) <= MaxCauses
      BY <2>1, ListedCauses
    <2> QED
      BY <2>1, <2>2, CausalityAssumption
  <1>3. top \in Frame /\ top.id = Current.id /\ top.next = Current.next + 1
    BY <1>1, <1>2 DEF Frame
  <1>4. Advanced = [frames EXCEPT ![Len(frames)] = top]
    BY <1>1 DEF Advanced
  <1> HIDE DEF top
  <1>5. Len(frames) \in 1..Len(frames) /\ DOMAIN frames = 1..Len(frames)
    BY <1>1, Sizes
  <1>6. /\ Advanced \in Seq(Frame) /\ Len(Advanced) = Len(frames)
        /\ \A n \in 1..Len(frames) :
             Advanced[n] = IF n = Len(frames) THEN top ELSE frames[n]
    BY <1>3, <1>4, <1>5, ExceptSeq DEF Types
  <1>7. DOMAIN Advanced = DOMAIN frames
    BY <1>5, <1>6, LenProperties
  <1> QED
    BY <1>1, <1>3, <1>5, <1>6, <1>7

\* visit on an unvisited id: the stack is still a path, of what is visited.
LEMMA PushKeeps ==
  ASSUME Types, PathInv, LookedInv, UNCHANGED <<events, pc>>, pc = "search",
         NEW stack \in Seq(Frame), Len(stack) = Len(frames),
         \A n \in DOMAIN frames : stack[n].id = frames[n].id,
         NEW id \in Declared(events), state[id] = "unvisited", Push(stack, id),
         Len(frames) > 0 => id \in CausesOf(events, stack[Len(frames)].id),
         \A n \in DOMAIN frames : \A k \in 1..(stack[n].next - 1) :
            LET cause == Listed(stack[n].id)[k] IN
            /\ k \in DOMAIN Listed(stack[n].id)
            /\ cause \in Declared(events) =>
                 \/ state[cause] = "done"
                 \/ n + 1 \in DOMAIN frames /\ cause = frames[n + 1].id
                 \/ n = Len(frames) /\ cause = id
  PROVE  /\ PathInv' /\ LookedInv'
         /\ frames' \in Seq(Frame)
         /\ state' \in [Declared(events) -> {"unvisited", "visiting", "done"}]
         /\ Done' = Done
  <1> DEFINE L == Len(frames)
             new == [id |-> id, next |-> 1]
  <1>0. L \in Nat /\ DOMAIN frames = 1..L
    BY Sizes
  <1>1. id \in Ids /\ new \in Frame /\ new.id = id /\ new.next = 1
    BY ListedCauses, CausalityAssumption DEF Frame, Types
  <1>2. /\ frames' \in Seq(Frame) /\ Len(frames') = L + 1
        /\ \A n \in 1..L : frames'[n] = stack[n]
        /\ frames'[L + 1] = new
    BY <1>1, AppendProperties DEF Push
  <1>3. DOMAIN frames' = 1..(L + 1)
    BY <1>2, LenProperties
  <1>4. /\ state' \in [Declared(events) -> {"unvisited", "visiting", "done"}]
        /\ state'[id] = "visiting"
        /\ \A x \in Declared(events) : x # id => state'[x] = state[x]
    BY DEF Push, Types
  <1> HIDE DEF L, new
  <1>5. /\ \A n \in 1..L : frames'[n].id = frames[n].id /\ frames[n].id # id
        /\ frames'[L + 1].id = id
    <2>1. \A n \in 1..L : frames[n].id \in Declared(events) /\ state[frames[n].id] = "visiting"
      BY <1>0 DEF PathInv
    <2> QED
      BY <1>0, <1>1, <1>2, <2>1
  <1>6. PathInv'
    <2>1. \A n \in DOMAIN frames' : frames'[n].id \in Declared(events)
      BY <1>0, <1>3, <1>5 DEF PathInv
    <2>2. \A m, n \in DOMAIN frames' : frames'[m].id = frames'[n].id => m = n
      BY <1>0, <1>3, <1>5 DEF PathInv
    <2>3. ASSUME NEW x \in Declared(events)
          PROVE  state'[x] = "visiting" <=> \E n \in DOMAIN frames' : frames'[n].id = x
      <3>1. CASE x = id
        BY <1>0, <1>3, <1>4, <1>5, <3>1
      <3>2. CASE x # id
        <4>1. (\E n \in DOMAIN frames' : frames'[n].id = x)
                 <=> \E n \in DOMAIN frames : frames[n].id = x
          BY <1>0, <1>3, <1>5, <3>2
        <4> QED
          BY <1>4, <3>2, <4>1 DEF PathInv
      <3> QED
        BY <3>1, <3>2
    <2>4. \A n \in 1..(Len(frames') - 1) : frames'[n + 1].id \in CausesOf(events, frames'[n].id)
      <3>0. Len(frames') - 1 = L
        BY <1>0, <1>2
      <3> SUFFICES ASSUME NEW n \in 1..L
                   PROVE  frames'[n + 1].id \in CausesOf(events, frames'[n].id)
        BY <3>0
      <3>1. CASE n = L
        BY <1>0, <1>2, <1>5, <3>1 DEF L
      <3>2. CASE n < L
        BY <1>0, <1>5, <3>2 DEF PathInv, L
      <3> QED
        BY <1>0, <3>1, <3>2
    <2> QED
      BY <1>2, <2>1, <2>2, <2>3, <2>4 DEF PathInv
  <1>7. LookedInv'
    <2> SUFFICES ASSUME NEW n \in DOMAIN frames', NEW k \in 1..(frames'[n].next - 1)
                 PROVE  LET cause == Listed(frames'[n].id)[k] IN
                        /\ k \in DOMAIN Listed(frames'[n].id)
                        /\ cause \in Declared(events) =>
                             \/ state'[cause] = "done"
                             \/ n + 1 \in DOMAIN frames' /\ cause = frames'[n + 1].id
      BY DEF LookedInv, Listed
    <2>1. n # L + 1
      BY <1>1, <1>2
    <2>2. n \in 1..L /\ frames'[n] = stack[n]
      BY <1>0, <1>2, <1>3, <2>1
    <2>3. n + 1 \in DOMAIN frames' /\ n \in DOMAIN frames
      BY <1>0, <1>3, <2>2
    <2>4. n + 1 \in DOMAIN frames => frames'[n + 1].id = frames[n + 1].id
      BY <1>0, <1>5
    <2> DEFINE cause == Listed(stack[n].id)[k]
    <2>5. /\ k \in DOMAIN Listed(stack[n].id)
          /\ cause \in Declared(events) =>
               \/ state[cause] = "done"
               \/ n + 1 \in DOMAIN frames /\ cause = frames[n + 1].id
               \/ n = Len(frames) /\ cause = id
      BY <2>2, <2>3
    <2> HIDE DEF cause
    <2>6. cause \in Declared(events) =>
            \/ state'[cause] = "done"
            \/ n + 1 \in DOMAIN frames' /\ cause = frames'[n + 1].id
      BY <1>4, <1>5, <2>3, <2>4, <2>5 DEF L
    <2> QED
      BY <2>2, <2>5, <2>6 DEF cause
  <1>8. Done' = Done
    BY <1>4 DEF Done
  <1> QED
    BY <1>2, <1>4, <1>6, <1>7, <1>8

-----------------------------------------------------------------------------
(* The search                                                              *)

\* Ids that are done, while no more become done, stay ranked.
LEMMA RankStays ==
  ASSUME RankInv, UNCHANGED events, Done' = Done
  PROVE  RankInv'
  <1>1. PICK rank : Ranked(rank)
    BY DEF RankInv
  <1>2. Ranked(rank)'
    BY <1>1 DEF Ranked
  <1> QED
    BY <1>2 DEF RankInv

\* What the search keeps, whatever step it takes.
SearchKept ==
    /\ PathInv' /\ LookedInv' /\ RankInv'
    /\ frames' \in Seq(Frame)
    /\ state' \in [Declared(events) -> {"unvisited", "visiting", "done"}]
    /\ Done \subseteq Done'

LEMMA VisitRootKeeps ==
  ASSUME Types, PathInv, LookedInv, RankInv, VisitRoot
  PROVE  SearchKept
  <1> DEFINE id == events[i].id
  <1>1. /\ pc = "search" /\ frames = <<>> /\ i \in DOMAIN events /\ IsRoot(id)
        /\ Push(frames, id) /\ UNCHANGED <<events, pc>>
    BY Sizes DEF VisitRoot, Types
  <1>2. Len(frames) = 0 /\ DOMAIN frames = {} /\ frames \in Seq(Frame)
    BY <1>1, Sizes DEF Types
  <1>3. id \in Declared(events)
    BY <1>1 DEF IsRoot, Declared
  <1>4. state[id] = "unvisited"
    BY <1>1, <1>2, <1>3 DEF IsRoot, PathInv, Types
  <1> HIDE DEF id
  <1>5. /\ PathInv' /\ LookedInv' /\ frames' \in Seq(Frame) /\ Done' = Done
        /\ state' \in [Declared(events) -> {"unvisited", "visiting", "done"}]
    <2>1. /\ \A n \in DOMAIN frames : frames[n].id = frames[n].id
          /\ Len(frames) > 0 => id \in CausesOf(events, frames[Len(frames)].id)
          /\ \A n \in DOMAIN frames : \A k \in 1..(frames[n].next - 1) :
                LET cause == Listed(frames[n].id)[k] IN
                /\ k \in DOMAIN Listed(frames[n].id)
                /\ cause \in Declared(events) =>
                     \/ state[cause] = "done"
                     \/ n + 1 \in DOMAIN frames /\ cause = frames[n + 1].id
                     \/ n = Len(frames) /\ cause = id
      BY <1>2
    <2> QED
      BY <1>1, <1>2, <1>3, <1>4, <2>1, PushKeeps
  <1> QED
    BY <1>1, <1>5, RankStays DEF SearchKept

LEMMA VisitCauseKeeps ==
  ASSUME Types, PathInv, LookedInv, RankInv, VisitCause
  PROVE  SearchKept
  <1>1. /\ HasCause /\ pc = "search" /\ Push(Advanced, Cause) /\ UNCHANGED <<events, pc>>
        /\ Cause \in Declared(events) /\ state[Cause] = "unvisited"
    BY DEF VisitCause, HasCause, Searching
  <1>2. /\ Advanced \in Seq(Frame) /\ Len(Advanced) = Len(frames)
        /\ \A n \in DOMAIN frames :
              /\ Advanced[n].id = frames[n].id
              /\ n # Len(frames) => Advanced[n] = frames[n]
        /\ Advanced[Len(frames)].next = Current.next + 1
    BY <1>1, AdvancedStack
  <1>3. /\ Len(frames) \in DOMAIN frames /\ Current = frames[Len(frames)]
        /\ Current.next \in Nat \ {0}
    BY <1>1, Top DEF HasCause
  <1>4. /\ Current.next \in DOMAIN Listed(Current.id)
        /\ Cause = Listed(Current.id)[Current.next]
        /\ Cause \in CausesOf(events, Current.id)
    BY <1>1, TopCause
  <1>5. Cause \in CausesOf(events, Advanced[Len(frames)].id)
    BY <1>2, <1>3, <1>4
  <1>6. ASSUME NEW n \in DOMAIN frames, NEW k \in 1..(Advanced[n].next - 1)
        PROVE  LET cause == Listed(Advanced[n].id)[k] IN
               /\ k \in DOMAIN Listed(Advanced[n].id)
               /\ cause \in Declared(events) =>
                    \/ state[cause] = "done"
                    \/ n + 1 \in DOMAIN frames /\ cause = frames[n + 1].id
                    \/ n = Len(frames) /\ cause = Cause
    <2>1. CASE n = Len(frames) /\ k = Current.next
      BY <1>2, <1>3, <1>4, <2>1
    <2>2. CASE ~(n = Len(frames) /\ k = Current.next)
      <3>1. k \in 1..(frames[n].next - 1)
        BY <1>2, <1>3, <1>6, <2>2
      <3>2. Advanced[n].id = frames[n].id
        BY <1>2
      <3> QED
        BY <3>1, <3>2 DEF LookedInv
    <2> QED
      BY <2>1, <2>2
  <1>7. /\ PathInv' /\ LookedInv' /\ frames' \in Seq(Frame) /\ Done' = Done
        /\ state' \in [Declared(events) -> {"unvisited", "visiting", "done"}]
    BY <1>1, <1>2, <1>5, <1>6, PushKeeps
  <1> QED
    BY <1>1, <1>7, RankStays DEF SearchKept

LEMMA SkipCauseKeeps ==
  ASSUME Types, PathInv, LookedInv, RankInv, SkipCause
  PROVE  SearchKept
  <1>1. /\ HasCause /\ Skipped(Cause) /\ frames' = Advanced /\ pc = "search"
        /\ UNCHANGED <<events, pc, state>>
    BY DEF SkipCause, HasCause, Searching
  <1>2. /\ frames' \in Seq(Frame) /\ Len(frames') = Len(frames)
        /\ DOMAIN frames' = DOMAIN frames
        /\ \A n \in DOMAIN frames :
              /\ frames'[n].id = frames[n].id
              /\ n # Len(frames) => frames'[n] = frames[n]
        /\ frames'[Len(frames)].next = Current.next + 1
    BY <1>1, AdvancedStack
  <1>3. /\ Len(frames) \in DOMAIN frames /\ Current = frames[Len(frames)]
        /\ Current.next \in Nat \ {0}
    BY <1>1, Top DEF HasCause
  <1>4. /\ Current.next \in DOMAIN Listed(Current.id)
        /\ Cause = Listed(Current.id)[Current.next]
    BY <1>1, TopCause
  <1>5. PathInv'
    <2>1. /\ \A n \in DOMAIN frames' : frames'[n].id \in Declared(events)
          /\ \A m, n \in DOMAIN frames' : frames'[m].id = frames'[n].id => m = n
      BY <1>2 DEF PathInv
    <2>2. \A id \in Declared(events) :
            state[id] = "visiting" <=> \E n \in DOMAIN frames' : frames'[n].id = id
      BY <1>2 DEF PathInv
    <2>3. \A n \in 1..(Len(frames') - 1) : frames'[n + 1].id \in CausesOf(events, frames'[n].id)
      <3> SUFFICES ASSUME NEW n \in 1..(Len(frames) - 1)
                   PROVE  frames'[n + 1].id \in CausesOf(events, frames'[n].id)
        BY <1>2
      <3>1. n \in DOMAIN frames /\ n + 1 \in DOMAIN frames
        BY Sizes
      <3> QED
        BY <1>2, <3>1 DEF PathInv
    <2> QED
      BY <1>1, <2>1, <2>2, <2>3 DEF PathInv
  <1>6. LookedInv'
    <2> SUFFICES ASSUME NEW n \in DOMAIN frames, NEW k \in 1..(frames'[n].next - 1)
                 PROVE  LET cause == Listed(frames'[n].id)[k] IN
                        /\ k \in DOMAIN Listed(frames'[n].id)
                        /\ cause \in Declared(events) =>
                             \/ state[cause] = "done"
                             \/ n + 1 \in DOMAIN frames /\ cause = frames'[n + 1].id
      BY <1>1, <1>2 DEF LookedInv, Listed
    <2>1. n + 1 \in DOMAIN frames => frames'[n + 1].id = frames[n + 1].id
      BY <1>2
    <2>2. CASE n = Len(frames) /\ k = Current.next
      BY <1>1, <1>2, <1>3, <1>4, <2>2 DEF Skipped
    <2>3. CASE ~(n = Len(frames) /\ k = Current.next)
      <3>1. k \in 1..(frames[n].next - 1)
        BY <1>2, <1>3, <2>3
      <3>2. frames'[n].id = frames[n].id
        BY <1>2
      <3> QED
        BY <2>1, <3>1, <3>2 DEF LookedInv
    <2> QED
      BY <2>2, <2>3
  <1>7. Done' = Done
    BY <1>1 DEF Done
  <1> QED
    BY <1>1, <1>2, <1>5, <1>6, <1>7, RankStays DEF SearchKept, Types

\* The id that is left is ranked above all ids that were done before it.
LEMMA LeaveKeeps ==
  ASSUME Types, PathInv, LookedInv, RankInv, Leave
  PROVE  SearchKept
  <1> DEFINE L == Len(frames)
             D == Declared(events)
             id == Current.id
  <1>1. /\ Searching /\ ~HasCause /\ pc = "search" /\ UNCHANGED <<events, pc>>
        /\ frames' = Front(frames) /\ state' = [state EXCEPT ![id] = "done"]
    BY DEF Leave, Searching
  <1>2. /\ L \in DOMAIN frames /\ L \in Nat /\ L > 0 /\ DOMAIN frames = 1..L
        /\ Current = frames[L] /\ id \in D /\ Current.next \in Nat \ {0}
        /\ state[id] = "visiting"
        /\ Causes = Listed(id) /\ Len(Causes) \in Nat /\ DOMAIN Causes = 1..Len(Causes)
    BY <1>1, Top, Sizes
  <1>3. /\ frames' \in Seq(Frame) /\ Len(frames') = L - 1
        /\ \A n \in 1..(L - 1) : frames'[n] = frames[n]
    <2>1. \A n \in 1..(L - 1) : frames[n] \in Frame
      BY <1>2, Sizes
    <2>2. /\ SubSeq(frames, 1, L - 1) \in Seq(Frame)
          /\ Len(SubSeq(frames, 1, L - 1)) = IF 1 <= L - 1 THEN L - 1 - 1 + 1 ELSE 0
          /\ \A n \in 1..(L - 1 - 1 + 1) : SubSeq(frames, 1, L - 1)[n] = frames[1 + n - 1]
      BY <1>2, <2>1, SubSeqProperties
    <2>3. frames' = SubSeq(frames, 1, L - 1)
      BY <1>1 DEF Front
    <2> QED
      BY <1>2, <2>2, <2>3
  <1>4. DOMAIN frames' = 1..(L - 1)
    BY <1>3, LenProperties
  <1>5. /\ state' \in [D -> {"unvisited", "visiting", "done"}]
        /\ state'[id] = "done"
        /\ \A x \in D : x # id => state'[x] = state[x]
        /\ Done' = Done \cup {id} /\ id \notin Done
    BY <1>1, <1>2 DEF Types, Done
  <1>6. \A cause \in CausesOf(events, id) : cause \in Done
    <2>0. CausesOf(events, id) = {Listed(id)[k] : k \in DOMAIN Listed(id)} \cap D
      BY <1>2, ListedCauses DEF Types
    <2> SUFFICES ASSUME NEW k \in DOMAIN Listed(id), Listed(id)[k] \in D
                 PROVE  Listed(id)[k] \in Done
      BY <2>0
    <2>1. k \in 1..(frames[L].next - 1)
      BY <1>1, <1>2 DEF HasCause
    <2>2. L + 1 \notin DOMAIN frames
      BY <1>2
    <2> QED
      BY <1>2, <2>1, <2>2 DEF LookedInv, Done
  <1> HIDE DEF L, D, id
  <1>7. PathInv'
    <2>0. \A n \in DOMAIN frames' : n \in DOMAIN frames /\ frames'[n] = frames[n]
      BY <1>2, <1>3, <1>4
    <2>1. /\ \A n \in DOMAIN frames' : frames'[n].id \in D
          /\ \A m, n \in DOMAIN frames' : frames'[m].id = frames'[n].id => m = n
      BY <2>0 DEF PathInv, D
    <2>2. ASSUME NEW x \in D
          PROVE  state'[x] = "visiting" <=> \E n \in DOMAIN frames' : frames'[n].id = x
      <3>1. CASE x = id
        <4>1. \A n \in DOMAIN frames' : frames'[n].id # id
          BY <1>2, <1>3, <1>4 DEF PathInv, id
        <4> QED
          BY <1>5, <3>1, <4>1
      <3>2. CASE x # id
        <4>1. (\E n \in DOMAIN frames' : frames'[n].id = x)
                 <=> \E n \in DOMAIN frames : frames[n].id = x
          BY <1>2, <1>3, <1>4, <3>2 DEF id
        <4> QED
          BY <1>5, <3>2, <4>1 DEF PathInv, D
      <3> QED
        BY <3>1, <3>2
    <2>3. \A n \in 1..(Len(frames') - 1) : frames'[n + 1].id \in CausesOf(events, frames'[n].id)
      <3> SUFFICES ASSUME NEW n \in 1..(L - 2)
                   PROVE  frames'[n + 1].id \in CausesOf(events, frames'[n].id)
        BY <1>2, <1>3
      <3>1. n \in 1..(L - 1) /\ n + 1 \in 1..(L - 1)
        BY <1>2
      <3> QED
        BY <1>3, <3>1 DEF PathInv, L
    <2> QED
      BY <1>1, <2>1, <2>2, <2>3 DEF PathInv, D
  <1>8. LookedInv'
    <2> SUFFICES ASSUME NEW n \in DOMAIN frames', NEW k \in 1..(frames'[n].next - 1)
                 PROVE  LET cause == Listed(frames'[n].id)[k] IN
                        /\ k \in DOMAIN Listed(frames'[n].id)
                        /\ cause \in D =>
                             \/ state'[cause] = "done"
                             \/ n + 1 \in DOMAIN frames' /\ cause = frames'[n + 1].id
      BY <1>1 DEF LookedInv, Listed, D
    <2> DEFINE cause == Listed(frames[n].id)[k]
    <2>1. n \in 1..(L - 1) /\ n \in DOMAIN frames /\ frames'[n] = frames[n]
      BY <1>2, <1>3, <1>4
    <2>2. /\ k \in DOMAIN Listed(frames[n].id)
          /\ cause \in D => \/ state[cause] = "done"
                            \/ n + 1 \in DOMAIN frames /\ cause = frames[n + 1].id
      <3>1. k \in 1..(frames[n].next - 1)
        BY <2>1
      <3> QED
        BY <2>1, <3>1 DEF LookedInv, D
    <2> HIDE DEF cause
    <2>3. n + 1 = L \/ n + 1 \in 1..(L - 1)
      BY <1>2, <2>1
    <2>4. cause \in D => \/ state'[cause] = "done"
                         \/ n + 1 \in 1..(L - 1) /\ cause = frames'[n + 1].id
      <3> SUFFICES ASSUME cause \in D, state'[cause] # "done"
                   PROVE  n + 1 \in 1..(L - 1) /\ cause = frames'[n + 1].id
        OBVIOUS
      <3>1. cause = frames[n + 1].id /\ cause # id
        BY <1>5, <2>2
      <3>2. n + 1 \in 1..(L - 1)
        BY <1>2, <2>3, <3>1 DEF id
      <3> QED
        BY <1>3, <3>1, <3>2
    <2> QED
      BY <1>4, <2>1, <2>2, <2>4 DEF cause
  <1>9. RankInv'
    <2>1. PICK rank : Ranked(rank)
      BY DEF RankInv
    <2>2. IsFiniteSet(Done) /\ Cardinality(Done) \in Nat
      <3>1. Done \in SUBSET Declared(events)
        BY DEF Done
      <3> QED
        BY <3>1, DeclaredIsFinite, FS_Subset, FS_CardinalityType DEF Types
    <2> DEFINE top == Cardinality(Done) + 1
               new == [x \in Done \cup {id} |-> IF x = id THEN top ELSE rank[x]]
    <2>3. Cardinality(Done') = top
      BY <1>5, <2>2, FS_AddElement
    <2>4. \A x \in Done : rank[x] \in 1..Cardinality(Done)
      BY <2>1 DEF Ranked
    <2>5. new \in [Done' -> 1..Cardinality(Done')]
      BY <1>5, <2>2, <2>3, <2>4
    <2>6. new[id] = top /\ \A x \in Done : new[x] = rank[x] /\ new[x] \in Nat /\ new[x] < top
      BY <1>5, <2>2, <2>4
    <2>7. ASSUME NEW x \in Done', NEW cause \in CausesOf(events, x)
          PROVE  cause \in Done' /\ new[cause] < new[x]
      <3>1. CASE x = id
        BY <1>5, <1>6, <2>6, <2>7, <3>1
      <3>2. CASE x # id
        <4>1. x \in Done
          BY <1>5, <2>7, <3>2
        <4>2. cause \in Done /\ rank[cause] < rank[x]
          BY <2>1, <2>7, <4>1 DEF Ranked
        <4> QED
          BY <1>5, <2>6, <4>1, <4>2
      <3> QED
        BY <3>1, <3>2
    <2> HIDE DEF new
    <2>8. \E r : /\ r \in [Done' -> 1..Cardinality(Done')]
                /\ \A x \in Done' : \A cause \in CausesOf(events, x) :
                     cause \in Done' /\ r[cause] < r[x]
      BY <2>5, <2>7
    <2> QED
      BY <1>1, <2>8 DEF RankInv, Ranked
  <1> QED
    BY <1>3, <1>5, <1>7, <1>8, <1>9 DEF SearchKept, D

\* The part of the stack from the cause that is being visited is a cycle.
LEMMA CloseCycleIsReal ==
  ASSUME Types, PathInv, CloseCycle
  PROVE  cycle' \in Seq(Ids) /\ ReportedCycleIsReal'
  <1> DEFINE L == Len(frames)
             I == {n \in 1..Len(path) : path[n] = Cause}
             m == SelectInSeq(path, LAMBDA p : p = Cause)
             part == SubSeq(path, m, Len(path))
             K == L - m + 1
  <1>1. /\ HasCause /\ Cause \in Declared(events) /\ state[Cause] = "visiting"
        /\ UNCHANGED events
        /\ cycle' = IF Contains(path, Cause) THEN Append(part, Cause) ELSE <<Cause>>
    BY DEF CloseCycle
  <1>2. /\ L \in Nat /\ L > 0 /\ DOMAIN frames = 1..L /\ Current = frames[L]
        /\ \A n \in 1..L : frames[n].id \in Ids
        /\ Cause \in CausesOf(events, Current.id) /\ Cause \in Ids
    BY <1>1, Top, TopCause, Sizes DEF HasCause, Frame
  <1>3. /\ path \in Seq(Ids) /\ Len(path) = L
        /\ \A n \in 1..L : path[n] = frames[n].id
    <2>1. path = [n \in 1..L |-> frames[n].id]
      BY <1>2 DEF path
    <2>2. path \in [1..L -> Ids]
      BY <1>2, <2>1
    <2>3. path \in Seq(Ids)
      BY <1>2, <2>2, SeqDef
    <2>4. Len(path) = L
      BY <1>2, <2>2, <2>3, LenProperties
    <2> QED
      BY <2>1, <2>3, <2>4
  <1>4. PICK at \in 1..L : path[at] = Cause
    BY <1>1, <1>2, <1>3 DEF PathInv
  <1>5. Contains(path, Cause)
    BY <1>3, <1>4 DEF Contains
  <1>6. I = {at}
    <2>1. \A n \in 1..L : path[n] = Cause => n = at
      BY <1>2, <1>3, <1>4 DEF PathInv
    <2> QED
      BY <1>3, <1>4, <2>1
  <1>7. m = at
    <2>1. m = Min(I)
      BY <1>6 DEF SelectInSeq
    <2>2. \E x \in {at} : \A y \in {at} : x =< y
      BY <1>2
    <2>3. Min({at}) = at
      BY <2>2 DEF Min
    <2> QED
      BY <1>6, <2>1, <2>3
  <1> HIDE DEF L, I, m, part
  <1>8. /\ K \in Nat /\ K >= 1 /\ part \in Seq(Ids) /\ Len(part) = K
        /\ \A n \in 1..K : part[n] = path[m + n - 1]
    <2>1. m \in Int /\ L \in Int /\ m <= L /\ K \in Nat /\ K >= 1
      BY <1>2, <1>7
    <2>2. \A n \in m..L : path[n] \in Ids
      BY <1>2, <1>3, <1>7
    <2>3. /\ SubSeq(path, m, L) \in Seq(Ids)
          /\ Len(SubSeq(path, m, L)) = IF m <= L THEN L - m + 1 ELSE 0
          /\ \A n \in 1..(L - m + 1) : SubSeq(path, m, L)[n] = path[m + n - 1]
      BY <2>1, <2>2, SubSeqProperties
    <2> QED
      BY <1>3, <2>1, <2>3 DEF part
  <1>9. /\ cycle' \in Seq(Ids) /\ Len(cycle') = K + 1
        /\ \A n \in 1..K : cycle'[n] = path[m + n - 1]
        /\ cycle'[K + 1] = Cause
    <2>1. cycle' = Append(part, Cause)
      BY <1>1, <1>5
    <2>2. /\ Append(part, Cause) \in Seq(Ids) /\ Len(Append(part, Cause)) = K + 1
          /\ \A n \in 1..K : Append(part, Cause)[n] = part[n]
          /\ Append(part, Cause)[K + 1] = Cause
      BY <1>2, <1>8, AppendProperties
    <2> QED
      BY <1>8, <2>1, <2>2
  <1>10. m \in Nat /\ m >= 1 /\ m <= L /\ m + K - 1 = L
    BY <1>2, <1>7
  <1> HIDE DEF K
  <1>11. cycle'[1] = cycle'[Len(cycle')]
    BY <1>4, <1>7, <1>8, <1>9, <1>10
  <1>12. IsInjective(Front(cycle'))
    <2>1. /\ Front(cycle') \in Seq(Ids) /\ Len(Front(cycle')) = K
          /\ \A n \in 1..K : Front(cycle')[n] = cycle'[n]
      <3>1. Front(cycle') = SubSeq(cycle', 1, K)
        BY <1>8, <1>9 DEF Front
      <3>2. \A n \in 1..K : cycle'[n] \in Ids
        BY <1>8, <1>9, LenProperties
      <3>3. /\ SubSeq(cycle', 1, K) \in Seq(Ids)
            /\ Len(SubSeq(cycle', 1, K)) = IF 1 <= K THEN K - 1 + 1 ELSE 0
            /\ \A n \in 1..(K - 1 + 1) : SubSeq(cycle', 1, K)[n] = cycle'[1 + n - 1]
        BY <1>8, <3>2, SubSeqProperties
      <3> QED
        BY <1>8, <3>1, <3>3
    <2>2. DOMAIN Front(cycle') = 1..K
      BY <2>1, LenProperties
    <2>3. \A x, y \in 1..K : path[m + x - 1] = path[m + y - 1] => x = y
      <3> SUFFICES ASSUME NEW x \in 1..K, NEW y \in 1..K, path[m + x - 1] = path[m + y - 1]
                   PROVE  x = y
        OBVIOUS
      <3>1. m + x - 1 \in 1..L /\ m + y - 1 \in 1..L
        BY <1>2, <1>8, <1>10
      <3>2. m + x - 1 = m + y - 1
        BY <1>2, <1>3, <3>1 DEF PathInv
      <3> QED
        BY <1>10, <3>2
    <2> QED
      BY <1>9, <2>1, <2>2, <2>3 DEF IsInjective
  <1>13. ASSUME NEW n \in 1..K PROVE cycle'[n + 1] \in CausesOf(events, cycle'[n])
    <2>1. cycle'[n] = frames[m + n - 1].id /\ m + n - 1 \in 1..L
      BY <1>2, <1>3, <1>8, <1>9, <1>10
    <2>2. CASE n = K
      BY <1>2, <1>9, <1>10, <2>1, <2>2
    <2>3. CASE n < K
      <3>1. n + 1 \in 1..K /\ m + n - 1 \in 1..(L - 1) /\ m + (n + 1) - 1 = (m + n - 1) + 1
            /\ (m + n - 1) + 1 \in 1..L
        BY <1>2, <1>8, <1>10, <2>3
      <3>2. cycle'[n + 1] = frames[(m + n - 1) + 1].id
        BY <1>3, <1>9, <3>1
      <3> QED
        BY <2>1, <3>1, <3>2 DEF PathInv, L
    <2> QED
      BY <1>8, <2>2, <2>3
  <1>14. Len(cycle') >= 2 /\ Len(cycle') - 1 = K
    BY <1>8, <1>9
  <1> QED
    BY <1>1, <1>9, <1>11, <1>12, <1>13, <1>14 DEF ReportedCycleIsReal

-----------------------------------------------------------------------------
(* The passes                                                              *)

LEMMA TypesKept ==
  ASSUME Types, PathInv, LookedInv, RankInv, [Next]_vars
  PROVE  Types'
  <1>1. CASE CheckId
    <2>1. i \in DOMAIN events /\ i + 1 \in 1..(Len(events) + 1)
      BY <1>1, Sizes DEF CheckId, Types
    <2>2. issues' \subseteq Issue
      BY <1>1 DEF CheckId, IdIssue, Issue, Types
    <2> QED
      BY <1>1, <2>1, <2>2 DEF CheckId, Types
  <1>2. CASE AbortIds \/ IdsChecked \/ NoCycle \/ Expire \/ UNCHANGED vars
    BY <1>2 DEF AbortIds, IdsChecked, NoCycle, Expire, vars, Types, Issue
  <1>3. CASE CheckDangling
    <2>1. 1 \in 1..(Len(events) + 1)
      BY Sizes
    <2> QED
      BY <1>3, <2>1 DEF CheckDangling, Types, Issue
  <1>4. CASE SkipRoot
    <2>1. i + 1 \in 1..(Len(events) + 1)
      BY <1>4, Sizes DEF SkipRoot, Types
    <2> QED
      BY <1>4, <2>1 DEF SkipRoot, Types
  <1>5. CASE VisitRoot
    BY <1>5, VisitRootKeeps DEF VisitRoot, SearchKept, Types
  <1>6. CASE SkipCause
    BY <1>6, SkipCauseKeeps DEF SkipCause, SearchKept, Types
  <1>7. CASE VisitCause
    BY <1>7, VisitCauseKeeps DEF VisitCause, SearchKept, Types
  <1>8. CASE CloseCycle
    BY <1>8, CloseCycleIsReal DEF CloseCycle, Types, Issue
  <1>9. CASE Leave
    BY <1>9, LeaveKeeps DEF Leave, SearchKept, Types
  <1> QED
    BY <1>1, <1>2, <1>3, <1>4, <1>5, <1>6, <1>7, <1>8, <1>9 DEF Next, Check

LEMMA SearchInvKept ==
  ASSUME Types, PathInv, LookedInv, RankInv, [Next]_vars
  PROVE  PathInv' /\ LookedInv' /\ RankInv'
  <1>1. ASSUME UNCHANGED <<events, state, frames>>,
               pc' \in {"ids", "dangling"} => pc \in {"ids", "dangling"}
        PROVE  PathInv' /\ LookedInv' /\ RankInv'
    <2>1. Done' = Done
      BY <1>1 DEF Done
    <2>2. PathInv'
      BY <1>1, <2>1 DEF PathInv
    <2>3. LookedInv'
      BY <1>1 DEF LookedInv, Listed
    <2> QED
      BY <1>1, <2>1, <2>2, <2>3, RankStays
  <1>2. CASE \/ CheckId \/ AbortIds \/ IdsChecked \/ CheckDangling \/ SkipRoot \/ CloseCycle
             \/ NoCycle \/ Expire \/ UNCHANGED vars
    BY <1>1, <1>2 DEF CheckId, AbortIds, IdsChecked, CheckDangling, SkipRoot, CloseCycle,
       NoCycle, Expire, vars
  <1> QED
    BY <1>2, VisitRootKeeps, SkipCauseKeeps, VisitCauseKeeps, LeaveKeeps
       DEF Next, Check, SearchKept

\* A step that leaves the pass over the ids where it is.
LEMMA PassRests ==
  ASSUME PassInv, UNCHANGED <<events, seen, issues>>, SeenUpTo' = SeenUpTo,
         pc = "end" => pc' = "end",
         pc' \in {"ids", "dangling"} => pc \in {"ids", "dangling"},
         pc' \in {"search", "end"} => pc \in {"search", "end"}
  PROVE  PassInv'
  <1>1. IssueInv'
    BY DEF PassInv, IssueInv
  <1>2. SeenInv'
    BY DEF PassInv, SeenInv
  <1>3. CleanInv'
    BY DEF PassInv, CleanInv
  <1>4. BlameInv'
    BY DEF PassInv, BlameInv
  <1> QED
    BY <1>1, <1>2, <1>3, <1>4 DEF PassInv

LEMMA CheckIdKeeps ==
  ASSUME Types, PassInv, CheckId
  PROVE  PassInv'
  <1> DEFINE id == events[i].id
             k == i - 1
  <1>0. /\ Len(events) \in Nat /\ DOMAIN events = 1..Len(events) /\ i \in DOMAIN events
        /\ k \in Nat /\ 1..(k + 1) = 1..k \cup {i} /\ i \notin 1..k /\ 1..k \subseteq DOMAIN events
        /\ id \in Ids \cup {NoId}
    BY Sizes DEF Types, CheckId
  <1>1. /\ pc = "ids" /\ pc' = "ids" /\ UNCHANGED events
        /\ issues' = issues \cup IdIssue(id)
        /\ seen' = seen \cup ({id} \ {NoId})
        /\ SeenUpTo = k /\ SeenUpTo' = k + 1
    BY <1>0 DEF CheckId, SeenUpTo
  <1>2. /\ "aborted" \notin issues /\ "cycle" \notin issues /\ "dangling cause" \notin issues
        /\ seen \subseteq Ids
        /\ \A x \in Ids : x \in seen <=> \E n \in 1..k : events[n].id = x
    BY <1>1 DEF PassInv, IssueInv, SeenInv
  <1>3. /\ IdIssue(id) \subseteq {"empty id", "duplicate id"}
        /\ "empty id" \in IdIssue(id) <=> id = NoId
        /\ "duplicate id" \in IdIssue(id) <=> id # NoId /\ id \in seen
    <2> HIDE DEF id
    <2>1. CASE id = NoId
      <3>1. id \notin seen
        BY <1>2, <2>1, NoIdAssumption
      <3>2. IdIssue(id) = {"empty id"}
        BY <2>1, <3>1 DEF IdIssue
      <3> QED
        BY <2>1, <3>2
    <2>2. CASE id # NoId /\ id \in seen
      <3>1. IdIssue(id) = {"duplicate id"}
        BY <2>2 DEF IdIssue
      <3> QED
        BY <2>2, <3>1
    <2>3. CASE id # NoId /\ id \notin seen
      <3>1. IdIssue(id) = {}
        BY <2>3 DEF IdIssue
      <3> QED
        BY <2>3, <3>1
    <2> QED
      BY <2>1, <2>2, <2>3
  <1> HIDE DEF id, k
  <1>4. IssueInv'
    BY <1>1, <1>2, <1>3 DEF IssueInv
  <1>5. SeenInv'
    <2>1. ASSUME NEW x \in Ids PROVE x \in seen' <=> \E n \in 1..(k + 1) : events[n].id = x
      <3>1. (\E n \in 1..(k + 1) : events[n].id = x) <=> x = id \/ \E n \in 1..k : events[n].id = x
        BY <1>0 DEF id
      <3> QED
        BY <1>1, <1>2, <3>1, NoIdAssumption
    <2>2. seen' \subseteq Ids
      BY <1>0, <1>1, <1>2
    <2> QED
      BY <1>1, <2>1, <2>2 DEF SeenInv
  <1>6. CleanInv'
    <2>1. ASSUME "empty id" \notin issues' PROVE \A n \in 1..(k + 1) : events[n].id # NoId
      <3>1. id # NoId /\ "empty id" \notin issues
        BY <1>1, <1>3, <2>1
      <3> QED
        BY <1>0, <1>1, <1>2, <3>1 DEF PassInv, CleanInv, id
    <2>2. ASSUME "empty id" \notin issues', "duplicate id" \notin issues'
          PROVE  \A m, n \in 1..(k + 1) : events[m].id = events[n].id => m = n
      <3>1. /\ id # NoId /\ id \notin seen
            /\ "empty id" \notin issues /\ "duplicate id" \notin issues
        BY <1>1, <1>3, <2>2
      <3>2. \A n \in 1..k : events[n].id # id
        BY <1>0, <1>2, <3>1
      <3>3. \A m, n \in 1..k : events[m].id = events[n].id => m = n
        BY <1>1, <1>2, <3>1 DEF PassInv, CleanInv
      <3> QED
        BY <1>0, <3>2, <3>3 DEF id
    <2> QED
      BY <1>1, <2>1, <2>2 DEF CleanInv
  <1>7. BlameInv'
    <2>1. "empty id" \in issues' => \E n \in DOMAIN events : events[n].id = NoId
      BY <1>0, <1>1, <1>3 DEF PassInv, BlameInv, id
    <2>2. ASSUME "duplicate id" \in issues'
          PROVE  \E m, n \in DOMAIN events : m # n /\ events[m].id = events[n].id
      <3>1. CASE "duplicate id" \in issues
        BY <3>1 DEF PassInv, BlameInv
      <3>2. CASE id # NoId /\ id \in seen
        <4>1. PICK m \in 1..k : events[m].id = id
          BY <1>2, <3>2
        <4> QED
          BY <1>0, <4>1 DEF id
      <3> QED
        BY <1>1, <1>3, <2>2, <3>1, <3>2
    <2>3. "dangling cause" \notin issues'
      BY <1>1, <1>2, <1>3
    <2> QED
      BY <1>1, <2>1, <2>2, <2>3 DEF BlameInv
  <1> QED
    BY <1>4, <1>5, <1>6, <1>7 DEF PassInv

LEMMA CheckDanglingKeeps ==
  ASSUME Types, PassInv, CheckDangling
  PROVE  PassInv'
  <1>0. Len(events) \in Nat /\ DOMAIN events = 1..Len(events)
        /\ \A n \in DOMAIN events : events[n].id \in Ids \cup {NoId}
    BY Sizes
  <1>1. /\ pc = "dangling" /\ pc' = "search" /\ UNCHANGED <<events, seen>>
        /\ issues' = issues \cup (IF Dangling THEN {"dangling cause"} ELSE {})
        /\ SeenUpTo = Len(events) /\ SeenUpTo' = Len(events)
    BY DEF CheckDangling, SeenUpTo
  <1>2. "aborted" \notin issues /\ "cycle" \notin issues /\ "dangling cause" \notin issues
    BY <1>1 DEF PassInv, IssueInv
  <1>3. seen = Declared(events)
    <2>1. \A x \in Ids : x \in seen <=> x \in Declared(events)
      <3>1. \A x \in Ids : x \in seen <=> \E n \in DOMAIN events : events[n].id = x
        BY <1>0, <1>1, <1>2 DEF PassInv, SeenInv
      <3>2. \A x \in Ids : x \in Declared(events) <=> \E n \in DOMAIN events : events[n].id = x
        BY NoIdAssumption DEF Declared
      <3> QED
        BY <3>1, <3>2
    <2>2. seen \subseteq Ids /\ Declared(events) \subseteq Ids
      BY <1>0, <1>2 DEF PassInv, SeenInv, Declared
    <2> QED
      BY <2>1, <2>2
  <1>4. Dangling <=> \E n \in DOMAIN events :
                        ~(ToSet(events[n].causedBy) \subseteq Declared(events))
    <2>1. Dangling <=> \E e \in {events[n] : n \in DOMAIN events} :
                          ~(ToSet(e.causedBy) \subseteq Declared(events))
      BY <1>3 DEF Dangling, ToSet
    <2> QED
      BY <2>1
  <1>5. /\ "dangling cause" \in issues' <=> Dangling
        /\ \A x \in {"aborted", "cycle", "empty id", "duplicate id"} :
             x \in issues' <=> x \in issues
    BY <1>1, <1>2
  <1>6. IssueInv'
    BY <1>1, <1>2, <1>5 DEF IssueInv
  <1>7. SeenInv'
    BY <1>1, <1>2 DEF SeenInv, PassInv
  <1>8. CleanInv'
    BY <1>1, <1>2, <1>4, <1>5 DEF CleanInv, PassInv
  <1>9. BlameInv'
    BY <1>1, <1>4, <1>5 DEF BlameInv, PassInv
  <1> QED
    BY <1>6, <1>7, <1>8, <1>9 DEF PassInv

LEMMA PassKept ==
  ASSUME Types, PassInv, PathInv, [Next]_vars
  PROVE  PassInv'
  <1>0. /\ Len(events) \in Nat /\ i \in Nat /\ i >= 1 /\ i <= Len(events) + 1
    BY Sizes DEF Types
  <1>1. CASE AbortIds
    BY <1>1 DEF AbortIds, PassInv, SeenInv, IssueInv, CleanInv, BlameInv
  <1>2. CASE IdsChecked
    <2>1. i - 1 = Len(events)
      BY <1>0, <1>2 DEF IdsChecked
    <2>2. SeenUpTo' = SeenUpTo
      BY <1>2, <2>1 DEF IdsChecked, SeenUpTo
    <2> QED
      BY <1>2, <2>2, PassRests DEF IdsChecked
  <1>3. CASE CloseCycle
    <2>1. /\ pc = "search" /\ pc' = "end" /\ UNCHANGED <<events, seen>>
          /\ issues' = issues \cup {"cycle"}
      BY <1>3 DEF CloseCycle, HasCause, Searching
    <2>2. SeenUpTo' = SeenUpTo
      BY <2>1 DEF SeenUpTo
    <2>3. \A x \in {"aborted", "empty id", "duplicate id", "dangling cause"} :
             x \in issues' <=> x \in issues
      BY <2>1
    <2>4. IssueInv' /\ SeenInv'
      BY <2>1, <2>2, <2>3 DEF IssueInv, SeenInv, PassInv
    <2>5. CleanInv'
      BY <2>1, <2>2, <2>3 DEF CleanInv, PassInv
    <2>6. BlameInv'
      BY <2>1, <2>3 DEF BlameInv, PassInv
    <2> QED
      BY <2>4, <2>5, <2>6 DEF PassInv
  <1>4. CASE VisitRoot \/ SkipRoot \/ SkipCause \/ VisitCause \/ Leave \/ NoCycle
    <2>1. pc = "search" /\ pc' \in {"search", "end"} /\ UNCHANGED <<events, seen, issues>>
      BY <1>4 DEF VisitRoot, SkipRoot, SkipCause, VisitCause, Leave, NoCycle, HasCause, Searching
    <2>2. SeenUpTo' = SeenUpTo
      BY <2>1 DEF SeenUpTo
    <2> QED
      BY <2>1, <2>2, PassRests
  <1>5. CASE Expire \/ UNCHANGED vars
    <2>1. UNCHANGED <<events, pc, i, seen, issues>>
      BY <1>5 DEF Expire, vars
    <2>2. SeenUpTo' = SeenUpTo
      BY <2>1 DEF SeenUpTo
    <2> QED
      BY <2>1, <2>2, PassRests
  <1> QED
    BY <1>1, <1>2, <1>3, <1>4, <1>5, CheckIdKeeps, CheckDanglingKeeps DEF Next, Check

LEMMA RootKept ==
  ASSUME Types, PassInv, PathInv, LookedInv, RankInv, RootInv, [Next]_vars
  PROVE  RootInv'
  <1>0. /\ Len(events) \in Nat /\ DOMAIN events = 1..Len(events) /\ i \in Nat /\ i >= 1
        /\ i <= Len(events) + 1
    BY Sizes DEF Types
  <1>1. CASE VisitRoot \/ SkipCause \/ VisitCause \/ Leave
    <2>1. pc = "search" /\ UNCHANGED <<events, pc, i>>
      BY <1>1 DEF VisitRoot, SkipCause, VisitCause, Leave, HasCause, Searching
    <2>2. Done \subseteq Done'
      BY <1>1, VisitRootKeeps, SkipCauseKeeps, VisitCauseKeeps, LeaveKeeps DEF SearchKept
    <2> QED
      BY <2>1, <2>2 DEF RootInv
  <1>2. CASE SkipRoot
    <2>1. /\ pc = "search" /\ i' = i + 1 /\ UNCHANGED <<events, pc, state>>
          /\ ~IsRoot(events[i].id)
      BY <1>2 DEF SkipRoot
    <2>2. events[i].id \in Declared(events) => events[i].id \in Done
      BY <2>1 DEF IsRoot, Done, Declared
    <2>3. 1..(i' - 1) = 1..(i - 1) \cup {i}
      BY <1>0, <2>1
    <2>4. Done' = Done
      BY <2>1 DEF Done
    <2> QED
      BY <2>1, <2>2, <2>3, <2>4 DEF RootInv
  <1>3. CASE NoCycle
    <2>1. pc = "search" /\ pc' = "end" /\ UNCHANGED <<events, state, issues>> /\ i > Len(events)
      BY <1>3 DEF NoCycle
    <2>2. Done' = Done
      BY <2>1 DEF Done
    <2>3. 1..(i - 1) = DOMAIN events
      BY <1>0, <2>1
    <2>4. Declared(events) \subseteq Done
      BY <2>1, <2>3 DEF RootInv, Declared
    <2> QED
      BY <2>1, <2>2, <2>4 DEF RootInv, Done
  <1>4. CASE AbortIds \/ CloseCycle
    BY <1>4 DEF AbortIds, CloseCycle, RootInv
  <1>5. CASE CheckDangling
    <2>1. pc' = "search" /\ i' = 1
      BY <1>5 DEF CheckDangling
    <2> QED
      BY <2>1 DEF RootInv
  <1>6. CASE CheckId \/ IdsChecked
    BY <1>6 DEF CheckId, IdsChecked, RootInv
  <1>7. CASE Expire \/ UNCHANGED vars
    <2>1. UNCHANGED <<events, pc, i, state, issues>>
      BY <1>7 DEF Expire, vars
    <2>2. Done' = Done
      BY <2>1 DEF Done
    <2> QED
      BY <2>1, <2>2 DEF RootInv
  <1> QED
    BY <1>1, <1>2, <1>3, <1>4, <1>5, <1>6, <1>7 DEF Next, Check

LEMMA CycleKept ==
  ASSUME Types, PassInv, PathInv, ReportedCycleIsReal, [Next]_vars
  PROVE  ReportedCycleIsReal'
  <1>1. CASE CloseCycle
    BY <1>1, CloseCycleIsReal
  <1>2. CASE CheckId
    <2>1. "cycle" \notin issues'
      BY <1>2 DEF CheckId, IdIssue, PassInv, IssueInv
    <2> QED
      BY <2>1 DEF ReportedCycleIsReal
  <1>3. CASE AbortIds \/ CheckDangling
    <2>1. "cycle" \notin issues /\ issues' \subseteq issues \cup {"aborted", "dangling cause"}
      BY <1>3 DEF AbortIds, CheckDangling, PassInv, IssueInv
    <2>2. "cycle" \notin issues'
      BY <2>1
    <2> QED
      BY <2>2 DEF ReportedCycleIsReal
  <1>4. CASE \/ IdsChecked \/ VisitRoot \/ SkipRoot \/ SkipCause \/ VisitCause \/ Leave
             \/ NoCycle \/ Expire \/ UNCHANGED vars
    <2>1. UNCHANGED <<events, issues, cycle>>
      BY <1>4 DEF IdsChecked, VisitRoot, SkipRoot, SkipCause, VisitCause, Leave, NoCycle,
         Expire, vars
    <2> QED
      BY <2>1 DEF ReportedCycleIsReal
  <1> QED
    BY <1>1, <1>2, <1>3, <1>4 DEF Next, Check

-----------------------------------------------------------------------------
(* The theorems                                                            *)

LEMMA InvAtFirst == Init => IInv
  <1> SUFFICES ASSUME Init PROVE IInv
    OBVIOUS
  <1>1. PICK n \in 0..MaxEvents : events \in [1..n -> Event]
    BY DEF Init
  <1>2. n \in Nat /\ n <= MaxEvents
    BY CausalityAssumption
  <1>3. events \in Seq(Event)
    BY <1>1, <1>2, SeqDef
  <1>4. Len(events) = n
    BY <1>1, <1>2, <1>3, LenProperties
  <1>5. frames = <<>> /\ frames \in Seq(Frame) /\ DOMAIN frames = {} /\ Len(frames) = 0
    BY EmptySeq DEF Init
  <1>6. Done = {}
    BY DEF Init, Done
  <1>7. 1 \in 1..(Len(events) + 1)
    BY <1>2, <1>4
  <1>8. Types
    BY <1>2, <1>3, <1>4, <1>5, <1>7 DEF Init, Types
  <1>9. PassInv
    <2>1. 1..SeenUpTo = {}
      BY DEF Init, SeenUpTo
    <2> QED
      BY <2>1 DEF Init, PassInv, SeenInv, IssueInv, CleanInv, BlameInv
  <1>10. PathInv /\ LookedInv
    BY <1>5, <1>6 DEF Init, PathInv, LookedInv
  <1>11. RankInv
    <2> DEFINE none == [x \in {} |-> 1]
    <2>1. Ranked(none)
      BY <1>6 DEF Ranked
    <2> QED
      BY <2>1 DEF RankInv
  <1>12. RootInv /\ ReportedCycleIsReal
    BY DEF Init, RootInv, ReportedCycleIsReal
  <1> QED
    BY <1>8, <1>9, <1>10, <1>11, <1>12 DEF IInv

\* The inductive invariant of the three passes.
THEOREM CausalityInvariant == Spec => []IInv
  <1>1. IInv /\ [Next]_vars => IInv'
    BY TypesKept, PassKept, SearchInvKept, RootKept, CycleKept DEF IInv
  <1> QED
    BY <1>1, InvAtFirst, PTL DEF Spec

\* The path that findCycle returns is a cycle of the causal graph, for any
\* document, with duplicate, empty and dangling ids.
THEOREM CyclesAreReal == Spec => []ReportedCycleIsReal
  <1>1. IInv => ReportedCycleIsReal
    BY DEF IInv
  <1> QED
    BY <1>1, CausalityInvariant, PTL

\* checkEventsAndCausality accepts only documents whose causes can be ranked
\* before their effects: the search visits every event, and what it is done
\* with has no way back, however paths join and split.
THEOREM AcceptedIsAcyclic == Spec => []AcceptedIsWellFormed
  <1>1. IInv => AcceptedIsWellFormed
    <2> SUFFICES ASSUME IInv, pc = "end", issues = {} PROVE WellFormed(events)
      BY DEF AcceptedIsWellFormed
    <2>1. /\ Len(events) \in Nat /\ DOMAIN events = 1..Len(events)
      BY Sizes DEF IInv
    <2>2. /\ \A n \in DOMAIN events : events[n].id # NoId
          /\ \A m, n \in DOMAIN events : events[m].id = events[n].id => m = n
          /\ \A n \in DOMAIN events : ToSet(events[n].causedBy) \subseteq Declared(events)
      BY <2>1 DEF IInv, PassInv, CleanInv, SeenUpTo
    <2>3. Done = Declared(events)
      BY DEF IInv, RootInv
    <2>4. PICK rank : Ranked(rank)
      BY DEF IInv, RankInv
    <2>5. 1..Cardinality(Declared(events)) \subseteq 1..Len(events)
      <3>1. /\ Cardinality(Declared(events)) \in Nat
            /\ Cardinality(Declared(events)) <= Len(events)
        BY DeclaredIsFinite, FS_CardinalityType DEF IInv, Types
      <3> QED
        BY <2>1, <3>1
    <2>6. rank \in [Declared(events) -> 1..Len(events)]
      BY <2>3, <2>4, <2>5 DEF Ranked
    <2>7. Acyclic(events)
      BY <2>3, <2>4, <2>6 DEF Ranked, Acyclic
    <2> QED
      BY <2>2, <2>7 DEF WellFormed
  <1> QED
    BY <1>1, CausalityInvariant, PTL

\* A ranking falls along a cycle, and cannot fall below where it started.
LEMMA NoCycleInAcyclic ==
  ASSUME Types, Acyclic(events), "cycle" \in issues, ReportedCycleIsReal
  PROVE  FALSE
  <1>1. PICK rank \in [Declared(events) -> 1..Len(events)] :
          \A id \in Declared(events) :
             \A cause \in CausesOf(events, id) : rank[cause] < rank[id]
    BY DEF Acyclic
  <1> DEFINE L == Len(cycle)
  <1>2. /\ L >= 2 /\ cycle[1] = cycle[L]
        /\ \A n \in 1..(L - 1) : cycle[n + 1] \in CausesOf(events, cycle[n])
    BY DEF ReportedCycleIsReal
  <1>3. \A n \in 1..(L - 1) : cycle[n + 1] \in Declared(events)
    BY <1>2 DEF CausesOf
  <1>4. L \in Nat /\ cycle[1] \in Declared(events)
    <2>1. L \in Nat
      BY LenProperties DEF Types
    <2>2. L - 1 \in 1..(L - 1) /\ (L - 1) + 1 = L
      BY <1>2, <2>1
    <2> QED
      BY <1>2, <1>3, <2>1, <2>2
  <1>5. /\ \A id \in Declared(events) : rank[id] \in Int
        /\ \A n \in 1..(L - 1) : cycle[n] \in Declared(events)
                                  /\ rank[cycle[n + 1]] < rank[cycle[n]]
    <2>0. Len(events) \in Nat
      BY Sizes
    <2>1. ASSUME NEW n \in 1..(L - 1) PROVE cycle[n] \in Declared(events)
      <3>1. CASE n = 1
        BY <1>4, <3>1
      <3>2. CASE n # 1
        <4>1. n - 1 \in 1..(L - 1) /\ (n - 1) + 1 = n
          BY <1>4, <3>2
        <4> QED
          BY <1>3, <4>1
      <3> QED
        BY <3>1, <3>2
    <2> QED
      BY <1>1, <1>2, <2>0, <2>1
  <1> HIDE DEF L
  <1> DEFINE T == {n \in Nat : n + 2 <= L => rank[cycle[n + 2]] < rank[cycle[1]]}
  <1>6. 0 \in T
    <2>1. 1 \in 1..(L - 1) /\ 1 + 1 = 0 + 2
      BY <1>2, <1>4
    <2> QED
      BY <1>5, <2>1
  <1>7. ASSUME NEW n \in Nat, n \in T PROVE n + 1 \in T
    <2> SUFFICES ASSUME (n + 1) + 2 <= L
                 PROVE  rank[cycle[(n + 1) + 2]] < rank[cycle[1]]
      OBVIOUS
    <2>1. n + 2 \in 1..(L - 1) /\ (n + 2) + 1 = (n + 1) + 2 /\ n + 2 <= L
      BY <1>4
    <2>2. /\ rank[cycle[(n + 2) + 1]] < rank[cycle[n + 2]]
          /\ rank[cycle[n + 2]] < rank[cycle[1]]
      BY <1>5, <1>7, <2>1
    <2>3. /\ rank[cycle[(n + 2) + 1]] \in Int /\ rank[cycle[n + 2]] \in Int
          /\ rank[cycle[1]] \in Int
      BY <1>3, <1>4, <1>5, <2>1
    <2> QED
      BY <2>1, <2>2, <2>3
  <1>8. L - 2 \in Nat /\ (L - 2) + 2 = L
    BY <1>2, <1>4
  <1>9. rank[cycle[L]] < rank[cycle[1]]
    <2>1. L - 2 \in T
      BY <1>6, <1>7, <1>8, NatSetInduction
    <2> QED
      BY <1>4, <1>8, <2>1
  <1> QED
    BY <1>2, <1>4, <1>5, <1>9

\* A well-formed document is refused only because the context expired: the
\* search never takes two paths that meet again for a cycle, and no pass
\* reports an id or a cause that is in order.
THEOREM AcyclicIsAccepted == Spec => []WellFormedIsAccepted
  <1>1. IInv => WellFormedIsAccepted
    <2> SUFFICES ASSUME IInv, WellFormed(events) PROVE issues \subseteq {"aborted"}
      BY DEF WellFormedIsAccepted
    <2>1. issues \subseteq Issue /\ DOMAIN events = 1..Len(events)
      BY Sizes DEF IInv, Types
    <2>2. "empty id" \notin issues /\ "dangling cause" \notin issues
      BY DEF IInv, PassInv, BlameInv, WellFormed
    <2>3. "duplicate id" \notin issues
      BY DEF IInv, PassInv, BlameInv, WellFormed
    <2>4. "cycle" \notin issues
      BY NoCycleInAcyclic DEF IInv, WellFormed
    <2> QED
      BY <2>1, <2>2, <2>3, <2>4 DEF Issue
  <1> QED
    BY <1>1, CausalityInvariant, PTL

=============================================================================
