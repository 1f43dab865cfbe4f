---------------------------- MODULE IdentityProofs ----------------------------
(***************************************************************************)
(* Theorems about Identity, for documents of any size and any number of    *)
(* edits: an edit keeps the payload that is hashed exactly when it is one  *)
(* that the documentation calls cosmetic, and what compare prints of two   *)
(* documents tells apart whatever the payload tells apart.                 *)
(***************************************************************************)
EXTENDS Identity, FoldProofs, FiniteSetTheorems, SequenceTheorems, TLAPS

\* Some event named x has the type t.
HasType(s, x, t) == \E j \in DOMAIN s : s[j].id = x /\ s[j].type = t

\* Some cause of the event at i has the type t.
HasCause(s, i, t) == \E x \in ToSet(s[i].causedBy) : HasType(s, x, t)

\* What the identity keeps of a sequence of events.
Structure(s) == [i \in DOMAIN s |-> EventIdentity(s, s[i])]

SameStructure(s, r) ==
    /\ Len(s) = Len(r)
    /\ \A i \in DOMAIN s :
        /\ s[i].type = r[i].type
        /\ \A t : HasCause(s, i, t) <=> HasCause(r, i, t)

Valid(doc) == doc \in Document /\ WellFormed(doc.events)

IInv == a \in Originals /\ Valid(b) /\ CosmeticEditsKeepIdentity

\* A step leaves a valid document, and keeps the payload if and only if it is
\* counted as cosmetic.
StepKept ==
    /\ a' = a /\ Valid(b')
    /\ changed => changed'
    /\ \/ /\ edit' = "cosmetic"
          /\ IdentityPayload(b') = IdentityPayload(b)
       \/ /\ edit' = "material" /\ changed'
          /\ IdentityPayload(b') # IdentityPayload(b)

-----------------------------------------------------------------------------
(* Sequences                                                               *)

LEMMA SwappedSeq ==
  ASSUME NEW S, NEW s \in Seq(S), NEW i \in 1..(Len(s) - 1)
  PROVE  /\ Swapped(s, i) \in Seq(S) /\ Len(Swapped(s, i)) = Len(s)
         /\ DOMAIN Swapped(s, i) = DOMAIN s
         /\ i \in DOMAIN s /\ i + 1 \in DOMAIN s
         /\ Swapped(s, i)[i] = s[i + 1] /\ Swapped(s, i)[i + 1] = s[i]
         /\ \A j \in DOMAIN s : j # i /\ j # i + 1 => Swapped(s, i)[j] = s[j]
         /\ ToSet(Swapped(s, i)) = ToSet(s)
  <1> DEFINE one == [s EXCEPT ![i] = s[i + 1]]
             two == [one EXCEPT ![i + 1] = s[i]]
  <1>1. /\ Len(s) \in Nat /\ DOMAIN s = 1..Len(s)
        /\ i \in 1..Len(s) /\ i + 1 \in 1..Len(s) /\ i # i + 1
    BY LenProperties
  <1>2. s[i] \in S /\ s[i + 1] \in S
    BY <1>1, ElementOfSeq
  <1>3. /\ one \in Seq(S) /\ Len(one) = Len(s)
        /\ \A j \in 1..Len(s) : one[j] = IF j = i THEN s[i + 1] ELSE s[j]
    BY <1>1, <1>2, ExceptSeq
  <1>4. Swapped(s, i) = two
    BY DEF Swapped
  <1> HIDE DEF one
  <1>5. /\ two \in Seq(S) /\ Len(two) = Len(s)
        /\ \A j \in 1..Len(s) : two[j] = IF j = i + 1 THEN s[i] ELSE one[j]
    BY <1>1, <1>2, <1>3, ExceptSeq
  <1> HIDE DEF two
  <1>6. DOMAIN two = 1..Len(s)
    BY <1>5, LenProperties
  <1>7. /\ two[i] = s[i + 1] /\ two[i + 1] = s[i]
        /\ \A j \in 1..Len(s) : j # i /\ j # i + 1 => two[j] = s[j]
    BY <1>1, <1>3, <1>5
  <1>8. ToSet(two) = ToSet(s)
    <2>1. \A x : (\E j \in 1..Len(s) : two[j] = x) <=> \E j \in 1..Len(s) : s[j] = x
      BY <1>1, <1>7
    <2> QED
      BY <1>1, <1>6, <2>1 DEF ToSet
  <1> QED
    BY <1>1, <1>4, <1>5, <1>6, <1>7, <1>8

LEMMA RemovedSeq ==
  ASSUME NEW S, NEW s \in Seq(S), NEW i \in DOMAIN s
  PROVE  /\ RemoveAt(s, i) \in Seq(S) /\ Len(RemoveAt(s, i)) = Len(s) - 1
         /\ \A x : x \in ToSet(RemoveAt(s, i)) <=>
                     \E j \in DOMAIN s : j # i /\ s[j] = x
  <1> DEFINE r == RemoveAt(s, i)
             front == SubSeq(s, 1, i - 1)
             back == SubSeq(s, i + 1, Len(s))
  <1>1. Len(s) \in Nat /\ DOMAIN s = 1..Len(s) /\ \A j \in 1..Len(s) : s[j] \in S
    BY LenProperties, ElementOfSeq
  <1>2. /\ front \in Seq(S) /\ Len(front) = i - 1
        /\ \A j \in 1..(i - 1) : front[j] = s[j]
    BY <1>1, SubSeqProperties
  <1>3. /\ back \in Seq(S) /\ Len(back) = Len(s) - i
        /\ \A j \in 1..(Len(s) - i) : back[j] = s[i + j]
    <2>1. \A j \in (i + 1)..Len(s) : s[j] \in S
      BY <1>1
    <2>2. /\ back \in Seq(S)
          /\ Len(back) = IF i + 1 <= Len(s) THEN Len(s) - (i + 1) + 1 ELSE 0
          /\ \A j \in 1..(Len(s) - (i + 1) + 1) : back[j] = s[i + 1 + j - 1]
      BY <1>1, <2>1, SubSeqProperties
    <2> HIDE DEF back
    <2>3. Len(back) = Len(s) - i
      BY <1>1, <2>2
    <2>4. ASSUME NEW j \in 1..(Len(s) - i) PROVE back[j] = s[i + j]
      <3>1. j \in 1..(Len(s) - (i + 1) + 1) /\ i + 1 + j - 1 = i + j
        BY <1>1
      <3> QED
        BY <2>2, <3>1
    <2> QED
      BY <2>2, <2>3, <2>4
  <1>4. r = front \o back
    BY DEF RemoveAt
  <1> HIDE DEF front, back, r
  <1>5. /\ r \in Seq(S) /\ Len(r) = Len(s) - 1
        /\ \A j \in 1..(Len(s) - 1) : r[j] = IF j <= i - 1 THEN front[j] ELSE back[j - (i - 1)]
    <2>1. /\ r \in Seq(S) /\ Len(r) = Len(front) + Len(back)
          /\ \A j \in 1..(Len(front) + Len(back)) :
               r[j] = IF j <= Len(front) THEN front[j] ELSE back[j - Len(front)]
      BY <1>2, <1>3, <1>4, ConcatProperties
    <2>2. Len(front) + Len(back) = Len(s) - 1
      BY <1>1, <1>2, <1>3
    <2> QED
      BY <1>2, <2>1, <2>2
  <1>6. ASSUME NEW j \in 1..(Len(s) - 1)
        PROVE  r[j] = IF j < i THEN s[j] ELSE s[j + 1]
    <2>1. CASE j < i
      BY <1>1, <1>2, <1>5, <2>1
    <2>2. CASE ~(j < i)
      <3>1. /\ j - (i - 1) \in 1..(Len(s) - i) /\ i + (j - (i - 1)) = j + 1
            /\ ~(j <= i - 1)
        BY <1>1, <2>2
      <3> QED
        BY <1>3, <1>5, <2>2, <3>1
    <2> QED
      BY <2>1, <2>2
  <1>7. DOMAIN r = 1..(Len(s) - 1)
    BY <1>5, LenProperties
  <1>8. ASSUME NEW x
        PROVE  (\E j \in 1..(Len(s) - 1) : r[j] = x) <=> \E j \in 1..Len(s) : j # i /\ s[j] = x
    <2>1. ASSUME NEW j \in 1..Len(s), j # i, s[j] = x
          PROVE  \E k \in 1..(Len(s) - 1) : r[k] = x
      <3>1. CASE j < i
        BY <1>1, <1>6, <2>1, <3>1
      <3>2. CASE j > i
        <4>1. j - 1 \in 1..(Len(s) - 1) /\ ~(j - 1 < i) /\ j - 1 + 1 = j
          BY <1>1, <3>2
        <4> QED
          BY <1>6, <2>1, <4>1
      <3> QED
        BY <1>1, <2>1, <3>1, <3>2
    <2>2. ASSUME NEW j \in 1..(Len(s) - 1), r[j] = x
          PROVE  \E k \in 1..Len(s) : k # i /\ s[k] = x
      BY <1>1, <1>6, <2>2
    <2> QED
      BY <2>1, <2>2
  <1> QED
    BY <1>1, <1>5, <1>7, <1>8 DEF ToSet, r

-----------------------------------------------------------------------------
(* The structure of the events                                             *)

LEMMA EventTypes ==
  ASSUME NEW s \in Seq(Event)
  PROVE  /\ Len(s) \in Nat /\ DOMAIN s = 1..Len(s)
         /\ \A i \in DOMAIN s :
              /\ s[i] \in Event /\ s[i].id \in Ids /\ s[i].type \in Types
              /\ s[i].causedBy \in Seq(Ids)
              /\ Len(s[i].causedBy) \in Nat
              /\ DOMAIN s[i].causedBy = 1..Len(s[i].causedBy)
  <1>1. Len(s) \in Nat /\ DOMAIN s = 1..Len(s) /\ \A i \in DOMAIN s : s[i] \in Event
    BY LenProperties, ElementOfSeq
  <1>2. ASSUME NEW i \in DOMAIN s
        PROVE  /\ s[i].id \in Ids /\ s[i].type \in Types /\ s[i].causedBy \in Seq(Ids)
               /\ Len(s[i].causedBy) \in Nat
               /\ DOMAIN s[i].causedBy = 1..Len(s[i].causedBy)
    <2>1. s[i].id \in Ids /\ s[i].type \in Types /\ s[i].causedBy \in Seq(Ids)
      BY <1>1 DEF Event
    <2> QED
      BY <2>1, LenProperties
  <1> QED
    BY <1>1, <1>2

\* typeByID finds the one event that has the id.
LEMMA ByIdOfEvent ==
  ASSUME NEW s \in Seq(Event), WellFormed(s), NEW j \in DOMAIN s
  PROVE  s[j].id \in Declared(s) /\ ById(s)[s[j].id] = s[j]
  <1> DEFINE I == {n \in 1..Len(s) : s[n].id = s[j].id}
  <1>1. s[j].id \in Declared(s)
    BY DEF WellFormed, Declared
  <1>2. I = {j}
    BY EventTypes DEF WellFormed
  <1>3. Max(I) = j
    BY <1>2, EventTypes DEF Max
  <1>4. ById(s)[s[j].id] = s[Max(I)]
    BY <1>1, <1>2 DEF ById, SelectLastInSeq
  <1> QED
    BY <1>1, <1>3, <1>4

\* The cause types that are hashed are those of the causes, whatever the
\* order and the number of the references.
LEMMA CauseTypesOf ==
  ASSUME NEW s \in Seq(Event), WellFormed(s), NEW i \in DOMAIN s
  PROVE  /\ EventIdentity(s, s[i]).type = s[i].type
         /\ EventIdentity(s, s[i]).causes = {t \in Types : HasCause(s, i, t)}
  <1> DEFINE by == s[i].causedBy
             types == CauseTypeSeq(s, s[i])
  <1>1. Len(by) \in Nat /\ DOMAIN by = 1..Len(by)
    BY EventTypes
  <1>2. DOMAIN types = 1..Len(by) /\ \A n \in 1..Len(by) : types[n] = ById(s)[by[n]].type
    BY DEF CauseTypeSeq
  <1>3. ASSUME NEW n \in 1..Len(by)
        PROVE  \E j \in DOMAIN s : s[j].id = by[n] /\ types[n] = s[j].type
    <2>1. by[n] \in Declared(s)
      BY <1>1 DEF WellFormed, ToSet
    <2>2. PICK j \in DOMAIN s : s[j].id = by[n]
      BY <2>1 DEF Declared
    <2> QED
      BY <1>2, <2>2, ByIdOfEvent
  <1>4. \A t : t \in ToSet(types) <=> \E n \in 1..Len(by) : types[n] = t
    BY <1>2 DEF ToSet
  <1>5. \A t : HasCause(s, i, t) <=>
               \E n \in 1..Len(by) : \E j \in DOMAIN s : s[j].id = by[n] /\ s[j].type = t
    BY <1>1 DEF HasCause, HasType, ToSet
  <1> HIDE DEF types, by
  <1>6. \A t : t \in ToSet(types) <=> t \in Types /\ HasCause(s, i, t)
    <2>1. ASSUME NEW t, t \in ToSet(types) PROVE t \in Types /\ HasCause(s, i, t)
      <3>1. PICK n \in 1..Len(by) : types[n] = t
        BY <1>4, <2>1
      <3>2. PICK j \in DOMAIN s : s[j].id = by[n] /\ types[n] = s[j].type
        BY <1>3
      <3> QED
        BY <1>5, <3>1, <3>2, EventTypes
    <2>2. ASSUME NEW t, HasCause(s, i, t) PROVE t \in ToSet(types)
      <3>1. PICK n \in 1..Len(by), j \in DOMAIN s : s[j].id = by[n] /\ s[j].type = t
        BY <1>5, <2>2
      <3>2. PICK k \in DOMAIN s : s[k].id = by[n] /\ types[n] = s[k].type
        BY <1>3
      <3>3. k = j
        BY <3>1, <3>2 DEF WellFormed
      <3> QED
        BY <1>4, <3>1, <3>2, <3>3
    <2> QED
      BY <2>1, <2>2
  <1>7. EventIdentity(s, s[i]) = [type |-> s[i].type, causes |-> ToSet(types)]
    BY DEF EventIdentity, types
  <1> QED
    BY <1>6, <1>7

LEMMA StructureEqual ==
  ASSUME NEW s \in Seq(Event), WellFormed(s), NEW r \in Seq(Event), WellFormed(r)
  PROVE  Structure(s) = Structure(r) <=> SameStructure(s, r)
  <1>1. /\ Len(s) \in Nat /\ DOMAIN s = 1..Len(s)
        /\ Len(r) \in Nat /\ DOMAIN r = 1..Len(r)
        /\ DOMAIN s = DOMAIN r <=> Len(s) = Len(r)
    BY EventTypes
  <1>2. /\ DOMAIN Structure(s) = DOMAIN s /\ DOMAIN Structure(r) = DOMAIN r
        /\ \A i \in DOMAIN s : Structure(s)[i] = EventIdentity(s, s[i])
        /\ \A i \in DOMAIN r : Structure(r)[i] = EventIdentity(r, r[i])
    BY DEF Structure
  <1>3. ASSUME DOMAIN s = DOMAIN r, NEW i \in DOMAIN s
        PROVE  EventIdentity(s, s[i]) = EventIdentity(r, r[i]) <=>
                 /\ s[i].type = r[i].type
                 /\ \A t : HasCause(s, i, t) <=> HasCause(r, i, t)
    <2> DEFINE S == EventIdentity(s, s[i])
               R == EventIdentity(r, r[i])
    <2>1. /\ S.type = s[i].type /\ S.causes = {t \in Types : HasCause(s, i, t)}
          /\ R.type = r[i].type /\ R.causes = {t \in Types : HasCause(r, i, t)}
      BY <1>3, CauseTypesOf
    <2>2. S = R <=> S.type = R.type /\ S.causes = R.causes
      BY DEF EventIdentity
    <2>3. \A t : (HasCause(s, i, t) => t \in Types) /\ (HasCause(r, i, t) => t \in Types)
      BY EventTypes DEF HasCause, HasType
    <2> HIDE DEF S, R
    <2>4. S.causes = R.causes <=> \A t : HasCause(s, i, t) <=> HasCause(r, i, t)
      BY <2>1, <2>3
    <2> QED
      BY <2>1, <2>2, <2>4 DEF S, R
  <1>4. Structure(s) = Structure(r) <=>
          /\ DOMAIN s = DOMAIN r
          /\ \A i \in DOMAIN s : EventIdentity(s, s[i]) = EventIdentity(r, r[i])
    BY DEF Structure
  <1> QED
    BY <1>1, <1>3, <1>4 DEF SameStructure

LEMMA PayloadEqual ==
  ASSUME NEW x, NEW y, Valid(x), Valid(y)
  PROVE  IdentityPayload(x) = IdentityPayload(y) <=>
           /\ x.trigger = y.trigger
           /\ \A d \in Dimensions : ToSet(x.lists[d]) = ToSet(y.lists[d])
           /\ SameStructure(x.events, y.events)
  <1> DEFINE L(z) == [d \in Dimensions |-> DedupeSorted(z.lists[d])]
  <1>1. \A z : IdentityPayload(z) =
                 [trigger |-> z.trigger, lists |-> L(z), events |-> Structure(z.events)]
    BY DEF IdentityPayload, Structure
  <1>2. L(x) = L(y) <=> \A d \in Dimensions : ToSet(x.lists[d]) = ToSet(y.lists[d])
    BY DEF DedupeSorted
  <1>3. Structure(x.events) = Structure(y.events) <=> SameStructure(x.events, y.events)
    BY StructureEqual DEF Valid, Document
  <1> HIDE DEF L
  <1>4. IdentityPayload(x) = IdentityPayload(y) <=>
          x.trigger = y.trigger /\ L(x) = L(y) /\ Structure(x.events) = Structure(y.events)
    BY <1>1
  <1> QED
    BY <1>2, <1>3, <1>4

-----------------------------------------------------------------------------
(* The edits of the record, the trigger and the lists                      *)

\* What every edit does, counted as cosmetic or not.
Counted(cosmetic) ==
    /\ a' = a /\ (changed => changed')
    /\ \/ cosmetic /\ edit' = "cosmetic"
       \/ ~cosmetic /\ edit' = "material" /\ changed'

LEMMA DocumentParts ==
  ASSUME Valid(b)
  PROVE  /\ b = [trigger |-> b.trigger, lists |-> b.lists, events |-> b.events, record |-> b.record]
         /\ b.trigger \in BOOLEAN /\ b.record \in BOOLEAN
         /\ b.lists \in [Dimensions -> Seq(Values)] /\ b.events \in Seq(Event)
         /\ WellFormed(b.events)
  BY DEF Valid, Document

LEMMA SameEvents ==
  ASSUME NEW s
  PROVE  SameStructure(s, s)
  BY DEF SameStructure

LEMMA RewordRecordKeeps ==
  ASSUME Valid(b), RewordRecord
  PROVE  StepKept
  <1>1. b' = [b EXCEPT !.record = ~@] /\ Counted(TRUE)
    BY DEF RewordRecord, Edit, Counted
  <1>2. /\ b'.trigger = b.trigger /\ b'.lists = b.lists /\ b'.events = b.events
        /\ Valid(b')
    BY <1>1, DocumentParts DEF Valid, Document
  <1>3. IdentityPayload(b') = IdentityPayload(b)
    BY <1>2 DEF IdentityPayload
  <1> QED
    BY <1>1, <1>2, <1>3 DEF StepKept, Counted

LEMMA RewordTriggerKeeps ==
  ASSUME Valid(b), RewordTrigger
  PROVE  StepKept
  <1>1. b' = [b EXCEPT !.trigger = ~@] /\ Counted(FALSE)
    BY DEF RewordTrigger, Edit, Counted
  <1>2. b'.trigger # b.trigger /\ Valid(b')
    BY <1>1, DocumentParts DEF Valid, Document
  <1>3. IdentityPayload(b') # IdentityPayload(b)
    BY <1>2, PayloadEqual, Zenon
  <1> QED
    BY <1>1, <1>2, <1>3 DEF StepKept, Counted

\* A list is replaced: what counts is the set of its entries.
LEMMA ListReplaced ==
  ASSUME Valid(b), NEW d \in Dimensions, NEW list \in Seq(Values),
         b' = [b EXCEPT !.lists[d] = list], Counted(ToSet(list) = ToSet(b.lists[d]))
  PROVE  StepKept
  <1>1. /\ b'.trigger = b.trigger /\ b'.events = b.events
        /\ b'.lists = [b.lists EXCEPT ![d] = list]
        /\ b' = [trigger |-> b.trigger, lists |-> b'.lists, events |-> b.events, record |-> b.record]
    BY DocumentParts
  <1>2. b'.lists \in [Dimensions -> Seq(Values)]
    BY <1>1, DocumentParts
  <1>3. Valid(b')
    BY <1>1, <1>2, DocumentParts DEF Valid, Document
  <1>4. (\A e \in Dimensions : ToSet(b'.lists[e]) = ToSet(b.lists[e])) <=>
          ToSet(list) = ToSet(b.lists[d])
    BY <1>1, DocumentParts
  <1>5. IdentityPayload(b') = IdentityPayload(b) <=> ToSet(list) = ToSet(b.lists[d])
    <2>1. SameStructure(b'.events, b.events)
      BY <1>1, SameEvents
    <2>2. IdentityPayload(b') = IdentityPayload(b) <=>
            /\ b'.trigger = b.trigger
            /\ \A e \in Dimensions : ToSet(b'.lists[e]) = ToSet(b.lists[e])
            /\ SameStructure(b'.events, b.events)
      <3>1. Valid(b)
        OBVIOUS
      <3> QED
        BY ONLY <1>3, <3>1, PayloadEqual
    <2> QED
      BY <1>1, <1>4, <2>1, <2>2
  <1> QED
    BY <1>3, <1>5 DEF StepKept, Counted

LEMMA ReorderListKeeps ==
  ASSUME Valid(b), NEW d \in Dimensions, ReorderList(d)
  PROVE  StepKept
  <1>1. PICK i \in 1..(Len(b.lists[d]) - 1) : EditList(d, Swapped(b.lists[d], i), TRUE)
    BY DEF ReorderList
  <1> DEFINE list == Swapped(b.lists[d], i)
  <1>2. b.lists[d] \in Seq(Values)
    BY DocumentParts
  <1>3. list \in Seq(Values) /\ ToSet(list) = ToSet(b.lists[d])
    BY <1>2, SwappedSeq
  <1>4. b' = [b EXCEPT !.lists[d] = list] /\ Counted(TRUE)
    BY <1>1 DEF EditList, Edit, Counted
  <1> HIDE DEF list
  <1>5. Counted(ToSet(list) = ToSet(b.lists[d]))
    BY <1>3, <1>4 DEF Counted
  <1> QED
    BY <1>3, <1>4, <1>5, ListReplaced

LEMMA AddEntryKeeps ==
  ASSUME Valid(b), NEW d \in Dimensions, AddEntry(d)
  PROVE  StepKept
  <1>1. PICK v \in Values : EditList(d, Append(b.lists[d], v), v \in ToSet(b.lists[d]))
    BY DEF AddEntry
  <1> DEFINE old == b.lists[d]
             list == Append(old, v)
  <1>2. old \in Seq(Values) /\ Len(old) \in Nat /\ DOMAIN old = 1..Len(old)
    BY DocumentParts, LenProperties
  <1>3. b' = [b EXCEPT !.lists[d] = list] /\ Counted(v \in ToSet(old))
    BY <1>1 DEF EditList, Edit, Counted
  <1> HIDE DEF old
  <1>4. /\ list \in Seq(Values) /\ Len(list) = Len(old) + 1
        /\ \A j \in 1..Len(old) : list[j] = old[j]
        /\ list[Len(old) + 1] = v
    BY <1>2, AppendProperties
  <1>5. DOMAIN list = 1..(Len(old) + 1)
    BY <1>4, LenProperties
  <1> HIDE DEF list
  <1>6. ToSet(list) = ToSet(old) \cup {v}
    BY <1>2, <1>4, <1>5 DEF ToSet
  <1>7. ToSet(list) = ToSet(old) <=> v \in ToSet(old)
    BY <1>6
  <1>8. Counted(ToSet(list) = ToSet(b.lists[d]))
    BY <1>3, <1>7 DEF Counted, old
  <1> QED
    BY <1>3, <1>4, <1>8, ListReplaced

LEMMA RemoveEntryKeeps ==
  ASSUME Valid(b), NEW d \in Dimensions, RemoveEntry(d)
  PROVE  StepKept
  <1> DEFINE old == b.lists[d]
  <1>1. PICK i \in DOMAIN old :
          EditList(d, RemoveAt(old, i), \E j \in DOMAIN old : j # i /\ old[j] = old[i])
    BY DEF RemoveEntry
  <1> DEFINE list == RemoveAt(old, i)
             again == \E j \in DOMAIN old : j # i /\ old[j] = old[i]
  <1>2. old \in Seq(Values)
    BY DocumentParts
  <1>3. b' = [b EXCEPT !.lists[d] = list] /\ Counted(again)
    BY <1>1 DEF EditList, Edit, Counted
  <1> HIDE DEF old
  <1>4. /\ list \in Seq(Values)
        /\ \A x : x \in ToSet(list) <=> \E j \in DOMAIN old : j # i /\ old[j] = x
    BY <1>2, RemovedSeq
  <1> HIDE DEF list
  <1>5. \A x : x \in ToSet(old) <=> x \in ToSet(list) \/ x = old[i]
    BY <1>4 DEF ToSet
  <1>6. ToSet(list) = ToSet(old) <=> old[i] \in ToSet(list)
    <2>1. ASSUME ToSet(list) = ToSet(old) PROVE old[i] \in ToSet(list)
      BY <1>5, <2>1
    <2>2. ASSUME old[i] \in ToSet(list) PROVE ToSet(list) = ToSet(old)
      BY <1>5, <2>2
    <2> QED
      BY <2>1, <2>2
  <1>7. old[i] \in ToSet(list) <=> again
    BY <1>4
  <1> HIDE DEF again
  <1>8. Counted(ToSet(list) = ToSet(b.lists[d]))
    BY <1>3, <1>6, <1>7 DEF Counted, old
  <1> QED
    BY <1>3, <1>4, <1>8, ListReplaced

-----------------------------------------------------------------------------
(* The edits of the events                                                 *)

\* The events are replaced: what counts is their structure.
LEMMA EventsReplaced ==
  ASSUME Valid(b), NEW s \in Seq(Event), WellFormed(s),
         b' = [b EXCEPT !.events = s], Counted(SameStructure(s, b.events))
  PROVE  StepKept
  <1>1. /\ b'.trigger = b.trigger /\ b'.lists = b.lists /\ b'.events = s
        /\ b' = [trigger |-> b.trigger, lists |-> b.lists, events |-> s, record |-> b.record]
    BY DocumentParts
  <1>2. Valid(b')
    BY <1>1, DocumentParts DEF Valid, Document
  <1>3. IdentityPayload(b') = IdentityPayload(b) <=>
          /\ b'.trigger = b.trigger
          /\ \A e \in Dimensions : ToSet(b'.lists[e]) = ToSet(b.lists[e])
          /\ SameStructure(b'.events, b.events)
    BY <1>2, PayloadEqual, Zenon
  <1>4. IdentityPayload(b') = IdentityPayload(b) <=> SameStructure(s, b.events)
    BY <1>1, <1>3
  <1> QED
    BY <1>2, <1>4 DEF StepKept, Counted

\* One event is replaced by one of the same id and type: what counts is
\* whether it still has causes of the same types.
LEMMA CausesReplaced ==
  ASSUME NEW s \in Seq(Event), NEW r \in Seq(Event), NEW i \in DOMAIN s,
         Len(r) = Len(s),
         \A j \in DOMAIN s : r[j].id = s[j].id /\ r[j].type = s[j].type,
         \A j \in DOMAIN s : j # i => r[j].causedBy = s[j].causedBy
  PROVE  /\ \A x, t : HasType(r, x, t) <=> HasType(s, x, t)
         /\ SameStructure(r, s) <=> \A t : HasCause(r, i, t) <=> HasCause(s, i, t)
  <1>1. DOMAIN r = DOMAIN s
    BY EventTypes
  <1>2. \A x, t : HasType(r, x, t) <=> HasType(s, x, t)
    BY <1>1 DEF HasType
  <1>3. \A j \in DOMAIN s : j # i => \A t : HasCause(r, j, t) <=> HasCause(s, j, t)
    BY <1>2 DEF HasCause
  <1> QED
    BY <1>1, <1>2, <1>3 DEF SameStructure

\* Of events with unique ids one only has a given id.
LEMMA TypeOfEvent ==
  ASSUME NEW s, WellFormed(s), NEW j \in DOMAIN s, NEW t
  PROVE  HasType(s, s[j].id, t) <=> t = s[j].type
  BY DEF HasType, WellFormed

LEMMA RenameEventKeeps ==
  ASSUME Valid(b), RenameEvent
  PROVE  StepKept
  <1> DEFINE s == b.events
  <1>1. PICK i \in DOMAIN s, id \in Ids \ Declared(s) :
          EditEvents([j \in DOMAIN s |->
              [id       |-> IF s[j].id = s[i].id THEN id ELSE s[j].id,
               type     |-> s[j].type,
               causedBy |-> [n \in DOMAIN s[j].causedBy |->
                                IF s[j].causedBy[n] = s[i].id THEN id ELSE s[j].causedBy[n]]]],
            TRUE)
    BY DEF RenameEvent
  <1> DEFINE Renamed(old) == IF old = s[i].id THEN id ELSE old
             by(j) == [n \in DOMAIN s[j].causedBy |-> Renamed(s[j].causedBy[n])]
             r == [j \in DOMAIN s |->
                     [id |-> Renamed(s[j].id), type |-> s[j].type, causedBy |-> by(j)]]
  <1>2. b' = [b EXCEPT !.events = r] /\ WellFormed(r) /\ Counted(TRUE)
    BY <1>1 DEF EditEvents, Edit, Counted
  <1>3. s \in Seq(Event) /\ WellFormed(s)
    BY DocumentParts
  <1> HIDE DEF s
  <1>4. \A old \in Ids : Renamed(old) \in Ids
    OBVIOUS
  <1>5. \A x, y \in Declared(s) : Renamed(x) = Renamed(y) => x = y
    BY <1>3, ByIdOfEvent
  <1> HIDE DEF Renamed
  <1>6. \A j \in DOMAIN s :
          /\ by(j) \in Seq(Ids) /\ DOMAIN by(j) = DOMAIN s[j].causedBy
          /\ \A n \in DOMAIN s[j].causedBy : by(j)[n] = Renamed(s[j].causedBy[n])
    <2> SUFFICES ASSUME NEW j \in DOMAIN s PROVE by(j) \in Seq(Ids)
      OBVIOUS
    <2>1. /\ Len(s[j].causedBy) \in Nat /\ DOMAIN s[j].causedBy = 1..Len(s[j].causedBy)
          /\ \A n \in DOMAIN s[j].causedBy : s[j].causedBy[n] \in Ids
      BY <1>3, EventTypes, LenProperties
    <2>2. by(j) \in [1..Len(s[j].causedBy) -> Ids]
      BY <1>4, <2>1
    <2> QED
      BY <2>1, <2>2, SeqDef
  <1> HIDE DEF by
  <1>7. /\ DOMAIN r = DOMAIN s
        /\ \A j \in DOMAIN s : /\ r[j].id = Renamed(s[j].id)
                               /\ r[j].type = s[j].type /\ r[j].causedBy = by(j)
    OBVIOUS
  <1>8. r \in Seq(Event) /\ Len(r) = Len(s)
    <2>1. Len(s) \in Nat /\ DOMAIN s = 1..Len(s)
      BY <1>3, EventTypes
    <2>2. \A j \in DOMAIN s : r[j] \in Event
      BY <1>3, <1>4, <1>6, EventTypes DEF Event
    <2>3. r \in [1..Len(s) -> Event]
      BY <2>1, <2>2
    <2>4. r \in Seq(Event)
      BY <2>1, <2>3, SeqDef
    <2> HIDE DEF r
    <2> QED
      BY <1>7, <2>1, <2>4, LenProperties
  <1> HIDE DEF r
  <1>9. \A x \in Declared(s) : \A t : HasType(r, Renamed(x), t) <=> HasType(s, x, t)
    <2> SUFFICES ASSUME NEW x \in Declared(s), NEW t
                 PROVE  HasType(r, Renamed(x), t) <=> HasType(s, x, t)
      OBVIOUS
    <2>1. \A j \in DOMAIN s : r[j].id = Renamed(x) <=> s[j].id = x
      BY <1>3, <1>5, <1>7, ByIdOfEvent
    <2> QED
      BY <1>7, <2>1 DEF HasType
  <1>10. ASSUME NEW j \in DOMAIN s, NEW t PROVE HasCause(r, j, t) <=> HasCause(s, j, t)
    <2>1. \A n \in DOMAIN s[j].causedBy : s[j].causedBy[n] \in Declared(s)
      BY <1>3 DEF WellFormed, ToSet
    <2>2. HasCause(r, j, t) <=>
            \E n \in DOMAIN s[j].causedBy : HasType(r, Renamed(s[j].causedBy[n]), t)
      BY <1>6, <1>7 DEF HasCause, ToSet
    <2>3. HasCause(s, j, t) <=> \E n \in DOMAIN s[j].causedBy : HasType(s, s[j].causedBy[n], t)
      BY DEF HasCause, ToSet
    <2> QED
      BY <1>9, <2>1, <2>2, <2>3
  <1>11. SameStructure(r, s)
    BY <1>7, <1>8, <1>10 DEF SameStructure
  <1>12. Counted(SameStructure(r, b.events))
    BY <1>2, <1>11 DEF Counted, s
  <1> QED
    BY <1>2, <1>8, <1>12, EventsReplaced

LEMMA RetypeEventKeeps ==
  ASSUME Valid(b), RetypeEvent
  PROVE  StepKept
  <1> DEFINE s == b.events
  <1>1. PICK i \in DOMAIN s, t \in Types :
          /\ t # s[i].type
          /\ EditEvents([s EXCEPT ![i].type = t], FALSE)
    BY DEF RetypeEvent
  <1> DEFINE e == [s[i] EXCEPT !.type = t]
             r == [s EXCEPT ![i] = e]
  <1>2. b' = [b EXCEPT !.events = r] /\ WellFormed(r) /\ Counted(FALSE)
    BY <1>1 DEF EditEvents, Edit, Counted
  <1>3. s \in Seq(Event) /\ Len(s) \in Nat /\ DOMAIN s = 1..Len(s) /\ s[i] \in Event
    BY DocumentParts, EventTypes
  <1> HIDE DEF s
  <1>4. e \in Event /\ e.type = t
    BY <1>3 DEF Event
  <1> HIDE DEF e
  <1>5. r \in Seq(Event) /\ Len(r) = Len(s) /\ r[i] = e
    BY <1>3, <1>4, ExceptSeq
  <1> HIDE DEF r
  <1>6. ~SameStructure(r, s)
    BY <1>1, <1>3, <1>4, <1>5, EventTypes DEF SameStructure
  <1>7. Counted(SameStructure(r, b.events))
    BY <1>2, <1>6 DEF Counted, s
  <1> QED
    BY <1>2, <1>5, <1>7, EventsReplaced

LEMMA AppendEventKeeps ==
  ASSUME Valid(b), AppendEvent
  PROVE  StepKept
  <1> DEFINE s == b.events
  <1>1. PICK id \in Ids, t \in Types :
          EditEvents(Append(s, [id |-> id, type |-> t, causedBy |-> <<>>]), FALSE)
    BY DEF AppendEvent
  <1> DEFINE e == [id |-> id, type |-> t, causedBy |-> <<>>]
             r == Append(s, e)
  <1>2. b' = [b EXCEPT !.events = r] /\ WellFormed(r) /\ Counted(FALSE)
    BY <1>1 DEF EditEvents, Edit, Counted
  <1>3. s \in Seq(Event) /\ Len(s) \in Nat
    BY DocumentParts, EventTypes
  <1>4. e \in Event
    BY EmptySeq DEF Event
  <1> HIDE DEF s, e
  <1>5. r \in Seq(Event) /\ Len(r) = Len(s) + 1
    BY <1>3, <1>4, AppendProperties
  <1> HIDE DEF r
  <1>6. ~SameStructure(r, s)
    BY <1>3, <1>5 DEF SameStructure
  <1>7. Counted(SameStructure(r, b.events))
    BY <1>2, <1>6 DEF Counted, s
  <1> QED
    BY <1>2, <1>5, <1>7, EventsReplaced

LEMMA RemoveEventKeeps ==
  ASSUME Valid(b), RemoveEvent
  PROVE  StepKept
  <1> DEFINE s == b.events
  <1>1. PICK i \in DOMAIN s : EditEvents(RemoveAt(s, i), FALSE)
    BY DEF RemoveEvent
  <1> DEFINE r == RemoveAt(s, i)
  <1>2. b' = [b EXCEPT !.events = r] /\ WellFormed(r) /\ Counted(FALSE)
    BY <1>1 DEF EditEvents, Edit, Counted
  <1>3. s \in Seq(Event) /\ Len(s) \in Nat
    BY DocumentParts, EventTypes
  <1> HIDE DEF s
  <1>4. r \in Seq(Event) /\ Len(r) = Len(s) - 1
    BY <1>3, RemovedSeq
  <1> HIDE DEF r
  <1>5. ~SameStructure(r, s)
    BY <1>3, <1>4 DEF SameStructure
  <1>6. Counted(SameStructure(r, b.events))
    BY <1>2, <1>5 DEF Counted, s
  <1> QED
    BY <1>2, <1>4, <1>6, EventsReplaced

LEMMA ReorderCausesKeeps ==
  ASSUME Valid(b), ReorderCauses
  PROVE  StepKept
  <1> DEFINE s == b.events
  <1>0. PICK i \in DOMAIN s : \E n \in 1..(Len(s[i].causedBy) - 1) :
          EditEvents([s EXCEPT ![i].causedBy = Swapped(@, n)], TRUE)
    BY DEF ReorderCauses
  <1>1. PICK n \in 1..(Len(s[i].causedBy) - 1) :
          EditEvents([s EXCEPT ![i].causedBy = Swapped(@, n)], TRUE)
    BY <1>0
  <1> DEFINE by == Swapped(s[i].causedBy, n)
             e == [s[i] EXCEPT !.causedBy = by]
             r == [s EXCEPT ![i] = e]
  <1>2. b' = [b EXCEPT !.events = r] /\ WellFormed(r) /\ Counted(TRUE)
    BY <1>1 DEF EditEvents, Edit, Counted
  <1>3. /\ s \in Seq(Event) /\ Len(s) \in Nat /\ DOMAIN s = 1..Len(s) /\ s[i] \in Event
        /\ s[i].causedBy \in Seq(Ids)
    BY DocumentParts, EventTypes
  <1> HIDE DEF s
  <1>4. by \in Seq(Ids) /\ ToSet(by) = ToSet(s[i].causedBy)
    BY <1>3, SwappedSeq
  <1> HIDE DEF by
  <1>5. e \in Event /\ e.id = s[i].id /\ e.type = s[i].type /\ e.causedBy = by
    BY <1>3, <1>4 DEF Event
  <1> HIDE DEF e
  <1>6. /\ r \in Seq(Event) /\ Len(r) = Len(s) /\ r[i] = e
        /\ \A j \in DOMAIN s : j # i => r[j] = s[j]
    BY <1>3, <1>5, ExceptSeq
  <1> HIDE DEF r
  <1>7. \A x, t : HasType(r, x, t) <=> HasType(s, x, t)
    BY <1>3, <1>5, <1>6, CausesReplaced
  <1>8. \A t : HasCause(r, i, t) <=> HasCause(s, i, t)
    BY <1>4, <1>5, <1>6, <1>7 DEF HasCause
  <1>9. SameStructure(r, s)
    BY <1>3, <1>5, <1>6, <1>8, CausesReplaced
  <1>10. Counted(SameStructure(r, b.events))
    BY <1>2, <1>9 DEF Counted, s
  <1> QED
    BY <1>2, <1>6, <1>10, EventsReplaced

LEMMA AddCauseKeeps ==
  ASSUME Valid(b), AddCause
  PROVE  StepKept
  <1> DEFINE s == b.events
  <1>1. PICK i \in DOMAIN s, c \in ToSet(s) :
          EditEvents([s EXCEPT ![i].causedBy = Append(@, c.id)],
                     HasOtherCauseOfType(i, 0, c.type))
    BY DEF AddCause
  <1> DEFINE old == s[i].causedBy
             by == Append(old, c.id)
             e == [s[i] EXCEPT !.causedBy = by]
             r == [s EXCEPT ![i] = e]
  <1>2. /\ b' = [b EXCEPT !.events = r] /\ WellFormed(r)
        /\ Counted(HasOtherCauseOfType(i, 0, c.type))
    BY <1>1 DEF EditEvents, Edit, Counted
  <1>3. /\ s \in Seq(Event) /\ WellFormed(s) /\ Len(s) \in Nat /\ DOMAIN s = 1..Len(s)
        /\ s[i] \in Event /\ old \in Seq(Ids)
        /\ Len(old) \in Nat /\ DOMAIN old = 1..Len(old)
    BY DocumentParts, EventTypes
  <1>4. PICK k \in DOMAIN s : c = s[k]
    BY DEF ToSet
  <1>5. HasOtherCauseOfType(i, 0, c.type) <=> HasCause(s, i, c.type)
    <2>1. DOMAIN old \ {0} = DOMAIN old
      BY <1>3
    <2>2. HasOtherCauseOfType(i, 0, c.type) <=>
            \E m \in DOMAIN old \ {0} : HasType(s, old[m], c.type)
      BY DEF HasOtherCauseOfType, HasType, ToSet
    <2>3. HasCause(s, i, c.type) <=> \E m \in DOMAIN old : HasType(s, old[m], c.type)
      BY DEF HasCause, ToSet
    <2> QED
      BY <2>1, <2>2, <2>3
  <1> HIDE DEF s
  <1>6. c.id \in Ids
    BY <1>3, <1>4, EventTypes
  <1> HIDE DEF old
  <1>7. by \in Seq(Ids) /\ ToSet(by) = ToSet(old) \cup {c.id}
    <2>1. /\ by \in Seq(Ids) /\ Len(by) = Len(old) + 1
          /\ \A j \in 1..Len(old) : by[j] = old[j]
          /\ by[Len(old) + 1] = c.id
      BY <1>3, <1>6, AppendProperties
    <2> HIDE DEF by
    <2>2. DOMAIN by = 1..(Len(old) + 1)
      BY <2>1, LenProperties
    <2> QED
      BY <1>3, <2>1, <2>2 DEF ToSet
  <1> HIDE DEF by
  <1>8. e \in Event /\ e.id = s[i].id /\ e.type = s[i].type /\ e.causedBy = by
    BY <1>3, <1>7 DEF Event
  <1> HIDE DEF e
  <1>9. /\ r \in Seq(Event) /\ Len(r) = Len(s) /\ r[i] = e
        /\ \A j \in DOMAIN s : j # i => r[j] = s[j]
    BY <1>3, <1>8, ExceptSeq
  <1> HIDE DEF r
  <1>10. \A x, t : HasType(r, x, t) <=> HasType(s, x, t)
    BY <1>3, <1>8, <1>9, CausesReplaced
  <1>11. \A t : HasCause(r, i, t) <=> HasCause(s, i, t) \/ t = c.type
    <2>1. \A t : HasType(s, c.id, t) <=> t = c.type
      BY <1>3, <1>4, TypeOfEvent
    <2>2. \A t : HasCause(r, i, t) <=> \E x \in ToSet(old) \cup {c.id} : HasType(s, x, t)
      BY <1>7, <1>8, <1>9, <1>10 DEF HasCause
    <2> QED
      BY <2>1, <2>2 DEF HasCause, old
  <1>12. SameStructure(r, s) <=> \A t : HasCause(r, i, t) <=> HasCause(s, i, t)
    BY <1>3, <1>8, <1>9, CausesReplaced
  <1>13. SameStructure(r, s) <=> HasCause(s, i, c.type)
    BY <1>11, <1>12
  <1>14. Counted(SameStructure(r, b.events))
    BY <1>2, <1>5, <1>13 DEF Counted, s
  <1> QED
    BY <1>2, <1>9, <1>14, EventsReplaced

LEMMA RemoveCauseKeeps ==
  ASSUME Valid(b), RemoveCause
  PROVE  StepKept
  <1> DEFINE s == b.events
  <1>1. PICK i \in DOMAIN s : \E n \in DOMAIN s[i].causedBy : \E c \in ToSet(s) :
          /\ c.id = s[i].causedBy[n]
          /\ EditEvents([s EXCEPT ![i].causedBy = RemoveAt(@, n)],
                        HasOtherCauseOfType(i, n, c.type))
    BY DEF RemoveCause
  <1> DEFINE old == s[i].causedBy
  <1>2. PICK n \in DOMAIN old, c \in ToSet(s) :
          /\ c.id = old[n]
          /\ EditEvents([s EXCEPT ![i].causedBy = RemoveAt(@, n)],
                        HasOtherCauseOfType(i, n, c.type))
    BY <1>1
  <1> DEFINE by == RemoveAt(old, n)
             e == [s[i] EXCEPT !.causedBy = by]
             r == [s EXCEPT ![i] = e]
  <1>3. /\ b' = [b EXCEPT !.events = r] /\ WellFormed(r)
        /\ Counted(HasOtherCauseOfType(i, n, c.type))
    BY <1>2 DEF EditEvents, Edit, Counted
  <1>4. /\ s \in Seq(Event) /\ WellFormed(s) /\ Len(s) \in Nat /\ DOMAIN s = 1..Len(s)
        /\ s[i] \in Event /\ old \in Seq(Ids)
    BY DocumentParts, EventTypes
  <1>5. PICK k \in DOMAIN s : c = s[k]
    BY DEF ToSet
  <1>6. \A t : HasOtherCauseOfType(i, n, t) <=>
                 \E m \in DOMAIN old : m # n /\ HasType(s, old[m], t)
    BY DEF HasOtherCauseOfType, HasType, ToSet
  <1>7. \A t : HasCause(s, i, t) <=> \E m \in DOMAIN old : HasType(s, old[m], t)
    BY DEF HasCause, ToSet
  <1> HIDE DEF s
  <1> HIDE DEF old
  <1>8. /\ by \in Seq(Ids)
        /\ \A x : x \in ToSet(by) <=> \E m \in DOMAIN old : m # n /\ old[m] = x
    BY <1>4, RemovedSeq
  <1> HIDE DEF by
  <1>9. e \in Event /\ e.id = s[i].id /\ e.type = s[i].type /\ e.causedBy = by
    BY <1>4, <1>8 DEF Event
  <1> HIDE DEF e
  <1>10. /\ r \in Seq(Event) /\ Len(r) = Len(s) /\ r[i] = e
         /\ \A j \in DOMAIN s : j # i => r[j] = s[j]
    BY <1>4, <1>9, ExceptSeq
  <1> HIDE DEF r
  <1>11. \A x, t : HasType(r, x, t) <=> HasType(s, x, t)
    BY <1>4, <1>9, <1>10, CausesReplaced
  <1>12. \A t : HasCause(r, i, t) <=> HasOtherCauseOfType(i, n, t)
    BY <1>6, <1>8, <1>9, <1>10, <1>11 DEF HasCause
  <1>13. \A t : HasCause(s, i, t) <=> HasOtherCauseOfType(i, n, t) \/ t = c.type
    <2>1. \A t : HasType(s, old[n], t) <=> t = c.type
      BY <1>2, <1>4, <1>5, TypeOfEvent
    <2> QED
      BY <1>6, <1>7, <2>1
  <1>14. SameStructure(r, s) <=> \A t : HasCause(r, i, t) <=> HasCause(s, i, t)
    BY <1>4, <1>9, <1>10, CausesReplaced
  <1>15. SameStructure(r, s) <=> HasOtherCauseOfType(i, n, c.type)
    BY <1>12, <1>13, <1>14
  <1>16. Counted(SameStructure(r, b.events))
    BY <1>3, <1>15 DEF Counted, s
  <1> QED
    BY <1>3, <1>10, <1>16, EventsReplaced

\* Two neighbours change places: the structure is the same if they were alike.
LEMMA ReorderEventsKeeps ==
  ASSUME Valid(b), ReorderEvents
  PROVE  StepKept
  <1> DEFINE s == b.events
             Alike(i) ==
                 /\ s[i].type = s[i + 1].type
                 /\ \A t \in Types :
                      (\E h \in ToSet(s) : h.id \in ToSet(s[i].causedBy) /\ h.type = t) <=>
                      (\E h \in ToSet(s) : h.id \in ToSet(s[i + 1].causedBy) /\ h.type = t)
  <1>1. PICK i \in 1..(Len(s) - 1) : EditEvents(Swapped(s, i), Alike(i))
    BY DEF ReorderEvents
  <1> DEFINE r == Swapped(s, i)
  <1>2. b' = [b EXCEPT !.events = r] /\ WellFormed(r) /\ Counted(Alike(i))
    BY <1>1 DEF EditEvents, Edit, Counted
  <1>3. s \in Seq(Event) /\ WellFormed(s) /\ Len(s) \in Nat /\ DOMAIN s = 1..Len(s)
    BY DocumentParts, EventTypes
  <1> HIDE DEF s
  <1>4. /\ r \in Seq(Event) /\ Len(r) = Len(s) /\ DOMAIN r = DOMAIN s
        /\ i \in DOMAIN s /\ i + 1 \in DOMAIN s
        /\ r[i] = s[i + 1] /\ r[i + 1] = s[i]
        /\ \A j \in DOMAIN s : j # i /\ j # i + 1 => r[j] = s[j]
    BY <1>3, SwappedSeq
  <1> HIDE DEF r
  <1>5. \A x, t : HasType(r, x, t) <=> HasType(s, x, t)
    BY <1>4 DEF HasType
  <1>6. /\ \A t : HasCause(r, i, t) <=> HasCause(s, i + 1, t)
        /\ \A t : HasCause(r, i + 1, t) <=> HasCause(s, i, t)
        /\ \A j \in DOMAIN s : j # i /\ j # i + 1 =>
             \A t : HasCause(r, j, t) <=> HasCause(s, j, t)
    BY <1>4, <1>5 DEF HasCause
  <1>7. ASSUME NEW j \in DOMAIN s, NEW t
        PROVE  HasCause(s, j, t) <=>
                 /\ t \in Types
                 /\ \E h \in ToSet(s) : h.id \in ToSet(s[j].causedBy) /\ h.type = t
    BY <1>3, EventTypes DEF HasCause, HasType, ToSet
  <1>8. Alike(i) <=> /\ s[i].type = s[i + 1].type
                     /\ \A t : HasCause(s, i, t) <=> HasCause(s, i + 1, t)
    BY <1>4, <1>7
  <1> HIDE DEF Alike
  <1>9. SameStructure(r, s) <=> Alike(i)
    <2>1. ASSUME SameStructure(r, s) PROVE Alike(i)
      BY <1>4, <1>6, <1>8, <2>1 DEF SameStructure
    <2>2. ASSUME Alike(i) PROVE SameStructure(r, s)
      BY <1>4, <1>6, <1>8, <2>2 DEF SameStructure
    <2> QED
      BY <2>1, <2>2
  <1>10. Counted(SameStructure(r, b.events))
    BY <1>2, <1>9 DEF Counted, s
  <1> QED
    BY <1>2, <1>4, <1>10, EventsReplaced

-----------------------------------------------------------------------------
(* What compare prints                                                     *)

LEMMA JoinedOne ==
  ASSUME NEW S, NEW sep, NEW x \in Seq(S)
  PROVE  Joined(<<x>>, sep) = x
  <1> DEFINE u == <<x>>
             v == [n \in DOMAIN u |-> IF n = 1 THEN u[n] ELSE sep \o u[n]]
  <1>1. v = u
    OBVIOUS
  <1>2. FlattenSeq(u) = x
    BY FlattenOne
  <1> QED
    BY <1>1, <1>2 DEF Joined

\* The pieces that are flattened: every element but the first brings a separator.
Piece(v, n, sep) == IF n = 1 THEN v[n] ELSE sep \o v[n]
Pieces(v, sep) == [n \in DOMAIN v |-> Piece(v, n, sep)]

LEMMA PiecesType ==
  ASSUME NEW S, NEW sep \in Seq(S), NEW v \in Seq(Seq(S))
  PROVE  /\ Pieces(v, sep) \in Seq(Seq(S)) /\ Len(Pieces(v, sep)) = Len(v)
         /\ \A n \in 1..Len(v) : Pieces(v, sep)[n] = Piece(v, n, sep)
         /\ Joined(v, sep) = FlattenSeq(Pieces(v, sep))
  <1>1. Len(v) \in Nat /\ DOMAIN v = 1..Len(v) /\ \A n \in 1..Len(v) : v[n] \in Seq(S)
    BY LenProperties, ElementOfSeq
  <1>2. \A n \in 1..Len(v) : sep \o v[n] \in Seq(S)
    BY <1>1, ConcatProperties
  <1>3. \A n \in 1..Len(v) : Piece(v, n, sep) \in Seq(S)
    BY <1>1, <1>2 DEF Piece
  <1>4. Joined(v, sep) = FlattenSeq(Pieces(v, sep))
    BY DEF Joined, Pieces, Piece
  <1> QED
    BY <1>1, <1>3, <1>4 DEF Pieces

LEMMA JoinedMore ==
  ASSUME NEW S, NEW c \in S, NEW u \in Seq(Seq(S)), u # <<>>, NEW x \in Seq(S)
  PROVE  /\ Joined(u, <<c>>) \in Seq(S)
         /\ Joined(Append(u, x), <<c>>) = Around(Joined(u, <<c>>), c, x)
  <1> DEFINE sep == <<c>>
  <1>1. sep \in Seq(S)
    OBVIOUS
  <1> HIDE DEF sep
  <1>2. /\ Joined(u, sep) \in Seq(S)
        /\ Joined(Append(u, x), sep) = Joined(u, sep) \o (sep \o x)
    <2> DEFINE v == Append(u, x)
               y == sep \o x
    <2>1. /\ v \in Seq(Seq(S)) /\ Len(v) = Len(u) + 1
          /\ \A n \in 1..Len(u) : v[n] = u[n]
          /\ v[Len(u) + 1] = x
          /\ Len(u) \in Nat /\ Len(u) > 0
      BY AppendProperties, LenProperties, EmptySeq
    <2> HIDE DEF v
    <2>2. y \in Seq(S)
      BY <1>1, ConcatProperties
    <2>3. \A n \in 1..Len(u) : Piece(v, n, sep) = Piece(u, n, sep)
      BY <2>1 DEF Piece
    <2>4. ASSUME NEW n \in Nat, n = Len(u) + 1 PROVE Piece(v, n, sep) = y
      <3>1. n # 1 /\ v[n] = x
        BY <2>1, <2>4
      <3> QED
        BY <3>1 DEF Piece
    <2> HIDE DEF y
    <2> DEFINE p == Pieces(u, sep)
               q == Pieces(v, sep)
    <2>5. /\ p \in Seq(Seq(S)) /\ Len(p) = Len(u)
          /\ \A n \in 1..Len(u) : p[n] = Piece(u, n, sep)
      BY <1>1, PiecesType
    <2>6. /\ q \in Seq(Seq(S)) /\ Len(q) = Len(v)
          /\ \A n \in 1..Len(v) : q[n] = Piece(v, n, sep)
      BY <1>1, <2>1, PiecesType
    <2>7. Joined(u, sep) = FlattenSeq(p) /\ Joined(v, sep) = FlattenSeq(q)
      BY <1>1, <2>1, PiecesType
    <2> HIDE DEF p, q
    <2> DEFINE r == Append(p, y)
    <2>8. /\ r \in Seq(Seq(S)) /\ Len(r) = Len(p) + 1
          /\ \A n \in 1..Len(p) : r[n] = p[n]
          /\ r[Len(p) + 1] = y
      BY <2>2, <2>5, AppendProperties
    <2> HIDE DEF r
    <2>9. ASSUME NEW n \in 1..Len(q) PROVE q[n] = r[n]
      <3>1. CASE n \in 1..Len(u)
        <4>1. n \in 1..Len(v) /\ n \in 1..Len(p)
          BY <2>1, <2>5, <3>1
        <4> QED
          BY <2>3, <2>5, <2>6, <2>8, <3>1, <4>1
      <3>2. CASE n = Len(u) + 1
        <4>1. n \in Nat /\ n \in 1..Len(v) /\ n = Len(p) + 1
          BY <2>1, <2>5, <3>2
        <4>2. q[n] = y
          BY <2>4, <2>6, <3>2, <4>1
        <4> QED
          BY <2>8, <4>1, <4>2
      <3> QED
        BY <2>1, <2>6, <3>1, <3>2
    <2>10. q = r
      <3>1. Len(q) = Len(r)
        BY <2>1, <2>5, <2>6, <2>8
      <3> QED
        BY <2>6, <2>8, <2>9, <3>1, SeqEqual
    <2>11. p # <<>>
      BY <2>1, <2>5
    <2>12. FlattenSeq(p) \in Seq(S) /\ FlattenSeq(r) = FlattenSeq(p) \o y
      BY <2>2, <2>5, <2>11, FlattenAppend DEF r
    <2> QED
      BY <2>10, <2>12, <2>7 DEF v, y
  <1> QED
    BY <1>2 DEF Around, sep

\* No element of u contains c.
FreeOf(c, u) == \A i \in 1..Len(u) : c \notin ToSet(u[i])

\* A sequence is one element, or one more than a shorter one.
LEMMA OneOrMore ==
  ASSUME NEW S, NEW u \in Seq(S), u # <<>>
  PROVE  \/ \E x \in S : u = <<x>>
         \/ \E v \in Seq(S), x \in S : v # <<>> /\ u = Append(v, x) /\ Len(u) = Len(v) + 1
  <1>1. PICK v \in Seq(S), x \in S : u = Append(v, x)
    BY SequenceEmptyOrAppend
  <1>2. Len(u) = Len(v) + 1
    BY <1>1, AppendProperties
  <1>3. CASE v = <<>>
    <2>1. u = <<x>>
      BY <1>1, <1>3
    <2> QED
      BY <2>1
  <1>4. CASE v # <<>>
    BY <1>1, <1>2, <1>4
  <1> QED
    BY <1>3, <1>4

LEMMA FreeOfAppend ==
  ASSUME NEW S, NEW c, NEW v \in Seq(S), NEW x \in S, FreeOf(c, Append(v, x))
  PROVE  FreeOf(c, v) /\ c \notin ToSet(x)
  <1> DEFINE u == Append(v, x)
  <1>1. /\ Len(u) = Len(v) + 1 /\ \A n \in 1..Len(v) : u[n] = v[n]
        /\ u[Len(v) + 1] = x /\ Len(v) \in Nat
    BY AppendProperties, LenProperties
  <1>2. FreeOf(c, u)
    OBVIOUS
  <1> HIDE DEF u
  <1>3. /\ Len(v) + 1 \in 1..Len(u)
        /\ \A n \in 1..Len(v) : n \in 1..Len(u)
    BY <1>1
  <1> QED
    BY <1>1, <1>2, <1>3 DEF FreeOf

\* Where no element contains the separator, what is joined can be told apart.
LEMMA JoinedApart ==
  ASSUME NEW S, NEW c \in S,
         NEW u \in Seq(Seq(S)), NEW v \in Seq(Seq(S)), u # <<>>, v # <<>>,
         FreeOf(c, u), FreeOf(c, v), Joined(u, <<c>>) = Joined(v, <<c>>)
  PROVE  u = v
  <1> DEFINE J(s) == Joined(s, <<c>>)
             W == {s \in Seq(Seq(S)) : s # <<>> /\ FreeOf(c, s)}
             T == {n \in Nat : \A s, t \in W : Len(s) = n + 1 /\ J(s) = J(t) => s = t}
  <1>1. \A x \in Seq(S) : J(<<x>>) = x
    BY JoinedOne
  <1>2. \A s \in Seq(Seq(S)), x \in Seq(S) :
          s # <<>> => J(s) \in Seq(S) /\ J(Append(s, x)) = Around(J(s), c, x)
    <2> SUFFICES ASSUME NEW s \in Seq(Seq(S)), NEW x \in Seq(S), s # <<>>
                 PROVE  J(s) \in Seq(S) /\ J(Append(s, x)) = Around(J(s), c, x)
      OBVIOUS
    <2>1. /\ Joined(s, <<c>>) \in Seq(S)
          /\ Joined(Append(s, x), <<c>>) = Around(Joined(s, <<c>>), c, x)
      BY JoinedMore
    <2> QED
      BY <2>1
  <1> HIDE DEF J
  <1>3. ASSUME NEW x \in Seq(S), NEW s \in Seq(Seq(S)), s # <<>>, NEW y \in Seq(S),
               J(<<x>>) = J(Append(s, y))
        PROVE  c \in ToSet(x)
    <2>1. J(s) \in Seq(S) /\ x = Around(J(s), c, y)
      BY <1>1, <1>2, <1>3
    <2>2. ToSet(x) = (ToSet(J(s)) \cup {c}) \cup ToSet(y)
      BY <2>1, AroundRange
    <2> QED
      BY <2>2
  <1>4. ASSUME NEW x \in Seq(S), FreeOf(c, <<x>>) PROVE c \notin ToSet(x)
    BY <1>4 DEF FreeOf
  <1>5. 0 \in T
    <2> SUFFICES ASSUME NEW s \in W, NEW t \in W, Len(s) = 1, J(s) = J(t) PROVE s = t
      OBVIOUS
    <2>1. PICK x \in Seq(S) : s = <<x>>
      <3>1. ~\E r \in Seq(Seq(S)), x \in Seq(S) :
                r # <<>> /\ s = Append(r, x) /\ Len(s) = Len(r) + 1
        BY EmptySeq
      <3>2. s \in Seq(Seq(S)) /\ s # <<>>
        OBVIOUS
      <3> QED
        BY <3>1, <3>2, OneOrMore
    <2>2. c \notin ToSet(x)
      BY <1>4, <2>1
    <2>3. CASE \E y \in Seq(S) : t = <<y>>
      BY <1>1, <2>1, <2>3
    <2>4. CASE \E r \in Seq(Seq(S)), y \in Seq(S) : r # <<>> /\ t = Append(r, y)
      BY <1>3, <2>1, <2>2, <2>4
    <2> QED
      BY <2>3, <2>4, OneOrMore
  <1>6. ASSUME NEW n \in Nat, n \in T PROVE n + 1 \in T
    <2> SUFFICES ASSUME NEW s \in W, NEW t \in W, Len(s) = (n + 1) + 1, J(s) = J(t)
                 PROVE  s = t
      OBVIOUS
    <2>0. s \in Seq(Seq(S)) /\ s # <<>> /\ t \in Seq(Seq(S)) /\ t # <<>>
      OBVIOUS
    <2>1. PICK p \in Seq(Seq(S)), x \in Seq(S) :
            p # <<>> /\ s = Append(p, x) /\ Len(s) = Len(p) + 1
      <3>1. ~\E y \in Seq(S) : s = <<y>>
        <4> SUFFICES ASSUME NEW y, s = <<y>> PROVE FALSE
          OBVIOUS
        <4>1. Len(s) = 1
          OBVIOUS
        <4>2. Len(s) = (n + 1) + 1
          OBVIOUS
        <4> QED
          BY <4>1, <4>2
      <3> QED
        BY <2>0, <3>1, OneOrMore
    <2>2. Len(p) = n + 1
      BY <2>1, LenProperties
    <2>3. p \in W /\ c \notin ToSet(x)
      BY <2>1, FreeOfAppend
    <2>4. CASE \E y \in Seq(S) : t = <<y>>
      <3>1. PICK y \in Seq(S) : t = <<y>>
        BY <2>4
      <3>2. c \notin ToSet(y)
        BY <1>4, <3>1
      <3> QED
        BY <1>3, <2>1, <3>1, <3>2
    <2>5. CASE \E q \in Seq(Seq(S)), y \in Seq(S) : q # <<>> /\ t = Append(q, y)
      <3>1. PICK q \in Seq(Seq(S)), y \in Seq(S) : q # <<>> /\ t = Append(q, y)
        BY <2>5
      <3>2. q \in W /\ c \notin ToSet(y)
        BY <3>1, FreeOfAppend
      <3>3. /\ J(p) \in Seq(S) /\ J(q) \in Seq(S)
            /\ Around(J(p), c, x) = Around(J(q), c, y)
        BY <1>2, <2>1, <3>1
      <3>4. J(p) = J(q) /\ x = y
        BY <2>3, <3>2, <3>3, SplitLast
      <3>5. p = q
        BY <1>6, <2>2, <2>3, <3>2, <3>4
      <3> QED
        BY <2>1, <3>1, <3>4, <3>5
    <2> QED
      BY <2>0, <2>4, <2>5, OneOrMore
  <1>7. Nat \subseteq T
    <2> HIDE DEF T
    <2> QED
      BY <1>5, <1>6, NatSetInduction
  <1>8. u \in W /\ v \in W /\ J(u) = J(v)
    BY DEF J
  <1>9. Len(u) - 1 \in Nat /\ Len(u) = (Len(u) - 1) + 1
    BY EmptySeq
  <1>10. Len(u) - 1 \in T
    BY <1>7, <1>9
  <1> QED
    BY <1>8, <1>9, <1>10

LEMMA JoinedFree ==
  ASSUME NEW S, NEW c \in S, NEW d, d # c, NEW u \in Seq(Seq(S)), u # <<>>, FreeOf(d, u)
  PROVE  d \notin ToSet(Joined(u, <<c>>))
  <1> DEFINE sep == <<c>>
             p == Pieces(u, sep)
  <1>1. sep \in Seq(S) /\ ToSet(sep) = {c}
    BY DEF ToSet
  <1> HIDE DEF sep
  <1>2. /\ Len(u) \in Nat /\ Len(u) > 0
        /\ \A n \in 1..Len(u) : u[n] \in Seq(S) /\ d \notin ToSet(u[n])
    BY EmptySeq, ElementOfSeq DEF FreeOf
  <1>3. /\ p \in Seq(Seq(S)) /\ Len(p) = Len(u)
        /\ \A n \in 1..Len(u) : p[n] = Piece(u, n, sep)
        /\ Joined(u, sep) = FlattenSeq(p)
    BY <1>1, PiecesType
  <1> HIDE DEF p
  <1>4. ASSUME NEW n \in 1..Len(u) PROVE d \notin ToSet(p[n])
    <2>1. CASE n = 1
      <3>1. p[n] = u[n]
        BY <1>3, <2>1 DEF Piece
      <3> QED
        BY <1>2, <3>1
    <2>2. CASE n # 1
      <3>1. p[n] = sep \o u[n]
        BY <1>3, <2>2 DEF Piece
      <3>2. ToSet(p[n]) = ToSet(sep) \cup ToSet(u[n])
        BY <1>1, <1>2, <3>1, ConcatRange
      <3> QED
        BY <1>1, <1>2, <3>2
    <2> QED
      BY <2>1, <2>2
  <1>5. p # <<>>
    BY <1>2, <1>3
  <1>6. \A e : e \in ToSet(FlattenSeq(p)) <=> \E i \in 1..Len(p) : e \in ToSet(p[i])
    BY <1>3, <1>5, FlattenRange
  <1> QED
    BY <1>3, <1>4, <1>6 DEF sep

-----------------------------------------------------------------------------
(* The summary of an event                                                 *)

\* The tokens of the types, and those that the summary puts between them.
Marks == {" | ", ", ", "<-[", "]"}
Tokens == Marks \cup UNION {ToSet(t) : t \in Types}

\* The summary of an event of type t with the sorted cause types u.
Shown(t, u) ==
    IF u = <<>> THEN t ELSE Around(t, "<-[", Joined(u, <<", ">>) \o <<"]">>)

LEMMA TypesAreTexts ==
  /\ Types \subseteq Seq(Tokens)
  /\ " | " \in Tokens /\ ", " \in Tokens /\ "<-[" \in Tokens /\ "]" \in Tokens
  /\ Len(TypeOrder) \in Nat /\ DOMAIN TypeOrder = 1..Len(TypeOrder)
  /\ Types = {TypeOrder[n] : n \in 1..Len(TypeOrder)}
  <1>1. ASSUME NEW t \in Types PROVE t \in Seq(Tokens)
    <2>1. t \in Seq(ToSet(t)) /\ ToSet(t) \subseteq Tokens
      BY TypeOrderAssumption DEF Tokens
    <2> QED
      BY <2>1, SeqMonotonic
  <1>2. Len(TypeOrder) \in Nat /\ DOMAIN TypeOrder = 1..Len(TypeOrder)
    BY TypeOrderAssumption, LenProperties
  <1>3. Types = {TypeOrder[n] : n \in 1..Len(TypeOrder)}
    BY <1>2 DEF Types, ToSet
  <1>4. " | " \in Tokens /\ ", " \in Tokens /\ "<-[" \in Tokens /\ "]" \in Tokens
    <2>1. Marks \subseteq Tokens
      BY DEF Tokens
    <2>2. " | " \in Marks /\ ", " \in Marks /\ "<-[" \in Marks /\ "]" \in Marks
      BY DEF Marks
    <2> QED
      BY <2>1, <2>2
  <1> QED
    BY <1>1, <1>2, <1>3, <1>4

LEMMA OneToken ==
  ASSUME NEW S, NEW c \in S
  PROVE  <<c>> \in Seq(S) /\ ToSet(<<c>>) = {c}
  BY DEF ToSet

LEMMA OccurrencesOf ==
  ASSUME NEW S, NEW list \in Seq(S), NEW x
  PROVE  Occurrences(list, x) \in Nat /\ (Occurrences(list, x) = 0 <=> x \notin ToSet(list))
  <1> DEFINE I == {i \in DOMAIN list : list[i] = x}
  <1>1. Len(list) \in Nat /\ DOMAIN list = 1..Len(list)
    BY LenProperties
  <1>2. IsFiniteSet(1..Len(list)) /\ I \subseteq 1..Len(list)
    BY <1>1, FS_Interval
  <1>3. IsFiniteSet(I)
    BY <1>2, FS_Subset
  <1>4. I = {} <=> x \notin ToSet(list)
    BY DEF ToSet
  <1> HIDE DEF I
  <1>5. Cardinality(I) \in Nat /\ (Cardinality(I) = 0 <=> I = {})
    BY <1>3, FS_CardinalityType, FS_EmptySet
  <1> QED
    BY <1>4, <1>5 DEF Occurrences, I

\* Sorting keeps what is in a list.
LEMMA SortedRange ==
  ASSUME NEW types \in Seq(Types), Types # {}
  PROVE  SortedTypes(types) \in Seq(Types) /\ ToSet(SortedTypes(types)) = ToSet(types)
  <1> DEFINE n == Len(TypeOrder)
             Block(k) == [i \in 1..Occurrences(types, TypeOrder[k]) |-> TypeOrder[k]]
             u == [k \in DOMAIN TypeOrder |-> Block(k)]
  <1>1. n \in Nat /\ n > 0 /\ DOMAIN TypeOrder = 1..n /\ \A k \in 1..n : TypeOrder[k] \in Types
    <2>1. n \in Nat /\ DOMAIN TypeOrder = 1..n /\ Types = {TypeOrder[k] : k \in 1..n}
      BY TypesAreTexts
    <2> HIDE DEF n
    <2>2. PICK t \in Types : TRUE
      OBVIOUS
    <2>3. PICK k \in 1..n : t = TypeOrder[k]
      BY <2>1
    <2>4. n > 0
      BY <2>1
    <2> QED
      BY <2>1, <2>4
  <1>2. ASSUME NEW k \in 1..n
        PROVE  /\ Block(k) \in Seq(Types)
               /\ \A t : t \in ToSet(Block(k)) <=> t = TypeOrder[k] /\ t \in ToSet(types)
    <2> DEFINE m == Occurrences(types, TypeOrder[k])
    <2>1. m \in Nat /\ (m = 0 <=> TypeOrder[k] \notin ToSet(types))
      BY OccurrencesOf
    <2> HIDE DEF m
    <2>2. [i \in 1..m |-> TypeOrder[k]] \in Seq(Types)
      BY <1>1, <2>1
    <2>3. \A t : t \in ToSet([i \in 1..m |-> TypeOrder[k]]) <=> m # 0 /\ t = TypeOrder[k]
      <3>1. 1..m = {} <=> m = 0
        BY <2>1
      <3> QED
        BY <3>1 DEF ToSet
    <2> QED
      BY <2>1, <2>2, <2>3 DEF m
  <1>3. SortedTypes(types) = FlattenSeq(u)
    BY DEF SortedTypes
  <1> HIDE DEF Block, n
  <1>4. /\ u \in Seq(Seq(Types)) /\ Len(u) = n /\ u # <<>>
        /\ \A k \in 1..n : u[k] = Block(k)
    <2>1. u = [k \in 1..n |-> Block(k)]
      BY <1>1
    <2>2. \A k \in 1..n : Block(k) \in Seq(Types)
      BY <1>2
    <2> HIDE DEF u
    <2>3. u \in Seq(Seq(Types)) /\ Len(u) = n
      BY <1>1, <2>1, <2>2
    <2>4. u # <<>>
      BY <1>1, <2>3
    <2> QED
      BY <2>1, <2>3, <2>4
  <1> HIDE DEF u
  <1>5. /\ FlattenSeq(u) \in Seq(Types)
        /\ \A t : t \in ToSet(FlattenSeq(u)) <=> \E k \in 1..n : t \in ToSet(u[k])
    BY <1>4, FlattenRange
  <1>6. \A t : t \in ToSet(types) => \E k \in 1..n : t = TypeOrder[k]
    <2>1. \A t \in ToSet(types) : t \in Types
      BY LenProperties DEF ToSet
    <2> QED
      BY <2>1, TypesAreTexts DEF n
  <1>7. \A t : t \in ToSet(FlattenSeq(u)) <=> t \in ToSet(types)
    BY <1>2, <1>4, <1>5, <1>6
  <1> QED
    BY <1>3, <1>5, <1>7

\* The types of an event and of its causes are what the summary shows.
LEMMA SummaryIsShown ==
  ASSUME NEW s \in Seq(Event), WellFormed(s), NEW i \in DOMAIN s
  PROVE  \E u \in Seq(Types) :
           /\ ToSet(u) = EventIdentity(s, s[i]).causes
           /\ EventSummary(s, s[i]) = Shown(s[i].type, u)
  <1> DEFINE types == CauseTypeSeq(s, s[i])
             by == s[i].causedBy
             u == SortedTypes(types)
             t == s[i].type
             J == Joined(u, <<", ">>)
  <1>1. types \in Seq(Types)
    <2>1. Len(by) \in Nat /\ DOMAIN by = 1..Len(by)
      BY EventTypes
    <2>2. ASSUME NEW n \in 1..Len(by) PROVE ById(s)[by[n]].type \in Types
      <3>1. by[n] \in Declared(s)
        BY <2>1 DEF WellFormed, ToSet
      <3>2. PICK j \in DOMAIN s : s[j].id = by[n]
        BY <3>1 DEF Declared
      <3>3. ById(s)[by[n]] = s[j]
        BY <3>2, ByIdOfEvent
      <3> QED
        BY <3>3, EventTypes
    <2> QED
      BY <2>1, <2>2 DEF CauseTypeSeq
  <1>2. t \in Types /\ t \in Seq(Tokens)
    BY EventTypes, TypesAreTexts
  <1>3. u \in Seq(Types) /\ ToSet(u) = ToSet(types)
    BY <1>1, <1>2, SortedRange
  <1>4. ToSet(u) = EventIdentity(s, s[i]).causes
    BY <1>3 DEF EventIdentity
  <1>5. EventSummary(s, s[i]) =
          IF u = <<>> THEN t ELSE t \o <<"<-[">> \o J \o <<"]">>
    BY DEF EventSummary
  <1> HIDE DEF types, u, t
  <1>6. u # <<>> => t \o <<"<-[">> \o J \o <<"]">> = Around(t, "<-[", J \o <<"]">>)
    <2> SUFFICES ASSUME u # <<>>
                 PROVE  ((t \o <<"<-[">>) \o J) \o <<"]">> = t \o (<<"<-[">> \o (J \o <<"]">>))
      BY DEF Around
    <2> DEFINE A == <<"<-[">>
               B == <<"]">>
    <2>1. A \in Seq(Tokens) /\ B \in Seq(Tokens)
      BY TypesAreTexts, OneToken
    <2>2. J \in Seq(Tokens)
      <3>1. u \in Seq(Seq(Tokens))
        BY <1>3, TypesAreTexts, SeqMonotonic
      <3>2. ", " \in Tokens
        BY TypesAreTexts
      <3> QED
        BY <1>2, <3>1, <3>2, JoinedMore
    <2> HIDE DEF A, B, J
    <2>3. AllAssociate(t, A, J, B)
      BY <1>2, <2>1, <2>2, ConcatFour
    <2>4. ((t \o A) \o J) \o B = t \o (A \o (J \o B))
      BY ONLY <2>3 DEF AllAssociate
    <2> QED
      BY ONLY <2>4 DEF A, B
  <1>7. EventSummary(s, s[i]) = Shown(t, u)
    BY <1>5, <1>6 DEF Shown
  <1> QED
    BY <1>3, <1>4, <1>7 DEF t

\* Cause types, one after the other, as one text.
LEMMA CausesShown ==
  ASSUME PlainTypes, NEW u \in Seq(Types), u # <<>>
  PROVE  /\ u \in Seq(Seq(Tokens)) /\ FreeOf(", ", u) /\ FreeOf(" | ", u)
         /\ Joined(u, <<", ">>) \in Seq(Tokens)
         /\ " | " \notin ToSet(Joined(u, <<", ">>))
         /\ Joined(u, <<", ">>) \o <<"]">> \in Seq(Tokens)
         /\ " | " \notin ToSet(Joined(u, <<", ">>) \o <<"]">>)
  <1> DEFINE J == Joined(u, <<", ">>)
             B == <<"]">>
  <1>1. u \in Seq(Seq(Tokens)) /\ ", " \in Tokens /\ B \in Seq(Tokens)
    BY TypesAreTexts, SeqMonotonic, OneToken
  <1>2. \A i \in 1..Len(u) : u[i] \in Types
    BY ElementOfSeq
  <1>3. FreeOf(", ", u) /\ FreeOf(" | ", u)
    BY <1>2 DEF FreeOf, PlainTypes
  <1>4. J \in Seq(Tokens)
    BY <1>1, JoinedMore
  <1>5. " | " \notin ToSet(J)
    <2>1. " | " # ", "
      OBVIOUS
    <2> QED
      BY <1>1, <1>3, <2>1, JoinedFree
  <1>6. " | " \notin ToSet(B)
    <2>1. ToSet(B) = {"]"} /\ " | " # "]"
      BY OneToken
    <2> QED
      BY <2>1
  <1> HIDE DEF J, B
  <1>7. J \o B \in Seq(Tokens) /\ ToSet(J \o B) = ToSet(J) \cup ToSet(B)
    <2>. J \in Seq(Tokens) /\ B \in Seq(Tokens)
      BY <1>1, <1>4
    <2>1. J \o B \in Seq(Tokens)
      BY ONLY J \in Seq(Tokens), B \in Seq(Tokens), ConcatProperties
    <2>2. ToSet(J \o B) = ToSet(J) \cup ToSet(B)
      BY ONLY J \in Seq(Tokens), B \in Seq(Tokens), ConcatRange
    <2> QED
      BY <2>1, <2>2
  <1> QED
    BY <1>1, <1>3, <1>4, <1>5, <1>6, <1>7 DEF J, B

\* The summary of an event is a text without the separator of the summaries.
LEMMA ShownText ==
  ASSUME PlainTypes, NEW t \in Types, NEW u \in Seq(Types)
  PROVE  /\ Shown(t, u) \in Seq(Tokens) /\ Shown(t, u) # <<>>
         /\ " | " \notin ToSet(Shown(t, u))
  <1>1. t \in Seq(Tokens) /\ t # <<>> /\ " | " \notin ToSet(t) /\ "<-[" \in Tokens
    BY TypesAreTexts DEF PlainTypes
  <1>2. CASE u = <<>>
    BY <1>1, <1>2 DEF Shown
  <1>3. CASE u # <<>>
    <2> DEFINE w == Joined(u, <<", ">>) \o <<"]">>
               c == "<-["
               z == Around(t, c, w)
    <2>1. w \in Seq(Tokens) /\ " | " \notin ToSet(w)
      BY <1>3, CausesShown
    <2>2. Shown(t, u) = z
      BY <1>3 DEF Shown
    <2>6. c \in Tokens /\ " | " # c
      BY <1>1
    <2> HIDE DEF w, c
    <2>3. ToSet(z) = (ToSet(t) \cup {c}) \cup ToSet(w)
      <3>1. t \in Seq(Tokens) /\ c \in Tokens /\ w \in Seq(Tokens)
        BY <1>1, <2>1, <2>6
      <3> QED
        BY ONLY <3>1, AroundRange
    <2>4. z \in Seq(Tokens) /\ MadeOf(z, t, c, w)
      BY <1>1, <2>1, <2>6, AroundParts
    <2> HIDE DEF z
    <2>5. z # <<>>
      <3>1. Len(z) > 0
        BY <2>4 DEF MadeOf
      <3> QED
        BY <3>1, <2>4, EmptySeq
    <2> QED
      BY <1>1, <2>1, <2>2, <2>3, <2>4, <2>5, <2>6
  <1> QED
    BY <1>2, <1>3

\* Of two events with one summary the types and the cause types are the same.
LEMMA ShownApart ==
  ASSUME PlainTypes, NEW t \in Types, NEW u \in Seq(Types),
         NEW x \in Types, NEW v \in Seq(Types), Shown(t, u) = Shown(x, v)
  PROVE  t = x /\ u = v
  <1>1. /\ t \in Seq(Tokens) /\ "<-[" \notin ToSet(t)
        /\ x \in Seq(Tokens) /\ "<-[" \notin ToSet(x)
        /\ "<-[" \in Tokens /\ "]" \in Tokens /\ ", " \in Tokens
    BY TypesAreTexts DEF PlainTypes
  <1>2. ASSUME NEW p \in Seq(Types), p # <<>>, NEW y \in Seq(Tokens)
        PROVE  "<-[" \in ToSet(Around(y, "<-[", Joined(p, <<", ">>) \o <<"]">>))
    <2> DEFINE c == "<-["
               w == Joined(p, <<", ">>) \o <<"]">>
    <2>1. w \in Seq(Tokens) /\ c \in Tokens
      BY <1>1, <1>2, CausesShown
    <2> HIDE DEF c, w
    <2>2. ToSet(Around(y, c, w)) = (ToSet(y) \cup {c}) \cup ToSet(w)
      BY <2>1, AroundRange
    <2>3. c \in ToSet(Around(y, c, w))
      BY <2>2
    <2> QED
      BY <2>3 DEF c, w
  <1>3. CASE u = <<>> /\ v = <<>>
    BY <1>3 DEF Shown
  <1>4. CASE u = <<>> /\ v # <<>>
    BY <1>1, <1>2, <1>4 DEF Shown
  <1>5. CASE u # <<>> /\ v = <<>>
    BY <1>1, <1>2, <1>5 DEF Shown
  <1>6. CASE u # <<>> /\ v # <<>>
    <2> DEFINE J == Joined(u, <<", ">>)
               K == Joined(v, <<", ">>)
               B == <<"]">>
    <2>1. /\ J \in Seq(Tokens) /\ J \o B \in Seq(Tokens)
          /\ u \in Seq(Seq(Tokens)) /\ FreeOf(", ", u)
      BY <1>6, CausesShown
    <2>2. /\ K \in Seq(Tokens) /\ K \o B \in Seq(Tokens)
          /\ v \in Seq(Seq(Tokens)) /\ FreeOf(", ", v)
      BY <1>6, CausesShown
    <2>3. Around(t, "<-[", J \o B) = Around(x, "<-[", K \o B)
      BY <1>6 DEF Shown
    <2>4. B \in Seq(Tokens)
      BY <1>1, OneToken
    <2> HIDE DEF B
    <2>5. t = x /\ J \o B = K \o B
      <3> DEFINE c == "<-["
                 w == J \o B
                 y == K \o B
      <3>1. /\ c \in Tokens /\ c \notin ToSet(t) /\ c \notin ToSet(x)
            /\ w \in Seq(Tokens) /\ y \in Seq(Tokens)
            /\ Around(t, c, w) = Around(x, c, y)
        BY <1>1, <2>1, <2>2, <2>3
      <3> HIDE DEF c, w, y
      <3>2. t = x /\ w = y
        BY <1>1, <3>1, SplitFirst
      <3> QED
        BY <3>2 DEF w, y
    <2>6. J = K
      <3> HIDE DEF J, K
      <3> QED
        BY <2>1, <2>2, <2>4, <2>5, ConcatSimplifications
    <2>7. u = v
      BY <1>1, <1>6, <2>1, <2>2, <2>6, JoinedApart
    <2> QED
      BY <2>5, <2>7
  <1> QED
    BY <1>3, <1>4, <1>5, <1>6

\* The summaries of the events, in the order of the file.
Summaries(s) == [i \in DOMAIN s |-> EventSummary(s, s[i])]

LEMMA SummariesAreTexts ==
  ASSUME PlainTypes, NEW s \in Seq(Event), WellFormed(s)
  PROVE  /\ Summaries(s) \in Seq(Seq(Tokens)) /\ Len(Summaries(s)) = Len(s)
         /\ \A i \in 1..Len(s) : /\ Summaries(s)[i] = EventSummary(s, s[i])
                                 /\ Summaries(s)[i] # <<>>
         /\ FreeOf(" | ", Summaries(s))
         /\ Joined(Summaries(s), <<" | ">>) = EventStructureSignature(s)
  <1> DEFINE u == Summaries(s)
  <1>1. Len(s) \in Nat /\ DOMAIN s = 1..Len(s)
    BY EventTypes
  <1>2. ASSUME NEW i \in 1..Len(s)
        PROVE  /\ EventSummary(s, s[i]) \in Seq(Tokens) /\ EventSummary(s, s[i]) # <<>>
               /\ " | " \notin ToSet(EventSummary(s, s[i]))
    <2>1. PICK v \in Seq(Types) : EventSummary(s, s[i]) = Shown(s[i].type, v)
      BY <1>1, SummaryIsShown
    <2>2. s[i].type \in Types
      BY <1>1, EventTypes
    <2> QED
      BY <2>1, <2>2, ShownText
  <1>3. u = [i \in 1..Len(s) |-> EventSummary(s, s[i])]
    BY <1>1 DEF Summaries
  <1>4. Joined(u, <<" | ">>) = EventStructureSignature(s)
    BY DEF Summaries, EventStructureSignature
  <1> HIDE DEF u
  <1>5. u \in Seq(Seq(Tokens)) /\ Len(u) = Len(s)
    <2> DEFINE E(i) == EventSummary(s, s[i])
    <2>1. u = [i \in 1..Len(s) |-> E(i)] /\ \A i \in 1..Len(s) : E(i) \in Seq(Tokens)
      BY <1>2, <1>3
    <2> HIDE DEF E
    <2> QED
      BY <1>1, <2>1
  <1>6. \A i \in 1..Len(s) : u[i] = EventSummary(s, s[i])
    BY <1>3
  <1>7. FreeOf(" | ", u)
    BY <1>2, <1>5, <1>6 DEF FreeOf
  <1> QED
    BY <1>2, <1>4, <1>5, <1>6, <1>7 DEF u

LEMMA JoinedNotEmpty ==
  ASSUME NEW S, NEW c \in S, NEW u \in Seq(Seq(S)), u # <<>>, u[1] # <<>>
  PROVE  Joined(u, <<c>>) # <<>>
  <1> DEFINE sep == <<c>>
             p == Pieces(u, sep)
  <1>1. sep \in Seq(S)
    BY OneToken
  <1>2. Len(u) \in Nat /\ 1 \in 1..Len(u) /\ u[1] \in Seq(S)
    BY EmptySeq, ElementOfSeq
  <1> HIDE DEF sep
  <1>3. /\ p \in Seq(Seq(S)) /\ Len(p) = Len(u)
        /\ \A n \in 1..Len(u) : p[n] = Piece(u, n, sep)
        /\ Joined(u, sep) = FlattenSeq(p)
    BY <1>1, PiecesType
  <1> HIDE DEF p
  <1>4. p[1] = u[1] /\ p # <<>>
    BY <1>2, <1>3 DEF Piece
  <1>5. PICK e : e \in ToSet(u[1])
    <2> DEFINE x == u[1]
    <2>0. x \in Seq(S) /\ x # <<>>
      BY <1>2
    <2> HIDE DEF x
    <2>1. Len(x) \in Nat /\ Len(x) > 0 /\ DOMAIN x = 1..Len(x)
      BY <2>0, EmptySeq, LenProperties
    <2>2. x[1] \in ToSet(x)
      BY <2>1 DEF ToSet
    <2> QED
      BY <2>2 DEF x
  <1>6. e \in ToSet(FlattenSeq(p))
    BY <1>2, <1>3, <1>4, <1>5, FlattenRange
  <1>7. FlattenSeq(p) # <<>>
    BY <1>6 DEF ToSet
  <1> QED
    BY <1>3, <1>7 DEF sep

\* Two sequences of events with one signature have one structure.
LEMMA SignatureApart ==
  ASSUME PlainTypes,
         NEW s \in Seq(Event), WellFormed(s), NEW r \in Seq(Event), WellFormed(r),
         EventStructureSignature(s) = EventStructureSignature(r)
  PROVE  SameStructure(s, r)
  <1> DEFINE u == Summaries(s)
             v == Summaries(r)
             c == " | "
  <1>1. /\ u \in Seq(Seq(Tokens)) /\ Len(u) = Len(s) /\ FreeOf(c, u)
        /\ \A i \in 1..Len(s) : u[i] = EventSummary(s, s[i]) /\ u[i] # <<>>
        /\ Joined(u, <<c>>) = EventStructureSignature(s)
    BY SummariesAreTexts
  <1>2. /\ v \in Seq(Seq(Tokens)) /\ Len(v) = Len(r) /\ FreeOf(c, v)
        /\ \A i \in 1..Len(r) : v[i] = EventSummary(r, r[i]) /\ v[i] # <<>>
        /\ Joined(v, <<c>>) = EventStructureSignature(r)
    BY SummariesAreTexts
  <1>3. c \in Tokens
    BY TypesAreTexts
  <1>4. Joined(<<>>, <<c>>) = <<>>
    BY DEF Joined, FlattenSeq
  <1>5. Joined(u, <<c>>) = Joined(v, <<c>>)
    BY <1>1, <1>2
  <1>6. /\ Len(s) \in Nat /\ DOMAIN s = 1..Len(s)
        /\ Len(r) \in Nat /\ DOMAIN r = 1..Len(r)
    BY EventTypes
  <1> HIDE DEF u, v, c
  <1>7. u # <<>> => Joined(u, <<c>>) # <<>>
    <2> SUFFICES ASSUME u # <<>> PROVE Joined(u, <<c>>) # <<>>
      OBVIOUS
    <2>1. u[1] # <<>>
      <3>1. 1 \in 1..Len(s)
        BY <1>1, EmptySeq
      <3> QED
        BY <1>1, <3>1
    <2> QED
      BY <1>1, <1>3, <2>1, JoinedNotEmpty
  <1>8. v # <<>> => Joined(v, <<c>>) # <<>>
    <2> SUFFICES ASSUME v # <<>> PROVE Joined(v, <<c>>) # <<>>
      OBVIOUS
    <2>1. v[1] # <<>>
      <3>1. 1 \in 1..Len(r)
        BY <1>2, EmptySeq
      <3> QED
        BY <1>2, <3>1
    <2> QED
      BY <1>2, <1>3, <2>1, JoinedNotEmpty
  <1>9. u = v
    <2>1. u = <<>> <=> v = <<>>
      BY <1>4, <1>5, <1>7, <1>8
    <2>2. CASE u # <<>> /\ v # <<>>
      BY <1>1, <1>2, <1>3, <1>5, <2>2, JoinedApart
    <2> QED
      BY <2>1, <2>2
  <1>10. Len(s) = Len(r)
    BY <1>1, <1>2, <1>9
  <1>11. ASSUME NEW i \in DOMAIN s PROVE EventIdentity(s, s[i]) = EventIdentity(r, r[i])
    <2>1. i \in DOMAIN r /\ EventSummary(s, s[i]) = EventSummary(r, r[i])
      BY <1>1, <1>2, <1>6, <1>9, <1>10
    <2>2. PICK p \in Seq(Types) : /\ ToSet(p) = EventIdentity(s, s[i]).causes
                                  /\ EventSummary(s, s[i]) = Shown(s[i].type, p)
      BY SummaryIsShown
    <2>3. PICK q \in Seq(Types) : /\ ToSet(q) = EventIdentity(r, r[i]).causes
                                  /\ EventSummary(r, r[i]) = Shown(r[i].type, q)
      BY <2>1, SummaryIsShown
    <2>4. s[i].type \in Types /\ r[i].type \in Types
      BY <2>1, EventTypes
    <2>5. s[i].type = r[i].type /\ p = q
      <3> DEFINE t == s[i].type
                 x == r[i].type
      <3>1. t \in Types /\ x \in Types /\ Shown(t, p) = Shown(x, q)
        BY <2>1, <2>2, <2>3, <2>4
      <3> HIDE DEF t, x
      <3>2. t = x /\ p = q
        BY <3>1, ShownApart
      <3> QED
        BY <3>2 DEF t, x
    <2> QED
      BY <2>2, <2>3, <2>5 DEF EventIdentity
  <1>12. Structure(s) = Structure(r)
    BY <1>6, <1>10, <1>11 DEF Structure
  <1> QED
    BY <1>12, StructureEqual

\* Two lists with the same sorted copies have the same entries.
LEMMA SortedApart ==
  ASSUME NEW s \in Seq(Values), NEW t \in Seq(Values), SameSorted(s, t)
  PROVE  ToSet(s) = ToSet(t)
  <1>1. \A v \in Values : v \in ToSet(s) <=> v \in ToSet(t)
    BY OccurrencesOf DEF SameSorted
  <1>2. ToSet(s) \subseteq Values /\ ToSet(t) \subseteq Values
    BY LenProperties DEF ToSet
  <1> QED
    BY <1>1, <1>2

-----------------------------------------------------------------------------
(* The theorems                                                            *)

LEMMA NextKeeps ==
  ASSUME Valid(b), Next
  PROVE  StepKept
  BY RewordRecordKeeps, RewordTriggerKeeps, ReorderListKeeps, AddEntryKeeps,
     RemoveEntryKeeps, RenameEventKeeps, RetypeEventKeeps, AppendEventKeeps,
     RemoveEventKeeps, ReorderEventsKeeps, ReorderCausesKeeps, AddCauseKeeps,
     RemoveCauseKeeps
     DEF Next

\* The inductive invariant: what the author leaves is a valid document, and
\* as long as no edit was material it has the payload of the original.
THEOREM IdentityInvariant == Spec => []IInv
  <1>1. Init => IInv
    BY OriginalsAssumption DEF Init, IInv, Valid, CosmeticEditsKeepIdentity, Identical
  <1>2. ASSUME IInv, [Next]_vars PROVE IInv'
    <2>1. CASE Next
      <3>1. StepKept
        BY <1>2, <2>1, NextKeeps DEF IInv
      <3>2. a' \in Originals /\ Valid(b)'
        BY <1>2, <3>1 DEF IInv, StepKept, Valid
      <3>3. CosmeticEditsKeepIdentity'
        <4> SUFFICES ASSUME ~changed' PROVE IdentityPayload(a') = IdentityPayload(b')
          BY DEF CosmeticEditsKeepIdentity, Identical
        <4>1. ~changed /\ IdentityPayload(b') = IdentityPayload(b) /\ a' = a
          BY <3>1 DEF StepKept
        <4> QED
          BY <1>2, <4>1 DEF IInv, CosmeticEditsKeepIdentity, Identical
      <3> QED
        BY <3>2, <3>3 DEF IInv
    <2>2. CASE UNCHANGED vars
      BY <1>2, <2>2 DEF vars, IInv, Valid, CosmeticEditsKeepIdentity, Identical
    <2> QED
      BY <1>2, <2>1, <2>2
  <1> QED
    BY <1>1, <1>2, PTL DEF Spec

\* However often an author reorders, repeats, renames or rewords, the
\* fingerprint stays: no bound on the edits, the document or its lists.
THEOREM CosmeticKeeps == Spec => []CosmeticEditsKeepIdentity
  <1>1. IInv => CosmeticEditsKeepIdentity
    BY DEF IInv
  <1> QED
    BY <1>1, IdentityInvariant, PTL

\* An edit counted as material changes the payload that is hashed.
THEOREM MaterialIsNoticed == Spec => MaterialEditIsNoticed
  <1>1. ASSUME IInv, [Next]_vars
        PROVE  [edit' = "material" => IdentityPayload(b') # IdentityPayload(b)]_vars
    <2>1. CASE Next
      BY <1>1, <2>1, NextKeeps DEF IInv, StepKept
    <2> QED
      BY <1>1, <2>1
  <1> QED
    BY <1>1, IdentityInvariant, PTL DEF Spec, MaterialEditIsNoticed

\* Where no type contains a separator, compare names a dimension of every
\* difference that it reports: what it derives the differences from tells
\* apart all that the fingerprint does.
THEOREM DifferencesAreExplained ==
  ASSUME PlainTypes
  PROVE  Spec => []DifferenceIsExplained
  <1>1. ASSUME IInv PROVE DifferenceIsExplained
    <2>1. Valid(a) /\ Valid(b)
      BY <1>1, OriginalsAssumption DEF IInv, Valid
    <2> SUFFICES ASSUME ~Identical, Differences = {} PROVE FALSE
      BY DEF DifferenceIsExplained
    <2>2. DiffDimensions = {}
      BY DEF Differences
    <2>3. \A d \in Dimensions : SameSorted(a.lists[d], b.lists[d])
      BY <2>2 DEF DiffDimensions
    <2>4. a.trigger = b.trigger
      BY <2>2, DimensionsAssumption DEF DiffDimensions
    <2>5. EventStructureSignature(a.events) = EventStructureSignature(b.events)
      BY <2>2 DEF DiffDimensions
    <2>6. /\ a.events \in Seq(Event) /\ WellFormed(a.events)
          /\ b.events \in Seq(Event) /\ WellFormed(b.events)
          /\ a.lists \in [Dimensions -> Seq(Values)] /\ b.lists \in [Dimensions -> Seq(Values)]
      BY <2>1 DEF Valid, Document
    <2>7. SameStructure(a.events, b.events)
      BY <2>5, <2>6, SignatureApart
    <2>8. \A d \in Dimensions : ToSet(a.lists[d]) = ToSet(b.lists[d])
      BY <2>3, <2>6, SortedApart
    <2>9. IdentityPayload(a) = IdentityPayload(b)
      BY <2>1, <2>4, <2>7, <2>8, PayloadEqual
    <2> QED
      BY <2>9 DEF Identical
  <1> QED
    BY <1>1, IdentityInvariant, PTL
=============================================================================
