--------------------------- MODULE EvidenceProofs ---------------------------
(***************************************************************************)
(* Theorems about EvidenceStore, for any processes, sources, documents,    *)
(* damages and limits, next to a second actor that damages objects.        *)
(***************************************************************************)
EXTENDS EvidenceStore, FiniteSetTheorems, SequenceTheorems, TLAPS

AnyStep == Next \/ \E d \in Contents : Tamper(d)

-----------------------------------------------------------------------------
(* The inductive invariant                                                 *)

\* Between its Lstat and its rename nothing but a good object can appear at
\* the path a put is about to replace, and what it renamed stays there.
PutInv(p) ==
    /\ pc[p] = "rename" => obj[buf[p]] \in {Absent, Regular(buf[p])}
    /\ pc[p] = "report" => obj[buf[p]] = Regular(buf[p]) \/ buf[p] \in lost

\* Only a second actor leaves anything but the digest's bytes at its path or
\* takes an acknowledged object away.
StoreInv ==
    /\ \A d \in Contents \ lost : obj[d] \in {Absent, Regular(d)}
    /\ \A d \in acked \ lost : obj[d] = Regular(d)

\* The entries of a reader, by where it is.
EntryInv(r, i) ==
    LET d == rdDoc[r][i]  status == rdStatus[r][i] IN
    /\ status = "candidate" =>
          d \in rdTodo[r] /\ rdPc[r] # "idle" /\ rdOp[r] # "list"
    /\ status = "unchecked" =>
          rdPc[r] = "stat" \/ (rdPc[r] = "idle" /\ rdResult[r] # "done")
    /\ d \in rdKnown[r] \ lost => status \notin {"missing", "corrupted"}
    /\ status = "ok" => d \notin rdDamaged[r]

ReadInv(r) ==
    /\ rdKnown[r] \subseteq acked
    /\ \A d \in rdDamaged[r] : obj[d] # Regular(d)
    /\ rdPc[r] = "idle" => rdTodo[r] = {}
    /\ rdResult[r] = "done" => rdPc[r] = "idle"
    /\ \A i \in DOMAIN rdDoc[r] : EntryInv(r, i)

\* The chunks of the digests in S, one by one.
Cells(S) == UNION {{d} \X (1..Len(d)) : d \in S}
Weight(S) == Cardinality(Cells(S))

\* A verify still has to read what its pass counted and it did not hash yet,
\* and that stays the size of the objects although puts go on.
CapInv(r) ==
    /\ IsFiniteSet(rdTodo[r])
    /\ rdPc[r] = "idle" => rdTotal[r] = 0
    /\ rdPc[r] # "hash" => rdRead[r] = 0
    /\ rdPc[r] # "idle" /\ rdOp[r] = "verify" /\ lost = {} =>
          /\ \A d \in rdTodo[r] : obj[d] = Regular(d)
          /\ rdPc[r] = "stat" => rdTotal[r] = Weight(rdTodo[r])
          /\ rdPc[r] = "hash" => rdRead[r] + Weight(rdTodo[r]) <= MaxTotalBytes

IInv ==
    /\ TypeOK
    /\ StoreInv
    /\ \A p \in Putters : PutInv(p)
    /\ \A r \in Readers : ReadInv(r) /\ CapInv(r)

-----------------------------------------------------------------------------
(* Type correctness                                                        *)

\* A stored content is a sequence of chunks within the limit.
LEMMA ContentsAreSequences ==
  \A b : b \in Contents <=> b \in Seq(Chunks) /\ Len(b) <= MaxObjectSize
  <1> SUFFICES ASSUME NEW b
               PROVE  b \in Contents <=> b \in Seq(Chunks) /\ Len(b) <= MaxObjectSize
    OBVIOUS
  <1>1. ASSUME b \in Contents PROVE b \in Seq(Chunks) /\ Len(b) <= MaxObjectSize
    <2>1. PICK n \in 0..MaxObjectSize : b \in [1..n -> Chunks]
      BY <1>1 DEF Contents
    <2> QED
      BY <2>1, EvidenceAssumption
  <1>2. ASSUME b \in Seq(Chunks), Len(b) <= MaxObjectSize PROVE b \in Contents
    <2>1. Len(b) \in 0..MaxObjectSize /\ b \in [1..Len(b) -> Chunks]
      BY <1>2, EvidenceAssumption
    <2> QED
      BY <2>1 DEF Contents
  <1> QED
    BY <1>1, <1>2

\* The bytes of a file; a reader's entries are digests.
LEMMA FilesHaveBytes ==
  ASSUME NEW f \in Files
  PROVE  /\ f.bytes \in Seq(Chunks)
         /\ f = Absent \/ f = Irregular \/ f = Regular(f.bytes)
  <1>1. CASE f = Absent
    BY <1>1 DEF Absent
  <1>2. CASE f = Irregular
    BY <1>2 DEF Irregular
  <1>3. CASE f \notin {Absent, Irregular}
    <2>1. PICK b \in Contents \cup Versions : f = Regular(b)
      BY <1>3 DEF Files
    <2>2. b \in Seq(Chunks)
      BY ContentsAreSequences, EvidenceAssumption
    <2> QED
      BY <2>1, <2>2 DEF Regular
  <1> QED
    BY <1>1, <1>2, <1>3

LEMMA KindsDiffer ==
  /\ Absent.kind = "absent" /\ Irregular.kind = "irregular"
  /\ \A b : Regular(b).kind = "regular" /\ Regular(b).bytes = b
  /\ \A b : Regular(b) # Absent /\ Regular(b) # Irregular
  BY DEF Absent, Irregular, Regular

PutTypes ==
    /\ obj \in [Contents -> Files]
    /\ src \in [Sources -> Files]
    /\ pc \in [Putters -> PutPc]
    /\ from \in [Putters -> Sources]
    /\ buf \in [Putters -> Contents \cup [1..MaxObjectSize + 1 -> Chunks]]
    /\ \A p \in Putters : pc[p] \notin {"idle", "lstat", "open", "copy"} => buf[p] \in Contents
    /\ acked \subseteq Contents
    /\ lost \subseteq Contents

ReadTypes ==
    /\ rdPc \in [Readers -> {"idle", "stat", "hash"}]
    /\ rdDoc \in [Readers -> Documents \cup {<<d>> : d \in Contents}]
    /\ rdOp \in [Readers -> {"verify", "list", "inspect"}]
    /\ DOMAIN rdStatus = Readers
    /\ \A r \in Readers : rdStatus[r] \in [DOMAIN rdDoc[r] -> Statuses]
    /\ rdTodo \in [Readers -> SUBSET Contents]
    /\ rdTotal \in [Readers -> Nat]
    /\ rdResult \in [Readers -> {"none", "done", "tooManyEntries",
                                 "tooManyBytes", "failed"}]
    /\ rdKnown \in [Readers -> SUBSET Contents]
    /\ rdDamaged \in [Readers -> SUBSET Contents]
    /\ rdRead \in [Readers -> Nat]

LEMMA TypesSplit == TypeOK <=> PutTypes /\ ReadTypes
  BY DEF TypeOK, PutTypes, ReadTypes

LEMMA EmptyContent == <<>> \in Contents
  <1>1. <<>> \in Seq(Chunks) /\ Len(<<>>) = 0
    OBVIOUS
  <1>2. Len(<<>>) <= MaxObjectSize
    BY <1>1, EvidenceAssumption
  <1> QED
    BY <1>1, <1>2, ContentsAreSequences

LEMMA DocsAreSequences ==
  ASSUME NEW doc \in Documents \cup {<<d>> : d \in Contents}
  PROVE  /\ doc \in Seq(Contents)
         /\ \A i \in DOMAIN doc : doc[i] \in Contents
  <1>1. doc \in Seq(Contents)
    <2>1. CASE doc \in Documents
      BY <2>1, EvidenceAssumption
    <2>2. CASE \E d \in Contents : doc = <<d>>
      BY <2>2
    <2> QED
      BY <2>1, <2>2
  <1> QED
    BY <1>1

LEMMA AnySourceIsSource == AnySource \in Sources
  BY EvidenceAssumption DEF AnySource

LEMMA ReturnTypes ==
  ASSUME PutTypes, NEW p \in Putters, Return(p)
  PROVE  /\ pc' \in [Putters -> PutPc]
         /\ from' \in [Putters -> Sources]
         /\ buf' \in [Putters -> Contents \cup [1..MaxObjectSize + 1 -> Chunks]]
         /\ \A q \in Putters : pc'[q] \notin {"idle", "lstat", "open", "copy"} => buf'[q] \in Contents
  BY AnySourceIsSource, EmptyContent DEF PutTypes, Return, Goto, PutPc

LEMMA GotoTypes ==
  ASSUME PutTypes, NEW p \in Putters, NEW label \in PutPc, Goto(p, label),
         UNCHANGED <<from, buf>>,
         label \in {"idle", "lstat", "open", "copy"} \/ buf[p] \in Contents
  PROVE  /\ pc' \in [Putters -> PutPc]
         /\ from' \in [Putters -> Sources]
         /\ buf' \in [Putters -> Contents \cup [1..MaxObjectSize + 1 -> Chunks]]
         /\ \A q \in Putters : pc'[q] \notin {"idle", "lstat", "open", "copy"} => buf'[q] \in Contents
  BY DEF PutTypes, Goto

LEMMA LongerContent ==
  ASSUME NEW b \in Seq(Chunks), NEW chunk \in Chunks, Len(b) <= MaxObjectSize
  PROVE  Append(b, chunk) \in Contents \cup [1..MaxObjectSize + 1 -> Chunks]
  <1>1. /\ Append(b, chunk) \in Seq(Chunks)
        /\ Len(Append(b, chunk)) = Len(b) + 1
        /\ Append(b, chunk) \in [1..Len(b) + 1 -> Chunks]
    <2>1. Append(b, chunk) \in Seq(Chunks)
      BY AppendProperties
    <2>2. Len(Append(b, chunk)) = Len(b) + 1
      BY AppendProperties
    <2> QED
      BY <2>1, <2>2, LenProperties, Zenon
  <1>2. CASE Len(b) = MaxObjectSize
    BY <1>1, <1>2
  <1>3. CASE Len(b) < MaxObjectSize
    <2>1. Len(Append(b, chunk)) <= MaxObjectSize
      BY <1>1, <1>3, EvidenceAssumption
    <2> QED
      BY <1>1, <2>1, ContentsAreSequences
  <1> QED
    BY <1>2, <1>3, EvidenceAssumption

\* A chunk more, read from the source.
LEMMA CopyTypes ==
  ASSUME PutTypes, NEW p \in Putters, PutCopy(p), UNCHANGED lost
  PROVE  PutTypes'
  <1> DEFINE n == Len(buf[p])
             bytes == src[from[p]].bytes
  <1>1. buf[p] \in Seq(Chunks) /\ n \in Nat /\ n <= MaxObjectSize + 1
    <2>1. CASE buf[p] \in Contents
      BY <2>1, ContentsAreSequences, EvidenceAssumption
    <2>2. CASE buf[p] \in [1..MaxObjectSize + 1 -> Chunks]
      BY <2>2, EvidenceAssumption
    <2> QED
      BY <2>1, <2>2 DEF PutTypes
  <1>2. bytes \in Seq(Chunks)
    BY FilesHaveBytes DEF PutTypes
  <1>3. CASE ~TooLarge(n) /\ n < Len(bytes) /\ UNCHANGED <<pc, from>>
             /\ buf' = [buf EXCEPT ![p] = Append(@, bytes[n + 1])]
    <2>1. bytes[n + 1] \in Chunks
      BY <1>1, <1>2, <1>3
    <2>3. n <= MaxObjectSize
      BY <1>1, <1>3, EvidenceAssumption DEF TooLarge
    <2>4. Append(buf[p], bytes[n + 1]) \in Contents \cup [1..MaxObjectSize + 1 -> Chunks]
      BY <1>1, <2>1, <2>3, LongerContent
    <2>5. pc[p] = "copy"
      BY DEF PutCopy
    <2>6. UNCHANGED <<obj, src, acked, lost>>
      BY DEF PutCopy
    <2> HIDE DEF n, bytes
    <2> QED
      BY <1>3, <2>4, <2>5, <2>6 DEF PutTypes
  <1>4. CASE TooLarge(n) /\ Return(p)
    BY <1>4, ReturnTypes DEF PutTypes, PutCopy
  <1>5. CASE ~TooLarge(n) /\ Goto(p, "stat") /\ UNCHANGED <<from, buf>>
    <2>1. buf[p] \in Contents
      BY <1>1, <1>5, ContentsAreSequences, EvidenceAssumption DEF TooLarge
    <2>2. "stat" \in PutPc
      BY DEF PutPc
    <2> QED
      BY <1>5, <2>1, <2>2, GotoTypes DEF PutTypes, PutCopy
  <1> QED
    BY <1>3, <1>4, <1>5 DEF PutCopy

LEMMA PutTypesKept ==
  ASSUME PutTypes, AnyStep
  PROVE  PutTypes'
  <1>1. ASSUME NEW p \in Putters, NEW s \in Sources, PutBegin(p, s), UNCHANGED lost
        PROVE  PutTypes'
    BY <1>1 DEF PutTypes, PutBegin, Goto, PutPc
  <1>2. ASSUME NEW p \in Putters, PutLstat(p), UNCHANGED lost PROVE PutTypes'
    <2>1. CASE Return(p)
      BY <1>2, <2>1, ReturnTypes DEF PutTypes, PutLstat
    <2>2. CASE Goto(p, "open") /\ UNCHANGED <<from, buf>>
      BY <1>2, <2>2, GotoTypes DEF PutTypes, PutLstat, PutPc
    <2> QED
      BY <1>2, <2>1, <2>2 DEF PutLstat
  <1>3. ASSUME NEW p \in Putters, PutOpen(p), UNCHANGED lost PROVE PutTypes'
    <2>1. CASE Return(p)
      BY <1>3, <2>1, ReturnTypes DEF PutTypes, PutOpen
    <2>2. CASE Goto(p, "copy") /\ UNCHANGED <<from, buf>>
      BY <1>3, <2>2, GotoTypes DEF PutTypes, PutOpen, PutPc
    <2> QED
      BY <1>3, <2>1, <2>2 DEF PutOpen
  <1>4. ASSUME NEW p \in Putters, PutCopy(p), UNCHANGED lost PROVE PutTypes'
    BY <1>4, CopyTypes
  <1>5. ASSUME NEW p \in Putters, PutStat(p), UNCHANGED lost PROVE PutTypes'
    <2>1. buf[p] \in Contents
      BY <1>5 DEF PutTypes, PutStat
    <2>2. CASE Return(p)
      BY <1>5, <2>2, ReturnTypes DEF PutTypes, PutStat
    <2>3. ASSUME NEW label \in {"rename", "recheck"}, Goto(p, label), UNCHANGED <<from, buf>>
          PROVE  PutTypes'
      BY <1>5, <2>1, <2>3, GotoTypes DEF PutTypes, PutStat, PutPc
    <2> QED
      BY <1>5, <2>2, <2>3 DEF PutStat
  <1>6. ASSUME NEW p \in Putters, PutRecheck(p), UNCHANGED lost PROVE PutTypes'
    <2>1. buf[p] \in Contents /\ Return(p)
      BY <1>6 DEF PutTypes, PutRecheck
    <2>2. acked' \subseteq Contents
      BY <1>6, <2>1 DEF PutTypes, PutRecheck, Digest
    <2> QED
      BY <1>6, <2>1, <2>2, ReturnTypes DEF PutTypes, PutRecheck
  <1>7. ASSUME NEW p \in Putters, PutRename(p), UNCHANGED lost PROVE PutTypes'
    <2>1. buf[p] \in Contents
      BY <1>7 DEF PutTypes, PutRename
    <2>2. obj' \in [Contents -> Files]
      BY <1>7, <2>1 DEF PutTypes, PutRename, Digest, Files
    <2> QED
      BY <1>7, <2>1, <2>2, GotoTypes DEF PutTypes, PutRename, PutPc
  <1>8. ASSUME NEW p \in Putters, PutReport(p), UNCHANGED lost PROVE PutTypes'
    <2>1. buf[p] \in Contents /\ Return(p)
      BY <1>8 DEF PutTypes, PutReport
    <2>2. acked' \subseteq Contents
      BY <1>8, <2>1 DEF PutTypes, PutReport, Digest
    <2> QED
      BY <1>8, <2>1, <2>2, ReturnTypes DEF PutTypes, PutReport
  <1>9. ASSUME NEW p \in Putters, PutFails(p) \/ PutKilled(p), UNCHANGED lost
        PROVE  PutTypes'
    BY <1>9, ReturnTypes DEF PutTypes, PutFails, PutKilled
  <1>10. ASSUME RdNext, UNCHANGED lost PROVE PutTypes'
    <2>1. RdUnchanged
      BY <1>10 DEF RdNext, RdBegin, RdStat, RdStatEnd, RdHash, RdFails
    <2> QED
      BY <1>10, <2>1 DEF RdUnchanged, putVars, PutTypes
  <1>11. ASSUME NEW s \in Sources, Edit(s), UNCHANGED lost PROVE PutTypes'
    <2>1. \A b \in Versions : Regular(b) \in Files
      BY DEF Files
    <2>2. src' \in [Sources -> Files]
      BY <1>11, <2>1 DEF PutTypes, Edit, Files
    <2> QED
      BY <1>11, <2>2 DEF PutTypes, Edit, putVars
  <1>12. ASSUME NEW d \in Contents, Tamper(d) PROVE PutTypes'
    <2>1. obj' \in [Contents -> Files] /\ lost' \subseteq Contents
      BY <1>12, EvidenceAssumption DEF PutTypes, Tamper
    <2> QED
      BY <1>12, <2>1 DEF PutTypes, Tamper, putVars
  <1> QED
    BY <1>1, <1>2, <1>3, <1>4, <1>5, <1>6, <1>7, <1>8, <1>9, <1>10, <1>11, <1>12
       DEF AnyStep, Next, PutNext

LEMMA RdReturnTypes ==
  ASSUME ReadTypes, NEW r \in Readers,
         NEW outcome \in {"done", "tooManyEntries", "tooManyBytes", "failed"},
         RdReturn(r, outcome)
  PROVE  ReadTypes'
  <1>1. <<<<>>>> \in {<<d>> : d \in Contents}
    BY EmptyContent
  <1>2. <<"unchecked">> \in [DOMAIN <<<<>>>> -> Statuses]
    BY DEF Statuses
  <1>3. /\ rdPc' \in [Readers -> {"idle", "stat", "hash"}]
        /\ rdTodo' \in [Readers -> SUBSET Contents]
        /\ rdTotal' \in [Readers -> Nat]
        /\ rdRead' \in [Readers -> Nat]
        /\ rdResult' \in [Readers -> {"none", "done", "tooManyEntries",
                                      "tooManyBytes", "failed"}]
    BY DEF ReadTypes, RdReturn, RdGoto
  <1>4. CASE UNCHANGED <<rdDoc, rdOp, rdStatus, rdKnown, rdDamaged>>
    BY <1>3, <1>4 DEF ReadTypes
  <1>5. CASE outcome # "done"
    <2>1. rdDoc' \in [Readers -> Documents \cup {<<d>> : d \in Contents}]
      <3>1. rdDoc' = [rdDoc EXCEPT ![r] = <<<<>>>>]
        BY <1>5 DEF RdReturn
      <3>2. rdDoc \in [Readers -> Documents \cup {<<d>> : d \in Contents}]
        BY DEF ReadTypes
      <3> QED
        BY <1>1, <3>1, <3>2
    <2>2. DOMAIN rdStatus' = Readers
      BY <1>5 DEF ReadTypes, RdReturn
    <2>3. ASSUME NEW q \in Readers
          PROVE  rdStatus'[q] \in [DOMAIN rdDoc'[q] -> Statuses]
      <3>1. CASE q = r
        <4>1. rdStatus'[q] = <<"unchecked">> /\ rdDoc'[q] = <<<<>>>>
          BY <1>5, <3>1 DEF ReadTypes, RdReturn
        <4> QED
          BY <1>2, <4>1
      <3>2. CASE q # r
        BY <1>5, <3>2 DEF ReadTypes, RdReturn
      <3> QED
        BY <3>1, <3>2
    <2>4. /\ rdOp' \in [Readers -> {"verify", "list", "inspect"}]
          /\ rdKnown' \in [Readers -> SUBSET Contents]
          /\ rdDamaged' \in [Readers -> SUBSET Contents]
      BY <1>5 DEF ReadTypes, RdReturn
    <2> QED
      BY <1>3, <2>1, <2>2, <2>3, <2>4 DEF ReadTypes
  <1> QED
    BY <1>4, <1>5 DEF RdReturn

\* A command line the readers accept.
DocSet == Documents \cup {<<d>> : d \in Contents}

\* A reader that begins and is not over MaxEntries.
RdEnters(r, op, doc) ==
    /\ rdPc[r] = "idle"
    /\ rdPc' = [rdPc EXCEPT ![r] = IF op = "inspect" THEN "hash" ELSE "stat"]
    /\ rdResult' = [rdResult EXCEPT ![r] = "none"]
    /\ rdOp' = [rdOp EXCEPT ![r] = op]
    /\ rdDoc' = [rdDoc EXCEPT ![r] = doc]
    /\ rdStatus' = [rdStatus EXCEPT ![r] =
          [i \in DOMAIN doc |-> IF op = "inspect" THEN "candidate" ELSE "unchecked"]]
    /\ rdTodo' = [rdTodo EXCEPT ![r] = IF op = "inspect" THEN {doc[1]} ELSE {}]
    /\ rdKnown' = [rdKnown EXCEPT ![r] = acked \cap Declared(doc)]
    /\ rdDamaged' = [rdDamaged EXCEPT ![r] = {d \in Declared(doc) : Check(d) # "ok"}]
    /\ rdTotal' = rdTotal /\ rdRead' = rdRead

LEMMA RdEntersTypes ==
  ASSUME ReadTypes, NEW r \in Readers, NEW op \in {"verify", "list", "inspect"},
         NEW doc \in DocSet, op = "inspect" => Len(doc) = 1, RdEnters(r, op, doc)
  PROVE  ReadTypes'
  <1>0. \A i \in DOMAIN doc : doc[i] \in Contents
    BY DocsAreSequences DEF DocSet
  <1>1. rdPc' \in [Readers -> {"idle", "stat", "hash"}]
    BY DEF RdEnters, ReadTypes
  <1>2. /\ rdResult' \in [Readers -> {"none", "done", "tooManyEntries",
                                      "tooManyBytes", "failed"}]
        /\ rdOp' \in [Readers -> {"verify", "list", "inspect"}]
        /\ rdTotal' \in [Readers -> Nat] /\ rdRead' \in [Readers -> Nat]
    BY DEF RdEnters, ReadTypes
  <1>3. rdDoc' = [rdDoc EXCEPT ![r] = doc] /\ rdDoc' \in [Readers -> DocSet]
    BY DEF RdEnters, ReadTypes, DocSet
  <1>4. DOMAIN rdStatus' = Readers
    BY DEF RdEnters, ReadTypes
  <1>5. ASSUME NEW q \in Readers PROVE rdStatus'[q] \in [DOMAIN rdDoc'[q] -> Statuses]
    <2>1. CASE q = r
      <3>1. rdDoc'[q] = doc
        BY <1>3, <2>1 DEF ReadTypes
      <3>2. rdStatus'[q] = [i \in DOMAIN doc |-> IF op = "inspect" THEN "candidate"
                                                 ELSE "unchecked"]
        BY <2>1 DEF RdEnters, ReadTypes
      <3> QED
        BY <3>1, <3>2 DEF Statuses
    <2>2. CASE q # r
      BY <1>3, <2>2 DEF RdEnters, ReadTypes
    <2> QED
      BY <2>1, <2>2
  <1>6. rdTodo' \in [Readers -> SUBSET Contents]
    <2>1. op = "inspect" => doc[1] \in Contents
      <3>1. doc \in Seq(Contents)
        BY DocsAreSequences DEF DocSet
      <3>2. op = "inspect" => 1 \in DOMAIN doc
        BY <3>1
      <3> QED
        BY <1>0, <3>2
    <2> QED
      BY <2>1 DEF RdEnters, ReadTypes
  <1>7. /\ rdKnown' \in [Readers -> SUBSET Contents]
        /\ rdDamaged' \in [Readers -> SUBSET Contents]
    <2>1. Declared(doc) \subseteq Contents
      BY <1>0 DEF Declared
    <2> QED
      BY <2>1 DEF RdEnters, ReadTypes
  <1> QED
    BY <1>1, <1>2, <1>3, <1>4, <1>5, <1>6, <1>7 DEF ReadTypes, DocSet

LEMMA RdBeginSplit ==
  ASSUME NEW r, NEW op, NEW doc, RdBegin(r, op, doc)
  PROVE  RdReturn(r, "tooManyEntries") \/ RdEnters(r, op, doc)
  BY DEF RdBegin, RdEnters, RdGoto

\* Each step of a reader is a return or one of these.
LEMMA RdSteps ==
  ASSUME RdNext
  PROVE  /\ RdUnchanged
         /\ \E r \in Readers :
              \/ \E outcome \in {"tooManyEntries", "tooManyBytes", "failed"} :
                   RdReturn(r, outcome)
              \/ RdReturn(r, "done") /\ (RdStatEnd(r) \/ RdHash(r))
              \/ \E op \in {"verify", "list", "inspect"}, doc \in DocSet :
                   (op = "inspect" => Len(doc) = 1) /\ RdEnters(r, op, doc)
              \/ RdStat(r)
              \/ RdStatEnd(r) /\ ~RdReturn(r, "done") /\ ~RdReturn(r, "tooManyBytes")
              \/ RdHash(r) /\ ~RdReturn(r, "done")
  <1>1. RdUnchanged
    <2>1. ASSUME NEW r, RdStat(r) \/ RdStatEnd(r) \/ RdHash(r) \/ RdFails(r)
          PROVE  RdUnchanged
      BY <2>1, Zenon DEF RdStat, RdStatEnd, RdHash, RdFails
    <2>2. ASSUME NEW r, NEW op, NEW doc, RdBegin(r, op, doc) PROVE RdUnchanged
      BY <2>2, Zenon DEF RdBegin
    <2> QED
      BY <2>1, <2>2, Zenon DEF RdNext
  <1>2. ASSUME NEW r \in Readers, NEW op \in {"verify", "list"}, NEW doc \in Documents,
               RdBegin(r, op, doc)
        PROVE  RdReturn(r, "tooManyEntries")
               \/ (doc \in DocSet /\ (op = "inspect" => Len(doc) = 1) /\ RdEnters(r, op, doc))
    BY <1>2, RdBeginSplit DEF DocSet
  <1>3. ASSUME NEW r \in Readers, NEW d \in Contents, RdBegin(r, "inspect", <<d>>)
        PROVE  RdReturn(r, "tooManyEntries")
               \/ (<<d>> \in DocSet /\ Len(<<d>>) = 1 /\ RdEnters(r, "inspect", <<d>>))
    <2>1. <<d>> \in DocSet /\ Len(<<d>>) = 1
      BY DEF DocSet
    <2> QED
      BY <1>3, <2>1, RdBeginSplit
  <1>4. ASSUME NEW r \in Readers, RdFails(r) PROVE RdReturn(r, "failed")
    BY <1>4 DEF RdFails
  <1> QED
    BY <1>1, <1>2, <1>3, <1>4, Zenon DEF RdNext

\* The entry the pass looks at, and what it finds.
RdStatAt(r, i, status) ==
    LET d == rdDoc[r][i] IN
    /\ i \in Unchecked(r)
    /\ status \in Outcomes(StatOf(rdOp[r], d))
    /\ rdStatus' = [rdStatus EXCEPT ![r][i] = status]
    /\ IF status = "candidate"
       THEN /\ rdTotal' = [rdTotal EXCEPT ![r] = @ + Counted(r, d)]
            /\ rdTodo' = [rdTodo EXCEPT ![r] = @ \cup {d}]
       ELSE UNCHANGED <<rdTotal, rdTodo>>

LEMMA RdStatSplit ==
  ASSUME NEW r, RdStat(r)
  PROVE  /\ rdPc[r] = "stat"
         /\ UNCHANGED <<rdPc, rdDoc, rdOp, rdResult, rdKnown, rdDamaged, rdRead>>
         /\ \E i \in Unchecked(r), status \in Statuses : RdStatAt(r, i, status)
  <1>1. PICK i \in Unchecked(r) : \E status \in Outcomes(StatOf(rdOp[r], rdDoc[r][i])) :
                RdStatAt(r, i, status)
    BY DEF RdStat, RdStatAt
  <1>2. PICK status \in Outcomes(StatOf(rdOp[r], rdDoc[r][i])) : RdStatAt(r, i, status)
    BY <1>1
  <1>3. status \in Statuses
    BY DEF Outcomes, StatOf, Statuses
  <1> QED
    BY <1>2, <1>3 DEF RdStat

LEMMA EntryTypes ==
  ASSUME ReadTypes, NEW r \in Readers, NEW i \in DOMAIN rdDoc[r]
  PROVE  rdDoc[r][i] \in Contents
  <1>1. rdDoc[r] \in Documents \cup {<<d>> : d \in Contents}
    BY DEF ReadTypes
  <1> QED
    BY <1>1, DocsAreSequences

LEMMA RdStatTypes ==
  ASSUME PutTypes, ReadTypes, NEW r \in Readers, RdStat(r)
  PROVE  ReadTypes'
  <1>1. PICK i \in Unchecked(r), status \in Statuses : RdStatAt(r, i, status)
    BY RdStatSplit
  <1> DEFINE d == rdDoc[r][i]
  <1>2. i \in DOMAIN rdDoc[r] /\ d \in Contents
    BY EntryTypes DEF Unchecked
  <1>3. Counted(r, d) \in Nat
    <2>1. obj[d].bytes \in Seq(Chunks)
      BY <1>2, FilesHaveBytes DEF PutTypes
    <2> QED
      BY <2>1 DEF Counted

  <1>4. rdTotal' \in [Readers -> Nat]
    BY <1>1, <1>3 DEF RdStatAt, ReadTypes
  <1>5. rdTodo' \in [Readers -> SUBSET Contents]
    BY <1>1, <1>2 DEF RdStatAt, ReadTypes
  <1>6. DOMAIN rdStatus' = Readers
    BY <1>1 DEF RdStatAt, ReadTypes
  <1>7. ASSUME NEW q \in Readers PROVE rdStatus'[q] \in [DOMAIN rdDoc[q] -> Statuses]
    BY <1>1 DEF RdStatAt, ReadTypes
  <1>8. UNCHANGED <<rdPc, rdDoc, rdOp, rdResult, rdKnown, rdDamaged, rdRead>>
    BY RdStatSplit
  <1> QED
    BY <1>4, <1>5, <1>6, <1>7, <1>8 DEF ReadTypes

\* A digest is re-hashed.
RdHashOf(r, d, outcome) ==
    /\ d \in rdTodo[r]
    /\ outcome \in Outcomes(Check(d))
    /\ rdStatus' = [rdStatus EXCEPT ![r] = Record(r, d, outcome)]
    /\ rdTodo' = [rdTodo EXCEPT ![r] = @ \ {d}]
    /\ rdRead' = [rdRead EXCEPT ![r] = @ + HashedChunks(d)]

LEMMA RdHashSplit ==
  ASSUME NEW r, RdHash(r), ~RdReturn(r, "done")
  PROVE  /\ rdPc[r] = "hash"
         /\ UNCHANGED <<rdPc, rdResult, rdDoc, rdOp, rdTotal, rdKnown, rdDamaged>>
         /\ \E d \in rdTodo[r], outcome \in {"ok", "missing", "corrupted", "error"} :
                RdHashOf(r, d, outcome)
  <1>1. PICK d \in rdTodo[r] : \E outcome \in Outcomes(Check(d)) :
           /\ RdHashOf(r, d, outcome)
           /\ UNCHANGED <<rdPc, rdResult, rdDoc, rdOp, rdTotal, rdKnown, rdDamaged>>
    BY DEF RdHash, RdHashOf
  <1>3. PICK outcome \in Outcomes(Check(d)) :
           /\ RdHashOf(r, d, outcome)
           /\ UNCHANGED <<rdPc, rdResult, rdDoc, rdOp, rdTotal, rdKnown, rdDamaged>>
    BY <1>1
  <1>2. outcome \in {"ok", "missing", "corrupted", "error"}
    BY DEF Outcomes, Check
  <1> QED
    BY <1>2, <1>3 DEF RdHash

LEMMA RdHashTypes ==
  ASSUME PutTypes, ReadTypes, NEW r \in Readers, RdHash(r), ~RdReturn(r, "done")
  PROVE  ReadTypes'
  <1>1. PICK d \in rdTodo[r], outcome \in {"ok", "missing", "corrupted", "error"} :
                RdHashOf(r, d, outcome)
    BY RdHashSplit
  <1>2. d \in Contents
    BY DEF ReadTypes
  <1>3. HashedChunks(d) \in Nat
    <2>1. obj[d].bytes \in Seq(Chunks)
      BY <1>2, FilesHaveBytes DEF PutTypes
    <2> QED
      BY <2>1, EvidenceAssumption DEF HashedChunks
  <1>4. rdRead' \in [Readers -> Nat] /\ rdTodo' \in [Readers -> SUBSET Contents]
    BY <1>1, <1>3 DEF RdHashOf, ReadTypes
  <1>5. DOMAIN rdStatus' = Readers
    BY <1>1 DEF RdHashOf, ReadTypes
  <1>6. ASSUME NEW q \in Readers PROVE rdStatus'[q] \in [DOMAIN rdDoc[q] -> Statuses]
    BY <1>1 DEF RdHashOf, ReadTypes, Record, Statuses
  <1>7. UNCHANGED <<rdPc, rdResult, rdDoc, rdOp, rdTotal, rdKnown, rdDamaged>>
    BY RdHashSplit
  <1> QED
    BY <1>4, <1>5, <1>6, <1>7 DEF ReadTypes

LEMMA ReadTypesKept ==
  ASSUME PutTypes, ReadTypes, AnyStep
  PROVE  ReadTypes'
  <1>1. CASE UNCHANGED rdVars
    BY <1>1 DEF rdVars, ReadTypes
  <1>2. ASSUME NEW p \in Putters, PutRename(p) PROVE ReadTypes'
    <2>1. rdDamaged' \in [Readers -> SUBSET Contents]
      BY <1>2 DEF PutRename, ReadTypes
    <2> QED
      BY <1>2, <2>1 DEF PutRename, ReadTypes
  <1>3. ASSUME RdNext PROVE ReadTypes'
    <2>1. PICK r \in Readers :
              \/ \E outcome \in {"tooManyEntries", "tooManyBytes", "failed"} :
                   RdReturn(r, outcome)
              \/ RdReturn(r, "done") /\ (RdStatEnd(r) \/ RdHash(r))
              \/ \E op \in {"verify", "list", "inspect"}, doc \in DocSet :
                   (op = "inspect" => Len(doc) = 1) /\ RdEnters(r, op, doc)
              \/ RdStat(r)
              \/ RdStatEnd(r) /\ ~RdReturn(r, "done") /\ ~RdReturn(r, "tooManyBytes")
              \/ RdHash(r) /\ ~RdReturn(r, "done")
      BY <1>3, RdSteps
    <2>2. CASE RdStatEnd(r) /\ ~RdReturn(r, "done") /\ ~RdReturn(r, "tooManyBytes")
      <3>1. rdPc' \in [Readers -> {"idle", "stat", "hash"}]
        BY <2>2 DEF RdStatEnd, RdGoto, ReadTypes
      <3> QED
        BY <2>2, <3>1 DEF RdStatEnd, rdReport, ReadTypes
    <2> QED
      BY <2>1, <2>2, RdReturnTypes, RdEntersTypes, RdStatTypes, RdHashTypes
  <1>4. AnyStep => UNCHANGED rdVars \/ RdNext \/ \E p \in Putters : PutRename(p)
    BY DEF AnyStep, Next, PutNext, PutBegin, PutLstat, PutOpen, PutCopy, PutStat,
           PutRecheck, PutReport, PutFails, PutKilled, Edit, Tamper
  <1> QED
    BY <1>1, <1>2, <1>3, <1>4

-----------------------------------------------------------------------------
(* The store                                                               *)

AllPuts == \A p \in Putters : PutInv(p)

\* What a step does to the objects and to what is acknowledged.
ObjStep ==
    /\ lost \subseteq lost'
    /\ \A d \in Contents \ lost' : obj'[d] = obj[d] \/ obj'[d] = Regular(d)
    /\ \A d \in Contents : obj[d] = Regular(d) => obj'[d] = Regular(d) \/ d \in lost'
    /\ \A d \in Contents : obj[d] \notin {Absent, Regular(d)} => obj'[d] # Regular(d)
    /\ acked \subseteq acked'
    /\ \A d \in acked' \ acked : d \in Contents /\ (obj[d] = Regular(d) \/ d \in lost)

\* The steps that touch neither.
LEMMA QuietSteps ==
  ASSUME AnyStep
  PROVE  \/ UNCHANGED <<obj, acked, lost>>
         \/ \E p \in Putters : PutRename(p) /\ UNCHANGED lost
         \/ \E p \in Putters : (PutRecheck(p) \/ PutReport(p)) /\ UNCHANGED lost
         \/ \E d \in Contents : Tamper(d)
  <1>1. RdNext => UNCHANGED <<obj, acked>>
    BY RdSteps DEF RdUnchanged
  <1>2. PutNext => \/ UNCHANGED <<obj, acked>>
                   \/ \E p \in Putters : PutRename(p) \/ PutRecheck(p) \/ PutReport(p)
    BY DEF PutNext, PutBegin, PutLstat, PutOpen, PutCopy, PutStat, PutFails, PutKilled
  <1> QED
    BY <1>1, <1>2 DEF AnyStep, Next, Edit

LEMMA ObjSteps ==
  ASSUME PutTypes, AllPuts, AnyStep
  PROVE  ObjStep
  <1>1. CASE UNCHANGED <<obj, acked, lost>>
    BY <1>1 DEF ObjStep
  <1>2. ASSUME NEW p \in Putters, PutRename(p), UNCHANGED lost PROVE ObjStep
    <2>1. buf[p] \in Contents /\ obj[buf[p]] \in {Absent, Regular(buf[p])}
      BY <1>2 DEF PutTypes, PutRename, AllPuts, PutInv
    <2>2. obj' = [obj EXCEPT ![buf[p]] = Regular(buf[p])] /\ acked' = acked
      BY <1>2 DEF PutRename, Digest
    <2>3. \A d \in Contents : obj'[d] = IF d = buf[p] THEN Regular(d) ELSE obj[d]
      BY <2>1, <2>2 DEF PutTypes
    <2> QED
      BY <1>2, <2>1, <2>2, <2>3 DEF ObjStep
  <1>3. ASSUME NEW p \in Putters, PutRecheck(p) \/ PutReport(p), UNCHANGED lost
        PROVE  ObjStep
    <2>1. buf[p] \in Contents
      BY <1>3 DEF PutTypes, PutRecheck, PutReport
    <2>2. CASE acked' = acked
      BY <1>3, <2>2 DEF ObjStep, PutRecheck, PutReport
    <2>3. CASE acked' = acked \cup {buf[p]} /\ (obj[buf[p]] = Regular(buf[p]) \/ buf[p] \in lost)
      BY <1>3, <2>1, <2>3 DEF ObjStep, PutRecheck, PutReport
    <2>4. PutRecheck(p) => Check(buf[p]) = "ok" \/ acked' = acked
      BY DEF PutRecheck, Digest
    <2>5. Check(buf[p]) = "ok" => obj[buf[p]] = Regular(buf[p])
      BY DEF Check
    <2>6. PutReport(p) => obj[buf[p]] = Regular(buf[p]) \/ buf[p] \in lost
      BY DEF PutReport, AllPuts, PutInv
    <2>7. acked' = acked \/ acked' = acked \cup {buf[p]}
      BY <1>3 DEF PutRecheck, PutReport, Digest
    <2> QED
      BY <1>3, <2>2, <2>3, <2>4, <2>5, <2>6, <2>7
  <1>4. ASSUME NEW d \in Contents, Tamper(d) PROVE ObjStep
    <2>1. PICK f \in Damages \ {Regular(d)} : obj' = [obj EXCEPT ![d] = f]
      BY <1>4 DEF Tamper
    <2>2. lost' = lost \cup {d} /\ acked' = acked
      BY <1>4 DEF Tamper
    <2> QED
      BY <2>1, <2>2 DEF ObjStep, PutTypes
  <1> QED
    BY <1>1, <1>2, <1>3, <1>4, QuietSteps

LEMMA StoreInvKept ==
  ASSUME PutTypes, StoreInv, ObjStep
  PROVE  StoreInv'
  BY DEF PutTypes, StoreInv, ObjStep

\* A put that does not move, while the objects do.
LEMMA PutsWait ==
  ASSUME PutTypes, NEW q \in Putters, PutInv(q), ObjStep,
         pc'[q] = pc[q], buf'[q] = buf[q],
         pc[q] = "rename" => obj'[buf[q]] \in {obj[buf[q]], Regular(buf[q])}
  PROVE  PutInv(q)'
  BY DEF PutTypes, PutInv, ObjStep

LEMMA PutInvKept ==
  ASSUME PutTypes, AllPuts, AnyStep
  PROVE  AllPuts'
  <1>0. ObjStep
    BY ObjSteps
  <1>1. CASE UNCHANGED putVars /\ UNCHANGED obj
    BY <1>0, <1>1, PutsWait DEF putVars, AllPuts
  <1>2. ASSUME NEW d \in Contents, Tamper(d) PROVE AllPuts'
    BY <1>0, <1>2, PutsWait DEF Tamper, putVars, AllPuts
  <1>3. ASSUME NEW p \in Putters,
               \/ Return(p)
               \/ \E label \in {"lstat", "open", "copy", "stat", "recheck"} : Goto(p, label),
               UNCHANGED <<obj, lost>>,
               \A q \in Putters \ {p} : buf'[q] = buf[q]
        PROVE  AllPuts'
    <2>1. pc'[p] \notin {"rename", "report"} /\ \A q \in Putters \ {p} : pc'[q] = pc[q]
      BY <1>3 DEF Return, Goto, PutTypes
    <2> SUFFICES ASSUME NEW q \in Putters PROVE PutInv(q)'
      BY DEF AllPuts
    <2> QED
      BY <1>0, <1>3, <2>1, PutsWait DEF AllPuts, PutInv
  <1>4. ASSUME NEW p \in Putters, PutStat(p), Goto(p, "rename"), UNCHANGED lost
        PROVE  AllPuts'
    <2>1. obj[buf[p]] = Absent /\ UNCHANGED <<obj, buf>>
      BY <1>4 DEF PutStat, Goto, Return, Digest, PutTypes
    <2>2. PutInv(p)'
      BY <1>4, <2>1 DEF PutInv, Goto, PutTypes
    <2>3. ASSUME NEW q \in Putters \ {p} PROVE PutInv(q)'
      BY <1>0, <1>4, <2>1, <2>3, PutsWait DEF Goto, PutTypes, AllPuts
    <2> QED
      BY <2>2, <2>3 DEF AllPuts
  <1>5. ASSUME NEW p \in Putters, PutRename(p), UNCHANGED lost PROVE AllPuts'
    <2>1. buf[p] \in Contents /\ buf' = buf /\ Goto(p, "report")
      BY <1>5 DEF PutTypes, PutRename
    <2>2. \A d \in Contents : obj'[d] = IF d = buf[p] THEN Regular(d) ELSE obj[d]
      BY <1>5, <2>1 DEF PutRename, Digest, PutTypes
    <2>3. PutInv(p)'
      BY <2>1, <2>2 DEF PutInv, Goto, PutTypes
    <2>4. ASSUME NEW q \in Putters \ {p} PROVE PutInv(q)'
      <3>1. pc'[q] = pc[q] /\ buf'[q] = buf[q]
        BY <2>1 DEF Goto, PutTypes
      <3>2. pc[q] = "rename" => buf[q] \in Contents
        BY DEF PutTypes
      <3> QED
        BY <1>0, <2>2, <3>1, <3>2, PutsWait DEF AllPuts
    <2> QED
      BY <2>3, <2>4 DEF AllPuts
  <1>6. ASSUME NEW p \in Putters, UNCHANGED lost,
               \/ \E s \in Sources : PutBegin(p, s)
               \/ PutLstat(p) \/ PutOpen(p) \/ PutCopy(p) \/ PutRecheck(p)
               \/ PutReport(p) \/ PutFails(p) \/ PutKilled(p)
        PROVE  AllPuts'
    <2>1. UNCHANGED <<obj, lost>>
      BY <1>6 DEF PutBegin, PutLstat, PutOpen, PutCopy, PutRecheck, PutReport, PutFails,
                  PutKilled
    <2>2. \/ Return(p)
          \/ \E label \in {"lstat", "open", "copy", "stat", "recheck"} : Goto(p, label)
          \/ pc' = pc /\ pc[p] = "copy"
      BY <1>6 DEF PutBegin, PutLstat, PutOpen, PutCopy, PutRecheck, PutReport, PutFails,
                  PutKilled
    <2>3. \A q \in Putters \ {p} : buf'[q] = buf[q]
      BY <1>6 DEF PutBegin, PutLstat, PutOpen, PutCopy, PutRecheck, PutReport, PutFails,
                  PutKilled, Return, PutTypes
    <2>4. CASE pc' = pc /\ pc[p] = "copy"
      <3> SUFFICES ASSUME NEW q \in Putters PROVE PutInv(q)'
        BY DEF AllPuts
      <3> QED
        BY <1>0, <2>1, <2>3, <2>4, PutsWait DEF AllPuts, PutInv
    <2> QED
      BY <1>3, <2>1, <2>2, <2>3, <2>4
  <1>7. ASSUME NEW p \in Putters, PutStat(p), UNCHANGED lost PROVE AllPuts'
    <2>1. CASE Goto(p, "rename")
      BY <1>4, <1>7, <2>1
    <2>2. CASE Return(p)
      BY <1>3, <1>7, <2>2 DEF PutStat, Return, PutTypes
    <2>3. CASE Goto(p, "recheck") /\ UNCHANGED <<from, buf>>
      BY <1>3, <1>7, <2>3 DEF PutStat
    <2> QED
      BY <1>7, <2>1, <2>2, <2>3 DEF PutStat
  <1>8. RdNext \/ (\E s \in Sources : Edit(s)) => UNCHANGED putVars /\ UNCHANGED obj
    BY RdSteps DEF RdUnchanged, Edit
  <1> QED
    BY <1>1, <1>2, <1>5, <1>6, <1>7, <1>8 DEF AnyStep, Next, PutNext

-----------------------------------------------------------------------------
(* The readers                                                             *)

\* The variables of a reader but what was damaged all along.
RdSame(r) ==
    /\ rdPc'[r] = rdPc[r] /\ rdDoc'[r] = rdDoc[r] /\ rdOp'[r] = rdOp[r]
    /\ rdStatus'[r] = rdStatus[r] /\ rdTodo'[r] = rdTodo[r]
    /\ rdTotal'[r] = rdTotal[r] /\ rdResult'[r] = rdResult[r]
    /\ rdKnown'[r] = rdKnown[r] /\ rdRead'[r] = rdRead[r]

\* A reader that does not move, while the objects do.
RdWaits(r) ==
    /\ RdSame(r)
    /\ \A d \in rdDamaged'[r] : d \in rdDamaged[r] /\ (obj'[d] = Regular(d) => obj[d] = Regular(d))

\* A reader that moves, while the objects do not.
RdMoves(r) ==
    /\ UNCHANGED <<obj, acked, lost>>
    /\ \/ \E outcome \in {"tooManyEntries", "tooManyBytes", "failed"} : RdReturn(r, outcome)
       \/ RdReturn(r, "done") /\ (RdStatEnd(r) \/ RdHash(r))
       \/ \E op \in {"verify", "list", "inspect"}, doc \in DocSet :
            (op = "inspect" => Len(doc) = 1) /\ RdEnters(r, op, doc)
       \/ RdStat(r)
       \/ RdStatEnd(r) /\ ~RdReturn(r, "done") /\ ~RdReturn(r, "tooManyBytes")
       \/ RdHash(r) /\ ~RdReturn(r, "done")

LEMMA WaitOrMove ==
  ASSUME PutTypes, ReadTypes, AnyStep, NEW r \in Readers
  PROVE  RdWaits(r) \/ RdMoves(r)
  <1>1. CASE UNCHANGED rdVars /\ UNCHANGED obj
    BY <1>1 DEF rdVars, RdWaits, RdSame
  <1>2. ASSUME NEW p \in Putters, PutRename(p) PROVE RdWaits(r)
    <2>1. rdDamaged'[r] = rdDamaged[r] \ {buf[p]} /\ rdDamaged[r] \subseteq Contents
      BY <1>2 DEF PutRename, Digest, ReadTypes
    <2>2. \A d \in Contents : d # buf[p] => obj'[d] = obj[d]
      BY <1>2 DEF PutRename, Digest, PutTypes
    <2>3. RdSame(r)
      BY <1>2 DEF PutRename, RdSame
    <2> QED
      BY <2>1, <2>2, <2>3 DEF RdWaits
  <1>3. ASSUME NEW d \in Contents, Tamper(d) PROVE RdWaits(r)
    <2>1. PICK f \in Damages \ {Regular(d)} : obj' = [obj EXCEPT ![d] = f]
      BY <1>3 DEF Tamper
    <2>2. \A e \in Contents : obj'[e] = Regular(e) => obj[e] = Regular(e)
      BY <2>1 DEF PutTypes
    <2>3. UNCHANGED rdVars
      BY <1>3 DEF Tamper
    <2> QED
      BY <2>2, <2>3 DEF rdVars, RdWaits, RdSame, ReadTypes
  <1>4. ASSUME RdNext, UNCHANGED lost PROVE RdWaits(r) \/ RdMoves(r)
    <2>1. UNCHANGED <<obj, acked, lost>>
      BY <1>4, RdSteps DEF RdUnchanged
    <2>2. PICK q \in Readers : RdMoves(q)
      BY <1>4, <2>1, RdSteps DEF RdMoves
    <2>3. ASSUME q # r PROVE RdSame(r) /\ rdDamaged'[r] = rdDamaged[r]
      <3>1. ASSUME NEW outcome, RdReturn(q, outcome)
            PROVE  RdSame(r) /\ rdDamaged'[r] = rdDamaged[r]
        BY <2>3, <3>1 DEF RdReturn, RdGoto, RdSame, ReadTypes
      <3>2. ASSUME NEW op, NEW doc, RdEnters(q, op, doc)
            PROVE  RdSame(r) /\ rdDamaged'[r] = rdDamaged[r]
        BY <2>3, <3>2 DEF RdEnters, RdSame, ReadTypes
      <3>3. ASSUME RdStat(q) PROVE RdSame(r) /\ rdDamaged'[r] = rdDamaged[r]
        <4>1. PICK i \in Unchecked(q), status \in Statuses : RdStatAt(q, i, status)
          BY <3>3, RdStatSplit
        <4>2. rdStatus'[r] = rdStatus[r] /\ rdTotal'[r] = rdTotal[r] /\ rdTodo'[r] = rdTodo[r]
          BY <2>3, <4>1 DEF RdStatAt, ReadTypes
        <4> QED
          BY <3>3, <4>2, RdStatSplit DEF RdSame
      <3>4. ASSUME RdHash(q), ~RdReturn(q, "done")
            PROVE  RdSame(r) /\ rdDamaged'[r] = rdDamaged[r]
        <4>1. PICK d \in rdTodo[q], outcome \in {"ok", "missing", "corrupted", "error"} :
                 RdHashOf(q, d, outcome)
          BY <3>4, RdHashSplit
        <4>2. rdStatus'[r] = rdStatus[r] /\ rdRead'[r] = rdRead[r] /\ rdTodo'[r] = rdTodo[r]
          BY <2>3, <4>1 DEF RdHashOf, ReadTypes
        <4> QED
          BY <3>4, <4>2, RdHashSplit DEF RdSame
      <3>5. ASSUME RdStatEnd(q), ~RdReturn(q, "done"), ~RdReturn(q, "tooManyBytes")
            PROVE  RdSame(r) /\ rdDamaged'[r] = rdDamaged[r]
        BY <2>3, <3>5 DEF RdStatEnd, RdGoto, rdReport, RdSame, ReadTypes
      <3> QED
        BY <2>2, <3>1, <3>2, <3>3, <3>4, <3>5 DEF RdMoves
    <2> QED
      BY <2>1, <2>2, <2>3 DEF RdWaits
  <1>5. AnyStep => \/ UNCHANGED rdVars /\ UNCHANGED obj
                   \/ RdNext /\ UNCHANGED lost
                   \/ \E p \in Putters : PutRename(p)
                   \/ \E d \in Contents : Tamper(d)
    BY DEF AnyStep, Next, PutNext, PutBegin, PutLstat, PutOpen, PutCopy, PutStat,
           PutRecheck, PutReport, PutFails, PutKilled, Edit
  <1> QED
    BY <1>1, <1>2, <1>3, <1>4, <1>5

LEMMA ReaderWaits ==
  ASSUME ReadTypes, NEW r \in Readers, ReadInv(r), ObjStep, RdWaits(r)
  PROVE  ReadInv(r)'
  <1>1. ASSUME NEW i \in DOMAIN rdDoc[r] PROVE EntryInv(r, i)'
    BY DEF ReadInv, EntryInv, ObjStep, RdWaits, RdSame
  <1> QED
    BY <1>1 DEF ReadInv, ObjStep, RdWaits, RdSame

LEMMA GivesUp ==
  ASSUME ReadTypes, NEW r \in Readers,
         NEW outcome \in {"tooManyEntries", "tooManyBytes", "failed"}, RdReturn(r, outcome)
  PROVE  ReadInv(r)'
  <1>1. /\ rdPc'[r] = "idle" /\ rdTodo'[r] = {} /\ rdResult'[r] = outcome
        /\ rdStatus'[r] = <<"unchecked">> /\ rdKnown'[r] = {} /\ rdDamaged'[r] = {}
        /\ rdDoc'[r] = <<<<>>>>
    BY DEF RdReturn, RdGoto, ReadTypes
  <1>2. ASSUME NEW i \in DOMAIN rdDoc'[r] PROVE EntryInv(r, i)'
    <2>1. rdStatus'[r][i] = "unchecked"
      BY <1>1, <1>2
    <2> QED
      BY <1>1, <2>1 DEF EntryInv
  <1> QED
    BY <1>1, <1>2 DEF ReadInv

LEMMA Ends ==
  ASSUME ReadTypes, NEW r \in Readers, ReadInv(r), UNCHANGED <<obj, acked, lost>>,
         RdReturn(r, "done"), RdStatEnd(r) \/ RdHash(r)
  PROVE  ReadInv(r)'
  <1>1. /\ rdPc'[r] = "idle" /\ rdTodo'[r] = {} /\ rdResult'[r] = "done"
        /\ UNCHANGED <<rdDoc, rdOp, rdStatus, rdKnown, rdDamaged>>
    BY DEF RdReturn, RdGoto, ReadTypes
  <1>2. ASSUME NEW i \in DOMAIN rdDoc[r]
        PROVE  rdStatus[r][i] \notin {"unchecked", "candidate"}
    <2>1. EntryInv(r, i)
      BY DEF ReadInv
    <2>2. CASE RdStatEnd(r)
      <3>1. rdStatus[r][i] # "unchecked"
        BY <2>2 DEF RdStatEnd, Unchecked
      <3>2. rdOp[r] = "list"
        BY <1>1, <2>2 DEF RdStatEnd, RdReturn, RdGoto, ReadTypes
      <3> QED
        BY <2>1, <3>1, <3>2 DEF EntryInv
    <2>3. CASE RdHash(r)
      <3>1. rdPc[r] = "hash"
        BY <2>3 DEF RdHash
      <3>2. rdTodo[r] = {}
        BY <1>1, <2>3, <3>1 DEF RdHash, ReadTypes
      <3> QED
        BY <2>1, <3>1, <3>2 DEF EntryInv
    <2> QED
      BY <2>2, <2>3
  <1>3. ASSUME NEW i \in DOMAIN rdDoc[r] PROVE EntryInv(r, i)'
    BY <1>1, <1>2, <1>3 DEF EntryInv, ReadInv
  <1> QED
    BY <1>1, <1>3 DEF ReadInv

LEMMA Enters ==
  ASSUME ReadTypes, NEW r \in Readers, NEW op \in {"verify", "list", "inspect"},
         NEW doc \in DocSet, op = "inspect" => Len(doc) = 1,
         RdEnters(r, op, doc), UNCHANGED <<obj, acked, lost>>
  PROVE  ReadInv(r)'
  <1>1. /\ rdPc'[r] = IF op = "inspect" THEN "hash" ELSE "stat"
        /\ rdTodo'[r] = IF op = "inspect" THEN {doc[1]} ELSE {}
        /\ rdResult'[r] = "none" /\ rdOp'[r] = op /\ rdDoc'[r] = doc
    BY DEF RdEnters, ReadTypes
  <1>2. rdStatus'[r] = [i \in DOMAIN doc |-> IF op = "inspect" THEN "candidate" ELSE "unchecked"]
    BY DEF RdEnters, ReadTypes
  <1>3. /\ rdKnown'[r] = acked \cap Declared(doc)
        /\ rdDamaged'[r] = {d \in Declared(doc) : Check(d) # "ok"}
    BY DEF RdEnters, ReadTypes
  <1>4. ASSUME NEW d \in rdDamaged'[r] PROVE obj'[d] # Regular(d)
    BY <1>3, KindsDiffer DEF Check
  <1>5. ASSUME NEW i \in DOMAIN doc PROVE EntryInv(r, i)'
    <2>1. rdStatus'[r][i] = IF op = "inspect" THEN "candidate" ELSE "unchecked"
      BY <1>2
    <2>2. op = "inspect" => doc[i] = doc[1]
      BY DocsAreSequences DEF DocSet
    <2> QED
      BY <1>1, <2>1, <2>2 DEF EntryInv
  <1> QED
    BY <1>1, <1>3, <1>4, <1>5 DEF ReadInv

LEMMA Looks ==
  ASSUME PutTypes, ReadTypes, StoreInv, NEW r \in Readers, ReadInv(r),
         UNCHANGED <<obj, acked, lost>>, RdStat(r)
  PROVE  ReadInv(r)'
  <1>1. PICK i \in Unchecked(r), status \in Statuses : RdStatAt(r, i, status)
    BY RdStatSplit
  <1>2. rdPc[r] = "stat"
        /\ UNCHANGED <<rdPc, rdDoc, rdOp, rdResult, rdKnown, rdDamaged, rdRead>>
    BY RdStatSplit
  <1>3. i \in DOMAIN rdDoc[r] /\ rdDoc[r][i] \in Contents
    BY EntryTypes DEF Unchecked
  <1>4. /\ rdTodo[r] \subseteq rdTodo'[r]
        /\ status = "candidate" => rdDoc[r][i] \in rdTodo'[r]
    BY <1>1 DEF RdStatAt, ReadTypes
  <1>5. /\ rdStatus'[r][i] = status
        /\ \A j \in DOMAIN rdDoc[r] \ {i} : rdStatus'[r][j] = rdStatus[r][j]
    BY <1>1, <1>3 DEF RdStatAt, ReadTypes
  <1>6. /\ status \notin {"unchecked", "ok"}
        /\ rdOp[r] = "list" => status # "candidate"
        /\ obj[rdDoc[r][i]] = Regular(rdDoc[r][i]) => status \notin {"missing", "corrupted"}
    BY <1>1, KindsDiffer DEF RdStatAt, Outcomes, StatOf
  <1>7. rdDoc[r][i] \in rdKnown[r] \ lost => obj[rdDoc[r][i]] = Regular(rdDoc[r][i])
    BY DEF ReadInv, StoreInv
  <1>8. ASSUME NEW j \in DOMAIN rdDoc[r] PROVE EntryInv(r, j)'
    <2>1. EntryInv(r, j)
      BY DEF ReadInv
    <2>2. CASE j = i
      BY <1>2, <1>4, <1>5, <1>6, <1>7, <2>2 DEF EntryInv
    <2>3. CASE j # i
      BY <1>2, <1>4, <1>5, <2>1, <2>3 DEF EntryInv
    <2> QED
      BY <2>2, <2>3
  <1> QED
    BY <1>2, <1>8 DEF ReadInv

LEMMA PassEnds ==
  ASSUME ReadTypes, NEW r \in Readers, ReadInv(r), UNCHANGED <<obj, acked, lost>>,
         RdStatEnd(r), ~RdReturn(r, "done"), ~RdReturn(r, "tooManyBytes")
  PROVE  ReadInv(r)'
  <1>1. /\ rdPc[r] = "stat" /\ rdPc'[r] = "hash" /\ Unchecked(r) = {}
        /\ UNCHANGED <<rdResult, rdDoc, rdOp, rdStatus, rdKnown, rdDamaged, rdTodo>>
    BY DEF RdStatEnd, RdGoto, rdReport, ReadTypes
  <1>2. ASSUME NEW i \in DOMAIN rdDoc[r] PROVE EntryInv(r, i)'
    <2>1. rdStatus[r][i] # "unchecked"
      BY <1>1 DEF Unchecked
    <2> QED
      BY <1>1, <2>1 DEF ReadInv, EntryInv
  <1> QED
    BY <1>1, <1>2 DEF ReadInv

LEMMA Hashes ==
  ASSUME PutTypes, ReadTypes, StoreInv, NEW r \in Readers, ReadInv(r),
         UNCHANGED <<obj, acked, lost>>, RdHash(r), ~RdReturn(r, "done")
  PROVE  ReadInv(r)'
  <1>1. PICK d \in rdTodo[r], outcome \in {"ok", "missing", "corrupted", "error"} :
                RdHashOf(r, d, outcome)
    BY RdHashSplit
  <1>2. rdPc[r] = "hash"
        /\ UNCHANGED <<rdPc, rdResult, rdDoc, rdOp, rdTotal, rdKnown, rdDamaged>>
    BY RdHashSplit
  <1>3. rdTodo'[r] = rdTodo[r] \ {d} /\ rdStatus'[r] = Record(r, d, outcome)
    BY <1>1 DEF RdHashOf, ReadTypes
  <1>4. /\ outcome = "ok" => obj[d] = Regular(d)
        /\ obj[d] = Regular(d) => outcome \notin {"missing", "corrupted"}
    BY <1>1, KindsDiffer DEF RdHashOf, Outcomes, Check
  <1>5. /\ d \in rdKnown[r] \ lost => obj[d] = Regular(d)
        /\ d \in rdDamaged[r] => obj[d] # Regular(d)
    BY DEF ReadInv, StoreInv
  <1>6. ASSUME NEW i \in DOMAIN rdDoc[r] PROVE EntryInv(r, i)'
    <2>1. EntryInv(r, i)
      BY DEF ReadInv
    <2>2. CASE rdDoc[r][i] = d /\ rdStatus[r][i] = "candidate"
      <3>1. rdStatus'[r][i] = outcome
        BY <1>3, <2>2 DEF Record
      <3> QED
        BY <1>2, <1>4, <1>5, <2>2, <3>1 DEF EntryInv
    <2>3. CASE ~(rdDoc[r][i] = d /\ rdStatus[r][i] = "candidate")
      <3>1. rdStatus'[r][i] = rdStatus[r][i]
        BY <1>3, <2>3 DEF Record
      <3> QED
        BY <1>2, <1>3, <2>1, <2>3, <3>1 DEF EntryInv
    <2> QED
      BY <2>2, <2>3
  <1> QED
    BY <1>2, <1>6 DEF ReadInv

LEMMA ReadInvKept ==
  ASSUME PutTypes, ReadTypes, StoreInv, AllPuts, AnyStep, NEW r \in Readers, ReadInv(r)
  PROVE  ReadInv(r)'
  <1>1. ObjStep
    BY ObjSteps
  <1>2. CASE RdWaits(r)
    BY <1>1, <1>2, ReaderWaits
  <1>3. CASE RdMoves(r)
    BY <1>3, GivesUp, Ends, Enters, Looks, PassEnds, Hashes DEF RdMoves
  <1> QED
    BY <1>2, <1>3, WaitOrMove

-----------------------------------------------------------------------------
(* What a verify reads                                                     *)

LEMMA IntervalSize ==
  ASSUME NEW n \in Nat
  PROVE  IsFiniteSet(1..n) /\ Cardinality(1..n) = n
  <1>1. IsFiniteSet(1..n) /\ Cardinality(1..n) = IF 1 > n THEN 0 ELSE n - 1 + 1
    BY FS_Interval
  <1> QED
    BY <1>1

LEMMA CellsOf ==
  ASSUME NEW d \in Contents
  PROVE  /\ Len(d) \in Nat
         /\ IsFiniteSet({d} \X (1..Len(d)))
         /\ Cardinality({d} \X (1..Len(d))) = Len(d)
  <1>1. Len(d) \in Nat
    BY ContentsAreSequences
  <1>2. IsFiniteSet({d}) /\ Cardinality({d}) = 1
    BY FS_Singleton
  <1>3. IsFiniteSet(1..Len(d)) /\ Cardinality(1..Len(d)) = Len(d)
    BY <1>1, IntervalSize
  <1>4. /\ IsFiniteSet({d} \X (1..Len(d)))
        /\ Cardinality({d} \X (1..Len(d))) = Cardinality({d}) * Cardinality(1..Len(d))
    BY <1>2, <1>3, FS_Product
  <1> QED
    BY <1>1, <1>2, <1>3, <1>4

LEMMA WeightOfNone == Weight({}) = 0
  <1>1. Cells({}) = {}
    BY DEF Cells
  <1> QED
    BY <1>1, FS_EmptySet DEF Weight

LEMMA CellsAreFinite ==
  ASSUME NEW S \in SUBSET Contents, IsFiniteSet(S)
  PROVE  IsFiniteSet(Cells(S)) /\ Weight(S) \in Nat
  <1>1. IsFiniteSet(1..MaxObjectSize)
    BY EvidenceAssumption, FS_Interval
  <1>2. IsFiniteSet(S \X (1..MaxObjectSize))
    BY <1>1, FS_Product
  <1>3. ASSUME NEW d \in S PROVE 1..Len(d) \subseteq 1..MaxObjectSize
    BY ContentsAreSequences, EvidenceAssumption
  <1>4. Cells(S) \subseteq S \X (1..MaxObjectSize)
    BY <1>3 DEF Cells
  <1>5. IsFiniteSet(Cells(S))
    BY <1>2, <1>4, FS_Subset
  <1> QED
    BY <1>5, FS_CardinalityType DEF Weight

LEMMA WeightAdds ==
  ASSUME NEW S \in SUBSET Contents, IsFiniteSet(S), NEW d \in Contents \ S
  PROVE  Weight(S \cup {d}) = Weight(S) + Len(d)
  <1> DEFINE column == {d} \X (1..Len(d))
  <1>1. IsFiniteSet(Cells(S)) /\ Weight(S) \in Nat
    BY CellsAreFinite
  <1>2. IsFiniteSet(column) /\ Cardinality(column) = Len(d) /\ Len(d) \in Nat
    BY CellsOf
  <1>3. Cells(S \cup {d}) = Cells(S) \cup column
    BY DEF Cells
  <1>4. Cells(S) \cap column = {}
    BY DEF Cells
  <1>5. Cardinality(Cells(S) \cap column) = 0
    BY <1>4, FS_EmptySet
  <1>7. Weight(S \cup {d}) = Cardinality(Cells(S) \cup column)
    BY <1>3 DEF Weight
  <1> HIDE DEF column
  <1>6. Cardinality(Cells(S) \cup column) =
          Cardinality(Cells(S)) + Cardinality(column) - Cardinality(Cells(S) \cap column)
    BY <1>1, <1>2, FS_Union
  <1> QED
    BY <1>1, <1>2, <1>5, <1>6, <1>7 DEF Weight

LEMMA WeightDrops ==
  ASSUME NEW S \in SUBSET Contents, IsFiniteSet(S), NEW d \in S
  PROVE  Weight(S) = Weight(S \ {d}) + Len(d)
  <1>1. (S \ {d}) \cup {d} = S /\ IsFiniteSet(S \ {d})
    BY FS_RemoveElement
  <1> QED
    BY <1>1, WeightAdds

\* While nobody touches an object, a digest whose file is there is its bytes.
LEMMA UntouchedIsExact ==
  ASSUME PutTypes, StoreInv, NEW d \in Contents, d \notin lost, obj[d] # Absent
  PROVE  /\ obj[d] = Regular(d) /\ Len(obj[d].bytes) = Len(d)
         /\ HashedChunks(d) = Len(d)
  <1>1. obj[d] = Regular(d) /\ obj[d].bytes = d
    BY KindsDiffer DEF StoreInv
  <1>2. Len(d) \in Nat /\ Len(d) <= MaxObjectSize
    BY ContentsAreSequences
  <1> QED
    BY <1>1, <1>2, EvidenceAssumption DEF HashedChunks

LEMMA CapWaits ==
  ASSUME ReadTypes, NEW r \in Readers, CapInv(r), ObjStep, RdWaits(r)
  PROVE  CapInv(r)'
  <1>1. rdTodo[r] \subseteq Contents
    BY DEF ReadTypes
  <1> QED
    BY <1>1 DEF CapInv, ObjStep, RdWaits, RdSame, Weight, Cells

LEMMA CapReturns ==
  ASSUME ReadTypes, NEW r \in Readers, NEW outcome, RdReturn(r, outcome)
  PROVE  CapInv(r)'
  <1>1. rdPc'[r] = "idle" /\ rdTodo'[r] = {} /\ rdTotal'[r] = 0 /\ rdRead'[r] = 0
    BY DEF RdReturn, RdGoto, ReadTypes
  <1> QED
    BY <1>1, FS_EmptySet DEF CapInv

LEMMA CapEnters ==
  ASSUME ReadTypes, NEW r \in Readers, CapInv(r), NEW op, NEW doc, RdEnters(r, op, doc)
  PROVE  CapInv(r)'
  <1>1. /\ rdPc'[r] = IF op = "inspect" THEN "hash" ELSE "stat"
        /\ rdOp'[r] = op
        /\ rdTodo'[r] = IF op = "inspect" THEN {doc[1]} ELSE {}
    BY DEF RdEnters, ReadTypes
  <1>2. rdTotal'[r] = 0 /\ rdRead'[r] = 0
    BY DEF RdEnters, CapInv
  <1>3. IsFiniteSet(rdTodo'[r])
    BY <1>1, FS_EmptySet, FS_Singleton
  <1>4. CASE op = "inspect"
    BY <1>1, <1>2, <1>3, <1>4 DEF CapInv
  <1>5. CASE op # "inspect"
    BY <1>1, <1>2, <1>3, <1>5, WeightOfNone DEF CapInv, Weight, Cells
  <1> QED
    BY <1>4, <1>5

LEMMA CapLooks ==
  ASSUME PutTypes, ReadTypes, StoreInv, NEW r \in Readers, CapInv(r),
         UNCHANGED <<obj, acked, lost>>, RdStat(r)
  PROVE  CapInv(r)'
  <1>1. PICK i \in Unchecked(r), status \in Statuses : RdStatAt(r, i, status)
    BY RdStatSplit
  <1>2. rdPc[r] = "stat"
        /\ UNCHANGED <<rdPc, rdDoc, rdOp, rdResult, rdKnown, rdDamaged, rdRead>>
    BY RdStatSplit
  <1> DEFINE d == rdDoc[r][i]
  <1>3. d \in Contents
    BY EntryTypes DEF Unchecked
  <1>4. CASE status # "candidate"
    BY <1>1, <1>2, <1>4 DEF RdStatAt, CapInv, Weight, Cells
  <1>5. CASE status = "candidate"
    <2>1. obj[d] # Absent
      BY <1>1, <1>5, KindsDiffer DEF RdStatAt, Outcomes, StatOf
    <2>2. /\ rdTotal'[r] = rdTotal[r] + Counted(r, d)
          /\ rdTodo'[r] = rdTodo[r] \cup {d}
      BY <1>1, <1>5 DEF RdStatAt, ReadTypes
    <2>3. IsFiniteSet(rdTodo'[r])
      BY <2>2, FS_AddElement DEF CapInv
    <2>4. ASSUME rdOp[r] = "verify", lost = {}
          PROVE  /\ \A e \in rdTodo'[r] : obj[e] = Regular(e)
                 /\ rdTotal'[r] = Weight(rdTodo'[r])
      <3>1. obj[d] = Regular(d) /\ Len(obj[d].bytes) = Len(d)
        BY <1>3, <2>1, <2>4, UntouchedIsExact
      <3>2. /\ \A e \in rdTodo[r] : obj[e] = Regular(e)
            /\ rdTotal[r] = Weight(rdTodo[r])
        BY <1>2, <2>4 DEF CapInv
      <3>3. CASE d \in rdTodo[r]
        <4>1. rdTodo'[r] = rdTodo[r] /\ Counted(r, d) = 0 /\ rdTotal[r] \in Nat
          BY <2>2, <3>3 DEF Counted, ReadTypes
        <4>2. rdTotal'[r] = rdTotal[r]
          BY <2>2, <4>1
        <4> QED
          BY <3>2, <4>1, <4>2
      <3>4. CASE d \notin rdTodo[r]
        <4>1. Counted(r, d) = Len(d)
          BY <3>1, <3>4 DEF Counted
        <4>2. Weight(rdTodo[r] \cup {d}) = Weight(rdTodo[r]) + Len(d)
          BY <1>3, <3>4, WeightAdds DEF CapInv, ReadTypes
        <4> QED
          BY <2>2, <3>1, <3>2, <4>1, <4>2
      <3> QED
        BY <3>3, <3>4
    <2>5. rdPc'[r] = "stat" /\ rdOp'[r] = rdOp[r] /\ rdRead'[r] = rdRead[r]
      BY <1>2
    <2>6. rdRead[r] = 0
      BY <1>2 DEF CapInv
    <2>7. (Weight(rdTodo[r]))' = Weight(rdTodo'[r])
      BY DEF Weight, Cells
    <2> QED
      BY <2>3, <2>4, <2>5, <2>6, <2>7 DEF CapInv
  <1> QED
    BY <1>4, <1>5

LEMMA CapPassEnds ==
  ASSUME ReadTypes, NEW r \in Readers, CapInv(r), UNCHANGED <<obj, acked, lost>>,
         RdStatEnd(r), ~RdReturn(r, "done"), ~RdReturn(r, "tooManyBytes")
  PROVE  CapInv(r)'
  <1>1. /\ rdPc[r] = "stat" /\ rdPc'[r] = "hash"
        /\ UNCHANGED <<rdOp, rdTodo, rdTotal, rdRead>>
        /\ rdTotal[r] <= MaxTotalBytes
    BY DEF RdStatEnd, RdGoto, rdReport, ReadTypes
  <1>2. rdRead[r] = 0 /\ rdTotal[r] \in Nat
    BY <1>1 DEF CapInv, ReadTypes
  <1>3. (Weight(rdTodo[r]))' = Weight(rdTodo[r])
    BY <1>1 DEF Weight, Cells
  <1> QED
    BY <1>1, <1>2, <1>3, EvidenceAssumption DEF CapInv

LEMMA CapHashes ==
  ASSUME PutTypes, ReadTypes, StoreInv, NEW r \in Readers, CapInv(r),
         UNCHANGED <<obj, acked, lost>>, RdHash(r), ~RdReturn(r, "done")
  PROVE  CapInv(r)'
  <1>1. PICK d \in rdTodo[r], outcome \in {"ok", "missing", "corrupted", "error"} :
                RdHashOf(r, d, outcome)
    BY RdHashSplit
  <1>2. rdPc[r] = "hash"
        /\ UNCHANGED <<rdPc, rdResult, rdDoc, rdOp, rdTotal, rdKnown, rdDamaged>>
    BY RdHashSplit
  <1>3. rdTodo'[r] = rdTodo[r] \ {d} /\ rdRead'[r] = rdRead[r] + HashedChunks(d)
    BY <1>1 DEF RdHashOf, ReadTypes
  <1>4. IsFiniteSet(rdTodo'[r])
    BY <1>3, FS_RemoveElement DEF CapInv
  <1>5. ASSUME rdOp[r] = "verify", lost = {}
        PROVE  /\ \A e \in rdTodo'[r] : obj[e] = Regular(e)
               /\ rdRead'[r] + Weight(rdTodo'[r]) <= MaxTotalBytes
    <2>1. /\ \A e \in rdTodo[r] : obj[e] = Regular(e)
          /\ rdRead[r] + Weight(rdTodo[r]) <= MaxTotalBytes
      BY <1>2, <1>5 DEF CapInv
    <2>2. d \in Contents /\ rdRead[r] \in Nat /\ rdTodo[r] \in SUBSET Contents
      BY DEF ReadTypes
    <2>3. HashedChunks(d) = Len(d) /\ Len(d) \in Nat
      BY <1>5, <2>1, <2>2, UntouchedIsExact, ContentsAreSequences, KindsDiffer
    <2>4. Weight(rdTodo[r]) = Weight(rdTodo[r] \ {d}) + Len(d)
      BY <2>2, WeightDrops DEF CapInv
    <2>5. Weight(rdTodo[r] \ {d}) \in Nat
      BY <1>3, <1>4, <2>2, CellsAreFinite
    <2> QED
      BY <1>3, <2>1, <2>2, <2>3, <2>4, <2>5, EvidenceAssumption
  <1>6. (Weight(rdTodo[r]))' = Weight(rdTodo'[r])
    BY DEF Weight, Cells
  <1>7. rdPc'[r] = "hash" /\ rdOp'[r] = rdOp[r]
    BY <1>2
  <1> QED
    BY <1>4, <1>5, <1>6, <1>7 DEF CapInv

LEMMA CapInvKept ==
  ASSUME PutTypes, ReadTypes, StoreInv, AllPuts, AnyStep, NEW r \in Readers, CapInv(r)
  PROVE  CapInv(r)'
  <1>1. ObjStep
    BY ObjSteps
  <1>2. CASE RdWaits(r)
    BY <1>1, <1>2, CapWaits
  <1>3. CASE RdMoves(r)
    BY <1>3, CapReturns, CapEnters, CapLooks, CapPassEnds, CapHashes DEF RdMoves
  <1> QED
    BY <1>2, <1>3, WaitOrMove

-----------------------------------------------------------------------------
(* The theorems                                                            *)

LEMMA IInvAtFirst ==
  ASSUME Init
  PROVE  IInv
  <1>1. PutTypes
    <2>1. src \in [Sources -> Files]
      BY DEF Init, Files
    <2>2. \A p \in Putters : pc[p] = "idle"
      BY DEF Init
    <2>3. /\ obj \in [Contents -> Files]
          /\ pc \in [Putters -> PutPc]
          /\ from \in [Putters -> Sources]
          /\ buf \in [Putters -> Contents \cup [1..MaxObjectSize + 1 -> Chunks]]
      BY AnySourceIsSource, EmptyContent DEF Init, Files, PutPc
    <2> QED
      BY <2>1, <2>2, <2>3 DEF Init, PutTypes
  <1>2. ReadTypes
    <2>1. <<<<>>>> \in {<<d>> : d \in Contents}
      BY EmptyContent
    <2>2. <<"unchecked">> \in [DOMAIN <<<<>>>> -> Statuses]
      BY DEF Statuses
    <2> QED
      BY <2>1, <2>2 DEF Init, ReadTypes
  <1>3. StoreInv
    BY DEF Init, StoreInv
  <1>4. \A p \in Putters : PutInv(p)
    BY DEF Init, PutInv
  <1>5. ASSUME NEW r \in Readers PROVE ReadInv(r) /\ CapInv(r)
    <2>1. /\ rdPc[r] = "idle" /\ rdTodo[r] = {} /\ rdResult[r] = "none"
          /\ rdStatus[r] = <<"unchecked">> /\ rdKnown[r] = {} /\ rdDamaged[r] = {}
          /\ rdDoc[r] = <<<<>>>> /\ rdTotal[r] = 0 /\ rdRead[r] = 0
      BY DEF Init
    <2>2. ASSUME NEW i \in DOMAIN rdDoc[r] PROVE EntryInv(r, i)
      <3>1. rdStatus[r][i] = "unchecked"
        BY <2>1, <2>2
      <3> QED
        BY <2>1, <3>1 DEF EntryInv
    <2> QED
      BY <2>1, <2>2, FS_EmptySet DEF ReadInv, CapInv
  <1> QED
    BY <1>1, <1>2, <1>3, <1>4, <1>5, TypesSplit DEF IInv

LEMMA IInvKept ==
  ASSUME IInv, [AnyStep]_vars
  PROVE  IInv'
  <1>0. PutTypes /\ ReadTypes /\ StoreInv /\ AllPuts
    BY TypesSplit DEF IInv, AllPuts
  <1>1. CASE AnyStep
    <2>1. PutTypes' /\ ReadTypes'
      BY <1>0, <1>1, PutTypesKept, ReadTypesKept
    <2>2. TypeOK'
      BY <2>1 DEF TypeOK, PutTypes, ReadTypes
    <2>3. StoreInv' /\ AllPuts'
      BY <1>0, <1>1, ObjSteps, StoreInvKept, PutInvKept
    <2>4. \A r \in Readers : ReadInv(r)' /\ CapInv(r)'
      BY <1>0, <1>1, ReadInvKept, CapInvKept DEF IInv
    <2> QED
      BY <2>2, <2>3, <2>4 DEF IInv, AllPuts
  <1>2. CASE UNCHANGED vars
    <2>1. TypeOK'
      BY <1>2 DEF IInv, TypeOK, vars, putVars, rdVars
    <2>2. StoreInv' /\ \A p \in Putters : PutInv(p)'
      BY <1>2 DEF IInv, StoreInv, PutInv, vars, putVars
    <2>3. \A r \in Readers : ReadInv(r)'
      BY <1>2 DEF IInv, ReadInv, EntryInv, vars, rdVars
    <2>4. \A r \in Readers : CapInv(r)'
      BY <1>2 DEF IInv, CapInv, Weight, Cells, vars, rdVars
    <2> QED
      BY <2>1, <2>2, <2>3, <2>4 DEF IInv
  <1> QED
    BY <1>1, <1>2

\* The inductive invariant holds next to a second actor.
THEOREM EvidenceInvariant == TamperSpec => []IInv
  <1>1. TamperSpec <=> Init /\ [][AnyStep]_vars
    BY DEF TamperSpec, AnyStep
  <1> QED
    BY <1>1, IInvAtFirst, IInvKept, PTL

\* Without a second actor the store takes a part of the same steps.
THEOREM SpecIsTamperSpec == Spec => TamperSpec
  <1>1. [Next]_vars => [AnyStep]_vars
    BY DEF AnyStep
  <1>2. TamperSpec <=> Init /\ [][AnyStep]_vars
    BY DEF TamperSpec, AnyStep
  <1> QED
    BY <1>1, <1>2, PTL DEF Spec

\* Every variable keeps its type: a put past its copy holds bytes within
\* MaxObjectSize, whatever the source was meanwhile.
THEOREM EvidenceTypeCorrect == TamperSpec => []TypeOK
  <1>1. IInv => TypeOK
    BY DEF IInv
  <1> QED
    BY <1>1, EvidenceInvariant, PTL

\* Acknowledged evidence is found by every later command, at each of its
\* entries (verifyEntries, List, Inspect).
THEOREM KnownEvidenceIsFound == TamperSpec => []KnownIsFound
  <1>1. ASSUME IInv PROVE KnownIsFound
    <2> SUFFICES ASSUME NEW r \in Readers, rdResult[r] = "done",
                        NEW i \in DOMAIN rdDoc[r], rdDoc[r][i] \in rdKnown[r] \ lost
                 PROVE  rdStatus[r][i] \in {"ok", "present", "error"}
      BY DEF KnownIsFound
    <2>1. ReadInv(r) /\ EntryInv(r, i)
      BY <1>1 DEF IInv, ReadInv
    <2>2. rdStatus[r][i] \in Statuses
      BY <1>1 DEF IInv, TypeOK
    <2> QED
      BY <2>1, <2>2 DEF ReadInv, EntryInv, Statuses
  <1> QED
    BY <1>1, EvidenceInvariant, PTL

\* A verify never hashes more than MaxTotalVerifyBytes, although puts go on
\* between its content-free pass and its reads (checkTotalBytes).
THEOREM VerifyReadsWithinCap == TamperSpec => []ReadsWithinCap
  <1>1. ASSUME IInv PROVE ReadsWithinCap
    <2> SUFFICES ASSUME NEW r \in Readers, rdOp[r] = "verify", lost = {}
                 PROVE  rdRead[r] <= MaxTotalBytes
      BY DEF ReadsWithinCap
    <2>1. CapInv(r) /\ ReadTypes
      BY <1>1, TypesSplit DEF IInv
    <2>2. CASE rdPc[r] = "hash"
      <3>1. rdRead[r] + Weight(rdTodo[r]) <= MaxTotalBytes
        BY <2>1, <2>2 DEF CapInv
      <3>2. rdRead[r] \in Nat /\ Weight(rdTodo[r]) \in Nat
        BY <2>1, CellsAreFinite DEF CapInv, ReadTypes
      <3> QED
        BY <3>1, <3>2, EvidenceAssumption
    <2>3. CASE rdPc[r] # "hash"
      BY <2>1, <2>3, EvidenceAssumption DEF CapInv
    <2> QED
      BY <2>2, <2>3
  <1> QED
    BY <1>1, EvidenceInvariant, PTL

\* An entry is OK only if its object was intact at some instant of the run.
THEOREM NoDamageIsMissed == TamperSpec => []DamageIsSeen
  <1>1. IInv => DamageIsSeen
    BY DEF IInv, ReadInv, EntryInv, DamageIsSeen
  <1> QED
    BY <1>1, EvidenceInvariant, PTL

\* No step of a command repairs an object (Put refuses a corrupted one).
THEOREM PutsNeverRepair == TamperSpec => DamageIsNeverRepaired
  <1>1. ASSUME IInv, [AnyStep]_vars
        PROVE  [\A d \in Contents : obj[d] \notin {Absent, Regular(d)} =>
                                obj'[d] # Regular(d)]_vars
    <2>1. CASE AnyStep
      BY <1>1, <2>1, ObjSteps, TypesSplit DEF IInv, AllPuts, ObjStep
    <2> QED
      BY <1>1, <2>1
  <1>2. TamperSpec <=> Init /\ [][AnyStep]_vars
    BY DEF TamperSpec, AnyStep
  <1> QED
    BY <1>1, <1>2, EvidenceInvariant, PTL DEF DamageIsNeverRepaired

-----------------------------------------------------------------------------
(* The refinement                                                          *)

Stored == {d \in Contents : obj[d] = Regular(d) \/ d \in lost}

\* A rename or a second actor stores; the end of a put acknowledges; the
\* rest stutters.
LEMMA StepsRefine ==
  ASSUME PutTypes, AllPuts, AnyStep
  PROVE  [Contained!Next]_<<Stored, acked>>
  <1>0. ObjStep
    BY ObjSteps
  <1>1. CASE UNCHANGED <<obj, acked, lost>>
    BY <1>1 DEF Stored
  <1>2. ASSUME NEW p \in Putters, PutRename(p), UNCHANGED lost
        PROVE  Contained!Next
    <2>1. buf[p] \in Contents /\ acked' = acked
          /\ obj' = [obj EXCEPT ![buf[p]] = Regular(buf[p])]
      BY <1>2 DEF PutTypes, PutRename, Digest
    <2>2. Stored' = Stored \cup {buf[p]}
      BY <1>2, <2>1 DEF Stored, PutTypes
    <2> QED
      BY <2>1, <2>2 DEF Contained!Next, Contained!Store, Stored
  <1>3. ASSUME NEW p \in Putters, PutRecheck(p) \/ PutReport(p), UNCHANGED lost
        PROVE  Contained!Next \/ UNCHANGED <<Stored, acked>>
    <2>1. Stored' = Stored
      BY <1>3 DEF Stored, PutRecheck, PutReport
    <2>2. buf[p] \in Contents
      BY <1>3 DEF PutTypes, PutRecheck, PutReport
    <2>3. CASE acked' = acked
      BY <2>1, <2>3
    <2>4. CASE acked' = acked \cup {buf[p]} /\ acked' # acked
      <3>1. obj[buf[p]] = Regular(buf[p]) \/ buf[p] \in lost
        BY <1>0, <2>4 DEF ObjStep
      <3>2. buf[p] \in Stored
        BY <2>2, <3>1 DEF Stored
      <3> QED
        BY <2>1, <2>2, <2>4, <3>2 DEF Contained!Next, Contained!Acknowledge, Stored
    <2> QED
      BY <1>3, <2>3, <2>4 DEF PutRecheck, PutReport, Digest
  <1>4. ASSUME NEW d \in Contents, Tamper(d) PROVE Contained!Next
    <2>1. PICK f \in Damages \ {Regular(d)} : obj' = [obj EXCEPT ![d] = f]
      BY <1>4 DEF Tamper
    <2>2. lost' = lost \cup {d} /\ acked' = acked
      BY <1>4 DEF Tamper
    <2>3. Stored' = Stored \cup {d}
      BY <2>1, <2>2 DEF Stored, PutTypes
    <2> QED
      BY <2>2, <2>3 DEF Contained!Next, Contained!Store, Stored
  <1> QED
    BY <1>1, <1>2, <1>3, <1>4, QuietSteps

\* The files implement ContentStore, next to a second actor too.
THEOREM EvidenceImplementsContentStore == TamperSpec => ImplementsContentStore
  <1>1. Init => Contained!Init
    BY KindsDiffer DEF Init, Contained!Init
  <1>2. ASSUME IInv, [AnyStep]_vars PROVE [Contained!Next]_<<Stored, acked>>
    <2>1. CASE AnyStep
      BY <1>2, <2>1, StepsRefine, TypesSplit DEF IInv, AllPuts
    <2>2. CASE UNCHANGED vars
      BY <2>2 DEF vars, Stored
    <2> QED
      BY <1>2, <2>1, <2>2
  <1>3. TamperSpec <=> Init /\ [][AnyStep]_vars
    BY DEF TamperSpec, AnyStep
  <1> QED
    BY <1>1, <1>2, <1>3, EvidenceInvariant, PTL
       DEF ImplementsContentStore, Contained!Spec, Stored
=============================================================================
