---------------------------- MODULE LibraryProofs ----------------------------
(***************************************************************************)
(* Theorems about Library, for any sets of processes, documents and        *)
(* fingerprints and any caps: first of the adds and checks alone, then of  *)
(* what also holds next to a second actor who damages stored bytes and     *)
(* index files between adds -- the privacy gate, the two caps, what        *)
(* becomes of a damaged occurrence, the refinement of IncidentMemory.      *)
(* Then of the commands that read the library meanwhile: LibraryListing,   *)
(* and Verify, its lookups and what its documents decide.                  *)
(***************************************************************************)
EXTENDS LibraryListing, Verify, FoldProofs, FiniteSetTheorems, SequenceTheorems, TLAPS

LEMMA AnyDocInDocs == AnyDoc \in Docs /\ FpOf[AnyDoc] \in Fps
  BY ConstantsAssumption DEF AnyDoc

LEMMA TypeInit == Init => TypeOK
  BY AnyDocInDocs DEF Init, TypeOK, OccState, AddPc, AddResult, CkPc, CkResult

\* The types of an add's own variables, which most steps change alone.
LocalsOK ==
    /\ pc \in [Adders -> AddPc]
    /\ doc \in [Adders -> Docs]
    /\ existed \in [Adders -> BOOLEAN]
    /\ seen \in [Adders -> SUBSET Docs]
    /\ result \in [Adders -> AddResult]

LEMMA TypeReturn ==
  ASSUME LocalsOK, NEW p \in Adders, NEW r \in AddResult, Return(p, r)
  PROVE  LocalsOK'
  BY AnyDocInDocs DEF LocalsOK, Return, AddPc

LEMMA TypeAfterCaps ==
  ASSUME LocalsOK, NEW p \in Adders, NEW S \in SUBSET Docs, AfterCaps(p, S)
  PROVE  LocalsOK'
  <1>1. CASE Return(p, "tooManyOccurrences")
    BY <1>1, TypeReturn DEF AddResult
  <1>2. CASE ~Return(p, "tooManyOccurrences")
    BY <1>2 DEF AfterCaps, Goto, LocalsOK, AddPc
  <1> QED
    BY <1>1, <1>2

LEMMA TypeBegin ==
  ASSUME TypeOK, NEW p \in Adders, NEW d \in Docs, NEW a \in BOOLEAN, Begin(p, d, a)
  PROVE  TypeOK'
  <1>1. LocalsOK
    BY DEF LocalsOK, TypeOK
  <1>2. LocalsOK'
    <2>1. CASE PrivacyGate(d, a)
      BY <1>1, <2>1 DEF Begin, Goto, LocalsOK, AddPc, AddResult
    <2>2. CASE ~PrivacyGate(d, a)
      BY <1>1, <2>2, TypeReturn DEF Begin, AddResult
    <2> QED
      BY <2>1, <2>2
  <1>3. UNCHANGED <<fsVars, ckVars, acked>> /\ consented' \in SUBSET Docs
    BY DEF Begin, TypeOK
  <1> QED
    BY <1>2, <1>3 DEF TypeOK, LocalsOK, fsVars, ckVars

LEMMA TypeAddStep ==
  ASSUME TypeOK, NEW p \in Adders, AddStep(p)
  PROVE  TypeOK'
  <1>. Fp(p) \in Fps /\ LocalsOK
    BY ConstantsAssumption DEF Fp, TypeOK, LocalsOK
  <1>1. ASSUME LocalsOK', UNCHANGED <<fsVars, ckVars, consented>>, acked' \subseteq Docs
        PROVE  TypeOK'
    BY <1>1 DEF TypeOK, LocalsOK, fsVars, ckVars
  <1>2. CASE StatDir(p)
    <2>1. (Fp(p) \in fpDirs) \in BOOLEAN
      OBVIOUS
    <2>2. existed' \in [Adders -> BOOLEAN]
      BY <1>2, <2>1 DEF StatDir, TypeOK
    <2> QED
      BY <1>1, <1>2, <2>2 DEF StatDir, Goto, LocalsOK, TypeOK, AddPc
  <1>3. CASE ReadIndex(p)
    <2>1. CASE Return(p, "malformed") \/ AfterCaps(p, idx[Fp(p)])
      BY <2>1, TypeReturn, TypeAfterCaps, <1>1, <1>3
         DEF ReadIndex, TypeOK, AddResult
    <2>2. CASE ~(Return(p, "malformed") \/ AfterCaps(p, idx[Fp(p)]))
      <3>1. idx[Fp(p)] \in SUBSET Docs
        BY DEF TypeOK
      <3>2. LocalsOK'
        BY <2>2, <1>3, <3>1 DEF ReadIndex, LocalsOK, Goto, AddPc
      <3> QED
        BY <3>2, <1>1, <1>3 DEF ReadIndex, TypeOK
    <2> QED
      BY <2>1, <2>2
  <1>4. CASE VerifyExisting(p)
    <2>1. Return(p, "corrupted") \/ Return(p, "idempotent") \/ Return(p, "conflict")
      BY <1>4, Zenon DEF VerifyExisting
    <2>2. acked' \subseteq Docs
      BY <1>4 DEF VerifyExisting, Acknowledge, TypeOK
    <2>3. LocalsOK'
      BY <2>1, TypeReturn DEF AddResult
    <2> QED
      BY <1>1, <1>4, <2>2, <2>3 DEF VerifyExisting
  <1>5. CASE CountEntries(p)
    <2>1. Return(p, "tooManyEntries") \/ AfterCaps(p, seen[p])
      BY <1>5 DEF CountEntries
    <2>2. LocalsOK'
      BY <2>1, TypeReturn, TypeAfterCaps DEF AddResult, TypeOK
    <2> QED
      BY <1>1, <1>5, <2>2 DEF CountEntries, TypeOK
  <1>6. CASE Ensure(p)
    <2>1. CASE Return(p, "corrupted")
      BY <1>1, <1>6, <2>1, TypeReturn DEF Ensure, TypeOK, AddResult
    <2>2. CASE ~Return(p, "corrupted")
      BY <1>1, <1>6, <2>2 DEF Ensure, TypeOK, LocalsOK, Goto, AddPc
    <2> QED
      BY <2>1, <2>2
  <1>7. CASE MkdirAndWriteTemp(p)
    BY <1>7 DEF MkdirAndWriteTemp, TypeOK, Goto, ckVars, AddPc, TempOwner
  <1>8. CASE RenameOcc(p)
    BY <1>8 DEF RenameOcc, TypeOK, Goto, ckVars, AddPc, OccState
  <1>9. CASE WriteIndexTemp(p)
    BY <1>9 DEF WriteIndexTemp, TypeOK, Goto, ckVars, AddPc, TempOwner
  <1>10. CASE RenameIndex(p)
    BY <1>10 DEF RenameIndex, Published, TypeOK, Goto, ckVars, AddPc
  <1>11. CASE Report(p)
    <2>1. LocalsOK'
      BY <1>11, TypeReturn DEF Report, AddResult
    <2> QED
      BY <1>1, <1>11, <2>1 DEF Report, Acknowledge, TypeOK
  <1> QED
    BY <1>2, <1>3, <1>4, <1>5, <1>6, <1>7, <1>8, <1>9, <1>10, <1>11 DEF AddStep

LEMMA TypeAddStops ==
  ASSUME TypeOK, NEW p \in Adders, AddFails(p) \/ AddKilled(p)
  PROVE  TypeOK'
  <1> USE AnyDocInDocs
      DEF TypeOK, Return, ckVars, AddPc, AddResult
  <1>0. Fp(p) \in Fps
    BY ConstantsAssumption DEF Fp
  <1>1. CASE AddFails(p)
    BY <1>0, <1>1 DEF AddFails
  <1>2. CASE AddKilled(p)
    <2>1. temps' \subseteq TempOwner \X {"occurrence", "index"}
      BY <1>2 DEF AddKilled, TempOwner
    <2> QED
      BY <1>0, <1>2, <2>1 DEF AddKilled
  <1> QED
    BY <1>1, <1>2

LEMMA TypeCheckNext ==
  ASSUME TypeOK, NEW c \in Checkers,
         (\E f \in Fps : CkBegin(c, f)) \/ CkStep(c) \/ CkFails(c)
  PROVE  TypeOK'
  <1> USE DEF TypeOK, CkGoto, CkReturn, fsVars, addVars, CkPc, CkResult
  <1>1. CASE \E f \in Fps : CkBegin(c, f)
    BY <1>1 DEF CkBegin
  <1>2. CASE CkReadIndex(c)
    BY <1>2 DEF CkReadIndex
  <1>3. CASE CkVerify(c)
    BY <1>3 DEF CkVerify
  <1>4. CASE CkFails(c)
    BY <1>4 DEF CkFails
  <1> QED
    BY <1>1, <1>2, <1>3, <1>4 DEF CkStep

LEMMA TypeNext == TypeOK /\ [Next]_vars => TypeOK'
  <1> SUFFICES ASSUME TypeOK, [Next]_vars PROVE TypeOK'
    OBVIOUS
  <1>1. CASE UNCHANGED vars
    BY <1>1 DEF TypeOK, vars, fsVars, addVars, ckVars
  <1>2. CASE AddNext
    BY <1>2, TypeBegin, TypeAddStep, TypeAddStops DEF AddNext
  <1>3. CASE CheckNext
    BY <1>3, TypeCheckNext DEF CheckNext
  <1> QED
    BY <1>1, <1>2, <1>3 DEF Next

\* Every state variable keeps its type in every interleaving, for any number
\* of processes.
THEOREM TypeCorrect == Spec => []TypeOK
  BY TypeInit, TypeNext, PTL DEF Spec

-----------------------------------------------------------------------------
(***************************************************************************)
(* Safety of Spec.  DiskInv says what the files satisfy, AddInv what an    *)
(* add may rely on at each program counter, CheckInv what a check may.     *)
(***************************************************************************)

LEMMA InvInit == Init => IInv
  BY ConstantsAssumption, AnyDocInDocs
     DEF Init, IInv, DiskInv, AddInv, CheckInv, OnePerId, Stored, Inserting

\* With one entry per incident.id at most one entry shares the document's.
LEMMA AtMostOneSameId ==
  ASSUME NEW S \in SUBSET Docs, OnePerId(S), NEW d \in Docs
  PROVE  ~(Cardinality(WithSameId(S, d)) > 1)
  <1>1. CASE WithSameId(S, d) = {}
    BY <1>1, FS_EmptySet
  <1>2. CASE WithSameId(S, d) # {}
    <2>1. PICK e : e \in WithSameId(S, d)
      BY <1>2
    <2>2. WithSameId(S, d) = {e}
      BY <2>1 DEF WithSameId, OnePerId
    <2>3. Cardinality({e}) = 1
      BY FS_Singleton
    <2> QED
      BY <2>2, <2>3
  <1> QED
    BY <1>1, <1>2

\* A step that leaves the files, the acknowledgements and the checks alone
\* only has to preserve what is said of its own add.
LEMMA LocalStep ==
  ASSUME TypeOK, TypeOK', IInv, NEW p \in Adders,
         UNCHANGED <<fsVars, ckVars, acked>>,
         \A q \in Adders \ {p} :
            /\ pc'[q] = pc[q] /\ doc'[q] = doc[q] /\ seen'[q] = seen[q]
            /\ result'[q] = result[q],
         /\ \A d \in seen'[p] : occ[d] = "intact"
         /\ OnePerId(seen'[p])
         /\ Stored(p)' => occ[doc'[p]] = "intact"
         /\ Inserting(p)' => \A d \in seen'[p] : IdOf[d] # IdOf[doc'[p]]
         /\ pc'[p] \in {"report", "verifyExisting"} => idx[FpOf[doc'[p]]] # {}
         /\ result'[p] \notin {"corrupted", "malformed"}
  PROVE  IInv'
  <1>1. DiskInv' /\ CheckInv'
    BY DEF IInv, DiskInv, CheckInv, fsVars, ckVars, OnePerId
  <1>2. AddInv'
    <2> SUFFICES ASSUME NEW q \in Adders
                 PROVE  /\ \A d \in seen'[q] : occ'[d] = "intact"
                        /\ OnePerId(seen[q])'
                        /\ Stored(q)' => occ'[doc'[q]] = "intact"
                        /\ Inserting(q)' => \A d \in seen'[q] : IdOf[d] # IdOf[doc'[q]]
                        /\ pc'[q] \in {"report", "verifyExisting"} => idx'[Fp(q)'] # {}
                        /\ result'[q] \notin {"corrupted", "malformed"}
      BY DEF AddInv
    <2>1. CASE q = p
      <3>1. OnePerId(seen[q])'
        BY <2>1 DEF OnePerId
      <3> QED
        BY <2>1, <3>1 DEF Stored, Inserting, Fp, fsVars
    <2>2. CASE q # p
      <3>1. OnePerId(seen[q])'
        BY <2>2 DEF IInv, AddInv, OnePerId
      <3> QED
        BY <2>2, <3>1 DEF IInv, AddInv, Stored, Inserting, Fp, fsVars
    <2> QED
      BY <2>1, <2>2
  <1> QED
    BY <1>1, <1>2 DEF IInv

LEMMA ReturnInv ==
  ASSUME TypeOK, TypeOK', IInv, NEW p \in Adders, NEW r, Return(p, r),
         r \notin {"corrupted", "malformed"},
         UNCHANGED <<fsVars, ckVars, acked>>
  PROVE  IInv'
  BY LocalStep DEF Return, TypeOK, OnePerId, Stored, Inserting

LEMMA AfterCapsInv ==
  ASSUME TypeOK, TypeOK', IInv, NEW p \in Adders, NEW S \in SUBSET Docs,
         AfterCaps(p, S), UNCHANGED <<fsVars, ckVars, acked>>,
         \A d \in S : occ[d] = "intact" /\ IdOf[d] # IdOf[doc[p]],
         OnePerId(S)
  PROVE  IInv'
  <1>1. CASE Return(p, "tooManyOccurrences")
    BY <1>1, ReturnInv
  <1>2. CASE ~Return(p, "tooManyOccurrences")
    <2>1. /\ pc' = [pc EXCEPT ![p] = "ensure"]
          /\ seen' = [seen EXCEPT ![p] = S]
          /\ UNCHANGED <<doc, result>>
      BY <1>2 DEF AfterCaps, Goto
    <2>2. result[p] \notin {"corrupted", "malformed"}
      BY DEF IInv, AddInv
    <2>3. seen'[p] = S /\ pc'[p] = "ensure" /\ doc'[p] = doc[p] /\ result'[p] = result[p]
      BY <2>1 DEF TypeOK
    <2>4. \A q \in Adders \ {p} :
            /\ pc'[q] = pc[q] /\ doc'[q] = doc[q] /\ seen'[q] = seen[q]
            /\ result'[q] = result[q]
      BY <2>1 DEF TypeOK
    <2>5. OnePerId(seen'[p])
      BY <2>3
    <2> QED
      BY <2>2, <2>3, <2>4, <2>5, LocalStep DEF Stored, Inserting
  <1> QED
    BY <1>1, <1>2

LEMMA ReadIndexInv ==
  ASSUME TypeOK, TypeOK', IInv, NEW p \in Adders, ReadIndex(p)
  PROVE  IInv'
  <1> DEFINE same == WithSameId(idx[Fp(p)], doc[p])
  <1>1. /\ Fp(p) \in Fps /\ doc[p] \in Docs
        /\ idx[Fp(p)] \in SUBSET Docs
        /\ OnePerId(idx[Fp(p)])
        /\ \A d \in idx[Fp(p)] : occ[d] = "intact"
        /\ malformed = {}
    BY ConstantsAssumption DEF TypeOK, Fp, IInv, DiskInv
  <1>2. ~(Cardinality(same) > 1)
    BY <1>1, AtMostOneSameId
  <1>3. UNCHANGED <<fsVars, ckVars, acked>>
    BY DEF ReadIndex
  <1>4. CASE Cardinality(same) = 1 /\ seen' = [seen EXCEPT ![p] = idx[Fp(p)]]
             /\ Goto(p, "verifyExisting") /\ UNCHANGED <<doc, existed, result>>
    <2>1. idx[Fp(p)] # {}
      <3>1. Cardinality({}) # 1
        BY FS_EmptySet
      <3>2. same # {}
        BY <1>4, <3>1
      <3> QED
        BY <3>2 DEF WithSameId
    <2>2. result[p] \notin {"corrupted", "malformed"}
      BY DEF IInv, AddInv
    <2>3. /\ seen'[p] = idx[Fp(p)] /\ pc'[p] = "verifyExisting"
          /\ doc'[p] = doc[p] /\ result'[p] = result[p]
          /\ \A q \in Adders \ {p} :
                /\ pc'[q] = pc[q] /\ doc'[q] = doc[q] /\ seen'[q] = seen[q]
                /\ result'[q] = result[q]
      BY <1>4 DEF TypeOK, Goto
    <2>4. OnePerId(seen'[p])
      BY <1>1, <2>3
    <2> QED
      BY <1>1, <1>3, <2>1, <2>2, <2>3, <2>4, LocalStep DEF Stored, Inserting, Fp
  <1>5. CASE same = {} /\ AfterCaps(p, idx[Fp(p)])
    BY <1>1, <1>3, <1>5, AfterCapsInv DEF WithSameId
  <1>6. CASE same = {} /\ seen' = [seen EXCEPT ![p] = idx[Fp(p)]]
             /\ Goto(p, "countEntries") /\ UNCHANGED <<doc, existed, result>>
    <2>1. result[p] \notin {"corrupted", "malformed"}
      BY DEF IInv, AddInv
    <2>2. /\ seen'[p] = idx[Fp(p)] /\ pc'[p] = "countEntries"
          /\ doc'[p] = doc[p] /\ result'[p] = result[p]
          /\ \A q \in Adders \ {p} :
                /\ pc'[q] = pc[q] /\ doc'[q] = doc[q] /\ seen'[q] = seen[q]
                /\ result'[q] = result[q]
      BY <1>6 DEF TypeOK, Goto
    <2>3. OnePerId(seen'[p])
      BY <1>1, <2>2
    <2>4. \A d \in idx[Fp(p)] : IdOf[d] # IdOf[doc[p]]
      BY <1>6 DEF WithSameId
    <2> QED
      BY <1>1, <1>3, <2>1, <2>2, <2>3, <2>4, LocalStep DEF Stored, Inserting
  <1> QED
    BY <1>1, <1>2, <1>4, <1>5, <1>6 DEF ReadIndex, Malformed

\* An add returns while an acknowledgement may be added: the document it
\* acknowledges is stored and its index is not empty.
LEMMA AcknowledgeInv ==
  ASSUME TypeOK, TypeOK', IInv, NEW p \in Adders,
         Return(p, "stored") \/ Return(p, "idempotent"),
         Acknowledge(p), UNCHANGED <<fsVars, ckVars>>,
         occ[doc[p]] = "intact", idx[Fp(p)] # {}
  PROVE  IInv'
  <1>1. DiskInv'
    BY DEF IInv, DiskInv, Acknowledge, fsVars, Fp, OnePerId
  <1>2. CheckInv'
    BY DEF IInv, CheckInv, ckVars, fsVars
  <1>3. AddInv'
    <2> SUFFICES ASSUME NEW q \in Adders
                 PROVE  /\ \A d \in seen'[q] : occ'[d] = "intact"
                        /\ OnePerId(seen[q])'
                        /\ Stored(q)' => occ'[doc'[q]] = "intact"
                        /\ Inserting(q)' => \A d \in seen'[q] : IdOf[d] # IdOf[doc'[q]]
                        /\ pc'[q] \in {"report", "verifyExisting"} => idx'[Fp(q)'] # {}
                        /\ result'[q] \notin {"corrupted", "malformed"}
      BY DEF AddInv
    <2>1. CASE q = p
      <3>1. pc'[q] = "idle" /\ seen'[q] = {} /\ result'[q] \in {"stored", "idempotent"}
        BY <2>1 DEF Return, TypeOK
      <3>2. OnePerId(seen[q])'
        BY <3>1 DEF OnePerId
      <3> QED
        BY <3>1, <3>2 DEF Stored, Inserting
    <2>2. CASE q # p
      <3>1. /\ pc'[q] = pc[q] /\ doc'[q] = doc[q] /\ seen'[q] = seen[q]
            /\ result'[q] = result[q]
        BY <2>2 DEF Return, TypeOK
      <3>2. OnePerId(seen[q])'
        BY <3>1 DEF IInv, AddInv, OnePerId
      <3> QED
        BY <3>1, <3>2 DEF IInv, AddInv, Stored, Inserting, Fp, fsVars
    <2> QED
      BY <2>1, <2>2
  <1> QED
    BY <1>1, <1>2, <1>3 DEF IInv

LEMMA VerifyExistingInv ==
  ASSUME TypeOK, TypeOK', IInv, NEW p \in Adders, VerifyExisting(p)
  PROVE  IInv'
  <1>1. PICK e \in WithSameId(seen[p], doc[p]) :
            \/ occ[e] # "intact" /\ Return(p, "corrupted") /\ UNCHANGED acked
            \/ occ[e] = "intact" /\ e = doc[p] /\ Return(p, "idempotent") /\ Acknowledge(p)
            \/ occ[e] = "intact" /\ e # doc[p] /\ Return(p, "conflict") /\ UNCHANGED acked
    BY DEF VerifyExisting, Verifies
  <1>2. UNCHANGED <<fsVars, ckVars>> /\ pc[p] = "verifyExisting"
    BY DEF VerifyExisting
  <1>3. occ[e] = "intact" /\ idx[Fp(p)] # {}
    BY <1>1, <1>2 DEF IInv, AddInv, WithSameId
  <1>4. CASE e = doc[p] /\ Return(p, "idempotent") /\ Acknowledge(p)
    BY <1>2, <1>3, <1>4, AcknowledgeInv
  <1>5. CASE Return(p, "conflict") /\ UNCHANGED acked
    BY <1>2, <1>5, ReturnInv
  <1> QED
    BY <1>1, <1>3, <1>4, <1>5

LEMMA CountEntriesInv ==
  ASSUME TypeOK, TypeOK', IInv, NEW p \in Adders, CountEntries(p)
  PROVE  IInv'
  <1>1. UNCHANGED <<fsVars, ckVars, acked>>
    BY DEF CountEntries
  <1>2. CASE Return(p, "tooManyEntries")
    BY <1>1, <1>2, ReturnInv
  <1>3. CASE AfterCaps(p, seen[p])
    <2>1. pc[p] = "countEntries" /\ seen[p] \in SUBSET Docs
      BY DEF CountEntries, TypeOK
    <2>2. \A d \in seen[p] : occ[d] = "intact" /\ IdOf[d] # IdOf[doc[p]]
      BY <2>1 DEF IInv, AddInv, Inserting
    <2>3. OnePerId(seen[p])
      BY DEF IInv, AddInv
    <2> QED
      BY <1>1, <1>3, <2>1, <2>2, <2>3, AfterCapsInv
  <1> QED
    BY <1>2, <1>3 DEF CountEntries

LEMMA EnsureInv ==
  ASSUME TypeOK, TypeOK', IInv, NEW p \in Adders, Ensure(p)
  PROVE  IInv'
  <1>1. /\ UNCHANGED <<fsVars, ckVars, acked, doc, seen, result>>
        /\ \/ occ[doc[p]] = "intact" /\ Goto(p, "writeIndex")
           \/ Goto(p, "mkdir")
    BY DEF Ensure, TypeOK, IInv, DiskInv
  <1>2. /\ Inserting(p)
        /\ \A q \in Adders \ {p} : pc'[q] = pc[q]
        /\ \/ pc'[p] = "writeIndex" /\ occ[doc[p]] = "intact"
           \/ pc'[p] = "mkdir"
    BY <1>1 DEF Ensure, TypeOK, Goto, Inserting
  <1>3. /\ \A d \in seen'[p] : occ[d] = "intact"
        /\ OnePerId(seen'[p])
        /\ \A d \in seen'[p] : IdOf[d] # IdOf[doc'[p]]
        /\ result'[p] \notin {"corrupted", "malformed"}
    BY <1>1, <1>2 DEF IInv, AddInv, OnePerId
  <1> QED
    BY <1>1, <1>2, <1>3, LocalStep DEF Stored

LEMMA BeginInv ==
  ASSUME TypeOK, TypeOK', IInv, NEW p \in Adders, NEW d \in Docs,
         NEW a \in BOOLEAN, Begin(p, d, a)
  PROVE  IInv'
  <1>1. UNCHANGED <<fsVars, ckVars, acked>>
    BY DEF Begin
  <1>2. CASE Return(p, "privacy")
    BY <1>1, <1>2, ReturnInv
  <1>3. CASE /\ Goto(p, "statDir") /\ doc' = [doc EXCEPT ![p] = d]
             /\ result' = [result EXCEPT ![p] = "none"] /\ UNCHANGED seen
    <2>1. /\ pc'[p] = "statDir" /\ result'[p] = "none"
          /\ \A q \in Adders \ {p} : pc'[q] = pc[q] /\ doc'[q] = doc[q]
                                     /\ result'[q] = result[q]
      BY <1>3 DEF Goto, TypeOK
    <2>2. (\A e \in seen'[p] : occ[e] = "intact") /\ OnePerId(seen'[p])
      BY <1>3 DEF IInv, AddInv, OnePerId
    <2> QED
      BY <1>1, <1>3, <2>1, <2>2, LocalStep DEF Stored, Inserting
  <1> QED
    BY <1>2, <1>3 DEF Begin

LEMMA StatDirInv ==
  ASSUME TypeOK, TypeOK', IInv, NEW p \in Adders, StatDir(p)
  PROVE  IInv'
  <1>1. /\ UNCHANGED <<fsVars, ckVars, acked, doc, seen, result>>
        /\ pc'[p] = "readIndex" /\ \A q \in Adders \ {p} : pc'[q] = pc[q]
    BY DEF StatDir, Goto, TypeOK
  <1>2. /\ \A d \in seen'[p] : occ[d] = "intact"
        /\ OnePerId(seen'[p])
        /\ result'[p] \notin {"corrupted", "malformed"}
    BY <1>1 DEF IInv, AddInv, OnePerId
  <1> QED
    BY <1>1, <1>2, LocalStep DEF Stored, Inserting

\* The steps that change files.  What they leave alone for every add:
LEMMA MkdirAndWriteTempInv ==
  ASSUME TypeOK, TypeOK', IInv, NEW p \in Adders,
         MkdirAndWriteTemp(p) \/ WriteIndexTemp(p)
  PROVE  IInv'
  <1>1. UNCHANGED <<occ, idx, malformed, doc, seen, result, ckVars, acked>>
    BY DEF MkdirAndWriteTemp, WriteIndexTemp
  <1>2. /\ \A q \in Adders \ {p} : pc'[q] = pc[q]
        /\ Inserting(p)
        /\ pc'[p] \in {"renameOcc", "renameIndex"}
        /\ pc'[p] = "renameIndex" => Stored(p)
    BY DEF MkdirAndWriteTemp, WriteIndexTemp, Goto, TypeOK, Inserting, Stored
  <1>3. DiskInv' /\ CheckInv'
    BY <1>1 DEF IInv, DiskInv, CheckInv, ckVars, OnePerId
  <1>4. ASSUME NEW q \in Adders
        PROVE  /\ OnePerId(seen[q])'
               /\ \A d \in seen'[q] : occ'[d] = "intact"
               /\ result'[q] \notin {"corrupted", "malformed"}
    BY <1>1 DEF IInv, AddInv, OnePerId
  <1>5. ASSUME NEW q \in Adders
        PROVE  /\ Stored(q)' => occ'[doc'[q]] = "intact"
               /\ Inserting(q)' => \A d \in seen'[q] : IdOf[d] # IdOf[doc'[q]]
               /\ pc'[q] \in {"report", "verifyExisting"} => idx'[Fp(q)'] # {}
    BY <1>1, <1>2 DEF IInv, AddInv, Stored, Inserting, Fp
  <1> QED
    BY <1>3, <1>4, <1>5 DEF IInv, AddInv

LEMMA RenameOccInv ==
  ASSUME TypeOK, TypeOK', IInv, NEW p \in Adders, RenameOcc(p)
  PROVE  IInv'
  <1>1. UNCHANGED <<idx, malformed, doc, seen, result, ckVars, acked>>
    BY DEF RenameOcc
  <1>2. /\ \A q \in Adders \ {p} : pc'[q] = pc[q]
        /\ pc[p] = "renameOcc" /\ pc'[p] = "writeIndex"
        /\ \A d \in Docs : occ'[d] = IF d = doc[p] THEN "intact" ELSE occ[d]
    BY DEF RenameOcc, Goto, TypeOK
  <1>3. DiskInv'
    BY <1>1, <1>2 DEF IInv, DiskInv, OnePerId, TypeOK
  <1>4. CheckInv'
    BY <1>1, <1>2 DEF IInv, CheckInv, ckVars, TypeOK
  <1>5. ASSUME NEW q \in Adders
        PROVE  /\ OnePerId(seen[q])'
               /\ \A d \in seen'[q] : occ'[d] = "intact"
               /\ result'[q] \notin {"corrupted", "malformed"}
    BY <1>1, <1>2 DEF IInv, AddInv, OnePerId, TypeOK
  <1>6. ASSUME NEW q \in Adders
        PROVE  /\ Stored(q)' => occ'[doc'[q]] = "intact"
               /\ Inserting(q)' => \A d \in seen'[q] : IdOf[d] # IdOf[doc'[q]]
               /\ pc'[q] \in {"report", "verifyExisting"} => idx'[Fp(q)'] # {}
    <2>1. CASE q = p
      <3>1. doc[p] \in Docs /\ occ'[doc[p]] = "intact"
        BY <1>2 DEF TypeOK
      <3>2. \A d \in seen[p] : IdOf[d] # IdOf[doc[p]]
        BY <1>2 DEF IInv, AddInv, Inserting
      <3> QED
        BY <1>1, <1>2, <2>1, <3>1, <3>2
    <2>2. CASE q # p
      BY <1>1, <1>2, <2>2 DEF IInv, AddInv, Stored, Inserting, Fp, TypeOK
    <2> QED
      BY <2>1, <2>2
  <1> QED
    BY <1>3, <1>4, <1>5, <1>6 DEF IInv, AddInv

LEMMA RenameIndexInv ==
  ASSUME TypeOK, TypeOK', IInv, NEW p \in Adders, RenameIndex(p)
  PROVE  IInv'
  <1>1. UNCHANGED <<occ, doc, result, ckVars, acked>> /\ malformed' = {}
    BY DEF RenameIndex, IInv, DiskInv
  <1>2. /\ Fp(p) \in Fps /\ doc[p] \in Docs
        /\ pc[p] = "renameIndex" /\ pc'[p] = "report" /\ seen'[p] = {}
        /\ \A q \in Adders \ {p} : pc'[q] = pc[q] /\ seen'[q] = seen[q]
        /\ \A f \in Fps : idx'[f] = IF f = Fp(p) THEN Published(p) ELSE idx[f]
    BY ConstantsAssumption DEF RenameIndex, Goto, TypeOK, Fp
  <1>3. /\ \A d \in Published(p) : occ[d] = "intact"
        /\ OnePerId(Published(p))
        /\ Published(p) # {}
    <2>1. /\ occ[doc[p]] = "intact" /\ OnePerId(seen[p])
          /\ \A d \in seen[p] : occ[d] = "intact" /\ IdOf[d] # IdOf[doc[p]]
      BY <1>2 DEF IInv, AddInv, Stored, Inserting
    <2> QED
      BY <2>1 DEF Published, OnePerId
  <1>4. \A f \in Fps : idx[f] # {} => idx'[f] # {}
    BY <1>2, <1>3
  <1>5. DiskInv'
    <2>1. \A f \in Fps : OnePerId(idx'[f])
      BY <1>2, <1>3 DEF IInv, DiskInv
    <2>2. \A f \in Fps : \A d \in idx'[f] : occ[d] = "intact"
      BY <1>2, <1>3 DEF IInv, DiskInv
    <2>3. \A d \in acked : idx'[FpOf[d]] # {}
      BY <1>4, ConstantsAssumption DEF IInv, DiskInv, TypeOK
    <2> QED
      BY <1>1, <2>1, <2>2, <2>3 DEF IInv, DiskInv, OnePerId
  <1>6. CheckInv'
    BY <1>1, <1>4 DEF IInv, CheckInv, ckVars, TypeOK
  <1>7. ASSUME NEW q \in Adders
        PROVE  /\ OnePerId(seen[q])'
               /\ \A d \in seen'[q] : occ'[d] = "intact"
               /\ result'[q] \notin {"corrupted", "malformed"}
    BY <1>1, <1>2 DEF IInv, AddInv, OnePerId
  <1>8. ASSUME NEW q \in Adders
        PROVE  /\ Stored(q)' => occ'[doc'[q]] = "intact"
               /\ Inserting(q)' => \A d \in seen'[q] : IdOf[d] # IdOf[doc'[q]]
    BY <1>1, <1>2 DEF IInv, AddInv, Stored, Inserting
  <1>9. ASSUME NEW q \in Adders, pc'[q] \in {"report", "verifyExisting"}
        PROVE  idx'[Fp(q)'] # {}
    <2>1. Fp(q)' = Fp(q) /\ Fp(q) \in Fps
      BY <1>1, ConstantsAssumption DEF Fp, TypeOK
    <2>2. CASE q = p
      BY <1>2, <1>3, <2>1, <2>2
    <2>3. CASE q # p
      BY <1>2, <1>4, <1>9, <2>1, <2>3 DEF IInv, AddInv
    <2> QED
      BY <2>2, <2>3
  <1> QED
    BY <1>5, <1>6, <1>7, <1>8, <1>9 DEF IInv, AddInv

LEMMA ReportInv ==
  ASSUME TypeOK, TypeOK', IInv, NEW p \in Adders, Report(p)
  PROVE  IInv'
  <1>1. occ[doc[p]] = "intact" /\ idx[Fp(p)] # {}
    BY DEF Report, IInv, AddInv, Stored
  <1> QED
    BY <1>1, AcknowledgeInv DEF Report

\* A failed or killed add leaves the files it published as they are.
LEMMA AddStopsInv ==
  ASSUME TypeOK, TypeOK', IInv, NEW p \in Adders, AddFails(p) \/ AddKilled(p)
  PROVE  IInv'
  <1>1. UNCHANGED <<occ, idx, malformed, ckVars, acked>>
    BY DEF AddFails, AddKilled
  <1>2. /\ pc'[p] = "idle" /\ seen'[p] = {} /\ result'[p] \in {"failed", "killed"}
        /\ \A q \in Adders \ {p} : /\ pc'[q] = pc[q] /\ seen'[q] = seen[q]
                                   /\ result'[q] = result[q] /\ doc'[q] = doc[q]
    BY DEF AddFails, AddKilled, Return, TypeOK
  <1>3. DiskInv' /\ CheckInv'
    BY <1>1 DEF IInv, DiskInv, CheckInv, ckVars, OnePerId
  <1>4. ASSUME NEW q \in Adders
        PROVE  /\ OnePerId(seen[q])'
               /\ \A d \in seen'[q] : occ'[d] = "intact"
               /\ result'[q] \notin {"corrupted", "malformed"}
    BY <1>1, <1>2 DEF IInv, AddInv, OnePerId
  <1>5. ASSUME NEW q \in Adders
        PROVE  /\ Stored(q)' => occ'[doc'[q]] = "intact"
               /\ Inserting(q)' => \A d \in seen'[q] : IdOf[d] # IdOf[doc'[q]]
               /\ pc'[q] \in {"report", "verifyExisting"} => idx'[Fp(q)'] # {}
    BY <1>1, <1>2 DEF IInv, AddInv, Stored, Inserting, Fp
  <1> QED
    BY <1>3, <1>4, <1>5 DEF IInv, AddInv

LEMMA AddStepInv ==
  ASSUME TypeOK, TypeOK', IInv, NEW p \in Adders, AddStep(p)
  PROVE  IInv'
  BY StatDirInv, ReadIndexInv, VerifyExistingInv, CountEntriesInv, EnsureInv,
     MkdirAndWriteTempInv, RenameOccInv, RenameIndexInv, ReportInv DEF AddStep

\* A step of one check disturbs neither the files nor the other checks.
LEMMA CheckStepInv ==
  ASSUME TypeOK, TypeOK', IInv, NEW c \in Checkers,
         (\E f \in Fps : CkBegin(c, f)) \/ CkStep(c) \/ CkFails(c)
  PROVE  IInv'
  <1>1. UNCHANGED <<fsVars, addVars, acked>>
    BY DEF CkBegin, CkStep, CkReadIndex, CkVerify, CkFails
  <1>2. DiskInv'
    BY <1>1 DEF IInv, DiskInv, fsVars, OnePerId
  <1>3. AddInv'
    <2>1. ASSUME NEW q \in Adders PROVE OnePerId(seen[q])'
      BY <1>1 DEF IInv, AddInv, OnePerId, addVars
    <2> QED
      BY <1>1, <2>1 DEF IInv, AddInv, Stored, Inserting, Fp, addVars, fsVars
  <1>4. \A b \in Checkers \ {c} :
            /\ ckTodo'[b] = ckTodo[b] /\ ckKnown'[b] = ckKnown[b]
            /\ ckFp'[b] = ckFp[b] /\ ckResult'[b] = ckResult[b]
    BY DEF CkBegin, CkStep, CkReadIndex, CkVerify, CkFails, CkReturn, TypeOK
  <1>5. /\ \A d \in ckTodo'[c] : occ[d] = "intact"
        /\ ckKnown'[c] => idx[ckFp'[c]] # {} /\ ckResult'[c] # "noMatch"
        /\ ckResult'[c] \notin {"corrupted", "malformed"}
    <2>0. /\ \A d \in ckTodo[c] : occ[d] = "intact"
          /\ ckKnown[c] => idx[ckFp[c]] # {} /\ ckResult[c] # "noMatch"
          /\ ckResult[c] \notin {"corrupted", "malformed"}
      BY DEF IInv, CheckInv
    <2>1. CASE \E f \in Fps : CkBegin(c, f)
      <3>1. PICK f \in Fps : CkBegin(c, f)
        BY <2>1
      <3>2. /\ ckTodo'[c] = {} /\ ckFp'[c] = f /\ ckResult'[c] = "none"
            /\ ckKnown'[c] = (\E d \in acked : FpOf[d] = f)
        BY <3>1 DEF CkBegin, TypeOK
      <3>3. (\E d \in acked : FpOf[d] = f) => idx[f] # {}
        BY DEF IInv, DiskInv
      <3> QED
        BY <3>2, <3>3
    <2>2. CASE CkReadIndex(c)
      <3>1. ckFp' = ckFp /\ ckKnown' = ckKnown /\ ckFp[c] \in Fps
        BY <2>2 DEF CkReadIndex, TypeOK
      <3>2. CASE idx[ckFp[c]] = {} /\ CkReturn(c, "noMatch")
        <4>1. ckTodo'[c] = {} /\ ckResult'[c] = "noMatch"
          BY <3>2 DEF CkReturn, TypeOK
        <4> QED
          BY <2>0, <3>1, <3>2, <4>1
      <3>3. CASE ckTodo' = [ckTodo EXCEPT ![c] = idx[ckFp[c]]] /\ UNCHANGED ckResult
        <4>1. ckTodo'[c] = idx[ckFp[c]] /\ ckResult'[c] = ckResult[c]
          BY <3>3 DEF TypeOK
        <4> QED
          BY <2>0, <3>1, <4>1 DEF IInv, DiskInv
      <3> QED
        BY <2>2, <3>2, <3>3 DEF CkReadIndex, Malformed, IInv, DiskInv
    <2>3. CASE CkVerify(c)
      <3>1. ckFp' = ckFp /\ ckKnown' = ckKnown
        BY <2>3 DEF CkVerify
      <3>2. CASE CkReturn(c, "match")
        <4>1. ckTodo'[c] = {} /\ ckResult'[c] = "match"
          BY <3>2 DEF CkReturn, TypeOK
        <4> QED
          BY <2>0, <3>1, <4>1
      <3>3. CASE /\ \E d \in ckTodo[c] : ckTodo' = [ckTodo EXCEPT ![c] = @ \ {d}]
                 /\ UNCHANGED ckResult
        <4>1. ckTodo'[c] \subseteq ckTodo[c] /\ ckResult'[c] = ckResult[c]
          BY <3>3 DEF TypeOK
        <4> QED
          BY <2>0, <3>1, <4>1
      <3> QED
        BY <2>0, <2>3, <3>2, <3>3 DEF CkVerify, Verifies
    <2>4. CASE CkFails(c)
      <3>1. /\ ckFp' = ckFp /\ ckKnown' = ckKnown
            /\ ckTodo'[c] = {} /\ ckResult'[c] = "failed"
        BY <2>4 DEF CkFails, CkReturn, TypeOK
      <3> QED
        BY <2>0, <3>1
    <2> QED
      BY <2>1, <2>2, <2>3, <2>4 DEF CkStep
  <1>6. CheckInv'
    BY <1>1, <1>4, <1>5 DEF IInv, CheckInv, fsVars
  <1> QED
    BY <1>2, <1>3, <1>6 DEF IInv

LEMMA InvNext == TypeOK /\ TypeOK' /\ IInv /\ [Next]_vars => IInv'
  <1> SUFFICES ASSUME TypeOK, TypeOK', IInv, [Next]_vars PROVE IInv'
    OBVIOUS
  <1>1. CASE UNCHANGED vars
    <2>1. UNCHANGED <<fsVars, addVars, ckVars, acked>>
      BY <1>1 DEF vars
    <2>2. DiskInv' /\ CheckInv'
      BY <2>1 DEF IInv, DiskInv, CheckInv, fsVars, ckVars, OnePerId
    <2>3. ASSUME NEW q \in Adders PROVE OnePerId(seen[q])'
      BY <2>1 DEF IInv, AddInv, OnePerId, addVars
    <2>4. AddInv'
      BY <2>1, <2>3 DEF IInv, AddInv, Stored, Inserting, Fp, addVars, fsVars
    <2> QED
      BY <2>2, <2>4 DEF IInv
  <1>2. CASE AddNext
    BY <1>2, BeginInv, AddStepInv, AddStopsInv DEF AddNext
  <1>3. CASE CheckNext
    BY <1>3, CheckStepInv DEF CheckNext
  <1> QED
    BY <1>1, <1>2, <1>3 DEF Next

\* The inductive invariant holds in every interleaving of adds and checks,
\* with I/O errors and kills anywhere.
THEOREM Safety == Spec => []IInv
  <1>1. Init => IInv
    BY InvInit
  <1>2. TypeOK /\ TypeOK' /\ IInv /\ [Next]_vars => IInv'
    BY InvNext
  <1> QED
    BY <1>1, <1>2, TypeCorrect, PTL DEF Spec

\* Add's "occurrence first, index second" order: an entry, on disk or in the
\* memory of an add that will write it back, always has its bytes.
THEOREM EntriesHaveBytes == Spec => []NoDanglingEntry
  <1>1. IInv => NoDanglingEntry
    BY DEF IInv, DiskInv, AddInv, NoDanglingEntry
  <1> QED
    BY <1>1, Safety, PTL

\* No index.json holds two entries with one incident.id, so no reader refuses
\* an index that the tool wrote.
THEOREM IdsAreUnique == Spec => []UniqueIncidentIds
  <1>1. IInv => UniqueIncidentIds
    BY DEF IInv, DiskInv, OnePerId, UniqueIncidentIds
  <1> QED
    BY <1>1, Safety, PTL

\* What an add reported as stored stays on disk, whatever races with it.
THEOREM AckedBytesStay == Spec => []AckedOccurrenceKept
  <1>1. IInv => AckedOccurrenceKept
    BY DEF IInv, DiskInv, AckedOccurrenceKept
  <1> QED
    BY <1>1, Safety, PTL

\* A check never answers "no match" for a fingerprint some add had reported
\* as stored before the check began.
THEOREM KnownStaysKnown == Spec => []KnownIsNeverNoMatch
  <1>1. IInv => KnownIsNeverNoMatch
    BY DEF IInv, CheckInv, KnownIsNeverNoMatch
  <1> QED
    BY <1>1, Safety, PTL

\* Corruption is reported only when a second actor touched the library.
THEOREM CorruptionIsReal == Spec => []NoSpuriousCorruption
  <1>1. IInv => NoSpuriousCorruption
    BY DEF IInv, AddInv, CheckInv, NoSpuriousCorruption
  <1> QED
    BY <1>1, Safety, PTL

-----------------------------------------------------------------------------
(* Next to a second actor                                                  *)

AnyStep == Next \/ Tamper

\* An add that works on d was let through the gate, and so was what is stored.
PrivacyInv ==
    /\ PrivacyHeld
    /\ \A p \in Adders : pc[p] # "idle" => doc[p] \in Redacted \cup consented

PastCaps == {"ensure", "mkdir", "renameOcc", "writeIndex", "renameIndex"}

\* An add that is past the caps leaves room for the entry it publishes.
CapInv ==
    /\ \A f \in Fps : IsFiniteSet(idx[f]) /\ Cardinality(idx[f]) <= MaxOccurrences
    /\ \A p \in Adders :
        /\ IsFiniteSet(seen[p])
        /\ pc[p] \in PastCaps => Cardinality(seen[p]) < MaxOccurrences

\* No add is about to write where damaged bytes are, and a check has seen
\* none of the occurrences that are damaged since it began verify.
RottenInv ==
    /\ \A p \in Adders : pc[p] \in {"mkdir", "renameOcc"} => occ[doc[p]] # "corrupt"
    /\ \A c \in Checkers :
        /\ \A d \in ckRotten[c] : occ[d] = "corrupt"
        /\ (ckSeen[c] \ ckTodo[c]) \cap ckRotten[c] = {}

-----------------------------------------------------------------------------
(* Types, and what each kind of step leaves alone                          *)

LEMMA TypeTamper == TypeOK /\ Tamper => TypeOK'
  BY ConstantsAssumption DEF TypeOK, Tamper, TamperOccurrence, TamperIndex, addVars,
     ckVars, OccState

LEMMA TypeAnyStep == TypeOK /\ [AnyStep]_vars => TypeOK'
  BY TypeNext, TypeTamper DEF AnyStep

\* Only the two renames of an add change what is stored and indexed.
LEMMA AddStepFrame ==
  ASSUME TypeOK, NEW p \in Adders, AddStep(p)
  PROVE  /\ UNCHANGED <<consented, ckVars>>
         /\ pc[p] # "idle"
         /\ pc'[p] = "idle" \/ doc'[p] = doc[p]
         /\ \A q \in Adders \ {p} : /\ pc'[q] = pc[q] /\ doc'[q] = doc[q]
                                    /\ seen'[q] = seen[q]
         /\ \/ UNCHANGED occ
            \/ pc[p] = "renameOcc" /\ occ' = [occ EXCEPT ![doc[p]] = "intact"]
         /\ \/ UNCHANGED idx
            \/ pc[p] = "renameIndex" /\ idx' = [idx EXCEPT ![Fp(p)] = Published(p)]
  <1>1. CASE StatDir(p)
    BY <1>1 DEF StatDir, Goto, TypeOK, fsVars, ckVars
  <1>2. CASE ReadIndex(p)
    BY <1>2 DEF ReadIndex, AfterCaps, Goto, Return, TypeOK, fsVars, ckVars
  <1>3. CASE VerifyExisting(p)
    BY <1>3 DEF VerifyExisting, Return, TypeOK, fsVars, ckVars
  <1>4. CASE CountEntries(p)
    BY <1>4 DEF CountEntries, AfterCaps, Goto, Return, TypeOK, fsVars, ckVars
  <1>5. CASE Ensure(p)
    BY <1>5 DEF Ensure, Goto, Return, TypeOK, fsVars, ckVars
  <1>6. CASE MkdirAndWriteTemp(p) \/ WriteIndexTemp(p)
    BY <1>6 DEF MkdirAndWriteTemp, WriteIndexTemp, Goto, TypeOK
  <1>7. CASE RenameOcc(p)
    BY <1>7 DEF RenameOcc, Goto, TypeOK
  <1>8. CASE RenameIndex(p)
    BY <1>8 DEF RenameIndex, Goto, TypeOK
  <1>9. CASE Report(p)
    BY <1>9 DEF Report, Return, TypeOK, fsVars, ckVars
  <1> QED
    BY <1>1, <1>2, <1>3, <1>4, <1>5, <1>6, <1>7, <1>8, <1>9 DEF AddStep

LEMMA AddStopsFrame ==
  ASSUME TypeOK, NEW p \in Adders, AddFails(p) \/ AddKilled(p)
  PROVE  /\ UNCHANGED <<occ, idx, consented, ckVars>>
         /\ pc'[p] = "idle" /\ seen'[p] = {}
         /\ \A q \in Adders \ {p} : /\ pc'[q] = pc[q] /\ doc'[q] = doc[q]
                                    /\ seen'[q] = seen[q]
  BY DEF AddFails, AddKilled, Return, TypeOK

LEMMA BeginFrame ==
  ASSUME TypeOK, NEW p \in Adders, NEW d \in Docs, NEW a \in BOOLEAN, Begin(p, d, a)
  PROVE  /\ UNCHANGED <<occ, idx, ckVars>>
         /\ consented \subseteq consented'
         /\ \/ pc'[p] = "idle"
            \/ pc'[p] = "statDir" /\ doc'[p] = d /\ d \in Redacted \cup consented'
         /\ seen'[p] \in {seen[p], {}}
         /\ \A q \in Adders \ {p} : /\ pc'[q] = pc[q] /\ doc'[q] = doc[q]
                                    /\ seen'[q] = seen[q]
  BY DEF Begin, PrivacyGate, Goto, Return, TypeOK, fsVars

LEMMA CheckFrame ==
  ASSUME CheckNext
  PROVE  UNCHANGED <<occ, idx, pc, doc, seen, consented>>
  BY DEF CheckNext, CkBegin, CkStep, CkReadIndex, CkVerify, CkFails, fsVars, addVars

LEMMA TamperFrame ==
  ASSUME Tamper
  PROVE  /\ UNCHANGED <<idx, pc, doc, seen, consented, ckSeen, ckTodo>>
         /\ \A q \in Adders : pc[q] = "idle"
  BY DEF Tamper, TamperOccurrence, TamperIndex, AddersIdle, addVars, ckVars

-----------------------------------------------------------------------------
(* The privacy gate                                                        *)

LEMMA PrivacyNext == TypeOK /\ PrivacyInv /\ [AnyStep]_vars => PrivacyInv'
  <1> SUFFICES ASSUME TypeOK, PrivacyInv, [AnyStep]_vars PROVE PrivacyInv'
    OBVIOUS
  <1>1. ASSUME NEW p \in Adders, NEW d \in Docs, NEW a \in BOOLEAN, Begin(p, d, a)
        PROVE  PrivacyInv'
    BY <1>1, BeginFrame DEF PrivacyInv, PrivacyHeld
  <1>2. ASSUME NEW p \in Adders, AddStep(p) PROVE PrivacyInv'
    <2>1. /\ UNCHANGED consented
          /\ doc[p] \in Redacted \cup consented
          /\ UNCHANGED occ \/ occ' = [occ EXCEPT ![doc[p]] = "intact"]
      BY <1>2, AddStepFrame DEF PrivacyInv
    <2>2. PrivacyHeld'
      BY <2>1 DEF PrivacyInv, PrivacyHeld, TypeOK
    <2> QED
      BY <1>2, <2>1, <2>2, AddStepFrame DEF PrivacyInv
  <1>3. ASSUME NEW p \in Adders, AddFails(p) \/ AddKilled(p) PROVE PrivacyInv'
    BY <1>3, AddStopsFrame DEF PrivacyInv, PrivacyHeld
  <1>4. CASE CheckNext
    BY <1>4, CheckFrame DEF PrivacyInv, PrivacyHeld
  <1>5. CASE Tamper
    <2>1. \A d \in Docs : occ'[d] # "absent" => occ[d] # "absent"
      BY <1>5 DEF Tamper, TamperOccurrence, TamperIndex, TypeOK
    <2> QED
      BY <1>5, <2>1, TamperFrame DEF PrivacyInv, PrivacyHeld
  <1>6. CASE UNCHANGED vars
    BY <1>6 DEF PrivacyInv, PrivacyHeld, vars, fsVars, addVars
  <1> QED
    BY <1>1, <1>2, <1>3, <1>4, <1>5, <1>6 DEF AnyStep, Next, AddNext

-----------------------------------------------------------------------------
(* The occurrence cap                                                      *)

LEMMA AfterCapsRoom ==
  ASSUME TypeOK, CapInv, NEW p \in Adders, NEW S \in SUBSET Docs, IsFiniteSet(S),
         AfterCaps(p, S)
  PROVE  /\ IsFiniteSet(seen'[p])
         /\ pc'[p] \in PastCaps => Cardinality(seen'[p]) < MaxOccurrences
  <1>1. Cardinality(S) \in Nat
    BY FS_CardinalityType
  <1>2. CASE Cardinality(S) >= MaxOccurrences
    <2>1. pc'[p] = "idle" /\ seen'[p] = {}
      BY <1>2 DEF AfterCaps, Return, TypeOK
    <2> QED
      BY <2>1, FS_EmptySet DEF PastCaps
  <1>3. CASE ~(Cardinality(S) >= MaxOccurrences)
    <2>1. seen'[p] = S
      BY <1>3 DEF AfterCaps, TypeOK
    <2> QED
      BY <1>1, <1>3, <2>1, ConstantsAssumption
  <1> QED
    BY <1>2, <1>3

\* What the add that moves knows after its step.
LEMMA AddStepRoom ==
  ASSUME TypeOK, CapInv, NEW p \in Adders, AddStep(p)
  PROVE  /\ IsFiniteSet(seen'[p])
         /\ pc'[p] \in PastCaps => Cardinality(seen'[p]) < MaxOccurrences
  <1>. /\ Fp(p) \in Fps /\ idx[Fp(p)] \in SUBSET Docs /\ seen[p] \in SUBSET Docs
       /\ IsFiniteSet(idx[Fp(p)]) /\ IsFiniteSet(seen[p]) /\ IsFiniteSet({})
    BY ConstantsAssumption, FS_EmptySet DEF Fp, TypeOK, CapInv
  <1>1. CASE StatDir(p)
    BY <1>1 DEF StatDir, Goto, TypeOK, PastCaps
  <1>2. CASE ReadIndex(p)
    <2>1. CASE AfterCaps(p, idx[Fp(p)])
      BY <2>1, AfterCapsRoom
    <2>2. CASE Return(p, "malformed")
      BY <2>2 DEF Return, PastCaps, TypeOK
    <2>3. CASE /\ seen' = [seen EXCEPT ![p] = idx[Fp(p)]]
               /\ Goto(p, "verifyExisting") \/ Goto(p, "countEntries")
      BY <2>3 DEF Goto, PastCaps, TypeOK
    <2> QED
      BY <1>2, <2>1, <2>2, <2>3 DEF ReadIndex
  <1>3. CASE VerifyExisting(p)
    BY <1>3 DEF VerifyExisting, Return, TypeOK, PastCaps
  <1>4. CASE CountEntries(p)
    <2>1. CASE AfterCaps(p, seen[p])
      BY <2>1, AfterCapsRoom
    <2>2. CASE Return(p, "tooManyEntries")
      BY <2>2 DEF Return, PastCaps, TypeOK
    <2> QED
      BY <1>4, <2>1, <2>2 DEF CountEntries
  <1>5. CASE Ensure(p)
    <2>1. CASE Return(p, "corrupted")
      BY <2>1 DEF Return, PastCaps, TypeOK
    <2>2. CASE UNCHANGED seen
      BY <1>5, <2>2 DEF Ensure, CapInv, PastCaps
    <2> QED
      BY <1>5, <2>1, <2>2 DEF Ensure
  <1>6. CASE MkdirAndWriteTemp(p) \/ WriteIndexTemp(p) \/ RenameOcc(p)
    BY <1>6 DEF MkdirAndWriteTemp, WriteIndexTemp, RenameOcc, CapInv, PastCaps
  <1>7. CASE RenameIndex(p)
    BY <1>7 DEF RenameIndex, Goto, TypeOK, PastCaps
  <1>8. CASE Report(p)
    BY <1>8 DEF Report, Return, TypeOK, PastCaps
  <1> QED
    BY <1>1, <1>2, <1>3, <1>4, <1>5, <1>6, <1>7, <1>8 DEF AddStep

LEMMA PublishedFits ==
  ASSUME TypeOK, CapInv, NEW p \in Adders, pc[p] = "renameIndex"
  PROVE  IsFiniteSet(Published(p)) /\ Cardinality(Published(p)) <= MaxOccurrences
  <1>1. /\ IsFiniteSet(seen[p]) /\ Cardinality(seen[p]) < MaxOccurrences
        /\ Cardinality(seen[p]) \in Nat
    BY FS_CardinalityType DEF CapInv, PastCaps
  <1>2. /\ IsFiniteSet(seen[p] \cup {doc[p]})
        /\ \/ Cardinality(seen[p] \cup {doc[p]}) = Cardinality(seen[p])
           \/ Cardinality(seen[p] \cup {doc[p]}) = Cardinality(seen[p]) + 1
    BY <1>1, FS_AddElement
  <1> QED
    BY <1>1, <1>2, ConstantsAssumption DEF Published

LEMMA CapNext == TypeOK /\ CapInv /\ [AnyStep]_vars => CapInv'
  <1> SUFFICES ASSUME TypeOK, CapInv, [AnyStep]_vars PROVE CapInv'
    OBVIOUS
  <1>1. ASSUME NEW p \in Adders, NEW d \in Docs, NEW a \in BOOLEAN, Begin(p, d, a)
        PROVE  CapInv'
    <2>1. pc'[p] \in {"idle", "statDir"} /\ seen'[p] \in {seen[p], {}}
      BY <1>1, BeginFrame
    <2>2. pc'[p] \notin PastCaps /\ IsFiniteSet(seen'[p])
      BY <2>1, FS_EmptySet DEF PastCaps, CapInv
    <2> QED
      BY <1>1, <2>2, BeginFrame DEF CapInv
  <1>2. ASSUME NEW p \in Adders, AddStep(p) PROVE CapInv'
    <2>1. \A f \in Fps : IsFiniteSet(idx'[f]) /\ Cardinality(idx'[f]) <= MaxOccurrences
      BY <1>2, AddStepFrame, PublishedFits DEF CapInv, TypeOK
    <2> QED
      BY <1>2, <2>1, AddStepFrame, AddStepRoom DEF CapInv
  <1>3. ASSUME NEW p \in Adders, AddFails(p) \/ AddKilled(p) PROVE CapInv'
    <2>1. pc'[p] \notin PastCaps /\ IsFiniteSet(seen'[p])
      BY <1>3, AddStopsFrame, FS_EmptySet DEF PastCaps
    <2> QED
      BY <1>3, <2>1, AddStopsFrame DEF CapInv
  <1>4. CASE CheckNext
    BY <1>4, CheckFrame DEF CapInv
  <1>5. CASE Tamper
    BY <1>5, TamperFrame DEF CapInv
  <1>6. CASE UNCHANGED vars
    BY <1>6 DEF CapInv, vars, fsVars, addVars
  <1> QED
    BY <1>1, <1>2, <1>3, <1>4, <1>5, <1>6 DEF AnyStep, Next, AddNext

-----------------------------------------------------------------------------
(* Damaged occurrences                                                     *)

\* An add goes on to write only where Ensure found nothing.
LEMMA AddStepAvoidsRot ==
  ASSUME TypeOK, RottenInv, NEW p \in Adders, AddStep(p)
  PROVE  /\ pc'[p] \in {"mkdir", "renameOcc"} => occ'[doc'[p]] # "corrupt"
         /\ \A d \in Docs : occ[d] = "corrupt" => occ'[d] = "corrupt"
         /\ \A d \in Docs : occ[d] # "corrupt" => occ'[d] # "corrupt"
  <1>1. CASE Ensure(p)
    BY <1>1 DEF Ensure, Goto, Return, TypeOK, fsVars
  <1>2. CASE MkdirAndWriteTemp(p)
    BY <1>2 DEF MkdirAndWriteTemp, RottenInv
  <1>3. CASE RenameOcc(p)
    BY <1>3 DEF RenameOcc, Goto, RottenInv, TypeOK
  <1>4. CASE WriteIndexTemp(p) \/ RenameIndex(p) \/ StatDir(p)
    BY <1>4 DEF WriteIndexTemp, RenameIndex, StatDir, Goto, TypeOK, fsVars
  <1>5. CASE ReadIndex(p) \/ CountEntries(p)
    BY <1>5 DEF ReadIndex, CountEntries, AfterCaps, Goto, Return, TypeOK, fsVars
  <1>6. CASE VerifyExisting(p) \/ Report(p)
    BY <1>6 DEF VerifyExisting, Report, Return, TypeOK, fsVars
  <1> QED
    BY <1>1, <1>2, <1>3, <1>4, <1>5, <1>6 DEF AddStep

LEMMA CheckAvoidsRot ==
  ASSUME TypeOK, RottenInv, NEW c \in Checkers,
         (\E f \in Fps : CkBegin(c, f)) \/ CkStep(c) \/ CkFails(c)
  PROVE  /\ \A d \in ckRotten'[c] : occ[d] = "corrupt"
         /\ (ckSeen'[c] \ ckTodo'[c]) \cap ckRotten'[c] = {}
         /\ \A b \in Checkers \ {c} : /\ ckRotten'[b] = ckRotten[b]
                                       /\ ckSeen'[b] = ckSeen[b]
                                       /\ ckTodo'[b] = ckTodo[b]
  <1>0. /\ \A d \in ckRotten[c] : occ[d] = "corrupt"
        /\ (ckSeen[c] \ ckTodo[c]) \cap ckRotten[c] = {}
    BY DEF RottenInv
  <1>1. CASE \E f \in Fps : CkBegin(c, f)
    BY <1>1 DEF CkBegin, TypeOK
  <1>2. CASE CkReadIndex(c)
    BY <1>0, <1>2 DEF CkReadIndex, CkReturn, CkGoto,
         TypeOK
  <1>3. CASE CkVerify(c)
    <2>1. CASE ckTodo[c] = {} /\ CkReturn(c, "match")
      BY <1>0, <1>3, <2>1 DEF CkVerify, CkReturn, TypeOK
    <2>2. CASE CkReturn(c, "corrupted")
      BY <1>0, <1>3, <2>2 DEF CkVerify, CkReturn, TypeOK
    <2>3. ASSUME NEW d \in ckTodo[c], Verifies(d), UNCHANGED ckSeen,
                 ckTodo' = [ckTodo EXCEPT ![c] = @ \ {d}]
          PROVE  /\ (ckSeen'[c] \ ckTodo'[c]) \cap ckRotten[c] = {}
                 /\ \A b \in Checkers \ {c} : ckTodo'[b] = ckTodo[b]
      BY <1>0, <2>3 DEF Verifies, TypeOK
    <2> QED
      BY <1>0, <1>3, <2>1, <2>2, <2>3 DEF CkVerify
  <1>4. CASE CkFails(c)
    BY <1>0, <1>4 DEF CkFails, CkReturn, TypeOK
  <1> QED
    BY <1>1, <1>2, <1>3, <1>4 DEF CkStep

LEMMA RottenNext == TypeOK /\ RottenInv /\ [AnyStep]_vars => RottenInv'
  <1> SUFFICES ASSUME TypeOK, RottenInv, [AnyStep]_vars PROVE RottenInv'
    OBVIOUS
  <1>1. ASSUME NEW p \in Adders, NEW d \in Docs, NEW a \in BOOLEAN, Begin(p, d, a)
        PROVE  RottenInv'
    BY <1>1, BeginFrame DEF RottenInv, ckVars
  <1>2. ASSUME NEW p \in Adders, AddStep(p) PROVE RottenInv'
    <2>1. \A q \in Adders : doc[q] \in Docs
      BY DEF TypeOK
    <2>2. \A q \in Adders : pc'[q] \in {"mkdir", "renameOcc"} => occ'[doc'[q]] # "corrupt"
      BY <1>2, <2>1, AddStepFrame, AddStepAvoidsRot DEF RottenInv
    <2>3. UNCHANGED <<ckRotten, ckSeen, ckTodo>>
      BY <1>2, AddStepFrame DEF ckVars
    <2>4. \A c \in Checkers : \A d \in ckRotten'[c] : occ'[d] = "corrupt"
      BY <1>2, <2>3, AddStepAvoidsRot DEF RottenInv, TypeOK
    <2> QED
      BY <2>2, <2>3, <2>4 DEF RottenInv
  <1>3. ASSUME NEW p \in Adders, AddFails(p) \/ AddKilled(p) PROVE RottenInv'
    BY <1>3, AddStopsFrame DEF RottenInv, ckVars
  <1>4. CASE CheckNext
    BY <1>4, CheckFrame, CheckAvoidsRot DEF CheckNext, RottenInv
  <1>5. CASE Tamper
    <2>1. \A c \in Checkers : \A d \in ckRotten'[c] : d \in ckRotten[c] /\ occ'[d] = "corrupt"
      BY <1>5 DEF Tamper, TamperOccurrence, TamperIndex, ckVars, RottenInv, TypeOK
    <2> QED
      BY <1>5, <2>1, TamperFrame DEF RottenInv
  <1>6. CASE UNCHANGED vars
    BY <1>6 DEF RottenInv, vars, fsVars, addVars, ckVars
  <1> QED
    BY <1>1, <1>2, <1>3, <1>4, <1>5, <1>6 DEF AnyStep, Next, AddNext

LEMMA NothingRepairsRot ==
  TypeOK /\ RottenInv /\ [AnyStep]_vars =>
      \A d \in Docs : occ[d] = "corrupt" => occ'[d] # "intact"
  <1> SUFFICES ASSUME TypeOK, RottenInv, [AnyStep]_vars, NEW d \in Docs, occ[d] = "corrupt"
               PROVE  occ'[d] # "intact"
    OBVIOUS
  <1>1. CASE AddNext
    BY <1>1, BeginFrame, AddStepAvoidsRot, AddStopsFrame DEF AddNext
  <1>2. CASE CheckNext
    BY <1>2, CheckFrame
  <1>3. CASE Tamper
    BY <1>3 DEF Tamper, TamperOccurrence, TamperIndex, TypeOK
  <1>4. CASE UNCHANGED vars
    BY <1>4 DEF vars, fsVars
  <1> QED
    BY <1>1, <1>2, <1>3, <1>4 DEF AnyStep, Next

-----------------------------------------------------------------------------
(* A match is reported with nothing left to verify                         *)

MatchInv ==
    \A c \in Checkers : ckResult[c] = "match" => ckPc[c] = "idle" /\ ckTodo[c] = {}

LEMMA MatchNext == TypeOK /\ MatchInv /\ [AnyStep]_vars => MatchInv'
  <1> SUFFICES ASSUME TypeOK, MatchInv, [AnyStep]_vars PROVE MatchInv'
    OBVIOUS
  <1>1. CASE UNCHANGED <<ckPc, ckTodo, ckResult>>
    BY <1>1 DEF MatchInv
  <1>2. CASE CheckNext
    <2>1. PICK c \in Checkers : (\E f \in Fps : CkBegin(c, f)) \/ CkStep(c) \/ CkFails(c)
      BY <1>2 DEF CheckNext
    <2>2. \A b \in Checkers \ {c} : /\ ckResult'[b] = ckResult[b] /\ ckTodo'[b] = ckTodo[b]
                                   /\ ckPc'[b] = ckPc[b]
      BY <2>1 DEF CkBegin, CkStep, CkReadIndex, CkVerify, CkFails, CkReturn, CkGoto,
         TypeOK
    <2>3. ckResult'[c] = "match" => ckPc'[c] = "idle" /\ ckTodo'[c] = {}
      <3>1. CASE \E f \in Fps : CkBegin(c, f)
        BY <3>1 DEF CkBegin, TypeOK
      <3>2. CASE \E r \in CkResult : CkReturn(c, r)
        BY <3>2 DEF CkReturn, TypeOK
      <3>3. CASE UNCHANGED ckResult /\ ckPc[c] # "idle"
        BY <3>3 DEF MatchInv
      <3> QED
        BY <2>1, <3>1, <3>2, <3>3 DEF CkStep, CkReadIndex, CkVerify, CkFails, CkResult
    <2> QED
      BY <2>2, <2>3 DEF MatchInv
  <1>3. AddNext \/ Tamper \/ UNCHANGED vars => UNCHANGED <<ckPc, ckTodo, ckResult>>
    <2>1. ASSUME NEW p \in Adders, AddStep(p) PROVE UNCHANGED <<ckPc, ckTodo, ckResult>>
      BY <2>1, AddStepFrame DEF ckVars
    <2>2. ASSUME NEW p \in Adders, AddFails(p) \/ AddKilled(p)
          PROVE  UNCHANGED <<ckPc, ckTodo, ckResult>>
      BY <2>2, AddStopsFrame DEF ckVars
    <2>3. Tamper \/ UNCHANGED vars => UNCHANGED <<ckPc, ckTodo, ckResult>>
      BY DEF Tamper, TamperOccurrence, TamperIndex, ckVars, vars
    <2> QED
      BY <2>1, <2>2, <2>3 DEF AddNext, Begin, ckVars
  <1> QED
    BY <1>1, <1>2, <1>3 DEF AnyStep, Next

-----------------------------------------------------------------------------
(* The theorems                                                            *)

LEMMA TamperInvInit == Init => PrivacyInv /\ CapInv /\ RottenInv /\ MatchInv
  BY ConstantsAssumption, FS_EmptySet DEF Init, PrivacyInv, PrivacyHeld, CapInv, PastCaps,
     RottenInv, MatchInv

\* The invariants hold whoever touches the library.
LEMMA TamperSafety ==
  Init /\ [][AnyStep]_vars => [](TypeOK /\ PrivacyInv /\ CapInv /\ RottenInv /\ MatchInv)
  <1>1. TypeOK /\ PrivacyInv /\ CapInv /\ RottenInv /\ MatchInv /\ [AnyStep]_vars
            => TypeOK' /\ PrivacyInv' /\ CapInv' /\ RottenInv' /\ MatchInv'
    BY TypeAnyStep, PrivacyNext, CapNext, RottenNext, MatchNext
  <1> QED
    BY <1>1, TypeInit, TamperInvInit, PTL

LEMMA SpecIsAnyStep == Spec => Init /\ [][AnyStep]_vars
  <1>1. [Next]_vars => [AnyStep]_vars
    BY DEF AnyStep
  <1> QED
    BY <1>1, PTL DEF Spec

LEMMA TamperSpecIsAnyStep == TamperSpec => Init /\ [][AnyStep]_vars
  <1>1. [(Next /\ Exclusive') \/ Tamper]_vars => [AnyStep]_vars
    BY DEF AnyStep
  <1> QED
    BY <1>1, PTL DEF TamperSpec

\* checkPrivacyGate runs before anything reaches the disk: no interleaving,
\* error or kill leaves unredacted bytes without --allow-unredacted.
THEOREM PrivacyIsHeld == Spec \/ TamperSpec => []PrivacyHeld
  <1>1. PrivacyInv => PrivacyHeld
    BY DEF PrivacyInv
  <1> QED
    BY <1>1, SpecIsAnyStep, TamperSpecIsAnyStep, TamperSafety, PTL

\* MaxOccurrencesPerFingerprint bounds every index.json, although the cap is
\* compared with entries read long before the write.
THEOREM CapIsHeld == Spec \/ TamperSpec => []IndexWithinCap
  <1>1. CapInv => IndexWithinCap
    BY DEF CapInv, IndexWithinCap
  <1> QED
    BY <1>1, SpecIsAnyStep, TamperSpecIsAnyStep, TamperSafety, PTL

\* Add refuses a damaged file at the digest's path, it never writes over it.
THEOREM CorruptionIsKept == TamperSpec => CorruptIsNeverReplaced
  <1>1. TypeOK /\ RottenInv /\ [AnyStep]_vars =>
            [\A d \in Docs : occ[d] = "corrupt" => occ'[d] # "intact"]_vars
    BY NothingRepairsRot
  <1> QED
    BY <1>1, TamperSpecIsAnyStep, TamperSafety, PTL DEF CorruptIsNeverReplaced

\* checkFingerprint verifies every entry before it reports a match.
THEOREM MatchesAreVerified == TamperSpec => []CorruptNeverMatched
  <1>1. RottenInv /\ MatchInv => CorruptNeverMatched
    BY DEF RottenInv, MatchInv, CorruptNeverMatched
  <1> QED
    BY <1>1, TamperSpecIsAnyStep, TamperSafety, PTL

-----------------------------------------------------------------------------
(* With one add at a time per fingerprint the files of the library        *)
(* implement IncidentMemory, also next to that second actor.              *)

Serial == (Next /\ Exclusive') \/ Tamper

\* What an add has read is what the index still holds.
SerialInv ==
    /\ Exclusive
    /\ \A p \in Adders :
        /\ Inserting(p) \/ pc[p] = "verifyExisting" => seen[p] = idx[Fp(p)]
        /\ Inserting(p) => \A d \in seen[p] : IdOf[d] # IdOf[doc[p]]
        /\ pc[p] = "report" => doc[p] \in idx[Fp(p)]

-----------------------------------------------------------------------------
(* The invariant                                                           *)

\* Of the add that moves: what it carries into its next step.
LEMMA MoverSerial ==
  ASSUME TypeOK, SerialInv, NEW p \in Adders, AddStep(p)
  PROVE  /\ Inserting(p)' \/ pc'[p] = "verifyExisting" => seen'[p] = idx'[Fp(p)']
         /\ Inserting(p)' => \A d \in seen'[p] : IdOf[d] # IdOf[doc'[p]]
         /\ pc'[p] = "report" => doc'[p] \in idx'[Fp(p)']
  <1>. Fp(p) \in Fps /\ doc[p] \in Docs
    BY ConstantsAssumption DEF Fp, TypeOK
  <1>0. /\ Inserting(p) \/ pc[p] = "verifyExisting" => seen[p] = idx[Fp(p)]
        /\ Inserting(p) => \A d \in seen[p] : IdOf[d] # IdOf[doc[p]]
    BY DEF SerialInv
  <1>1. CASE pc'[p] = "idle"
    BY <1>1 DEF Inserting
  <1>2. CASE StatDir(p)
    BY <1>2 DEF StatDir, Goto, Inserting, TypeOK
  <1>3. CASE ReadIndex(p) /\ pc'[p] # "idle"
    <2>1. UNCHANGED <<idx, doc>> /\ seen'[p] = idx[Fp(p)] /\ pc'[p] # "report"
      BY <1>3 DEF ReadIndex, AfterCaps, Return, Goto, TypeOK, fsVars
    <2>2. \/ pc'[p] = "verifyExisting"
          \/ WithSameId(idx[Fp(p)], doc[p]) = {}
      BY <1>3 DEF ReadIndex, Return, Goto, TypeOK
    <2> QED
      BY <2>1, <2>2 DEF WithSameId, Fp, Inserting
  <1>4. CASE VerifyExisting(p)
    BY <1>1, <1>4 DEF VerifyExisting, Return, TypeOK
  <1>5. CASE CountEntries(p) /\ pc'[p] # "idle"
    <2>1. UNCHANGED <<idx, doc>> /\ seen'[p] = seen[p] /\ pc'[p] # "report" /\ Inserting(p)
      BY <1>5 DEF CountEntries, AfterCaps, Return, Goto, TypeOK, fsVars, Inserting
    <2> QED
      BY <1>0, <2>1 DEF Fp
  <1>6. CASE (Ensure(p) /\ pc'[p] # "idle") \/ MkdirAndWriteTemp(p) \/ RenameOcc(p)
                \/ WriteIndexTemp(p)
    <2>1. UNCHANGED <<idx, doc>> /\ seen'[p] = seen[p] /\ pc'[p] # "report" /\ Inserting(p)
      BY <1>6 DEF Ensure, MkdirAndWriteTemp, RenameOcc, WriteIndexTemp, Return, Goto,
         TypeOK, fsVars, Inserting
    <2> QED
      BY <1>0, <2>1 DEF Fp
  <1>7. CASE RenameIndex(p)
    <2>1. pc'[p] = "report" /\ doc' = doc /\ idx'[Fp(p)] = Published(p)
      BY <1>7 DEF RenameIndex, Goto, TypeOK
    <2> QED
      BY <2>1 DEF Published, Fp, Inserting
  <1>8. CASE Report(p)
    BY <1>1, <1>8 DEF Report, Return, TypeOK
  <1> QED
    BY <1>1, <1>2, <1>3, <1>4, <1>5, <1>6, <1>7, <1>8 DEF AddStep

LEMMA SerialNext == TypeOK /\ SerialInv /\ [Serial]_vars => SerialInv'
  <1> SUFFICES ASSUME TypeOK, SerialInv, [Serial]_vars PROVE SerialInv'
    OBVIOUS
  <1>1. CASE UNCHANGED vars
    BY <1>1 DEF SerialInv, Exclusive, Inserting, Fp, vars, fsVars, addVars
  <1>2. CASE Tamper
    BY <1>2, TamperFrame DEF SerialInv, Exclusive, Inserting, Fp
  <1>3. CASE CheckNext
    BY <1>3, CheckFrame DEF SerialInv, Exclusive, Inserting, Fp
  <1>4. ASSUME NEW p \in Adders, NEW d \in Docs, NEW a \in BOOLEAN, Begin(p, d, a),
               Exclusive'
        PROVE  SerialInv'
    <2>1. ~Inserting(p)' /\ pc'[p] \notin {"verifyExisting", "report"}
      BY <1>4, BeginFrame DEF Inserting
    <2> QED
      BY <1>4, <2>1, BeginFrame DEF SerialInv, Inserting, Fp
  <1>5. ASSUME NEW p \in Adders, AddFails(p) \/ AddKilled(p), Exclusive'
        PROVE  SerialInv'
    <2>1. ~Inserting(p)' /\ pc'[p] \notin {"verifyExisting", "report"}
      BY <1>5, AddStopsFrame DEF Inserting
    <2> QED
      BY <1>5, <2>1, AddStopsFrame DEF SerialInv, Inserting, Fp
  <1>6. ASSUME NEW p \in Adders, AddStep(p), Exclusive' PROVE SerialInv'
    <2>1. ASSUME NEW q \in Adders \ {p}, pc[q] # "idle" PROVE idx'[Fp(q)] = idx[Fp(q)]
      <3>1. Fp(q) # Fp(p)
        BY <1>6, <2>1, AddStepFrame DEF SerialInv, Exclusive
      <3>2. \/ UNCHANGED idx
            \/ idx' = [idx EXCEPT ![Fp(p)] = Published(p)]
        BY <1>6, AddStepFrame
      <3>3. Fp(q) \in Fps
        BY ConstantsAssumption DEF Fp, TypeOK
      <3> QED
        BY <3>1, <3>2, <3>3 DEF TypeOK
    <2>2. ASSUME NEW q \in Adders \ {p}
          PROVE  /\ Inserting(q)' \/ pc'[q] = "verifyExisting" => seen'[q] = idx'[Fp(q)']
                 /\ Inserting(q)' => \A d \in seen'[q] : IdOf[d] # IdOf[doc'[q]]
                 /\ pc'[q] = "report" => doc'[q] \in idx'[Fp(q)']
      BY <1>6, <2>1, AddStepFrame DEF SerialInv, Inserting, Fp
    <2> QED
      BY <1>6, <2>2, MoverSerial DEF SerialInv
  <1> QED
    BY <1>1, <1>2, <1>3, <1>4, <1>5, <1>6 DEF Serial, Next, AddNext

-----------------------------------------------------------------------------
(* The refinement                                                          *)

LEMMA MemoryInit == Init => Memory!Init
  BY DEF Init, Memory!Init

\* IncidentMemory counts as FiniteSets does.
LEMMA SameCount == \A S : Memory!Cardinality(S) = Cardinality(S)
  BY DEF Cardinality, Memory!Cardinality, IsFiniteSet, Memory!IsFiniteSet

LEMMA MemoryNext ==
  TypeOK /\ CapInv /\ SerialInv /\ [Serial]_vars => [Memory!Next]_(Memory!memVars)
  <1> SUFFICES ASSUME TypeOK, CapInv, SerialInv, [Serial]_vars
               PROVE  Memory!Next \/ UNCHANGED <<idx, acked>>
    BY DEF Memory!memVars
  <1>1. CASE UNCHANGED vars
    BY <1>1 DEF vars, fsVars
  <1>2. CASE Tamper
    BY <1>2 DEF Tamper, TamperOccurrence, TamperIndex
  <1>3. CASE CheckNext
    BY <1>3 DEF CheckNext, CkBegin, CkStep, CkReadIndex, CkVerify, CkFails, fsVars
  <1>4. ASSUME NEW p \in Adders,
               (\E d \in Docs, a \in BOOLEAN : Begin(p, d, a)) \/ AddFails(p) \/ AddKilled(p)
        PROVE  UNCHANGED <<idx, acked>>
    BY <1>4 DEF Begin, AddFails, AddKilled, fsVars
  <1>5. ASSUME NEW p \in Adders, AddStep(p)
        PROVE  Memory!Next \/ UNCHANGED <<idx, acked>>
    <2>. doc[p] \in Docs
      BY DEF TypeOK
    <2>1. CASE RenameIndex(p)
      <3>1. /\ seen[p] = idx[Fp(p)]
            /\ \A e \in idx[Fp(p)] : IdOf[e] # IdOf[doc[p]]
            /\ Cardinality(idx[Fp(p)]) < MaxOccurrences
        BY <2>1 DEF RenameIndex, SerialInv, Inserting, CapInv, PastCaps
      <3>2. idx' = [idx EXCEPT ![Fp(p)] = @ \cup {doc[p]}] /\ UNCHANGED acked
        BY <2>1, <3>1 DEF RenameIndex, Published
      <3>3. Memory!Insert(doc[p])
        BY <3>1, <3>2, SameCount, Zenon DEF Memory!Insert, Fp
      <3> QED
        BY <3>3 DEF Memory!Next
    <2>2. CASE Report(p)
      <3>1. Memory!Acknowledge(doc[p])
        BY <2>2 DEF Report, Acknowledge, SerialInv, Fp, fsVars, Memory!Acknowledge
      <3> QED
        BY <3>1 DEF Memory!Next
    <2>3. CASE VerifyExisting(p)
      <3>1. UNCHANGED idx /\ (UNCHANGED acked \/ (doc[p] \in seen[p] /\ Acknowledge(p)))
        BY <2>3 DEF VerifyExisting, WithSameId, fsVars
      <3>2. CASE doc[p] \in seen[p] /\ Acknowledge(p)
        <4>1. Memory!Acknowledge(doc[p])
          BY <2>3, <3>1, <3>2 DEF VerifyExisting, Acknowledge, SerialInv, Fp,
             Memory!Acknowledge
        <4> QED
          BY <4>1 DEF Memory!Next
      <3> QED
        BY <3>1, <3>2
    <2>4. CASE StatDir(p) \/ ReadIndex(p) \/ CountEntries(p) \/ Ensure(p)
                  \/ MkdirAndWriteTemp(p) \/ RenameOcc(p) \/ WriteIndexTemp(p)
      BY <2>4 DEF StatDir, ReadIndex, CountEntries, Ensure, MkdirAndWriteTemp,
         RenameOcc, WriteIndexTemp, fsVars
    <2> QED
      BY <1>5, <2>1, <2>2, <2>3, <2>4 DEF AddStep
  <1> QED
    BY <1>1, <1>2, <1>3, <1>4, <1>5 DEF Serial, Next, AddNext

LEMMA SerialInit == Init => SerialInv
  BY DEF Init, SerialInv, Exclusive, Inserting

\* One add at a time per fingerprint, across kills, I/O errors, retries and
\* damage: index.json grows like the memory and keeps what was acknowledged.
THEOREM MemoryIsImplemented == TamperSpec => ImplementsMemory
  <1>1. [(Next /\ Exclusive') \/ Tamper]_vars <=> [Serial]_vars
    BY DEF Serial
  <1>2. TypeOK /\ SerialInv /\ [Serial]_vars => SerialInv'
    BY SerialNext
  <1>3. TypeOK /\ CapInv /\ SerialInv /\ [Serial]_vars => [Memory!Next]_(Memory!memVars)
    BY MemoryNext
  <1> QED
    BY <1>1, <1>2, <1>3, SerialInit, MemoryInit, TamperSpecIsAnyStep, TamperSafety, PTL
       DEF TamperSpec, ImplementsMemory, Memory!Spec

-----------------------------------------------------------------------------
(* The library cap: an add counts the fingerprint directories, and another *)
(* may create one before it creates its own.  The number of directories    *)
(* and of the adds still entitled to create one is what stays bounded.     *)

Entitled == {"ensure", "mkdir"}
Placing == {"renameOcc", "writeIndex", "renameIndex"}

\* Adds that passed the cap and whose fingerprint has no directory yet.
Newcomers == {p \in Adders : pc[p] \in Entitled /\ Fp(p) \notin fpDirs}

\* What makes an add not a newcomer: it has seen its directory, or made it.
PlaceInv ==
    /\ \A d \in Docs : occ[d] # "absent" => FpOf[d] \in fpDirs
    /\ \A p \in Adders :
        /\ existed[p] => pc[p] # "idle" /\ Fp(p) \in fpDirs
        /\ pc[p] \in Placing => Fp(p) \in fpDirs

RoomInv ==
    /\ IsFiniteSet(fpDirs)
    /\ Cardinality(fpDirs) + Cardinality(Newcomers)
           < MaxLibraryEntries + Cardinality(Adders)

-----------------------------------------------------------------------------
(* What a step does to the directories                                     *)

LEMMA AfterCapsGoes ==
  ASSUME TypeOK, NEW p \in Adders, NEW S \in SUBSET Docs, AfterCaps(p, S)
  PROVE  pc'[p] \in {"idle", "ensure"} /\ (pc'[p] = "ensure" => UNCHANGED doc)
  <1>1. CASE Return(p, "tooManyOccurrences")
    BY <1>1 DEF Return, TypeOK
  <1>2. CASE Goto(p, "ensure") /\ UNCHANGED doc
    BY <1>2 DEF Goto, TypeOK
  <1> QED
    BY <1>1, <1>2 DEF AfterCaps

\* An add becomes a newcomer only past the count, and creates a directory
\* only as one.
LEMMA AddStepDirs ==
  ASSUME TypeOK, PlaceInv, IsFiniteSet(fpDirs), NEW p \in Adders, AddStep(p)
  PROVE  \/ /\ UNCHANGED fpDirs
            /\ pc'[p] \in Entitled /\ Fp(p)' \notin fpDirs => p \in Newcomers
         \/ UNCHANGED fpDirs /\ Cardinality(fpDirs) < MaxLibraryEntries
         \/ /\ pc[p] = "mkdir" /\ pc'[p] = "renameOcc" /\ UNCHANGED doc
            /\ fpDirs' = fpDirs \cup {Fp(p)}
  <1>. Cardinality(fpDirs) \in Nat /\ MaxLibraryEntries \in Nat
    BY FS_CardinalityType, ConstantsAssumption
  <1>1. CASE StatDir(p)
    BY <1>1 DEF StatDir, Goto, TypeOK, Entitled, fsVars
  <1>2. CASE ReadIndex(p)
    <2>1. CASE existed[p] /\ AfterCaps(p, idx[Fp(p)])
      <3>1. idx[Fp(p)] \in SUBSET Docs
        BY ConstantsAssumption DEF Fp, TypeOK
      <3>2. pc'[p] \in {"idle", "ensure"} /\ (pc'[p] = "ensure" => UNCHANGED doc)
        BY <2>1, <3>1, AfterCapsGoes
      <3> QED
        BY <1>2, <2>1, <3>2 DEF ReadIndex, PlaceInv, Entitled, Fp, fsVars
    <2>2. CASE Return(p, "malformed")
      BY <1>2, <2>2 DEF ReadIndex, Return, Entitled, TypeOK, fsVars
    <2>3. CASE Goto(p, "verifyExisting") \/ Goto(p, "countEntries")
      BY <1>2, <2>3 DEF ReadIndex, Goto, Entitled, TypeOK, fsVars
    <2> QED
      BY <1>2, <2>1, <2>2, <2>3 DEF ReadIndex
  <1>3. CASE VerifyExisting(p)
    BY <1>3 DEF VerifyExisting, Return, TypeOK, Entitled, fsVars
  <1>4. CASE CountEntries(p)
    <2>1. CASE Cardinality(fpDirs) >= MaxLibraryEntries
      BY <1>4, <2>1 DEF CountEntries, Return, TypeOK, Entitled, fsVars
    <2>2. CASE ~(Cardinality(fpDirs) >= MaxLibraryEntries)
      BY <1>4, <2>2 DEF CountEntries, fsVars
    <2> QED
      BY <2>1, <2>2
  <1>5. CASE Ensure(p)
    <2>1. CASE Return(p, "corrupted")
      BY <1>5, <2>1 DEF Ensure, Return, TypeOK, Entitled, fsVars
    <2>2. CASE UNCHANGED doc
      BY <1>5, <2>2 DEF Ensure, Goto, TypeOK, Entitled, Newcomers, Fp, fsVars
    <2> QED
      BY <1>5, <2>1, <2>2 DEF Ensure
  <1>6. CASE MkdirAndWriteTemp(p)
    BY <1>6 DEF MkdirAndWriteTemp, Goto, TypeOK
  <1>7. CASE WriteIndexTemp(p)
    <2>1. fpDirs' = fpDirs
      BY <1>7 DEF WriteIndexTemp, PlaceInv, Placing
    <2> QED
      BY <1>7, <2>1 DEF WriteIndexTemp, Goto, TypeOK, Entitled
  <1>8. CASE RenameOcc(p) \/ RenameIndex(p)
    BY <1>8 DEF RenameOcc, RenameIndex, Goto, TypeOK, Entitled
  <1>9. CASE Report(p)
    BY <1>9 DEF Report, Return, TypeOK, Entitled, fsVars
  <1> QED
    BY <1>1, <1>2, <1>3, <1>4, <1>5, <1>6, <1>7, <1>8, <1>9 DEF AddStep

LEMMA AddStopsDirs ==
  ASSUME TypeOK, NEW p \in Adders, AddFails(p) \/ AddKilled(p)
  PROVE  /\ pc'[p] = "idle" /\ existed'[p] = FALSE
         /\ \/ UNCHANGED fpDirs
            \/ pc[p] = "mkdir" /\ fpDirs' = fpDirs \cup {Fp(p)}
  BY DEF AddFails, AddKilled, Return, TypeOK

-----------------------------------------------------------------------------
(* The bound                                                               *)

\* The other adds do not become newcomers, whatever one of them does.
LEMMA OthersStay ==
  ASSUME NEW p \in Adders, fpDirs \subseteq fpDirs',
         \A q \in Adders \ {p} : pc'[q] = pc[q] /\ doc'[q] = doc[q]
  PROVE  Newcomers' \subseteq Newcomers \cup {p}
  BY DEF Newcomers, Fp

\* A newcomer that creates its directory is none afterwards.
LEMMA NewcomerPlaced ==
  ASSUME IsFiniteSet(Adders), MaxLibraryEntries \in Nat, RoomInv, NEW p \in Newcomers,
         fpDirs' = fpDirs \cup {Fp(p)}, Newcomers' \subseteq Newcomers \ {p}
  PROVE  RoomInv'
  <1>1. IsFiniteSet(Newcomers) /\ IsFiniteSet(fpDirs)
    BY FS_Subset DEF Newcomers, RoomInv
  <1>2. /\ IsFiniteSet(fpDirs')
        /\ Cardinality(fpDirs') = Cardinality(fpDirs) + 1
    BY <1>1, FS_AddElement DEF Newcomers
  <1>3. /\ IsFiniteSet(Newcomers \ {p})
        /\ Cardinality(Newcomers \ {p}) = Cardinality(Newcomers) - 1
    BY <1>1, FS_RemoveElement
  <1>4. IsFiniteSet(Newcomers') /\ Cardinality(Newcomers') <= Cardinality(Newcomers) - 1
    BY <1>3, FS_Subset
  <1>5. /\ Cardinality(fpDirs) \in Nat /\ Cardinality(Newcomers) \in Nat
        /\ Cardinality(Newcomers') \in Nat /\ Cardinality(Adders) \in Nat
    BY <1>1, <1>4, FS_CardinalityType
  <1> QED
    BY <1>2, <1>4, <1>5 DEF RoomInv

\* Fewer newcomers and the same directories.
LEMMA NoNewcomer ==
  ASSUME IsFiniteSet(Adders), MaxLibraryEntries \in Nat, RoomInv, UNCHANGED fpDirs,
         Newcomers' \subseteq Newcomers
  PROVE  RoomInv'
  <1>1. IsFiniteSet(Newcomers)
    BY FS_Subset DEF Newcomers
  <1>2. IsFiniteSet(Newcomers') /\ Cardinality(Newcomers') <= Cardinality(Newcomers)
    BY <1>1, FS_Subset
  <1>3. /\ Cardinality(fpDirs) \in Nat /\ Cardinality(Newcomers) \in Nat
        /\ Cardinality(Newcomers') \in Nat /\ Cardinality(Adders) \in Nat
    BY <1>1, <1>2, FS_CardinalityType DEF RoomInv
  <1> QED
    BY <1>2, <1>3 DEF RoomInv

\* Whoever counted less than the cap leaves room for every other add.
LEMMA CountedRoom ==
  ASSUME IsFiniteSet(Adders), MaxLibraryEntries \in Nat, IsFiniteSet(fpDirs),
         UNCHANGED fpDirs, Cardinality(fpDirs) < MaxLibraryEntries
  PROVE  RoomInv'
  <1>1. Newcomers' \subseteq Adders
    BY DEF Newcomers
  <1>2. IsFiniteSet(Newcomers') /\ Cardinality(Newcomers') <= Cardinality(Adders)
    BY <1>1, FS_Subset
  <1>3. /\ Cardinality(fpDirs) \in Nat /\ Cardinality(Newcomers') \in Nat
        /\ Cardinality(Adders) \in Nat
    BY <1>2, FS_CardinalityType
  <1> QED
    BY <1>2, <1>3 DEF RoomInv

-----------------------------------------------------------------------------
(* Where the directories are                                               *)

LEMMA DirsOnlyGrow ==
  ASSUME TypeOK, [AnyStep]_vars
  PROVE  fpDirs \subseteq fpDirs'
  <1>1. ASSUME NEW p \in Adders, NEW d \in Docs, NEW a \in BOOLEAN, Begin(p, d, a)
        PROVE  UNCHANGED fpDirs
    BY <1>1 DEF Begin, fsVars
  <1>2. ASSUME NEW p \in Adders, AddStep(p) PROVE fpDirs \subseteq fpDirs'
    <2>1. CASE MkdirAndWriteTemp(p) \/ RenameOcc(p) \/ WriteIndexTemp(p) \/ RenameIndex(p)
      BY <2>1 DEF MkdirAndWriteTemp, RenameOcc, WriteIndexTemp, RenameIndex
    <2>2. CASE UNCHANGED fsVars
      BY <2>2 DEF fsVars
    <2> QED
      BY <1>2, <2>1, <2>2 DEF AddStep, StatDir, ReadIndex, VerifyExisting, CountEntries,
            Ensure, Report
  <1>3. ASSUME NEW p \in Adders, AddFails(p) \/ AddKilled(p)
        PROVE  fpDirs \subseteq fpDirs'
    BY <1>3, AddStopsDirs
  <1>4. CASE CheckNext \/ Tamper \/ UNCHANGED vars
    BY <1>4 DEF CheckNext, CkBegin, CkStep, CkReadIndex, CkVerify, CkFails, Tamper,
       TamperOccurrence, TamperIndex, vars, fsVars
  <1> QED
    BY <1>1, <1>2, <1>3, <1>4 DEF AnyStep, Next, AddNext

\* The add that moves: its directory exists where it relies on it.
LEMMA AddStepPlace ==
  ASSUME TypeOK, PlaceInv, NEW p \in Adders, AddStep(p)
  PROVE  /\ \A q \in Adders \ {p} : existed'[q] = existed[q]
         /\ existed'[p] => pc'[p] # "idle" /\ doc'[p] = doc[p]
                             /\ Fp(p) \in fpDirs \cup fpDirs'
         /\ pc'[p] \in Placing => doc'[p] = doc[p] /\ Fp(p) \in fpDirs \cup fpDirs'
  <1>. Fp(p) = FpOf[doc[p]]
    BY DEF Fp
  <1>1. CASE StatDir(p)
    BY <1>1 DEF StatDir, Goto, TypeOK, PlaceInv, Placing
  <1>2. CASE ReadIndex(p)
    <2>1. CASE AfterCaps(p, idx[Fp(p)])
      BY <2>1 DEF AfterCaps, Return, Goto, TypeOK, PlaceInv, Placing
    <2>2. CASE Return(p, "malformed")
      BY <2>2 DEF Return, TypeOK, Placing
    <2>3. CASE /\ Goto(p, "verifyExisting") \/ Goto(p, "countEntries")
               /\ UNCHANGED <<doc, existed>>
      BY <2>3 DEF Goto, TypeOK, PlaceInv, Placing
    <2> QED
      BY <1>2, <2>1, <2>2, <2>3 DEF ReadIndex
  <1>3. CASE VerifyExisting(p)
    BY <1>3 DEF VerifyExisting, Return, TypeOK, Placing
  <1>4. CASE CountEntries(p)
    <2>1. CASE AfterCaps(p, seen[p])
      BY <2>1, <1>4 DEF CountEntries, AfterCaps, Return, Goto, TypeOK, PlaceInv, Placing
    <2>2. CASE Return(p, "tooManyEntries")
      BY <2>2 DEF Return, TypeOK, Placing
    <2> QED
      BY <1>4, <2>1, <2>2 DEF CountEntries
  <1>5. CASE Ensure(p)
    <2>1. CASE Return(p, "corrupted")
      BY <2>1 DEF Return, TypeOK, Placing
    <2>2. CASE /\ occ[doc[p]] = "intact" /\ Goto(p, "writeIndex")
               /\ UNCHANGED <<doc, existed>>
      <3>1. Fp(p) \in fpDirs
        BY <2>2 DEF PlaceInv, TypeOK
      <3> QED
        BY <1>5, <2>2, <3>1 DEF Ensure, Goto, TypeOK, PlaceInv
    <2>3. CASE Goto(p, "mkdir") /\ UNCHANGED <<doc, existed>>
      BY <2>3 DEF Goto, TypeOK, PlaceInv, Placing
    <2> QED
      BY <1>5, <2>1, <2>2, <2>3 DEF Ensure
  <1>6. CASE MkdirAndWriteTemp(p) \/ WriteIndexTemp(p)
    BY <1>6 DEF MkdirAndWriteTemp, WriteIndexTemp, Goto, TypeOK, PlaceInv, Placing
  <1>7. CASE RenameOcc(p) \/ RenameIndex(p)
    BY <1>7 DEF RenameOcc, RenameIndex, Goto, TypeOK, PlaceInv, Placing
  <1>8. CASE Report(p)
    BY <1>8 DEF Report, Return, TypeOK, Placing
  <1> QED
    BY <1>1, <1>2, <1>3, <1>4, <1>5, <1>6, <1>7, <1>8 DEF AddStep

LEMMA PlaceNext ==
  ASSUME TypeOK, PlaceInv, [AnyStep]_vars
  PROVE  PlaceInv'
  <1>. fpDirs \subseteq fpDirs'
    BY DirsOnlyGrow
  <1>1. ASSUME NEW p \in Adders, NEW d \in Docs, NEW a \in BOOLEAN, Begin(p, d, a)
        PROVE  PlaceInv'
    <2>1. /\ UNCHANGED <<fpDirs, occ>> /\ pc'[p] \notin Placing
          /\ \A q \in Adders : existed'[q] => existed[q] /\ q # p
      BY <1>1 DEF Begin, Goto, Return, TypeOK, PlaceInv, Placing, fsVars
    <2> QED
      BY <1>1, <2>1, BeginFrame DEF PlaceInv, Fp
  <1>2. ASSUME NEW p \in Adders, AddStep(p) PROVE PlaceInv'
    <2>1. \A d \in Docs : occ'[d] # "absent" => FpOf[d] \in fpDirs'
      <3>1. UNCHANGED occ \/ (pc[p] = "renameOcc" /\ occ' = [occ EXCEPT ![doc[p]] = "intact"])
        BY <1>2, AddStepFrame
      <3> QED
        BY <3>1 DEF PlaceInv, Placing, TypeOK, Fp
    <2>2. ASSUME NEW q \in Adders
          PROVE  /\ existed'[q] => pc'[q] # "idle" /\ Fp(q)' \in fpDirs'
                 /\ pc'[q] \in Placing => Fp(q)' \in fpDirs'
      <3>1. CASE q = p
        BY <1>2, <3>1, AddStepPlace DEF Fp
      <3>2. CASE q # p
        BY <1>2, <3>2, AddStepPlace, AddStepFrame DEF Fp, PlaceInv
      <3> QED
        BY <3>1, <3>2
    <2> QED
      BY <2>1, <2>2 DEF PlaceInv
  <1>3. ASSUME NEW p \in Adders, AddFails(p) \/ AddKilled(p) PROVE PlaceInv'
    <2>1. /\ UNCHANGED occ
          /\ \A q \in Adders \ {p} : existed'[q] = existed[q]
      BY <1>3 DEF AddFails, AddKilled, Return, TypeOK
    <2>2. /\ pc'[p] = "idle" /\ existed'[p] = FALSE
          /\ \A q \in Adders \ {p} : pc'[q] = pc[q] /\ doc'[q] = doc[q]
      BY <1>3, AddStopsFrame, AddStopsDirs
    <2>3. \A d \in Docs : occ'[d] # "absent" => FpOf[d] \in fpDirs'
      BY <2>1 DEF PlaceInv
    <2>4. ASSUME NEW q \in Adders
          PROVE  /\ existed'[q] => pc'[q] # "idle" /\ Fp(q)' \in fpDirs'
                 /\ pc'[q] \in Placing => Fp(q)' \in fpDirs'
      BY <2>1, <2>2 DEF PlaceInv, Placing, Fp
    <2> QED
      BY <2>3, <2>4 DEF PlaceInv
  <1>4. CASE CheckNext \/ UNCHANGED vars
    BY <1>4 DEF CheckNext, CkBegin, CkStep, CkReadIndex, CkVerify, CkFails, vars,
       fsVars, addVars, PlaceInv, Fp
  <1>5. CASE Tamper
    BY <1>5 DEF Tamper, TamperOccurrence, TamperIndex, addVars, PlaceInv, Fp, TypeOK
  <1> QED
    BY <1>1, <1>2, <1>3, <1>4, <1>5 DEF AnyStep, Next, AddNext

-----------------------------------------------------------------------------
(* The theorem                                                             *)

LEMMA RoomNext ==
  ASSUME IsFiniteSet(Adders), TypeOK, PlaceInv, RoomInv, [AnyStep]_vars
  PROVE  RoomInv'
  <1>. MaxLibraryEntries \in Nat /\ IsFiniteSet(fpDirs) /\ fpDirs \subseteq fpDirs'
    BY DirsOnlyGrow, ConstantsAssumption DEF RoomInv
  <1>1. ASSUME NEW p \in Adders, NEW d \in Docs, NEW a \in BOOLEAN, Begin(p, d, a)
        PROVE  RoomInv'
    <2>1. UNCHANGED fpDirs /\ pc'[p] \notin Entitled
      BY <1>1 DEF Begin, Goto, Return, TypeOK, Entitled, fsVars
    <2>2. Newcomers' \subseteq Newcomers \cup {p}
      BY <1>1, BeginFrame, OthersStay
    <2> QED
      BY <2>1, <2>2, NoNewcomer DEF Newcomers
  <1>2. ASSUME NEW p \in Adders, AddStep(p) PROVE RoomInv'
    <2>1. Newcomers' \subseteq Newcomers \cup {p}
      BY <1>2, AddStepFrame, OthersStay
    <2>2. CASE /\ UNCHANGED fpDirs
               /\ pc'[p] \in Entitled /\ Fp(p)' \notin fpDirs => p \in Newcomers
      BY <2>1, <2>2, NoNewcomer DEF Newcomers
    <2>3. CASE UNCHANGED fpDirs /\ Cardinality(fpDirs) < MaxLibraryEntries
      BY <2>3, CountedRoom
    <2>4. CASE /\ pc[p] = "mkdir" /\ pc'[p] = "renameOcc" /\ UNCHANGED doc
               /\ fpDirs' = fpDirs \cup {Fp(p)}
      <3>1. Newcomers' \subseteq Newcomers \ {p}
        BY <2>1, <2>4 DEF Newcomers, Entitled
      <3>2. CASE Fp(p) \in fpDirs
        BY <2>4, <3>1, <3>2, NoNewcomer
      <3>3. CASE Fp(p) \notin fpDirs
        <4>1. p \in Newcomers
          BY <2>4, <3>3 DEF Newcomers, Entitled
        <4> QED
          BY <2>4, <3>1, <4>1, NewcomerPlaced
      <3> QED
        BY <3>2, <3>3
    <2> QED
      BY <1>2, <2>2, <2>3, <2>4, AddStepDirs
  <1>3. ASSUME NEW p \in Adders, AddFails(p) \/ AddKilled(p) PROVE RoomInv'
    <2>1. Newcomers' \subseteq Newcomers \ {p}
      <3>1. Newcomers' \subseteq Newcomers \cup {p}
        BY <1>3, AddStopsFrame, OthersStay
      <3> QED
        BY <1>3, <3>1, AddStopsDirs DEF Newcomers, Entitled
    <2>2. CASE fpDirs' = fpDirs
      BY <2>1, <2>2, NoNewcomer
    <2>3. CASE fpDirs' # fpDirs
      <3>1. pc[p] = "mkdir" /\ fpDirs' = fpDirs \cup {Fp(p)}
        BY <1>3, <2>3, AddStopsDirs
      <3>2. p \in Newcomers
        BY <2>3, <3>1 DEF Newcomers, Entitled
      <3> QED
        BY <2>1, <3>1, <3>2, NewcomerPlaced
    <2> QED
      BY <2>2, <2>3
  <1>4. CASE CheckNext \/ Tamper \/ UNCHANGED vars
    <2>1. UNCHANGED <<fpDirs, pc, doc>>
      BY <1>4 DEF CheckNext, CkBegin, CkStep, CkReadIndex, CkVerify, CkFails, Tamper,
         TamperOccurrence, TamperIndex, vars, fsVars, addVars
    <2> QED
      BY <2>1, NoNewcomer DEF Newcomers, Fp
  <1> QED
    BY <1>1, <1>2, <1>3, <1>4 DEF AnyStep, Next, AddNext

LEMMA RoomInit ==
  ASSUME IsFiniteSet(Adders), Adders # {}, Init
  PROVE  PlaceInv /\ RoomInv
  <1>1. Newcomers = {}
    BY DEF Init, Newcomers, Entitled
  <1>2. IsFiniteSet({}) /\ Cardinality({}) = 0
    BY FS_EmptySet
  <1>3. Cardinality(Adders) \in Nat /\ Cardinality(Adders) # 0
    BY FS_CardinalityType, FS_EmptySet
  <1>4. RoomInv
    BY <1>1, <1>2, <1>3, ConstantsAssumption DEF Init, RoomInv
  <1> QED
    BY <1>4 DEF Init, PlaceInv, Placing

LEMMA RoomWithinCap ==
  ASSUME IsFiniteSet(Adders), RoomInv PROVE FpDirsNearCap
  <1>1. IsFiniteSet(Newcomers)
    BY FS_Subset DEF Newcomers
  <1>2. /\ Cardinality(fpDirs) \in Nat /\ Cardinality(Newcomers) \in Nat
        /\ Cardinality(Adders) \in Nat
    BY <1>1, FS_CardinalityType DEF RoomInv
  <1> QED
    BY <1>2, ConstantsAssumption DEF RoomInv, FpDirsNearCap

\* checkLibraryEntryCap counts before the directory is created: any finite
\* number of racing adds, killed and failing ones and a second actor
\* included, exceeds the cap by at most their number less one, and
\* checkOccurrenceCap, which compares stale entries, is never exceeded.
THEOREM CapsAreHeld ==
  ASSUME IsFiniteSet(Adders), Adders # {}
  PROVE  Spec \/ TamperSpec => []CapsHold
  <1>1. Init => TypeOK /\ PlaceInv /\ RoomInv
    BY RoomInit, TypeInit
  <1>2. TypeOK /\ PlaceInv /\ RoomInv /\ [AnyStep]_vars
            => (TypeOK /\ PlaceInv /\ RoomInv)'
    BY TypeAnyStep, PlaceNext, RoomNext DEF RoomInv
  <1>3. RoomInv => FpDirsNearCap
    BY RoomWithinCap
  <1>4. IndexWithinCap /\ FpDirsNearCap => CapsHold
    BY DEF CapsHold
  <1>5. Init /\ [][AnyStep]_vars => []FpDirsNearCap
    BY <1>1, <1>2, <1>3, PTL
  <1> QED
    BY <1>4, <1>5, CapIsHeld, SpecIsAnyStep, TamperSpecIsAnyStep, PTL

-----------------------------------------------------------------------------
(* What the library promises                                               *)

\* What was acknowledged keeps an index, which lies in a directory.
KnownInv ==
    /\ \A d \in acked : idx[FpOf[d]] # {}
    /\ \A f \in Fps : idx[f] # {} => f \in fpDirs
    /\ \A p \in Adders : pc[p] \in {"report", "verifyExisting"} => idx[Fp(p)] # {}

\* Index files are rewritten, never emptied.
LEMMA IndexesStay ==
  ASSUME TypeOK, [AnyStep]_vars, NEW f \in Fps, idx[f] # {}
  PROVE  idx'[f] # {}
  <1>1. ASSUME NEW p \in Adders, AddStep(p) PROVE idx'[f] # {}
    <2>1. UNCHANGED idx \/ idx' = [idx EXCEPT ![Fp(p)] = Published(p)]
      BY <1>1, AddStepFrame
    <2>2. Published(p) # {} /\ idx \in [Fps -> SUBSET Docs]
      BY DEF Published, TypeOK
    <2> QED
      BY <2>1, <2>2
  <1>2. ASSUME NEW p \in Adders, AddFails(p) \/ AddKilled(p) PROVE idx'[f] # {}
    BY <1>2, AddStopsFrame
  <1>3. CASE CheckNext \/ Tamper
    BY <1>3, CheckFrame, TamperFrame
  <1>4. CASE UNCHANGED vars
    BY <1>4 DEF vars, fsVars
  <1> QED
    BY <1>1, <1>2, <1>3, <1>4, BeginFrame DEF AnyStep, Next, AddNext

LEMMA AckedStay == [AnyStep]_vars => acked \subseteq acked'
  <1>1. ASSUME NEW p \in Adders, AddStep(p) PROVE acked \subseteq acked'
    BY <1>1 DEF AddStep, StatDir, ReadIndex, VerifyExisting, CountEntries, Ensure,
       MkdirAndWriteTemp, RenameOcc, WriteIndexTemp, RenameIndex, Report, Acknowledge
  <1>2. ASSUME NEW p \in Adders, AddFails(p) \/ AddKilled(p) PROVE acked \subseteq acked'
    BY <1>2 DEF AddFails, AddKilled
  <1>3. CASE CheckNext
    BY <1>3 DEF CheckNext, CkBegin, CkStep, CkReadIndex, CkVerify, CkFails
  <1>4. CASE Tamper \/ UNCHANGED vars
    BY <1>4 DEF Tamper, TamperOccurrence, TamperIndex, vars
  <1>5. ASSUME NEW p \in Adders, NEW d \in Docs, NEW a \in BOOLEAN, Begin(p, d, a)
        PROVE  acked \subseteq acked'
    BY <1>5 DEF Begin
  <1> QED
    BY <1>1, <1>2, <1>3, <1>4, <1>5 DEF AnyStep, Next, AddNext

\* What is acknowledged, and an add that relies on an index that is there.
LEMMA AddStepKnows ==
  ASSUME TypeOK, KnownInv, NEW p \in Adders, AddStep(p)
  PROVE  /\ \A d \in acked' : idx'[FpOf[d]] # {}
         /\ pc'[p] \in {"report", "verifyExisting"} => idx'[Fp(p)'] # {}
  <1>0. /\ Fp(p) \in Fps /\ idx[Fp(p)] \in SUBSET Docs
        /\ \A d \in acked : FpOf[d] \in Fps /\ idx[FpOf[d]] # {}
    BY ConstantsAssumption DEF Fp, TypeOK, KnownInv
  <1>1. \A f \in Fps : idx[f] # {} => idx'[f] # {}
    BY IndexesStay DEF AnyStep, Next, AddNext
  <1>2. CASE ReadIndex(p)
    <2>1. UNCHANGED <<acked, idx>>
      BY <1>2 DEF ReadIndex, fsVars
    <2>2. CASE AfterCaps(p, idx[Fp(p)])
      BY <1>0, <2>1, <2>2, AfterCapsGoes
    <2>3. CASE Return(p, "malformed")
      BY <1>0, <2>1, <2>3 DEF Return, TypeOK
    <2>4. CASE Cardinality(WithSameId(idx[Fp(p)], doc[p])) = 1 /\ UNCHANGED doc
      <3>1. idx[Fp(p)] # {}
        <4>1. Cardinality({}) # 1
          BY FS_EmptySet
        <4>2. WithSameId(idx[Fp(p)], doc[p]) # {}
          BY <2>4, <4>1
        <4> QED
          BY <4>2 DEF WithSameId
      <3> QED
        BY <1>0, <2>1, <2>4, <3>1 DEF Fp
    <2>5. CASE Goto(p, "countEntries")
      BY <1>0, <2>1, <2>5 DEF Goto, TypeOK
    <2> QED
      BY <1>2, <2>2, <2>3, <2>4, <2>5 DEF ReadIndex
  <1>3. CASE VerifyExisting(p) \/ Report(p)
    <2>1. idx[Fp(p)] # {}
      BY <1>3 DEF VerifyExisting, Report, KnownInv
    <2>2. UNCHANGED idx /\ acked' \subseteq acked \cup {doc[p]} /\ pc'[p] = "idle"
      BY <1>3 DEF VerifyExisting, Report, Acknowledge, Return, fsVars, TypeOK
    <2> QED
      BY <1>0, <2>1, <2>2 DEF Fp
  <1>4. CASE RenameIndex(p)
    <2>1. idx'[Fp(p)] # {} /\ UNCHANGED <<doc, acked>>
      BY <1>0, <1>4 DEF RenameIndex, Published, TypeOK
    <2> QED
      BY <1>0, <1>1, <2>1 DEF Fp
  <1>5. CASE StatDir(p) \/ CountEntries(p) \/ Ensure(p) \/ MkdirAndWriteTemp(p)
             \/ RenameOcc(p) \/ WriteIndexTemp(p)
    <2>1. UNCHANGED acked /\ pc'[p] \notin {"report", "verifyExisting"}
      BY <1>5 DEF StatDir, CountEntries, AfterCaps, Ensure, MkdirAndWriteTemp, RenameOcc,
         WriteIndexTemp, Goto, Return, TypeOK
    <2> QED
      BY <1>0, <1>1, <2>1
  <1> QED
    BY <1>2, <1>3, <1>4, <1>5 DEF AddStep

LEMMA KnownNext ==
  ASSUME TypeOK, PlaceInv, KnownInv, [AnyStep]_vars
  PROVE  KnownInv'
  <1>0. /\ fpDirs \subseteq fpDirs'
        /\ \A f \in Fps : idx[f] # {} => idx'[f] # {}
        /\ \A d \in acked : FpOf[d] \in Fps
    BY DirsOnlyGrow, IndexesStay, ConstantsAssumption DEF TypeOK
  <1>1. ASSUME UNCHANGED <<idx, acked>>,
               \A p \in Adders : pc'[p] \in {"report", "verifyExisting"} =>
                    pc'[p] = pc[p] /\ doc'[p] = doc[p]
        PROVE  KnownInv'
    BY <1>0, <1>1 DEF KnownInv, Fp
  <1>2. ASSUME NEW p \in Adders, NEW d \in Docs, NEW a \in BOOLEAN, Begin(p, d, a)
        PROVE  KnownInv'
    <2>1. UNCHANGED <<idx, acked>> /\ pc'[p] \notin {"report", "verifyExisting"}
      BY <1>2, BeginFrame DEF Begin
    <2> QED
      BY <1>1, <1>2, <2>1, BeginFrame
  <1>3. ASSUME NEW p \in Adders, AddStep(p) PROVE KnownInv'
    <2>1. \A f \in Fps : idx'[f] # {} => f \in fpDirs'
      <3>1. \A f \in Fps : idx'[f] # idx[f] => f = Fp(p) /\ pc[p] \in Placing
        BY <1>3, AddStepFrame DEF Placing, TypeOK
      <3>2. pc[p] \in Placing => Fp(p) \in fpDirs
        BY DEF PlaceInv
      <3> QED
        BY <1>0, <3>1, <3>2 DEF KnownInv
    <2>2. ASSUME NEW q \in Adders, pc'[q] \in {"report", "verifyExisting"}
          PROVE  idx'[Fp(q)'] # {}
      <3>1. CASE q = p
        BY <1>3, <2>2, <3>1, AddStepKnows
      <3>2. CASE q # p
        <4>1. pc'[q] = pc[q] /\ Fp(q)' = Fp(q) /\ Fp(q) \in Fps
          BY <1>3, <3>2, AddStepFrame, ConstantsAssumption DEF Fp, TypeOK
        <4> QED
          BY <1>0, <2>2, <4>1 DEF KnownInv
      <3> QED
        BY <3>1, <3>2
    <2> QED
      BY <1>3, <2>1, <2>2, AddStepKnows DEF KnownInv
  <1>4. ASSUME NEW p \in Adders, AddFails(p) \/ AddKilled(p) PROVE KnownInv'
    <2>1. UNCHANGED <<idx, acked>> /\ pc'[p] = "idle"
      BY <1>4, AddStopsFrame DEF AddFails, AddKilled
    <2> QED
      BY <1>1, <1>4, <2>1, AddStopsFrame
  <1>5. CASE CheckNext \/ Tamper \/ UNCHANGED vars
    <2>1. UNCHANGED <<idx, acked, pc, doc>>
      BY <1>5 DEF CheckNext, CkBegin, CkStep, CkReadIndex, CkVerify, CkFails, Tamper,
         TamperOccurrence, TamperIndex, vars, fsVars, addVars
    <2> QED
      BY <1>1, <2>1
  <1> QED
    BY <1>2, <1>3, <1>4, <1>5 DEF AnyStep, Next, AddNext

\* What a reader of the library may rely on.
LibraryInv == TypeOK /\ PlaceInv /\ KnownInv /\ CapInv

LEMMA LibraryAtFirst == Init => LibraryInv
  <1>1. Init => PlaceInv /\ KnownInv
    BY DEF Init, PlaceInv, Placing, KnownInv
  <1> QED
    BY <1>1, TypeInit, TamperInvInit DEF LibraryInv

LEMMA LibraryKept == LibraryInv /\ [AnyStep]_vars => LibraryInv'
  BY TypeAnyStep, PlaceNext, KnownNext, CapNext DEF LibraryInv

-----------------------------------------------------------------------------
(* library list                                                            *)

\* At each point of a listing: what was known when it began is listed, or
\* still to be found.
ListInvOf(l) ==
    /\ \A f \in lsKnown[l] : f \in Fps /\ idx[f] # {}
    /\ lsPc[l] # "idle" => lsResult[l] = "none"
    /\ lsPc[l] = "shard" =>
        \A f \in lsKnown[l] : ShardOf[f] \in lsShards[l] \/ f \in lsFps[l]
    /\ lsPc[l] = "index" =>
        \A f \in lsKnown[l] : f \in lsFps[l] \/ listing[l][f] # {}
    /\ lsPc[l] = "verify" =>
        \A f \in lsKnown[l] : \/ f \in lsFps[l] \/ listing[l][f] # {}
                              \/ f = lsFp[l] /\ lsTodo[l] # {}
    /\ lsResult[l] = "listed" => \A f \in lsKnown[l] : listing[l][f] # {}

ListInv == \A l \in Listers : ListInvOf(l)

LEMMA ListingSteps == [ListingNext]_allVars => [AnyStep]_vars
  BY DEF ListingNext, LsNext, LsBegin, ReadRoot, ReadShard, ListIndex, ListVerify, LsFails,
     DropStray, AnyStep, Next, Tamper, allVars

LEMMA LsTypesAtFirst == ASSUME LsInit PROVE LsTypeOK
  BY AnyDocInDocs DEF LsInit, LsTypeOK, EmptyListing

LEMMA LsReturnTypes ==
  ASSUME LsTypeOK, NEW l \in Listers, UNCHANGED <<stray, lsKnown>>,
         NEW r \in {"listed", "corrupted", "malformed", "malformedLibrary", "tooMany",
                    "failed"},
         LsReturn(l, r)
  PROVE  LsTypeOK'
  BY DEF LsTypeOK, LsReturn, EmptyListing

LEMMA LsTypesKept ==
  ASSUME TypeOK, LsTypeOK, [ListingNext]_allVars
  PROVE  LsTypeOK'
  <1>1. CASE UNCHANGED lsVars
    BY <1>1 DEF lsVars, lsLocals, LsTypeOK
  <1>2. CASE DropStray
    BY <1>2 DEF DropStray, lsLocals, LsTypeOK
  <1>3. ASSUME NEW l \in Listers, LsBegin(l) PROVE LsTypeOK'
    <2>1. {FpOf[d] : d \in acked} \in SUBSET Fps
      BY ConstantsAssumption DEF TypeOK
    <2> QED
      BY <1>3, <2>1 DEF LsBegin, LsGoto, LsTypeOK, EmptyListing
  <1>4. ASSUME NEW l \in Listers, ReadRoot(l) PROVE LsTypeOK'
    <2>1. {ShardOf[f] : f \in fpDirs} \cup stray \in SUBSET Shards
      BY DEF LsTypeOK, Shards, TypeOK
    <2> QED
      BY <1>4, <2>1 DEF ReadRoot, LsGoto, LsTypeOK
  <1>5. ASSUME NEW l \in Listers, ReadShard(l) PROVE LsTypeOK'
    <2>1. CASE LsReturn(l, "malformedLibrary") \/ LsReturn(l, "tooMany")
      BY <1>5, <2>1, LsReturnTypes DEF ReadShard
    <2>2. ASSUME NEW s \in lsShards[l], lsShards' = [lsShards EXCEPT ![l] = @ \ {s}],
                 lsFps' = [lsFps EXCEPT ![l] = @ \cup {f \in fpDirs : ShardOf[f] = s}],
                 UNCHANGED <<lsPc, lsFp, lsTodo, listing, lsResult>>
          PROVE  LsTypeOK'
      BY <1>5, <2>2 DEF ReadShard, LsTypeOK, TypeOK
    <2>3. CASE LsGoto(l, "index") /\ UNCHANGED <<lsShards, lsFps, lsFp, lsTodo, listing, lsResult>>
      BY <1>5, <2>3 DEF ReadShard, LsGoto, LsTypeOK
    <2> QED
      BY <1>5, <2>1, <2>2, <2>3 DEF ReadShard
  <1>6. ASSUME NEW l \in Listers, ListIndex(l) PROVE LsTypeOK'
    <2>1. CASE LsReturn(l, "listed") \/ LsReturn(l, "malformed")
      BY <1>6, <2>1, LsReturnTypes DEF ListIndex
    <2>2. ASSUME NEW f \in lsFps[l], lsFps' = [lsFps EXCEPT ![l] = @ \ {f}],
                 lsFp' = [lsFp EXCEPT ![l] = f], lsTodo' = [lsTodo EXCEPT ![l] = idx[f]],
                 LsGoto(l, "verify"), UNCHANGED <<lsShards, listing, lsResult>>
          PROVE  LsTypeOK'
      <3>1. f \in Fps /\ idx[f] \in SUBSET Docs
        BY DEF LsTypeOK, TypeOK
      <3> QED
        BY <1>6, <2>2, <3>1 DEF ListIndex, LsGoto, LsTypeOK
    <2> QED
      BY <1>6, <2>1, <2>2 DEF ListIndex
  <1>7. ASSUME NEW l \in Listers, ListVerify(l) PROVE LsTypeOK'
    <2>1. CASE LsReturn(l, "corrupted")
      BY <1>7, <2>1, LsReturnTypes DEF ListVerify
    <2>2. CASE LsGoto(l, "index") /\ UNCHANGED <<lsShards, lsFps, lsFp, lsTodo, listing, lsResult>>
      BY <1>7, <2>2 DEF ListVerify, LsGoto, LsTypeOK
    <2>3. ASSUME NEW d \in lsTodo[l], lsTodo' = [lsTodo EXCEPT ![l] = @ \ {d}],
                 listing' = [listing EXCEPT ![l][lsFp[l]] = @ \cup {d}],
                 UNCHANGED <<lsPc, lsShards, lsFps, lsFp, lsResult>>
          PROVE  LsTypeOK'
      BY <1>7, <2>3 DEF ListVerify, LsTypeOK
    <2> QED
      BY <1>7, <2>1, <2>2, <2>3 DEF ListVerify
  <1>8. ASSUME NEW l \in Listers, LsFails(l) PROVE LsTypeOK'
    BY <1>8, LsReturnTypes DEF LsFails
  <1> QED
    BY <1>1, <1>2, <1>3, <1>4, <1>5, <1>6, <1>7, <1>8
       DEF ListingNext, LsNext, allVars

\* A listing that is not at work keeps its invariant while the library moves.
LEMMA ListRests ==
  ASSUME TypeOK, NEW l \in Listers, ListInvOf(l), [AnyStep]_vars,
         lsPc'[l] = lsPc[l], lsShards'[l] = lsShards[l], lsFps'[l] = lsFps[l],
         lsFp'[l] = lsFp[l], lsTodo'[l] = lsTodo[l], listing'[l] = listing[l],
         lsResult'[l] = lsResult[l], lsKnown'[l] = lsKnown[l]
  PROVE  ListInvOf(l)'
  <1>1. \A f \in lsKnown[l] : f \in Fps /\ idx'[f] # {}
    BY IndexesStay DEF ListInvOf
  <1> QED
    BY <1>1 DEF ListInvOf

\* A return other than at the end of a listing claims nothing.
LEMMA LsReturnKeeps ==
  ASSUME LsTypeOK, NEW l \in Listers, ListInvOf(l), UNCHANGED <<idx, lsKnown>>,
         NEW r, LsReturn(l, r),
         r = "listed" => \A f \in lsKnown[l] : listing[l][f] # {}
  PROVE  ListInvOf(l)'
  BY DEF LsReturn, LsTypeOK, ListInvOf

LEMMA ListStepKeeps ==
  ASSUME LibraryInv, LsTypeOK, NEW l \in Listers, ListInvOf(l),
         \/ LsBegin(l) \/ ReadRoot(l) \/ ReadShard(l) \/ ListIndex(l) \/ ListVerify(l)
         \/ LsFails(l)
  PROVE  ListInvOf(l)'
  <1>0. \A f \in lsKnown[l] : f \in Fps /\ idx[f] # {} /\ f \in fpDirs
    BY DEF ListInvOf, LibraryInv, KnownInv
  <1>1. CASE LsBegin(l)
    <2>1. /\ lsPc'[l] = "root" /\ lsResult'[l] = "none"
          /\ lsKnown'[l] = {FpOf[d] : d \in acked} /\ UNCHANGED idx
      BY <1>1 DEF LsBegin, LsGoto, LsTypeOK, vars, fsVars
    <2>2. \A d \in acked : FpOf[d] \in Fps /\ idx[FpOf[d]] # {}
      BY ConstantsAssumption DEF LibraryInv, KnownInv, TypeOK
    <2> QED
      BY <2>1, <2>2 DEF ListInvOf
  <1>2. CASE ReadRoot(l)
    <2>1. /\ lsPc'[l] = "shard" /\ lsResult'[l] = lsResult[l] /\ lsPc[l] = "root"
          /\ lsShards'[l] = {ShardOf[f] : f \in fpDirs} \cup stray
          /\ UNCHANGED <<idx, lsKnown>>
      BY <1>2 DEF ReadRoot, LsGoto, LsTypeOK, vars, fsVars
    <2> QED
      BY <1>0, <2>1 DEF ListInvOf
  <1>3. CASE ReadShard(l)
    <2>0. lsPc[l] = "shard" /\ UNCHANGED <<idx, lsKnown>> /\ lsResult[l] = "none"
      BY <1>3 DEF ReadShard, vars, fsVars, ListInvOf
    <2>1. CASE LsReturn(l, "malformedLibrary") \/ LsReturn(l, "tooMany")
      BY <2>0, <2>1, LsReturnKeeps
    <2>2. ASSUME NEW s \in lsShards[l], lsShards' = [lsShards EXCEPT ![l] = @ \ {s}],
                 lsFps' = [lsFps EXCEPT ![l] = @ \cup {f \in fpDirs : ShardOf[f] = s}],
                 UNCHANGED <<lsPc, lsFp, lsTodo, listing, lsResult>>
          PROVE  ListInvOf(l)'
      <3>1. /\ lsShards'[l] = lsShards[l] \ {s}
            /\ lsFps'[l] = lsFps[l] \cup {f \in fpDirs : ShardOf[f] = s}
        BY <2>2 DEF LsTypeOK
      <3>2. \A f \in lsKnown[l] : ShardOf[f] \in lsShards'[l] \/ f \in lsFps'[l]
        BY <1>0, <2>0, <3>1 DEF ListInvOf
      <3> QED
        BY <1>0, <2>0, <2>2, <3>2 DEF ListInvOf
    <2>3. CASE /\ lsShards[l] = {} /\ LsGoto(l, "index")
               /\ UNCHANGED <<lsShards, lsFps, lsFp, lsTodo, listing, lsResult>>
      <3>1. lsPc'[l] = "index" /\ \A f \in lsKnown[l] : f \in lsFps[l]
        BY <2>0, <2>3 DEF LsGoto, LsTypeOK, ListInvOf
      <3> QED
        BY <1>0, <2>0, <2>3, <3>1 DEF ListInvOf
    <2> QED
      BY <1>3, <2>1, <2>2, <2>3 DEF ReadShard
  <1>4. CASE ListIndex(l)
    <2>0. lsPc[l] = "index" /\ UNCHANGED <<idx, lsKnown>> /\ lsResult[l] = "none"
      BY <1>4 DEF ListIndex, vars, fsVars, ListInvOf
    <2>1. CASE lsFps[l] = {} /\ LsReturn(l, "listed")
      <3>1. \A f \in lsKnown[l] : listing[l][f] # {}
        BY <2>0, <2>1 DEF ListInvOf
      <3> QED
        BY <2>0, <2>1, <3>1, LsReturnKeeps
    <2>2. CASE LsReturn(l, "malformed")
      BY <2>0, <2>2, LsReturnKeeps
    <2>3. ASSUME NEW g \in lsFps[l], lsFps' = [lsFps EXCEPT ![l] = @ \ {g}],
                 lsFp' = [lsFp EXCEPT ![l] = g], lsTodo' = [lsTodo EXCEPT ![l] = idx[g]],
                 LsGoto(l, "verify"), UNCHANGED <<lsShards, listing, lsResult>>
          PROVE  ListInvOf(l)'
      <3>1. /\ lsFps'[l] = lsFps[l] \ {g} /\ lsFp'[l] = g /\ lsTodo'[l] = idx[g]
            /\ lsPc'[l] = "verify"
        BY <2>3 DEF LsTypeOK, LsGoto
      <3>2. \A f \in lsKnown[l] : \/ f \in lsFps'[l] \/ listing[l][f] # {}
                                  \/ f = g /\ idx[g] # {}
        BY <1>0, <2>0, <3>1 DEF ListInvOf
      <3> QED
        BY <1>0, <2>0, <2>3, <3>1, <3>2 DEF ListInvOf
    <2> QED
      BY <1>4, <2>1, <2>2, <2>3 DEF ListIndex
  <1>5. CASE ListVerify(l)
    <2>0. lsPc[l] = "verify" /\ UNCHANGED <<idx, lsKnown>> /\ lsResult[l] = "none"
      BY <1>5 DEF ListVerify, vars, fsVars, ListInvOf
    <2>1. CASE LsReturn(l, "corrupted")
      BY <2>0, <2>1, LsReturnKeeps
    <2>2. CASE /\ lsTodo[l] = {} /\ LsGoto(l, "index")
               /\ UNCHANGED <<lsShards, lsFps, lsFp, lsTodo, listing, lsResult>>
      <3>1. /\ lsPc'[l] = "index"
            /\ \A f \in lsKnown[l] : f \in lsFps[l] \/ listing[l][f] # {}
        BY <2>0, <2>2 DEF LsGoto, LsTypeOK, ListInvOf
      <3> QED
        BY <1>0, <2>0, <2>2, <3>1 DEF ListInvOf
    <2>3. ASSUME NEW d \in lsTodo[l], lsTodo' = [lsTodo EXCEPT ![l] = @ \ {d}],
                 listing' = [listing EXCEPT ![l][lsFp[l]] = @ \cup {d}],
                 UNCHANGED <<lsPc, lsShards, lsFps, lsFp, lsResult>>
          PROVE  ListInvOf(l)'
      <3>1. /\ listing'[l][lsFp[l]] # {}
            /\ \A f \in Fps \ {lsFp[l]} : listing'[l][f] = listing[l][f]
        BY <2>3 DEF LsTypeOK
      <3>2. \A f \in lsKnown[l] : f \in lsFps[l] \/ listing'[l][f] # {}
        BY <1>0, <2>0, <3>1 DEF ListInvOf
      <3> QED
        BY <1>0, <2>0, <2>3, <3>2 DEF ListInvOf
    <2> QED
      BY <1>5, <2>1, <2>2, <2>3 DEF ListVerify
  <1>6. CASE LsFails(l)
    <2>1. UNCHANGED <<idx, lsKnown>>
      BY <1>6 DEF LsFails, vars, fsVars
    <2> QED
      BY <1>6, <2>1, LsReturnKeeps DEF LsFails
  <1> QED
    BY <1>1, <1>2, <1>3, <1>4, <1>5, <1>6

\* A step of one listing leaves the others where they are.
LEMMA OtherListings ==
  ASSUME LsTypeOK, NEW l \in Listers, NEW m \in Listers \ {l},
         \/ LsBegin(l) \/ ReadRoot(l) \/ ReadShard(l) \/ ListIndex(l) \/ ListVerify(l)
         \/ LsFails(l)
  PROVE  /\ lsPc'[m] = lsPc[m] /\ lsShards'[m] = lsShards[m] /\ lsFps'[m] = lsFps[m]
         /\ lsFp'[m] = lsFp[m] /\ lsTodo'[m] = lsTodo[m] /\ listing'[m] = listing[m]
         /\ lsResult'[m] = lsResult[m] /\ lsKnown'[m] = lsKnown[m]
  <1>1. CASE LsBegin(l) \/ ReadRoot(l)
    BY <1>1 DEF LsBegin, ReadRoot, LsGoto, LsTypeOK
  <1>2. CASE ReadShard(l)
    BY <1>2 DEF ReadShard, LsReturn, LsGoto, LsTypeOK
  <1>3. CASE ListIndex(l)
    BY <1>3 DEF ListIndex, LsReturn, LsGoto, LsTypeOK
  <1>4. CASE ListVerify(l)
    BY <1>4 DEF ListVerify, LsReturn, LsGoto, LsTypeOK
  <1>5. CASE LsFails(l)
    BY <1>5 DEF LsFails, LsReturn, LsTypeOK
  <1> QED
    BY <1>1, <1>2, <1>3, <1>4, <1>5

LEMMA ListKept ==
  ASSUME LibraryInv, LsTypeOK, ListInv, [ListingNext]_allVars
  PROVE  ListInv'
  <1>0. TypeOK /\ [AnyStep]_vars
    BY ListingSteps DEF LibraryInv
  <1>1. CASE UNCHANGED lsVars \/ DropStray
    <2>1. UNCHANGED <<lsLocals, lsKnown>>
      BY <1>1 DEF lsVars, DropStray
    <2> QED
      BY <1>0, <2>1, ListRests DEF ListInv, lsLocals
  <1>2. ASSUME NEW l \in Listers,
               \/ LsBegin(l) \/ ReadRoot(l) \/ ReadShard(l) \/ ListIndex(l)
               \/ ListVerify(l) \/ LsFails(l)
        PROVE  ListInv'
    <2>1. ASSUME NEW m \in Listers PROVE ListInvOf(m)'
      <3>1. CASE m = l
        BY <1>2, <3>1, ListStepKeeps DEF ListInv
      <3>2. CASE m # l
        BY <1>0, <1>2, <3>2, OtherListings, ListRests DEF ListInv
      <3> QED
        BY <3>1, <3>2
    <2> QED
      BY <2>1 DEF ListInv
  <1> QED
    BY <1>1, <1>2 DEF ListingNext, LsNext, allVars

LEMMA ListAtFirst == ASSUME LsInit PROVE ListInv
  BY DEF LsInit, ListInv, ListInvOf

LEMMA ListingInvariant == ListingSpec => [](LibraryInv /\ LsTypeOK /\ ListInv)
  <1>1. ListingInit => LibraryInv /\ LsTypeOK /\ ListInv
    BY LibraryAtFirst, LsTypesAtFirst, ListAtFirst DEF ListingInit
  <1>2. LibraryInv /\ LsTypeOK /\ ListInv /\ [ListingNext]_allVars
            => LibraryInv' /\ LsTypeOK' /\ ListInv'
    BY LibraryKept, LsTypesKept, ListKept, ListingSteps DEF LibraryInv
  <1> QED
    BY <1>1, <1>2, PTL DEF ListingSpec

\* Every variable of a listing keeps its type.
THEOREM ListingTypeCorrect == ListingSpec => []LsTypeOK
  BY ListingInvariant, PTL

\* List, walking without a snapshot and without a lock: for any number of
\* listings and adds, with kills, I/O errors, stray entries and damaged
\* occurrences, a listing that succeeds shows every fingerprint that was
\* acknowledged before it began.
THEOREM ListsWhatWasAcked == ListingSpec => []AckedIsListed
  <1>1. ListInv => AckedIsListed
    BY DEF ListInv, ListInvOf, AckedIsListed
  <1> QED
    BY <1>1, ListingInvariant, PTL

-----------------------------------------------------------------------------
(* The lookups of scenario verify and suite verify                         *)

\* What one check holds: a match names entries, and the answer for a known
\* fingerprint is not "no match".
CheckOf(c) ==
    /\ IsFiniteSet(ckSeen[c])
    /\ ckPc[c] = "verify" \/ ckResult[c] = "match" => ckSeen[c] # {}
    /\ ckKnown[c] => idx[ckFp[c]] # {} /\ ckResult[c] # "noMatch"

\* The command has begun and not ended.
Reading == {"load", "check", "verdict", "source", "open", "reload", "lookup", "answer"}

Lines == [link : Fps \cup {MalformedLink}, count : Nat]

\* The annotations are the cached answers, and "no occurrences" is cached for
\* no fingerprint that was known when the command began.
AnswerInv ==
    /\ lines \in Seq(Lines)
    /\ link \in Fps \cup {MalformedLink}
    /\ vpc \in Reading =>
            files \in [Names -> Contents]
    /\ vpc = "idle" => lines = <<>> /\ DOMAIN cache = {}
    /\ vKnown \subseteq {FpOf[d] : d \in acked}
    /\ \A f \in DOMAIN cache : cache[f] \in Nat /\ (cache[f] = 0 => f \notin vKnown)
    /\ \A n \in DOMAIN lines :
            lines[n].link \in DOMAIN cache /\ lines[n].count = cache[lines[n].link]
    /\ vpc = "answer" => /\ link \in Fps /\ link \notin DOMAIN cache
                         /\ ckFp[Verifier] = link
                         /\ link \in vKnown => ckKnown[Verifier]

LEMMA VerifySteps ==
  ASSUME TypeOK, AnswerInv, [VerifyNext]_<<vars, vVars>>
  PROVE  [AnyStep]_vars
  <1>1. CASE Lookup
    <2>1. UNCHANGED vars \/ (link # MalformedLink /\ CkBegin(Verifier, link))
      BY <1>1 DEF Lookup
    <2> QED
      BY <2>1, VerifyAssumption DEF AnswerInv, AnyStep, Next, CheckNext
  <1>2. CASE CkStep(Verifier) \/ CkFails(Verifier)
    BY <1>2, VerifyAssumption DEF AnyStep, Next, CheckNext
  <1>3. CASE LibraryMoves
    BY <1>3 DEF LibraryMoves, AnyStep, Next, Tamper
  <1>4. CASE UNCHANGED vars
    BY <1>4
  <1> QED
    BY <1>1, <1>2, <1>3, <1>4 DEF VerifyNext, VNext, VBegin, LoadSuite, CheckEntry, Verdict,
       LoadScenario, CheckSource, OpenLibrary, Reload, Answer, Cancel, EditScenario

\* The check of the verifier: what its own step makes of it.
LEMMA OwnCheckKept ==
  ASSUME LibraryInv, NEW c \in Checkers, CheckOf(c),
         (\E f \in Fps : CkBegin(c, f)) \/ CkStep(c) \/ CkFails(c)
  PROVE  CheckOf(c)'
  <1>0. /\ UNCHANGED <<idx, acked>> /\ IsFiniteSet({})
        /\ ckFp[c] \in Fps /\ IsFiniteSet(idx[ckFp[c]])
    BY FS_EmptySet DEF CkBegin, CkStep, CkReadIndex, CkVerify, CkFails, fsVars, LibraryInv,
       CapInv, TypeOK
  <1>1. ASSUME NEW f \in Fps, CkBegin(c, f) PROVE CheckOf(c)'
    <2>1. /\ ckSeen'[c] = {} /\ ckPc'[c] = "readIndex" /\ ckResult'[c] = "none"
          /\ ckFp'[c] = f /\ (ckKnown'[c] => \E d \in acked : FpOf[d] = f)
      BY <1>1 DEF CkBegin, CkGoto, LibraryInv, TypeOK
    <2>2. ckKnown'[c] => idx[f] # {}
      BY <2>1 DEF LibraryInv, KnownInv
    <2> QED
      BY <1>0, <2>1, <2>2 DEF CheckOf
  <1>2. ASSUME NEW r, CkReturn(c, r), UNCHANGED <<ckFp, ckKnown>>,
               r = "match" => ckSeen[c] # {},
               r = "noMatch" => idx[ckFp[c]] = {}
        PROVE  CheckOf(c)'
    <2>1. /\ ckPc'[c] = "idle" /\ ckResult'[c] = r
          /\ ckSeen'[c] = IF r = "match" THEN ckSeen[c] ELSE {}
      BY <1>2 DEF CkReturn, LibraryInv, TypeOK
    <2> QED
      BY <1>0, <1>2, <2>1 DEF CheckOf
  <1>3. CASE CkReadIndex(c)
    <2>1. CASE CkReturn(c, "malformed") \/ (idx[ckFp[c]] = {} /\ CkReturn(c, "noMatch"))
      BY <1>2, <1>3, <2>1 DEF CkReadIndex
    <2>2. CASE /\ idx[ckFp[c]] # {} /\ ckSeen' = [ckSeen EXCEPT ![c] = idx[ckFp[c]]]
               /\ CkGoto(c, "verify") /\ UNCHANGED ckResult
      <3>1. ckSeen'[c] = idx[ckFp[c]] /\ UNCHANGED <<ckFp, ckKnown>>
        BY <1>3, <2>2 DEF CkReadIndex, LibraryInv, TypeOK
      <3> QED
        BY <1>0, <2>2, <3>1 DEF CheckOf
    <2> QED
      BY <1>3, <2>1, <2>2 DEF CkReadIndex
  <1>4. CASE CkVerify(c)
    <2>1. CASE CkReturn(c, "match") \/ CkReturn(c, "corrupted")
      BY <1>2, <1>4, <2>1 DEF CkVerify, CheckOf
    <2>2. CASE UNCHANGED <<ckPc, ckSeen, ckResult>>
      BY <1>0, <1>4, <2>2 DEF CkVerify, CheckOf
    <2> QED
      BY <1>4, <2>1, <2>2 DEF CkVerify
  <1>5. CASE CkFails(c)
    BY <1>2, <1>5 DEF CkFails
  <1> QED
    BY <1>1, <1>3, <1>4, <1>5 DEF CkStep

LEMMA CheckOfKept ==
  ASSUME LibraryInv, NEW c \in Checkers, CheckOf(c), [AnyStep]_vars
  PROVE  CheckOf(c)'
  <1>1. ASSUME UNCHANGED <<ckPc, ckFp, ckSeen, ckResult, ckKnown>> PROVE CheckOf(c)'
    <2>1. ckFp[c] \in Fps
      BY DEF LibraryInv, TypeOK
    <2>2. idx[ckFp[c]] # {} => idx'[ckFp[c]] # {}
      BY <2>1, IndexesStay DEF LibraryInv
    <2> QED
      BY <1>1, <2>2 DEF CheckOf
  <1>2. ASSUME NEW b \in Checkers,
               (\E f \in Fps : CkBegin(b, f)) \/ CkStep(b) \/ CkFails(b)
        PROVE  CheckOf(c)'
    <2>1. CASE b = c
      BY <1>2, <2>1, OwnCheckKept
    <2>2. CASE b # c
      <3>1. /\ ckPc'[c] = ckPc[c] /\ ckFp'[c] = ckFp[c] /\ ckSeen'[c] = ckSeen[c]
            /\ ckResult'[c] = ckResult[c] /\ ckKnown'[c] = ckKnown[c] /\ UNCHANGED idx
        BY <1>2, <2>2 DEF CkBegin, CkStep, CkReadIndex, CkVerify, CkFails, CkReturn, CkGoto,
           fsVars, LibraryInv, TypeOK
      <3> QED
        BY <3>1 DEF CheckOf
    <2> QED
      BY <2>1, <2>2
  <1>3. AddNext \/ Tamper \/ UNCHANGED vars
            => UNCHANGED <<ckPc, ckFp, ckSeen, ckResult, ckKnown>>
    <2>1. ASSUME NEW p \in Adders, AddStep(p) PROVE UNCHANGED ckVars
      BY <2>1, AddStepFrame DEF LibraryInv
    <2>2. ASSUME NEW p \in Adders, AddFails(p) \/ AddKilled(p) PROVE UNCHANGED ckVars
      BY <2>2, AddStopsFrame DEF LibraryInv
    <2>3. Tamper \/ UNCHANGED vars => UNCHANGED <<ckPc, ckFp, ckSeen, ckResult, ckKnown>>
      BY DEF Tamper, TamperOccurrence, TamperIndex, ckVars, vars
    <2> QED
      BY <2>1, <2>2, <2>3 DEF AddNext, Begin, ckVars
  <1> QED
    BY <1>1, <1>2, <1>3 DEF AnyStep, Next, CheckNext

\* A step that only reads documents and moves on.
LEMMA DocumentStep ==
  ASSUME AnswerInv,
         \/ LoadSuite \/ CheckEntry \/ Verdict \/ LoadScenario \/ CheckSource
         \/ OpenLibrary \/ Reload
  PROVE  /\ UNCHANGED <<vars, files, vKnown, cache, lines>>
         /\ vpc \in Reading \ {"answer"}
         /\ vpc' \in (Reading \ {"answer"}) \cup {"done"}
         /\ link' \in Fps \cup {MalformedLink}
  <1>0. vpc \in Reading => \A n \in Names : files[n].link \in Fps \cup {MalformedLink}
    BY VerifyAssumption DEF AnswerInv, Reading
  <1>1. CASE LoadSuite \/ CheckEntry \/ Verdict
    BY <1>1 DEF LoadSuite, CheckEntry, Verdict, VGoto, Exit, Reading, AnswerInv, vInputs, vLocals
  <1>2. CASE CheckSource \/ OpenLibrary
    BY <1>2 DEF CheckSource, OpenLibrary, VGoto, Exit, Reading, AnswerInv, vInputs, vLocals
  <1>3. CASE LoadScenario
    <2>1. UNCHANGED link \/ (Loads(Path(1)) /\ link' = Scenario(Path(1)).link)
      BY <1>3 DEF LoadScenario
    <2> QED
      BY <1>0, <1>3, <2>1 DEF LoadScenario, Loads, Scenario, VGoto, Exit, Reading, AnswerInv,
         vInputs
  <1>4. CASE Reload
    <2>1. UNCHANGED link \/ (Loads(Path(k)) /\ link' = Scenario(Path(k)).link)
      BY <1>4 DEF Reload
    <2> QED
      BY <1>0, <1>4, <2>1 DEF Reload, Loads, Scenario, VGoto, Exit, Reading, AnswerInv, vInputs
  <1> QED
    BY <1>1, <1>2, <1>3, <1>4

\* One more annotation.
LEMMA AnnotateAdds ==
  ASSUME NEW f \in Fps \cup {MalformedLink}, NEW count \in Nat, lines \in Seq(Lines),
         Annotate(f, count)
  PROVE  /\ lines' \in Seq(Lines)
         /\ \A n \in DOMAIN lines' : \/ n \in DOMAIN lines /\ lines'[n] = lines[n]
                                     \/ lines'[n].link = f /\ lines'[n].count = count
         /\ vpc' \in {"reload", "done"}
  <1> DEFINE line == [link |-> f, count |-> count]
  <1>1. line \in Lines /\ lines' = Append(lines, line) /\ vpc' \in {"reload", "done"}
    BY DEF Annotate, Lines, VGoto, Exit
  <1>2. /\ lines' \in Seq(Lines) /\ Len(lines') = Len(lines) + 1
        /\ \A n \in 1..Len(lines) : lines'[n] = lines[n]
        /\ lines'[Len(lines) + 1] = line
    BY <1>1, AppendProperties
  <1>3. /\ DOMAIN lines' = 1..Len(lines') /\ DOMAIN lines = 1..Len(lines)
        /\ Len(lines) \in Nat
    BY <1>2, LenProperties
  <1>4. line.link = f /\ line.count = count
    OBVIOUS
  <1> HIDE DEF line
  <1>5. ASSUME NEW n \in DOMAIN lines'
        PROVE  \/ n \in DOMAIN lines /\ lines'[n] = lines[n]
               \/ lines'[n].link = f /\ lines'[n].count = count
    <2>1. n \in 1..Len(lines) \/ n = Len(lines) + 1
      BY <1>2, <1>3, <1>5
    <2> QED
      BY <1>2, <1>3, <1>4, <2>1
  <1> QED
    BY <1>1, <1>2, <1>5

LEMMA AnswerKept ==
  ASSUME LibraryInv, CheckOf(Verifier), AnswerInv, [VerifyNext]_<<vars, vVars>>
  PROVE  AnswerInv'
  <1>0. acked \subseteq acked' /\ Verifier \in Checkers
    BY VerifySteps, AckedStay, VerifyAssumption DEF LibraryInv
  <1>1. ASSUME UNCHANGED <<vpc, files, vKnown, link, cache, lines>>,
               UNCHANGED <<ckFp, ckKnown>>
        PROVE  AnswerInv'
    BY <1>0, <1>1 DEF AnswerInv
  <1>2. CASE VBegin
    <2>1. /\ vpc = "idle" /\ vpc' = "load" /\ files' \in [Names -> Contents]
          /\ vKnown' = {FpOf[d] : d \in acked} /\ UNCHANGED <<acked, link, cache, lines>>
      BY <1>2 DEF VBegin, VGoto, vars, vLocals
    <2>2. lines = <<>> /\ DOMAIN cache = {}
      BY <2>1 DEF AnswerInv
    <2> QED
      BY <2>1, <2>2 DEF AnswerInv
  <1>3. CASE \/ LoadSuite \/ CheckEntry \/ Verdict \/ LoadScenario \/ CheckSource
             \/ OpenLibrary \/ Reload
    <2>1. /\ UNCHANGED <<acked, files, vKnown, cache, lines>>
          /\ vpc \in Reading \ {"answer"}
          /\ vpc' \in (Reading \ {"answer"}) \cup {"done"}
          /\ link' \in Fps \cup {MalformedLink}
      BY <1>3, DocumentStep DEF vars
    <2> QED
      BY <2>1 DEF AnswerInv, Reading
  <1>4. CASE Lookup
    <2>0. vpc = "lookup" /\ UNCHANGED <<files, vKnown, link, cache>> /\ UNCHANGED acked
      BY <1>4 DEF Lookup, vInputs, CkBegin, vars
    <2>1. CASE Cached(link) /\ Annotate(link, cache[link])
      <3>1. link \in DOMAIN cache /\ cache[link] \in Nat
        BY <2>1 DEF Cached, AnswerInv
      <3>2. /\ lines' \in Seq(Lines) /\ vpc' \in {"reload", "done"}
            /\ \A n \in DOMAIN lines' : \/ n \in DOMAIN lines /\ lines'[n] = lines[n]
                                        \/ lines'[n].link = link /\ lines'[n].count = cache[link]
        BY <2>1, <3>1, AnnotateAdds DEF AnswerInv
      <3>3. \A n \in DOMAIN lines' :
              lines'[n].link \in DOMAIN cache /\ lines'[n].count = cache[lines'[n].link]
        BY <3>1, <3>2 DEF AnswerInv
      <3> QED
        BY <2>0, <3>2, <3>3 DEF AnswerInv, Reading
    <2>2. CASE Exit(1) /\ UNCHANGED lines
      BY <2>0, <2>2 DEF Exit, AnswerInv, Reading
    <2>3. CASE /\ ~Cached(link) /\ link # MalformedLink /\ CkBegin(Verifier, link)
               /\ VGoto("answer") /\ UNCHANGED lines
      <3>1. link \in Fps /\ link \notin DOMAIN cache /\ vpc' = "answer"
        BY <2>3 DEF AnswerInv, Cached, VGoto
      <3>2. ckFp'[Verifier] = link /\ (ckKnown'[Verifier] <=> \E d \in acked : FpOf[d] = link)
        BY <1>0, <2>3 DEF CkBegin, LibraryInv, TypeOK
      <3>3. link \in vKnown => ckKnown'[Verifier]
        BY <3>2 DEF AnswerInv
      <3> QED
        BY <2>0, <2>3, <3>1, <3>2, <3>3 DEF AnswerInv, Reading
    <2> QED
      BY <1>4, <2>1, <2>2, <2>3 DEF Lookup
  <1>5. CASE Answer
    <2> DEFINE count == Cardinality(ckSeen[Verifier])
    <2>0. /\ vpc = "answer" /\ UNCHANGED <<files, vKnown, link, acked>>
          /\ link \in Fps /\ link \notin DOMAIN cache
          /\ link \in vKnown => ckKnown[Verifier]
      BY <1>5 DEF Answer, vInputs, vars, AnswerInv
    <2>1. CASE Exit(1) /\ UNCHANGED <<cache, lines>>
      BY <2>0, <2>1 DEF Exit, AnswerInv, Reading
    <2>2. CASE /\ Answered /\ Annotate(link, count)
               /\ cache' = [f \in DOMAIN cache \cup {link} |->
                              IF f = link THEN count ELSE cache[f]]
      <3>1. count \in Nat /\ (count = 0 => ckSeen[Verifier] = {})
        BY FS_CardinalityType, FS_EmptySet DEF CheckOf
      <3>2. count = 0 => link \notin vKnown
        BY <2>0, <2>2, <3>1 DEF Answered, CheckOf
      <3> HIDE DEF count
      <3>3. /\ lines' \in Seq(Lines) /\ vpc' \in {"reload", "done"}
            /\ \A n \in DOMAIN lines' : \/ n \in DOMAIN lines /\ lines'[n] = lines[n]
                                        \/ lines'[n].link = link /\ lines'[n].count = count
        BY <2>0, <2>2, <3>1, AnnotateAdds DEF AnswerInv
      <3>4. /\ DOMAIN cache' = DOMAIN cache \cup {link} /\ cache'[link] = count
            /\ \A f \in DOMAIN cache : cache'[f] = cache[f]
        BY <2>0, <2>2
      <3>5. \A n \in DOMAIN lines' :
              lines'[n].link \in DOMAIN cache' /\ lines'[n].count = cache'[lines'[n].link]
        BY <3>3, <3>4 DEF AnswerInv
      <3>6. \A f \in DOMAIN cache' : cache'[f] \in Nat /\ (cache'[f] = 0 => f \notin vKnown)
        BY <3>1, <3>2, <3>4 DEF AnswerInv
      <3> QED
        BY <2>0, <3>3, <3>5, <3>6 DEF AnswerInv, Reading
    <2> QED
      BY <1>5, <2>1, <2>2 DEF Answer
  <1>6. CASE (CkStep(Verifier) \/ CkFails(Verifier)) /\ UNCHANGED vVars
    BY <1>1, <1>6 DEF CkStep, CkReadIndex, CkVerify, CkFails, vVars, vInputs, vLocals
  <1>7. CASE LibraryMoves
    <2>1. ASSUME NEW p \in Adders, AddStep(p) PROVE UNCHANGED ckVars
      BY <2>1, AddStepFrame DEF LibraryInv
    <2>2. ASSUME NEW p \in Adders, AddFails(p) \/ AddKilled(p) PROVE UNCHANGED ckVars
      BY <2>2, AddStopsFrame DEF LibraryInv
    <2>3. UNCHANGED <<ckFp, ckKnown>>
      BY <1>7, <2>1, <2>2 DEF LibraryMoves, AddNext, Begin, TamperOccurrence, ckVars
    <2> QED
      BY <1>1, <1>7, <2>3 DEF LibraryMoves, vVars, vInputs, vLocals
  <1>8. CASE Cancel \/ UNCHANGED <<vars, vVars>>
    BY <1>1, <1>8 DEF Cancel, vars, ckVars, vVars, vInputs, vLocals
  <1>9. CASE EditScenario
    <2>1. /\ UNCHANGED <<vars, vpc, vKnown, link, cache, lines>>
          /\ files \in [Names -> Contents] => files' \in [Names -> Contents]
      BY <1>9 DEF EditScenario, vLocals
    <2> QED
      BY <2>1 DEF AnswerInv, vars, ckVars
  <1> QED
    BY <1>2, <1>3, <1>4, <1>5, <1>6, <1>7, <1>8, <1>9 DEF VerifyNext, VNext

LEMMA VerifyAtFirst == VerifyInit => CheckOf(Verifier) /\ AnswerInv
  <1> SUFFICES ASSUME VerifyInit PROVE CheckOf(Verifier) /\ AnswerInv
    OBVIOUS
  <1>1. CheckOf(Verifier)
    BY VerifyAssumption, FS_EmptySet DEF VerifyInit, Init, CheckOf
  <1>2. lines = <<>> /\ lines \in Seq(Lines) /\ DOMAIN lines = {}
    BY DEF VerifyInit, VInit
  <1> QED
    BY <1>1, <1>2 DEF VerifyInit, VInit, AnswerInv, Reading

LEMMA VerifyInvariant == VerifySpec => [](LibraryInv /\ CheckOf(Verifier) /\ AnswerInv)
  <1>1. VerifyInit => LibraryInv /\ CheckOf(Verifier) /\ AnswerInv
    BY LibraryAtFirst, VerifyAtFirst DEF VerifyInit
  <1>2. LibraryInv /\ CheckOf(Verifier) /\ AnswerInv /\ [VerifyNext]_<<vars, vVars>>
            => LibraryInv' /\ CheckOf(Verifier)' /\ AnswerInv'
    <2> SUFFICES ASSUME LibraryInv, CheckOf(Verifier), AnswerInv, [VerifyNext]_<<vars, vVars>>
                 PROVE  LibraryInv' /\ CheckOf(Verifier)' /\ AnswerInv'
      OBVIOUS
    <2>1. [AnyStep]_vars
      BY VerifySteps DEF LibraryInv
    <2> QED
      BY <2>1, LibraryKept, CheckOfKept, AnswerKept, VerifyAssumption
  <1> QED
    BY <1>1, <1>2, PTL DEF VerifySpec

\* suite verify --library looks each distinct fingerprint up once: two
\* scenarios with one link are annotated alike, for suites of any size, while
\* adds rewrite the library and either file is edited.
THEOREM LinksAgree == VerifySpec => []SameLinkSameAnswer
  <1>1. AnswerInv => SameLinkSameAnswer
    BY DEF AnswerInv, SameLinkSameAnswer
  <1> QED
    BY <1>1, VerifyInvariant, PTL

\* A lookup that fails ends the command instead of counting as none: no
\* failure class that was acknowledged before the command began is annotated
\* "no occurrences", whatever is added, damaged or interrupted meanwhile.
THEOREM KnownIsShown == VerifySpec => []KnownIsAnnotated
  <1>1. AnswerInv => KnownIsAnnotated
    BY DEF AnswerInv, KnownIsAnnotated
  <1> QED
    BY <1>1, VerifyInvariant, PTL

-----------------------------------------------------------------------------
(* What the documents decide                                               *)

\* The command line and the files of a command, and how often it was disturbed.
VTypes ==
    /\ vpc \in Reading \cup {"idle", "done"}
    /\ vpc # "idle" => cmd \in Commands /\ files \in [Names -> Contents]
    /\ k \in Nat \ {0} /\ edits \in Nat

\* The rules as the code applies them to one entry of a suite.
EntryRules(i) ==
    /\ SafeRelative(Path(i)) /\ Contained(cmd.base, Path(i))
    /\ Loads(Path(i)) /\ ScenarioValid(Path(i))

\* The rules for the first n entries.
RulesUpTo(n) ==
    /\ cmd.ok
    /\ \A i \in 1..n : EntryRules(i)
    /\ \A i, j \in 1..n : Clean(Path(i)) = Clean(Path(j)) => i = j

\* Seconds of an entry that loads, and what the first entries add up to.
Seconds ==
    [i \in 1..Len(cmd.paths) |-> IF Loads(Path(i)) THEN Scenario(Path(i)).timeout ELSE 0]

Sums == CHOOSE r : FoldRun(Len(cmd.paths), Nat, Add, 0, Seconds, r)

SuiteRules ==
    /\ Len(cmd.paths) \in 1..MaxScenarios
    /\ RulesUpTo(Len(cmd.paths))
    /\ Sums[Len(cmd.paths)] <= MaxTimeout

ScenarioRules == Loads(Path(1)) /\ ScenarioValid(Path(1))

SourceRules == cmd.source \in {"none", Scenario(Path(1)).link}

Rules == IF cmd.name = "suite" THEN SuiteRules ELSE ScenarioRules /\ SourceRules

\* Cleaned paths among the first n entries.
ListedUpTo(n) == {Clean(Path(i)) : i \in {j \in 1..n : SafeRelative(Path(j))}}

\* What the program counter says of the rules, while nobody disturbs the
\* command.
Decided ==
    /\ vpc \in {"idle", "load"} => k = 1 /\ valid /\ listed = {} /\ total = 0 /\ code = 0
    /\ vpc = "check" =>
        /\ cmd.name = "suite" /\ Len(cmd.paths) \in 1..MaxScenarios
        /\ k <= Len(cmd.paths) + 1
        /\ listed = ListedUpTo(k - 1)
        /\ valid <=> RulesUpTo(k - 1)
        /\ valid => total = Sums[k - 1]
    /\ vpc = "verdict" => cmd.name = "suite" /\ (valid <=> SuiteRules)
    /\ vpc = "source" =>
        cmd.name = "scenario" /\ ScenarioRules /\ link = Scenario(Path(1)).link
    /\ vpc \in {"open", "reload", "lookup", "answer"} => Rules
    /\ vpc = "done" /\ code = 0 => Rules
    /\ vpc = "done" /\ code = 2 => ~Rules

DecideInv == ~canceled /\ edits = 0 => Decided

-----------------------------------------------------------------------------
\* The paths of the command line.
LEMMA PathTypes ==
  ASSUME cmd \in Commands
  PROVE  /\ Len(cmd.paths) \in Nat /\ cmd.base \in Paths
         /\ \A i \in 1..Len(cmd.paths) : Path(i) \in Paths
         /\ cmd.name \in {"suite", "scenario"} /\ cmd.ok \in BOOLEAN
         /\ cmd.name = "scenario" => Len(cmd.paths) = 1
  <1>1. cmd.paths \in Seq(Paths)
    BY VerifyAssumption
  <1>2. Len(cmd.paths) \in Nat
    BY <1>1, LenProperties
  <1>3. ASSUME NEW i \in 1..Len(cmd.paths) PROVE Path(i) \in Paths
    BY <1>1, ElementOfSeq DEF Path
  <1> QED
    BY <1>2, <1>3, VerifyAssumption

LEMMA SumsAre ==
  ASSUME cmd \in Commands, files \in [Names -> Contents]
  PROVE  /\ Seconds \in [1..Len(cmd.paths) -> Nat]
         /\ FoldRun(Len(cmd.paths), Nat, Add, 0, Seconds, Sums)
         /\ Sums \in [0..Len(cmd.paths) -> Nat] /\ Sums[0] = 0
         /\ \A i \in 1..Len(cmd.paths) : Sums[i] = Sums[i - 1] + Seconds[i]
  <1> DEFINE n == Len(cmd.paths)
  <1>1. n \in Nat
    BY PathTypes
  <1>2. Seconds \in [1..n -> Nat]
    <2> SUFFICES ASSUME NEW i \in 1..n PROVE (IF Loads(Path(i)) THEN Scenario(Path(i)).timeout ELSE 0) \in Nat
      BY DEF Seconds
    <2> SUFFICES ASSUME Loads(Path(i)) PROVE Scenario(Path(i)).timeout \in Nat
      OBVIOUS
    <2>1. files[Clean(Path(i))] \in Contents
      BY DEF Loads
    <2> QED
      BY <2>1, VerifyAssumption DEF Scenario
  <1> HIDE DEF n
  <1>3. Add \in [Nat \X Nat -> Nat]
    BY DEF Add
  <1>4. Folder(n, Nat, Nat, Add, 0, Seconds)
    BY <1>1, <1>2, <1>3 DEF Folder
  <1>5. \E r : FoldRun(n, Nat, Add, 0, Seconds, r)
    BY <1>4, RunExists
  <1>6. FoldRun(n, Nat, Add, 0, Seconds, Sums)
    BY <1>5 DEF Sums, n
  <1> HIDE DEF Sums
  <1>7. /\ Sums \in [0..n -> Nat] /\ Sums[0] = 0
        /\ \A i \in 1..n : Sums[i] = Sums[i - 1] + Seconds[i]
    BY <1>1, <1>2, <1>6, SumRun
  <1> QED
    BY <1>2, <1>6, <1>7 DEF n

\* One more entry.
LEMMA OneMoreEntry ==
  ASSUME NEW n \in Nat
  PROVE  /\ RulesUpTo(n + 1) <=>
              /\ RulesUpTo(n) /\ EntryRules(n + 1)
              /\ Clean(Path(n + 1)) \notin ListedUpTo(n)
         /\ ListedUpTo(n + 1) = IF SafeRelative(Path(n + 1))
                                THEN ListedUpTo(n) \cup {Clean(Path(n + 1))}
                                ELSE ListedUpTo(n)
  <1>1. 1..n + 1 = (1..n) \cup {n + 1} /\ n + 1 \notin 1..n
    OBVIOUS
  <1>2. ASSUME RulesUpTo(n + 1)
        PROVE  RulesUpTo(n) /\ EntryRules(n + 1) /\ Clean(Path(n + 1)) \notin ListedUpTo(n)
    <2>1. RulesUpTo(n) /\ EntryRules(n + 1)
      BY <1>1, <1>2 DEF RulesUpTo
    <2>2. \A i \in 1..n : Clean(Path(n + 1)) # Clean(Path(i))
      BY <1>1, <1>2 DEF RulesUpTo
    <2> QED
      BY <2>1, <2>2 DEF ListedUpTo
  <1>3. ASSUME RulesUpTo(n), EntryRules(n + 1), Clean(Path(n + 1)) \notin ListedUpTo(n)
        PROVE  RulesUpTo(n + 1)
    <2>1. \A i \in 1..n : SafeRelative(Path(i))
      BY <1>3 DEF RulesUpTo, EntryRules
    <2>2. \A i \in 1..n : Clean(Path(n + 1)) # Clean(Path(i))
      BY <1>3, <2>1 DEF ListedUpTo
    <2> QED
      BY <1>1, <1>3, <2>2 DEF RulesUpTo
  <1>4. ListedUpTo(n + 1) = IF SafeRelative(Path(n + 1))
                            THEN ListedUpTo(n) \cup {Clean(Path(n + 1))}
                            ELSE ListedUpTo(n)
    BY <1>1 DEF ListedUpTo
  <1> QED
    BY <1>2, <1>3, <1>4

\* The rules read the command line and the files only.
LEMMA RulesStay ==
  ASSUME UNCHANGED <<cmd, files>>
  PROVE  /\ Rules' <=> Rules
         /\ SuiteRules' <=> SuiteRules
         /\ ScenarioRules' <=> ScenarioRules
         /\ Sums' = Sums
         /\ Scenario(Path(1))' = Scenario(Path(1))
         /\ \A n : /\ RulesUpTo(n)' <=> RulesUpTo(n)
                   /\ ListedUpTo(n)' = ListedUpTo(n)
  <1> USE DEF EntryRules, RulesUpTo, ListedUpTo, ScenarioRules, SourceRules, Loads, Scenario,
          Path, ScenarioValid, Seconds
  <1>1. Sums' = Sums
    BY DEF Sums
  <1>2. SuiteRules' <=> SuiteRules
    BY <1>1 DEF SuiteRules
  <1>3. (ScenarioRules' <=> ScenarioRules) /\ (SourceRules' <=> SourceRules)
    OBVIOUS
  <1>4. Rules' <=> Rules
    BY <1>2, <1>3 DEF Rules
  <1>5. \A n : (RulesUpTo(n)' <=> RulesUpTo(n)) /\ ListedUpTo(n)' = ListedUpTo(n)
    OBVIOUS
  <1> QED
    BY <1>1, <1>2, <1>3, <1>4, <1>5
\* The command line, the files and the disturbances change only when the
\* command begins, when a file is edited and when the command is cancelled.
LEMMA InputsStay ==
  ASSUME VTypes, [VerifyNext]_<<vars, vVars>>
  PROVE  /\ VTypes'
         /\ ~canceled' /\ edits' = 0 => ~canceled /\ edits = 0
         /\ edits' = 0 /\ vpc # "idle" => UNCHANGED <<cmd, files>>
  <1> USE DEF VTypes, vInputs, vLocals, Exit, VGoto, Reading
  <1>1. CASE VBegin
    BY <1>1 DEF VBegin
  <1>2. CASE LoadSuite
    BY <1>2 DEF LoadSuite
  <1>3. CASE CheckEntry
    BY <1>3 DEF CheckEntry
  <1>4. CASE Verdict
    BY <1>4 DEF Verdict
  <1>5. CASE LoadScenario
    BY <1>5 DEF LoadScenario
  <1>6. CASE CheckSource
    BY <1>6 DEF CheckSource
  <1>7. CASE OpenLibrary
    BY <1>7 DEF OpenLibrary
  <1>8. CASE Reload
    BY <1>8 DEF Reload
  <1>9. CASE Lookup
    BY <1>9 DEF Lookup, Annotate
  <1>10. CASE Answer
    BY <1>10 DEF Answer, Annotate
  <1>11. CASE UNCHANGED vVars
    BY <1>11 DEF vVars
  <1>12. CASE Cancel
    BY <1>12 DEF Cancel
  <1>13. CASE EditScenario
    <2>1. PICK n \in Names, c \in Contents : files' = [files EXCEPT ![n] = c]
      BY <1>13 DEF EditScenario
    <2>2. vpc # "idle" /\ vpc' = vpc /\ cmd' = cmd /\ k' = k /\ edits' = edits + 1
      BY <1>13 DEF EditScenario
    <2> QED
      BY <2>1, <2>2
  <1> QED
    BY <1>1, <1>2, <1>3, <1>4, <1>5, <1>6, <1>7, <1>8, <1>9, <1>10, <1>11, <1>12, <1>13
       DEF VerifyNext, VNext, LibraryMoves, vVars

LEMMA DecideKept ==
  ASSUME VTypes, DecideInv, [VerifyNext]_<<vars, vVars>>
  PROVE  DecideInv'
  <1> SUFFICES ASSUME ~canceled', edits' = 0 PROVE Decided'
    BY DEF DecideInv
  <1>1. ~canceled /\ edits = 0 /\ Decided /\ (vpc # "idle" => UNCHANGED <<cmd, files>>)
    BY InputsStay DEF DecideInv
  <1>2. vpc # "idle" => cmd \in Commands /\ files \in [Names -> Contents]
    BY DEF VTypes
  <1> USE DEF vInputs, vLocals, Exit, VGoto
  <1>3. CASE VBegin
    BY <1>1, <1>3 DEF VBegin, Decided
  <1>4. CASE LoadSuite
    <2>1. vpc = "load" /\ cmd.name = "suite" /\ UNCHANGED <<cmd, files, k, listed, total>>
      BY <1>4 DEF LoadSuite
    <2>2. k = 1 /\ listed = {} /\ total = 0 /\ cmd \in Commands /\ files \in [Names -> Contents]
      BY <1>1, <1>2, <2>1 DEF Decided
    <2>3. Sums[0] = 0
      BY <2>2, SumsAre
    <2>4. ListedUpTo(0) = {} /\ (RulesUpTo(0) <=> cmd.ok)
      BY DEF ListedUpTo, RulesUpTo
    <2>5. CASE ~cmd.loads /\ vpc' = "done" /\ code' = 1
      BY <2>5 DEF Decided
    <2>6. CASE /\ cmd.loads /\ Len(cmd.paths) \in 1..MaxScenarios /\ vpc' = "check"
               /\ valid' <=> cmd.ok
      <3>1. k - 1 = 0 /\ k <= Len(cmd.paths) + 1
        BY <2>2, <2>6
      <3> QED
        BY <2>1, <2>2, <2>3, <2>4, <2>6, <3>1, RulesStay DEF Decided
    <2>7. CASE cmd.loads /\ Len(cmd.paths) \notin 1..MaxScenarios /\ vpc' = "verdict" /\ ~valid'
      BY <2>1, <2>7, RulesStay DEF Decided, SuiteRules
    <2>8. cmd.ok \in BOOLEAN
      BY <2>2, PathTypes
    <2> QED
      BY <1>4, <2>5, <2>6, <2>7, <2>8 DEF LoadSuite
  <1>5. CASE CheckEntry
    <2>1. /\ vpc = "check" /\ UNCHANGED <<cmd, files>>
          /\ cmd \in Commands /\ files \in [Names -> Contents]
      BY <1>1, <1>2, <1>5 DEF CheckEntry
    <2>2. /\ cmd.name = "suite" /\ Len(cmd.paths) \in 1..MaxScenarios
          /\ k <= Len(cmd.paths) + 1
          /\ listed = ListedUpTo(k - 1) /\ (valid <=> RulesUpTo(k - 1))
          /\ valid => total = Sums[k - 1]
      BY <1>1, <2>1 DEF Decided
    <2>3. k \in Nat \ {0} /\ Len(cmd.paths) \in Nat /\ MaxTimeout \in Nat
      BY <2>1, PathTypes, VerifyAssumption DEF VTypes
    <2>4. CASE k > Len(cmd.paths)
      <3>1. vpc' = "verdict" /\ (valid' <=> valid /\ total <= MaxTimeout)
        <4>1. ~(k <= Len(cmd.paths))
          BY <2>3, <2>4
        <4>2. vpc' = "verdict" /\ valid' = (valid /\ total <= MaxTimeout)
          BY <1>5, <4>1 DEF CheckEntry
        <4> QED
          BY <4>2, Zenon
      <3>2. k - 1 = Len(cmd.paths)
        BY <2>2, <2>3, <2>4
      <3>3. valid' <=> SuiteRules
        BY <2>2, <3>1, <3>2 DEF SuiteRules
      <3> QED
        BY <2>1, <2>2, <3>1, <3>3, RulesStay DEF Decided
    <2>5. CASE k <= Len(cmd.paths)
      <3>1. /\ vpc' = "check" /\ k' = k + 1
            /\ valid' <=> valid /\ EntryValid(Path(k))
            /\ total' = IF EntryValid(Path(k)) THEN total + Scenario(Path(k)).timeout ELSE total
            /\ listed' = IF SafeRelative(Path(k)) THEN listed \cup {Clean(Path(k))} ELSE listed
        <4>1. ~(k > Len(cmd.paths))
          BY <2>3, <2>5
        <4>2. /\ vpc' = "check" /\ k' = k + 1
              /\ valid' = (valid /\ EntryValid(Path(k)))
              /\ total' = IF EntryValid(Path(k)) THEN total + Scenario(Path(k)).timeout
                          ELSE total
              /\ listed' = IF SafeRelative(Path(k)) THEN listed \cup {Clean(Path(k))}
                           ELSE listed
          BY <1>1, <1>5, <4>1, Zenon DEF CheckEntry
        <4> QED
          BY <4>2, Zenon
      <3>2. /\ k - 1 \in Nat /\ (k - 1) + 1 = k /\ k' - 1 = k
            /\ k \in 1..Len(cmd.paths) /\ k' <= Len(cmd.paths) + 1
        BY <2>3, <2>5, <3>1
      <3>3. EntryValid(Path(k)) <=> EntryRules(k) /\ Clean(Path(k)) \notin listed
        BY <1>1 DEF EntryValid, EntryRules, Fresh, CanceledWithin
      <3>4. /\ RulesUpTo(k) <=> RulesUpTo(k - 1) /\ EntryRules(k)
                                /\ Clean(Path(k)) \notin ListedUpTo(k - 1)
            /\ ListedUpTo(k) = IF SafeRelative(Path(k))
                               THEN ListedUpTo(k - 1) \cup {Clean(Path(k))}
                               ELSE ListedUpTo(k - 1)
        <4> DEFINE n == k - 1
        <4>1. n \in Nat /\ n + 1 = k
          BY <3>2
        <4> HIDE DEF n
        <4>2. /\ RulesUpTo(n + 1) <=> RulesUpTo(n) /\ EntryRules(n + 1)
                                      /\ Clean(Path(n + 1)) \notin ListedUpTo(n)
              /\ ListedUpTo(n + 1) = IF SafeRelative(Path(n + 1))
                                     THEN ListedUpTo(n) \cup {Clean(Path(n + 1))}
                                     ELSE ListedUpTo(n)
          BY <4>1, OneMoreEntry
        <4> QED
          BY <4>1, <4>2 DEF n
      <3>5. valid' <=> RulesUpTo(k)
        BY <2>2, <3>1, <3>3, <3>4
      <3>6. listed' = ListedUpTo(k)
        BY <2>2, <3>1, <3>4
      <3>7. valid' => total' = Sums[k]
        <4> SUFFICES ASSUME valid' PROVE total' = Sums[k]
          OBVIOUS
        <4>1. valid /\ EntryValid(Path(k))
          BY <3>1
        <4>2. Seconds[k] = Scenario(Path(k)).timeout
          BY <3>2, <4>1 DEF Seconds, EntryValid
        <4>3. Sums[k] = Sums[k - 1] + Seconds[k]
          BY <2>1, <3>2, SumsAre
        <4> QED
          BY <2>2, <3>1, <4>1, <4>2, <4>3
      <3> QED
        BY <2>1, <2>2, <3>1, <3>2, <3>5, <3>6, <3>7, RulesStay DEF Decided
    <2> QED
      BY <2>3, <2>4, <2>5
  <1>6. CASE Verdict
    <2>1. vpc = "verdict" /\ cmd.name = "suite" /\ (valid <=> SuiteRules) /\ UNCHANGED <<cmd, files>>
      BY <1>1, <1>6 DEF Verdict, Decided
    <2>2. valid <=> Rules
      BY <2>1 DEF Rules
    <2>3. \/ vpc' = "done" /\ code' = 2 /\ ~valid
          \/ vpc' = "done" /\ code' = 0 /\ valid
          \/ vpc' = "open" /\ valid
      BY <1>6 DEF Verdict
    <2> QED
      BY <2>1, <2>2, <2>3, RulesStay DEF Decided
  <1>7. CASE LoadScenario
    <2>1. vpc = "load" /\ cmd.name = "scenario" /\ UNCHANGED <<cmd, files>>
      BY <1>1, <1>7 DEF LoadScenario
    <2>2. \/ vpc' = "done" /\ code' = 1
          \/ vpc' = "done" /\ code' = 2 /\ ~ScenarioRules
          \/ vpc' = "source" /\ ScenarioRules /\ link' = Scenario(Path(1)).link
      BY <1>1, <1>7 DEF LoadScenario, ScenarioRules, CanceledWithin
    <2>3. ~ScenarioRules => ~Rules
      BY <2>1 DEF Rules
    <2> QED
      BY <2>1, <2>2, <2>3, RulesStay DEF Decided
  <1>8. CASE CheckSource
    <2>1. /\ vpc = "source" /\ cmd.name = "scenario" /\ ScenarioRules
          /\ link = Scenario(Path(1)).link /\ UNCHANGED <<cmd, files>>
      BY <1>1, <1>8 DEF CheckSource, Decided
    <2>2. \/ vpc' = "done" /\ code' = 1
          \/ vpc' = "done" /\ code' = 2 /\ cmd.source \in Fps /\ cmd.source # link
          \/ vpc' = "done" /\ code' = 0 /\ cmd.source \in {"none", link}
          \/ vpc' = "open" /\ cmd.source \in {"none", link}
      BY <1>8 DEF CheckSource
    <2>3. Rules <=> cmd.source \in {"none", link}
      BY <2>1 DEF Rules, SourceRules
    <2> QED
      BY <2>1, <2>2, <2>3, RulesStay, VerifyAssumption DEF Decided
  <1>9. CASE OpenLibrary \/ Reload \/ Lookup \/ Answer
    <2>1. vpc \in {"open", "reload", "lookup", "answer"} /\ UNCHANGED <<cmd, files>>
      BY <1>1, <1>9 DEF OpenLibrary, Reload, Lookup, Answer
    <2>2. \/ vpc' = "done" /\ code' \in {0, 1}
          \/ vpc' \in {"reload", "lookup", "answer"}
      BY <1>9 DEF OpenLibrary, Reload, Lookup, Answer, Annotate
    <2>3. Rules
      BY <1>1, <2>1 DEF Decided
    <2> QED
      BY <2>1, <2>2, <2>3, RulesStay DEF Decided
  <1>10. CASE UNCHANGED vVars
    BY <1>1, <1>10, RulesStay DEF Decided, vVars
  <1>11. CASE Cancel \/ EditScenario
    BY <1>1, <1>11 DEF Cancel, EditScenario, VTypes
  <1> QED
    BY <1>3, <1>4, <1>5, <1>6, <1>7, <1>8, <1>9, <1>10, <1>11
       DEF VerifyNext, VNext, LibraryMoves, vVars
-----------------------------------------------------------------------------
(* The rules of the code and the rules of the documentation                *)

\* The sum that the documentation limits is the one that the loop adds up.
TimeoutsOf(paths) == FoldLeft(LAMBDA sum, p : sum + Scenario(p).timeout, 0, paths)

LEMMA TimeoutsAreSums ==
  ASSUME cmd \in Commands, files \in [Names -> Contents],
         \A i \in 1..Len(cmd.paths) : Loads(Path(i))
  PROVE  TimeoutsOf(cmd.paths) = Sums[Len(cmd.paths)]
  <1> DEFINE n == Len(cmd.paths)
             Raw(g) == [S \in SUBSET (1..n) |->
                          IF S = {} THEN 0
                          ELSE g[S \ {Max(S)}] + Scenario(cmd.paths[Max(S)]).timeout]
             G == CHOOSE g : g = Raw(g)
  <1>1. n \in Nat /\ DOMAIN cmd.paths = 1..n
    BY VerifyAssumption, LenProperties
  <1>2. TimeoutsOf(cmd.paths) = G[1..n]
    BY <1>1 DEF TimeoutsOf, FoldLeft, MapThenFoldSet
  <1>3. \A i \in 1..n : Seconds[i] = Scenario(cmd.paths[i]).timeout
    BY DEF Seconds, Path
  <1>4. Seconds \in [1..n -> Nat] /\ FoldRun(n, Nat, Add, 0, Seconds, Sums)
    BY SumsAre
  <1> HIDE DEF n
  <1>5. ASSUME NEW S \in SUBSET (1..n), S # {} PROVE Max(S) \in 1..n
    BY <1>1, <1>5, MaxIsIn
  <1>6. \E g : g = Raw(g)
    <2>1. PICK g \in [SUBSET (1..n) -> Nat] :
            \A S \in SUBSET (1..n) :
              g[S] = IF S = {} THEN 0 ELSE g[S \ {Max(S)}] + Seconds[Max(S)]
      BY <1>1, <1>4, SumExists
    <2>2. ASSUME NEW S \in SUBSET (1..n) PROVE g[S] = Raw(g)[S]
      BY <1>3, <1>5, <2>1
    <2>3. g = Raw(g)
      BY <2>2
    <2> QED
      BY <2>3
  <1>7. G = Raw(G)
    <2> HIDE DEF Raw
    <2> QED
      BY <1>6
  <1>8. Add \in [Nat \X Nat -> Nat] /\ \A x, y \in Nat : Add[<<x, y>>] = x + y
    BY DEF Add
  <1>9. IsFold(n, Nat, Add, 0, Seconds, G)
    <2> HIDE DEF G
    <2>1. G[{}] = 0
      BY <1>7
    <2>2. ASSUME NEW S \in SUBSET (1..n), S # {}, G[S \ {Max(S)}] \in Nat
          PROVE  G[S] = Add[<<G[S \ {Max(S)}], Seconds[Max(S)]>>]
      <3>1. Seconds[Max(S)] \in Nat /\ Seconds[Max(S)] = Scenario(cmd.paths[Max(S)]).timeout
        BY <1>3, <1>4, <1>5, <2>2
      <3>2. G[S] = G[S \ {Max(S)}] + Scenario(cmd.paths[Max(S)]).timeout
        BY <1>7, <2>2
      <3> QED
        BY <1>8, <2>2, <3>1, <3>2
    <2> QED
      BY <2>1, <2>2 DEF IsFold
  <1>10. Folder(n, Nat, Nat, Add, 0, Seconds)
    BY <1>1, <1>4, <1>8 DEF Folder
  <1>11. PICK r : FoldRun(n, Nat, Add, 0, Seconds, r) /\ Folded(n, G) = r[n]
    <2> HIDE DEF G
    <2> QED
      BY <1>9, <1>10, FoldIsRun
  <1>12. r[n] = Sums[n]
    <2> HIDE DEF G, Sums
    <2>1. n <= n
      BY <1>1
    <2> QED
      BY <1>1, <1>4, <1>11, <2>1, SumsAgree
  <1> QED
    BY <1>2, <1>11, <1>12 DEF Folded, n

\* What the documentation requires of a suite, with that sum.
LEMMA SuiteRulesAre ==
  ASSUME cmd \in Commands, files \in [Names -> Contents]
  PROVE  SuiteAcceptable <=>
           /\ cmd.ok /\ Len(cmd.paths) \in 1..MaxScenarios
           /\ \A i \in 1..Len(cmd.paths) :
                SafeRelative(Path(i)) /\ ScenarioAcceptable(Path(i))
           /\ \A i, j \in 1..Len(cmd.paths) : Clean(Path(i)) = Clean(Path(j)) => i = j
           /\ Sums[Len(cmd.paths)] <= MaxTimeout
  <1>1. DOMAIN cmd.paths = 1..Len(cmd.paths)
    BY VerifyAssumption, LenProperties
  <1>2. SuiteAcceptable <=>
           /\ cmd.ok /\ Len(cmd.paths) \in 1..MaxScenarios
           /\ \A i \in 1..Len(cmd.paths) :
                SafeRelative(Path(i)) /\ ScenarioAcceptable(Path(i))
           /\ \A i, j \in 1..Len(cmd.paths) : Clean(Path(i)) = Clean(Path(j)) => i = j
           /\ TimeoutsOf(cmd.paths) <= MaxTimeout
    BY <1>1, Zenon DEF SuiteAcceptable, TimeoutsOf
  <1>3. (\A i \in 1..Len(cmd.paths) : ScenarioAcceptable(Path(i)))
          => TimeoutsOf(cmd.paths) = Sums[Len(cmd.paths)]
    BY TimeoutsAreSums DEF ScenarioAcceptable
  <1> QED
    BY <1>2, <1>3

\* What passes the rules of the code is acceptable.
LEMMA RulesAccept ==
  ASSUME cmd \in Commands, files \in [Names -> Contents], Rules
  PROVE  Acceptable
  <1>1. CASE cmd.name = "suite"
    <2>1. SuiteRules
      BY <1>1 DEF Rules
    <2>2. ASSUME NEW i \in 1..Len(cmd.paths)
          PROVE  SafeRelative(Path(i)) /\ ScenarioAcceptable(Path(i))
      BY <2>1 DEF SuiteRules, RulesUpTo, EntryRules, ScenarioAcceptable, ScenarioValid,
         SourcesBelow
    <2>3. SuiteAcceptable
      BY <2>1, <2>2, SuiteRulesAre DEF SuiteRules, RulesUpTo
    <2> QED
      BY <1>1, <2>3 DEF Acceptable
  <1>2. CASE cmd.name # "suite"
    BY <1>2 DEF Rules, ScenarioRules, SourceRules, Acceptable, ScenarioAcceptable, ScenarioValid,
       SourcesBelow
  <1> QED
    BY <1>1, <1>2

\* The documents of a command line lie in directories that have a name.
Anchored(c) ==
    IF c.name = "suite" THEN Clean(c.base).parts # <<>>
    ELSE Len(Join(c.base, c.paths[1]).parts) > 1

\* The directory of a document whose path has two elements has a name.
LEMMA NamedDirectory ==
  ASSUME NEW path \in Paths, Tidied(path.abs, path.parts), Len(path.parts) > 1
  PROVE  Dir(path) \in Paths /\ Clean(Dir(path)).parts # <<>>
  <1>1. path.parts \in Seq(Part) /\ Len(path.parts) \in Nat
    BY LenProperties DEF Paths
  <1>2. path.parts # <<>>
    BY <1>1, EmptySeq
  <1>3. Dir(path) \in Paths /\ Clean(Dir(path)) = Dir(path)
    BY <1>2, DirOfDocument
  <1>4. Len(Front(path.parts)) = Len(path.parts) - 1
    BY <1>1, <1>2, FrontProperties
  <1>5. Dir(path).parts = Front(path.parts)
    BY DEF Dir, Paths
  <1>6. Front(path.parts) # <<>>
    BY <1>1, <1>4, EmptySeq
  <1> QED
    BY <1>3, <1>5, <1>6

\* A scenario that the documentation accepts passes the rules of the code.
LEMMA ScenarioPasses ==
  ASSUME cmd \in Commands, files \in [Names -> Contents], NEW p \in Paths,
         Tidied(Join(cmd.base, p).abs, Join(cmd.base, p).parts), Join(cmd.base, p) \in Paths,
         Len(Join(cmd.base, p).parts) > 1, ScenarioAcceptable(p)
  PROVE  Loads(p) /\ ScenarioValid(p)
  <1> DEFINE dir == Dir(Join(cmd.base, p))
  <1>1. dir \in Paths /\ Clean(dir).parts # <<>>
    BY NamedDirectory
  <1>2. Loads(p) /\ Scenario(p).ok /\ SourcesBelow(p)
    BY DEF ScenarioAcceptable
  <1>3. ASSUME NEW s \in Range(Scenario(p).sources) PROVE SafeRelative(s) /\ Contained(dir, s)
    <2>1. files[Clean(p)] \in Contents
      BY <1>2 DEF Loads
    <2>2. Scenario(p).sources \in Seq(Paths)
      BY <2>1, VerifyAssumption DEF Scenario
    <2>3. s \in Paths
      BY <2>2 DEF Range
    <2>4. SafeRelative(s)
      BY <1>2 DEF SourcesBelow
    <2> HIDE DEF dir
    <2> QED
      BY <1>1, <2>3, <2>4, ContainedBelow
  <1> QED
    BY <1>2, <1>3 DEF ScenarioValid

LEMMA AcceptRules ==
  ASSUME cmd \in Commands, files \in [Names -> Contents], Anchored(cmd), Acceptable
  PROVE  Rules
  <1>1. cmd.base \in Paths /\ \A i \in 1..Len(cmd.paths) : Path(i) \in Paths
    BY PathTypes
  <1>2. CASE cmd.name = "suite"
    <2>1. Clean(cmd.base).parts # <<>> /\ SuiteAcceptable
      BY <1>2 DEF Anchored, Acceptable
    <2>2. /\ cmd.ok /\ Len(cmd.paths) \in 1..MaxScenarios
          /\ \A i \in 1..Len(cmd.paths) :
               SafeRelative(Path(i)) /\ ScenarioAcceptable(Path(i))
          /\ \A i, j \in 1..Len(cmd.paths) : Clean(Path(i)) = Clean(Path(j)) => i = j
          /\ Sums[Len(cmd.paths)] <= MaxTimeout
      BY <2>1, SuiteRulesAre
    <2>3. ASSUME NEW i \in 1..Len(cmd.paths) PROVE EntryRules(i)
      <3> DEFINE p == Path(i)
                 B == Clean(cmd.base).parts
                 C == Clean(p).parts
                 j == Join(cmd.base, p)
      <3>1. p \in Paths /\ SafeRelative(p) /\ ScenarioAcceptable(p)
        BY <1>1, <2>2
      <3>2. Contained(cmd.base, p)
        BY <1>1, <2>1, <3>1, ContainedBelow
      <3>3. j \in Paths /\ j.abs = cmd.base.abs /\ j.parts = B \o C /\ Tidied(j.abs, j.parts)
        BY <1>1, <3>1, JoinIsBelow
      <3>4. B \in Seq(Part) /\ C \in Seq(Part) /\ B # <<>> /\ C # <<>>
        BY <1>1, <2>1, <3>1, CleanIsRun, SafePath DEF Paths
      <3> HIDE DEF B, C, p
      <3>5. Len(B) \in Nat /\ Len(C) \in Nat /\ Len(B) > 0 /\ Len(C) > 0
        BY <3>4, LenProperties, EmptySeq
      <3>6. Len(B \o C) = Len(B) + Len(C)
        BY <3>4, ConcatProperties
      <3>7. Len(j.parts) > 1
        BY <3>3, <3>5, <3>6
      <3>8. Loads(p) /\ ScenarioValid(p)
        BY <3>1, <3>3, <3>7, ScenarioPasses
      <3> QED
        BY <3>1, <3>2, <3>8 DEF EntryRules, p
    <2>4. SuiteRules
      BY <2>2, <2>3 DEF SuiteRules, RulesUpTo
    <2> QED
      BY <1>2, <2>4 DEF Rules
  <1>3. CASE cmd.name = "scenario"
    <2> DEFINE p == Path(1)
               j == Join(cmd.base, p)
    <2>1. p \in Paths /\ ScenarioAcceptable(p) /\ Len(j.parts) > 1 /\ SourceRules
      <3>1. 1 \in 1..Len(cmd.paths)
        <4>1. Len(cmd.paths) = 1
          BY <1>3, PathTypes
        <4> QED
          BY <4>1
      <3>2. Len(j.parts) > 1
        BY <1>3 DEF Anchored, Path
      <3> QED
        BY <1>1, <1>3, <3>1, <3>2 DEF Acceptable, SourceRules
    <2>2. j \in Paths /\ Tidied(j.abs, j.parts)
      <3> DEFINE c == [cmd.base EXCEPT !.parts = @ \o p.parts]
      <3>1. c \in Paths
        <4>1. cmd.base.parts \o p.parts \in Seq(Part)
          BY <1>1, <2>1, ConcatProperties DEF Paths
        <4> QED
          BY <1>1, <4>1 DEF Paths
      <3>2. j = Clean(c)
        BY DEF Join
      <3> HIDE DEF c, j
      <3>3. Clean(c) \in Paths /\ Clean(c).abs = c.abs /\ Tidied(c.abs, Clean(c).parts)
        BY <3>1, CleanIsRun, CleanIsTidied
      <3> QED
        BY <3>2, <3>3
    <2>3. Loads(p) /\ ScenarioValid(p)
      BY <2>1, <2>2, ScenarioPasses
    <2> QED
      BY <1>3, <2>1, <2>3 DEF Rules, ScenarioRules
  <1> QED
    BY <1>2, <1>3, PathTypes

LEMMA DecideAtFirst == VerifyInit => VTypes /\ DecideInv
  BY DEF VerifyInit, VInit, VTypes, DecideInv, Decided

LEMMA DecideInvariant == VerifySpec => [](VTypes /\ DecideInv)
  <1>1. VTypes /\ DecideInv /\ [VerifyNext]_<<vars, vVars>> => (VTypes /\ DecideInv)'
    BY InputsStay, DecideKept
  <1> QED
    BY <1>1, DecideAtFirst, PTL DEF VerifySpec

\* Exit code 0 is earned: in every directory, a command that nobody disturbs
\* accepts only what the documentation accepts, whatever the library does
\* meanwhile (Validate, CheckSourceFingerprint, suiteLibraryCrossReference).
THEOREM AcceptedIsAcceptable ==
  VerifySpec => [](Undisturbed /\ code = 0 => Acceptable)
  <1>1. VTypes /\ DecideInv => (Undisturbed /\ code = 0 => Acceptable)
    BY RulesAccept DEF VTypes, DecideInv, Decided, Undisturbed
  <1> QED
    BY <1>1, DecideInvariant, PTL

\* The documents alone decide between the exit codes 0 and 2, if they lie in
\* directories that have a name; the comparison of prefixes in Validate
\* takes the current directory, whose text is ".", for another one.
THEOREM DocumentsAloneDecide ==
  VerifySpec => [](Anchored(cmd) => DocumentsDecide)
  <1>1. VTypes /\ DecideInv => (Anchored(cmd) => DocumentsDecide)
    BY RulesAccept, AcceptRules
       DEF VTypes, DecideInv, Decided, Undisturbed, DocumentsDecide, ValidIsAccepted
  <1> QED
    BY <1>1, DecideInvariant, PTL
=============================================================================
