---------------------------- MODULE EvidenceStore ----------------------------
(***************************************************************************)
(* The content-addressed evidence store (internal/evidence): `evidence     *)
(* store`, `verify`, `list` and `inspect` as processes that share a store  *)
(* root without a lock, while the source files are edited.                 *)
(*                                                                         *)
(* Bytes are sequences of chunks and a digest is the sequence it is the    *)
(* hash of (SHA-256 is taken to be collision free); limits count chunks.   *)
(* A source is read one chunk at a time, so an edit during the read may    *)
(* produce bytes that no version of the file ever had.  Temporary files    *)
(* have unique names in .tmp, which no command reads, and are left out.    *)
(***************************************************************************)
EXTENDS Integers, Sequences, FiniteSets

CONSTANTS
    Putters,        \* processes running `evidence store`
    Readers,        \* processes running `evidence verify`, `list`, `inspect`
    Sources,        \* paths of evidence files
    Chunks,
    Versions,       \* byte strings a source file may hold
    Damages,        \* files a second actor may leave at an object's path
    Documents,      \* sequences of declared digests, evidence[] of a document
    MaxLost,        \* bound on the digests the second actor touches
    MaxObjectSize,  \* in chunks (50 MiB in the code)
    MaxEntries,     \* MaxEntriesPerCommand (100 in the code)
    MaxTotalBytes   \* MaxTotalVerifyBytes, in chunks (500 MiB in the code)

\* Byte strings that may be stored, which are also the digests.
Contents == UNION {[1..n -> Chunks] : n \in 0..MaxObjectSize}

Regular(bytes) == [kind |-> "regular", bytes |-> bytes]
Absent == [kind |-> "absent", bytes |-> <<>>]
Irregular == [kind |-> "irregular", bytes |-> <<>>]  \* symlink, directory, ...

Files == {Absent, Irregular} \cup {Regular(b) : b \in Contents \cup Versions}

\* A declared digest is one that some storable bytes could have, and a second
\* actor leaves files of the kinds a user has.
ASSUME EvidenceAssumption ==
    /\ MaxObjectSize \in Nat /\ MaxEntries \in Nat /\ MaxTotalBytes \in Nat
    /\ Sources # {}
    /\ Versions \subseteq Seq(Chunks)
    /\ Documents \subseteq Seq(Contents)
    /\ Damages \subseteq Files

-----------------------------------------------------------------------------
VARIABLES
    obj,        \* the file at each digest's path
    src,        \* the source files
    pc, from, buf,          \* `evidence store` processes
    rdPc, rdDoc, rdOp, rdStatus, rdTodo, rdTotal, rdResult,   \* readers
    acked,      \* history: digests a put reported as stored or present
    rdKnown,    \* history: acked when the reader began
    rdDamaged,  \* history: digests damaged ever since the reader began
    rdRead,     \* history: chunks the reader hashed
    lost        \* history: digests whose object a second actor touched

putVars == <<pc, from, buf>>
rdReport == <<rdDoc, rdOp, rdStatus, rdKnown, rdDamaged>>
rdVars == <<rdPc, rdDoc, rdOp, rdStatus, rdTodo, rdTotal, rdResult, rdKnown,
            rdDamaged, rdRead>>
vars == <<obj, src, putVars, rdVars, acked, lost>>

PutPc == {"idle", "lstat", "open", "copy", "stat", "recheck", "rename", "report"}

Statuses == {"unchecked", "candidate", "ok", "present", "missing", "corrupted",
             "error"}

TypeOK ==
    /\ obj \in [Contents -> Files]
    /\ src \in [Sources -> Files]
    /\ pc \in [Putters -> PutPc]
    /\ from \in [Putters -> Sources]
    /\ buf \in [Putters -> Contents \cup [1..MaxObjectSize + 1 -> Chunks]]
    /\ \A p \in Putters : pc[p] \notin {"idle", "lstat", "open", "copy"} => buf[p] \in Contents
    /\ rdPc \in [Readers -> {"idle", "stat", "hash"}]
    /\ rdDoc \in [Readers -> Documents \cup {<<d>> : d \in Contents}]
    /\ rdOp \in [Readers -> {"verify", "list", "inspect"}]
    /\ DOMAIN rdStatus = Readers
    /\ \A r \in Readers : rdStatus[r] \in [DOMAIN rdDoc[r] -> Statuses]
    /\ rdTodo \in [Readers -> SUBSET Contents]
    /\ rdTotal \in [Readers -> Nat]
    /\ rdResult \in [Readers -> {"none", "done", "tooManyEntries",
                                 "tooManyBytes", "failed"}]
    /\ acked \subseteq Contents
    /\ rdKnown \in [Readers -> SUBSET Contents]
    /\ rdDamaged \in [Readers -> SUBSET Contents]
    /\ rdRead \in [Readers -> Nat]
    /\ lost \subseteq Contents

AnySource == CHOOSE s \in Sources : TRUE

Init ==
    /\ obj = [d \in Contents |-> Absent]
    /\ src \in [Sources -> {Absent, Irregular} \cup {Regular(b) : b \in Versions}]
    /\ pc = [p \in Putters |-> "idle"]
    /\ from = [p \in Putters |-> AnySource]
    /\ buf = [p \in Putters |-> <<>>]
    /\ rdPc = [r \in Readers |-> "idle"]
    /\ rdDoc = [r \in Readers |-> <<<<>>>>]
    /\ rdOp = [r \in Readers |-> "list"]
    /\ rdStatus = [r \in Readers |-> <<"unchecked">>]
    /\ rdTodo = [r \in Readers |-> {}]
    /\ rdTotal = [r \in Readers |-> 0]
    /\ rdResult = [r \in Readers |-> "none"]
    /\ acked = {}
    /\ rdKnown = [r \in Readers |-> {}]
    /\ rdDamaged = [r \in Readers |-> {}]
    /\ rdRead = [r \in Readers |-> 0]
    /\ lost = {}

-----------------------------------------------------------------------------
\* checkObject: what re-hashing the file at d's path says.
Check(d) ==
    CASE obj[d] = Absent -> "missing"
      [] obj[d] = Regular(d) -> "ok"
      [] OTHER -> "corrupted"

-----------------------------------------------------------------------------
(* evidence store                                                          *)

Goto(p, label) == pc' = [pc EXCEPT ![p] = label]

\* Put returns.  Which error it reports (noted beside each return) is not
\* kept, only that it is one: the digest is not acknowledged.
Return(p) ==
    /\ Goto(p, "idle")
    /\ buf' = [buf EXCEPT ![p] = <<>>]
    /\ from' = [from EXCEPT ![p] = AnySource]

PutBegin(p, s) ==
    /\ pc[p] = "idle"
    /\ Goto(p, "lstat")
    /\ from' = [from EXCEPT ![p] = s]
    /\ UNCHANGED <<obj, src, buf, rdVars, acked>>

PutLstat(p) ==
    /\ pc[p] = "lstat"
    /\ \/ /\ src[from[p]] = Absent
          /\ Return(p)                  \* sourceMissing
       \/ /\ src[from[p]] = Irregular
          /\ Return(p)                  \* unsafeSource
       \/ /\ src[from[p]].kind = "regular"
          /\ Goto(p, "open")
          /\ UNCHANGED <<from, buf>>
    /\ UNCHANGED <<obj, src, rdVars, acked>>

\* Open, ensureDirs and CreateTemp: the source may be gone by now.
PutOpen(p) ==
    /\ pc[p] = "open"
    /\ \/ /\ src[from[p]] = Absent
          /\ Return(p)                  \* failed
       \/ /\ src[from[p]] # Absent
          /\ Goto(p, "copy")
          /\ UNCHANGED <<from, buf>>
    /\ UNCHANGED <<obj, src, rdVars, acked>>

\* hashLimitedCopy reads up to limit + 1 to notice a file over the limit.
TooLarge(n) == n > MaxObjectSize

\* One chunk of the streamed copy, or its end.
PutCopy(p) ==
    LET bytes == src[from[p]].bytes
        n == Len(buf[p])
    IN
    /\ pc[p] = "copy"
    /\ \/ /\ ~TooLarge(n)
          /\ n < Len(bytes)
          /\ buf' = [buf EXCEPT ![p] = Append(@, bytes[n + 1])]
          /\ UNCHANGED <<pc, from>>
       \/ /\ TooLarge(n)
          /\ Return(p)                  \* tooLarge
       \/ /\ ~TooLarge(n)
          /\ n >= Len(bytes)
          /\ Goto(p, "stat")
          /\ UNCHANGED <<from, buf>>
    /\ UNCHANGED <<obj, src, rdVars, acked>>

\* Mutant: the digest is taken from a second read of the source.
BugDigest(p) ==
    IF src[from[p]].bytes \in Contents THEN src[from[p]].bytes ELSE buf[p]

\* The digest of the bytes that went into the temporary file.
Digest(p) == buf[p]

\* Mutant: an object that does not verify is replaced by the good bytes.
BugPutStatRepairs(p) ==
    /\ pc[p] = "stat"
    /\ Goto(p, IF Check(Digest(p)) = "ok" THEN "recheck" ELSE "rename")
    /\ UNCHANGED <<obj, src, from, buf, rdVars, acked>>

\* Sync, Close, MkdirAll of the shard, Lstat of the final path.
PutStat(p) ==
    /\ pc[p] = "stat"
    /\ \/ /\ obj[Digest(p)] = Absent
          /\ Goto(p, "rename")
          /\ UNCHANGED <<from, buf>>
       \/ /\ obj[Digest(p)] = Irregular
          /\ Return(p)                  \* corrupted
       \/ /\ obj[Digest(p)].kind = "regular"
          /\ Goto(p, "recheck")
          /\ UNCHANGED <<from, buf>>
    /\ UNCHANGED <<obj, src, rdVars, acked>>

\* The existing object is re-hashed before it is reported as present.
PutRecheck(p) ==
    /\ pc[p] = "recheck"
    /\ \/ /\ Check(Digest(p)) = "ok"
          /\ acked' = acked \cup {Digest(p)}
          /\ Return(p)                  \* alreadyPresent
       \/ /\ Check(Digest(p)) # "ok"
          /\ Return(p)                  \* corrupted
          /\ UNCHANGED acked
    /\ UNCHANGED <<obj, src, rdVars>>

\* The rename replaces a regular file that appeared meanwhile; over a
\* directory it fails (PutFails).
PutRename(p) ==
    /\ pc[p] = "rename"
    /\ obj' = [obj EXCEPT ![Digest(p)] = Regular(buf[p])]
    /\ Goto(p, "report")
    /\ rdDamaged' = [r \in Readers |-> rdDamaged[r] \ {Digest(p)}]
    /\ UNCHANGED <<src, from, buf, rdPc, rdDoc, rdOp, rdStatus,
                   rdTodo, rdTotal, rdResult, rdKnown, rdRead, acked>>

PutReport(p) ==
    /\ pc[p] = "report"
    /\ acked' = acked \cup {Digest(p)}
    /\ Return(p)                        \* stored
    /\ UNCHANGED <<obj, src, rdVars>>

\* An I/O error, or the command timeout seen between two chunks.
PutFails(p) ==
    /\ pc[p] \notin {"idle", "report"}
    /\ Return(p)                        \* failed
    /\ UNCHANGED <<obj, src, rdVars, acked>>

PutKilled(p) ==
    /\ pc[p] # "idle"
    /\ Return(p)                        \* killed
    /\ UNCHANGED <<obj, src, rdVars, acked>>

PutNext == \E p \in Putters :
    \/ \E s \in Sources : PutBegin(p, s)
    \/ PutLstat(p)
    \/ PutOpen(p)
    \/ PutCopy(p)
    \/ PutStat(p)
    \/ PutRecheck(p)
    \/ PutRename(p)
    \/ PutReport(p)
    \/ PutFails(p)
    \/ PutKilled(p)

-----------------------------------------------------------------------------
(* evidence verify, list and inspect                                       *)

RdGoto(r, label) == rdPc' = [rdPc EXCEPT ![r] = label]

\* The command ends; only a report survives it.
RdReturn(r, outcome) ==
    /\ RdGoto(r, "idle")
    /\ rdResult' = [rdResult EXCEPT ![r] = outcome]
    /\ rdTodo' = [rdTodo EXCEPT ![r] = {}]
    /\ rdTotal' = [rdTotal EXCEPT ![r] = 0]
    /\ rdRead' = [rdRead EXCEPT ![r] = 0]
    /\ IF outcome = "done"
       THEN UNCHANGED <<rdDoc, rdOp, rdStatus, rdKnown, rdDamaged>>
       ELSE /\ rdDoc' = [rdDoc EXCEPT ![r] = <<<<>>>>]
            /\ rdOp' = [rdOp EXCEPT ![r] = "list"]
            /\ rdStatus' = [rdStatus EXCEPT ![r] = <<"unchecked">>]
            /\ rdKnown' = [rdKnown EXCEPT ![r] = {}]
            /\ rdDamaged' = [rdDamaged EXCEPT ![r] = {}]

RdUnchanged == UNCHANGED <<obj, src, putVars, acked>>

Declared(entries) == {entries[i] : i \in DOMAIN entries}

\* A valid document's digests parse: validate has run.
RdBegin(r, op, doc) ==
    /\ rdPc[r] = "idle"
    /\ IF op # "inspect" /\ Len(doc) > MaxEntries
       THEN RdReturn(r, "tooManyEntries")
       ELSE /\ RdGoto(r, IF op = "inspect" THEN "hash" ELSE "stat")
            /\ rdResult' = [rdResult EXCEPT ![r] = "none"]
            /\ rdOp' = [rdOp EXCEPT ![r] = op]
            /\ rdDoc' = [rdDoc EXCEPT ![r] = doc]
            /\ rdStatus' = [rdStatus EXCEPT ![r] = [i \in DOMAIN doc |->
                               IF op = "inspect" THEN "candidate"
                               ELSE "unchecked"]]
            /\ rdTodo' = [rdTodo EXCEPT ![r] =
                               IF op = "inspect" THEN {doc[1]} ELSE {}]
            /\ rdKnown' = [rdKnown EXCEPT ![r] = acked \cap Declared(doc)]
            /\ rdDamaged' = [rdDamaged EXCEPT ![r] =
                               {d \in Declared(doc) : Check(d) # "ok"}]
            /\ UNCHANGED <<rdTotal, rdRead>>
    /\ RdUnchanged

\* The entries the pass has not reached yet.
Unchecked(r) == {i \in DOMAIN rdDoc[r] : rdStatus[r][i] = "unchecked"}

\* What one Lstat says of an entry, for verify and for list.
StatOf(op, d) ==
    CASE obj[d] = Absent -> "missing"
      [] obj[d] = Irregular -> IF op = "list" THEN "missing" ELSE "corrupted"
      [] OTHER -> IF op = "list" THEN "present" ELSE "candidate"

\* The status, or "error" when Lstat, Open or Read fails.
Outcomes(status) == {status, "error"}

\* The size the pre-pass adds for a candidate: each digest counts once.
Counted(r, d) == IF d \in rdTodo[r] THEN 0 ELSE Len(obj[d].bytes)

\* The next entry of the content-free pass; then list is done.
RdStat(r) ==
    /\ rdPc[r] = "stat"
    /\ \E i \in Unchecked(r) : \E status \in Outcomes(StatOf(rdOp[r], rdDoc[r][i])) :
        LET d == rdDoc[r][i] IN
        /\ \A j \in Unchecked(r) : i <= j
        /\ rdStatus' = [rdStatus EXCEPT ![r][i] = status]
        /\ IF status = "candidate"
           THEN /\ rdTotal' = [rdTotal EXCEPT ![r] = @ + Counted(r, d)]
                /\ rdTodo' = [rdTodo EXCEPT ![r] = @ \cup {d}]
           ELSE UNCHANGED <<rdTotal, rdTodo>>
    /\ UNCHANGED <<rdPc, rdDoc, rdOp, rdResult, rdKnown, rdDamaged, rdRead>>
    /\ RdUnchanged

\* Mutant: the aggregate limit is not enforced.
BugRdStatEnd(r) ==
    /\ rdPc[r] = "stat"
    /\ Unchecked(r) = {}
    /\ IF rdOp[r] = "list"
       THEN RdReturn(r, "done")
       ELSE /\ RdGoto(r, "hash")
            /\ UNCHANGED <<rdResult, rdReport, rdTodo, rdTotal, rdRead>>
    /\ RdUnchanged

\* The end of the pass: checkTotalBytes before any content is read.
RdStatEnd(r) ==
    /\ rdPc[r] = "stat"
    /\ Unchecked(r) = {}
    /\ \/ /\ rdOp[r] = "list"
          /\ RdReturn(r, "done")
       \/ /\ rdOp[r] = "verify"
          /\ rdTotal[r] > MaxTotalBytes
          /\ RdReturn(r, "tooManyBytes")
       \/ /\ rdOp[r] = "verify"
          /\ rdTotal[r] <= MaxTotalBytes
          /\ RdGoto(r, "hash")
          /\ UNCHANGED <<rdResult, rdReport, rdTodo, rdTotal, rdRead>>
    /\ RdUnchanged

\* Mutant: the outcome is given to the first entry of the digest only.
BugRecord(r, d, outcome) ==
    LET same == {i \in DOMAIN rdDoc[r] :
                    rdDoc[r][i] = d /\ rdStatus[r][i] = "candidate"}
    IN  [i \in DOMAIN rdDoc[r] |->
            IF i \in same /\ \A j \in same : i <= j THEN outcome
            ELSE rdStatus[r][i]]

\* Mutant: the size found by the pre-pass is taken as proof of the content.
BugRecordUnread(r, d, outcome) ==
    [i \in DOMAIN rdDoc[r] |->
        IF rdDoc[r][i] = d /\ rdStatus[r][i] = "candidate" /\ outcome # "missing"
        THEN "ok" ELSE rdStatus[r][i]]

\* Every candidate entry gets the one outcome of its digest.
Record(r, d, outcome) ==
    [i \in DOMAIN rdDoc[r] |->
        IF rdDoc[r][i] = d /\ rdStatus[r][i] = "candidate" THEN outcome
        ELSE rdStatus[r][i]]

HashedChunks(d) ==
    IF Len(obj[d].bytes) > MaxObjectSize THEN MaxObjectSize + 1
    ELSE Len(obj[d].bytes)

\* One distinct digest is re-hashed, or all of them have been.
RdHash(r) ==
    /\ rdPc[r] = "hash"
    /\ \/ /\ rdTodo[r] = {}
          /\ RdReturn(r, "done")
       \/ \E d \in rdTodo[r] : \E outcome \in Outcomes(Check(d)) :
            /\ rdStatus' = [rdStatus EXCEPT ![r] = Record(r, d, outcome)]
            /\ rdTodo' = [rdTodo EXCEPT ![r] = @ \ {d}]
            /\ rdRead' = [rdRead EXCEPT ![r] = @ + HashedChunks(d)]
            /\ UNCHANGED <<rdPc, rdResult, rdDoc, rdOp, rdTotal, rdKnown,
                           rdDamaged>>
    /\ RdUnchanged

\* The command timeout or Ctrl-C: no partial result.
RdFails(r) ==
    /\ rdPc[r] # "idle"
    /\ RdReturn(r, "failed")
    /\ RdUnchanged

RdNext == \E r \in Readers :
    \/ \E op \in {"verify", "list"}, doc \in Documents : RdBegin(r, op, doc)
    \/ \E d \in Contents : RdBegin(r, "inspect", <<d>>)
    \/ RdStat(r)
    \/ RdStatEnd(r)
    \/ RdHash(r)
    \/ RdFails(r)

\* VerifyResult.AllOK, the condition of exit code 0.
AllOK(r) == \A i \in DOMAIN rdDoc[r] : rdStatus[r][i] = "ok"

-----------------------------------------------------------------------------
\* The source files belong to the user: written in place at any time,
\* replaced or removed while no putter has them open.  A replacement between
\* Lstat and Open by something that is no regular file is left out.
Edit(s) ==
    /\ \/ /\ src[s].kind = "regular"
          /\ \E b \in Versions : src' = [src EXCEPT ![s] = Regular(b)]
       \/ /\ \A p \in Putters : from[p] = s => pc[p] # "copy"
          /\ src' = [src EXCEPT ![s] = Absent]
       \/ /\ \A p \in Putters : from[p] = s => pc[p] \notin {"open", "copy"}
          /\ \E f \in {Irregular} \cup {Regular(b) : b \in Versions} :
                src' = [src EXCEPT ![s] = f]
    /\ UNCHANGED <<obj, putVars, rdVars, acked>>

Next == (PutNext \/ RdNext \/ \E s \in Sources : Edit(s)) /\ UNCHANGED lost

Spec == Init /\ [][Next]_vars

\* A second actor that bypasses the tool damages or removes an object.  What
\* it does between a putter's Lstat of the final path and its rename is left
\* out: the rename replaces it (docs/evidence-storage.md, TOCTOU).
Tamper(d) ==
    /\ \A p \in Putters : pc[p] # "rename"
    /\ obj[d] # Absent
    /\ Cardinality(lost \cup {d}) <= MaxLost
    /\ \E f \in Damages \ {Regular(d)} : obj' = [obj EXCEPT ![d] = f]
    /\ lost' = lost \cup {d}
    /\ UNCHANGED <<src, putVars, rdVars, acked>>

TamperSpec == Init /\ [][Next \/ \E d \in Contents : Tamper(d)]_vars

-----------------------------------------------------------------------------
(* Properties: any interleaving, edit, I/O error, kill or damage           *)

\* Evidence acknowledged before a verify, inspect or list began is found by
\* it, wherever its digest appears among the entries, unless its file was
\* unreadable or a second actor touched it.
KnownIsFound ==
    \A r \in Readers : rdResult[r] = "done" =>
        \A i \in DOMAIN rdDoc[r] : rdDoc[r][i] \in rdKnown[r] \ lost =>
            rdStatus[r][i] \in {"ok", "present", "error"}

\* Verify never reads more than MaxTotalVerifyBytes, although puts go on
\* between its content-free pass and its reads.
ReadsWithinCap ==
    \A r \in Readers :
        rdOp[r] = "verify" /\ lost = {} => rdRead[r] <= MaxTotalBytes

\* An entry is OK only if its object was intact at some instant of the run.
DamageIsSeen ==
    \A r \in Readers : \A i \in DOMAIN rdDoc[r] :
        rdStatus[r][i] = "ok" => rdDoc[r][i] \notin rdDamaged[r]

\* A put never turns a damaged object back into an intact one: the damage
\* stays visible until an operator removes the object.
DamageIsNeverRepaired ==
    [][\A d \in Contents : obj[d] \notin {Absent, Regular(d)} =>
                                obj'[d] # Regular(d)]_vars

\* The store implements a set of contents that only grows and of which only
\* members are acknowledged: whatever a source went through while it was
\* read, an object is the bytes its digest names, and an object that was
\* stored is unretrievable only when a second actor made it so.
Contained == INSTANCE ContentStore WITH
    stored <- {d \in Contents : obj[d] = Regular(d) \/ d \in lost}

ImplementsContentStore == Contained!Spec

=============================================================================
