------------------------------- MODULE Library -------------------------------
(***************************************************************************)
(* The local incident library (internal/library): `library add` and        *)
(* `library check` as separate operating-system processes that share one   *)
(* library root and take no lock on it.                                    *)
(*                                                                         *)
(* A document is a model value standing for one canonical byte string, so  *)
(* it also names its digest and its occurrence file.  FpOf, IdOf and       *)
(* Redacted give its fingerprint, its incident.id and its privacy          *)
(* declaration.  SHA-256 is taken to be collision free.                    *)
(*                                                                         *)
(* Every system call another process can observe is a step of its own:     *)
(* stat of the fingerprint directory, read of index.json, the walk that    *)
(* counts fingerprint directories, lstat/read of an occurrence, mkdir,     *)
(* creation of a temporary file, and the two renames.  A process may get   *)
(* an I/O error or be killed before any of them.                           *)
(***************************************************************************)
EXTENDS Integers, FiniteSets

CONSTANTS
    Adders,             \* processes running `library add`
    Checkers,           \* processes running `library check`
    Docs,               \* valid documents, one per canonical byte string
    Fps,                \* fingerprints
    FpOf,               \* [Docs -> Fps]      fingerprint.Compute
    IdOf,               \* [Docs -> incident ids]
    Redacted,           \* subset of Docs that declare privacy.redacted
    Victims,            \* bound: documents whose bytes a second actor damages
    MaxLibraryEntries,  \* fingerprint directories (10,000 in the code)
    MaxOccurrences      \* MaxOccurrencesPerFingerprint (100 in the code)

ASSUME ConstantsAssumption ==
    /\ Docs # {}
    /\ FpOf \in [Docs -> Fps]
    /\ Redacted \subseteq Docs /\ Victims \subseteq Docs
    /\ MaxLibraryEntries \in Nat
    /\ MaxOccurrences \in Nat

-----------------------------------------------------------------------------
VARIABLES
    \* the file system under the library root
    fpDirs,     \* fingerprint directories that exist
    occ,        \* occurrence file of each document
    idx,        \* entries of each fingerprint's index.json ({}: no file)
    malformed,  \* fingerprints whose index.json does not parse
    temps,      \* temporary files, by the process that created them
    \* `library add` processes
    pc, doc, existed, seen, result,
    \* `library check` processes
    ckPc, ckFp, ckSeen, ckTodo, ckResult,
    \* history: what callers were told
    acked,      \* documents some add reported as stored or already present
    consented,  \* documents an add accepted only because of --allow-unredacted
    ckKnown,    \* the check's fingerprint was acknowledged before it began
    ckRotten    \* occurrences corrupt since before the check began

fsVars == <<fpDirs, occ, idx, malformed, temps>>
addVars == <<pc, doc, existed, seen, result>>
ckVars == <<ckPc, ckFp, ckSeen, ckTodo, ckResult, ckKnown, ckRotten>>
vars == <<fsVars, addVars, ckVars, acked, consented>>

Fp(p) == FpOf[doc[p]]

OccState == {"absent", "intact", "corrupt"}

AddPc == {"idle", "statDir", "readIndex", "verifyExisting", "countEntries",
          "ensure", "mkdir", "renameOcc", "writeIndex", "renameIndex", "report"}

AddResult == {"none", "stored", "idempotent", "privacy", "conflict",
              "corrupted", "malformed", "tooManyEntries",
              "tooManyOccurrences", "failed", "killed"}

CkPc == {"idle", "readIndex", "verify"}

CkResult == {"none", "match", "noMatch", "corrupted", "malformed", "failed"}

\* A temporary file's owner, or "nobody" once that process was killed.
TempOwner == Adders \cup {"nobody"}

TypeOK ==
    /\ fpDirs \subseteq Fps
    /\ occ \in [Docs -> OccState]
    /\ idx \in [Fps -> SUBSET Docs]
    /\ malformed \subseteq Fps
    /\ temps \subseteq TempOwner \X {"occurrence", "index"}
    /\ pc \in [Adders -> AddPc]
    /\ doc \in [Adders -> Docs]
    /\ existed \in [Adders -> BOOLEAN]
    /\ seen \in [Adders -> SUBSET Docs]
    /\ result \in [Adders -> AddResult]
    /\ ckPc \in [Checkers -> CkPc]
    /\ ckFp \in [Checkers -> Fps]
    /\ ckSeen \in [Checkers -> SUBSET Docs]
    /\ ckTodo \in [Checkers -> SUBSET Docs]
    /\ ckResult \in [Checkers -> CkResult]
    /\ ckKnown \in [Checkers -> BOOLEAN]
    /\ ckRotten \in [Checkers -> SUBSET Docs]
    /\ acked \subseteq Docs
    /\ consented \subseteq Docs

AnyDoc == CHOOSE d \in Docs : TRUE

Init ==
    /\ fpDirs = {}
    /\ occ = [d \in Docs |-> "absent"]
    /\ idx = [f \in Fps |-> {}]
    /\ malformed = {}
    /\ temps = {}
    /\ pc = [p \in Adders |-> "idle"]
    /\ doc = [p \in Adders |-> AnyDoc]
    /\ existed = [p \in Adders |-> FALSE]
    /\ seen = [p \in Adders |-> {}]
    /\ result = [p \in Adders |-> "none"]
    /\ ckPc = [c \in Checkers |-> "idle"]
    /\ ckFp = [c \in Checkers |-> FpOf[AnyDoc]]
    /\ ckSeen = [c \in Checkers |-> {}]
    /\ ckTodo = [c \in Checkers |-> {}]
    /\ ckResult = [c \in Checkers |-> "none"]
    /\ ckKnown = [c \in Checkers |-> FALSE]
    /\ ckRotten = [c \in Checkers |-> {}]
    /\ acked = {}
    /\ consented = {}

-----------------------------------------------------------------------------
(* library add                                                             *)

\* verifyOccurrenceBytes: a regular file that hashes to its name.
Verifies(d) == occ[d] = "intact"

\* readIndex refuses the file: it does not parse or has unknown fields.
Malformed(f) == f \in malformed

Goto(p, label) == pc' = [pc EXCEPT ![p] = label]

\* Add returns outcome r: its locals are gone, its result is printed.
Return(p, r) ==
    /\ pc' = [pc EXCEPT ![p] = "idle"]
    /\ result' = [result EXCEPT ![p] = r]
    /\ seen' = [seen EXCEPT ![p] = {}]
    /\ existed' = [existed EXCEPT ![p] = FALSE]
    /\ doc' = [doc EXCEPT ![p] = AnyDoc]

Acknowledge(p) == acked' = acked \cup {doc[p]}

\* Mutant: --allow-unredacted is taken as the default.
BugPrivacyGate(d, allowUnredacted) == TRUE

\* checkPrivacyGate
PrivacyGate(d, allowUnredacted) == d \in Redacted \/ allowUnredacted

\* A command starts: the document was loaded and validated, and the privacy
\* gate runs before anything touches the library root.
Begin(p, d, a) ==
    /\ pc[p] = "idle"
    /\ consented' = IF a /\ d \notin Redacted THEN consented \cup {d}
                    ELSE consented
    /\ IF PrivacyGate(d, a)
       THEN /\ Goto(p, "statDir")
            /\ doc' = [doc EXCEPT ![p] = d]
            /\ result' = [result EXCEPT ![p] = "none"]
            /\ UNCHANGED <<existed, seen>>
       ELSE Return(p, "privacy")
    /\ UNCHANGED <<fsVars, ckVars, acked>>

StatDir(p) ==
    /\ pc[p] = "statDir"
    /\ existed' = [existed EXCEPT ![p] = Fp(p) \in fpDirs]
    /\ Goto(p, "readIndex")
    /\ UNCHANGED <<fsVars, doc, seen, result, ckVars, acked, consented>>

\* Mutant: entries are matched by digest, not by incident id.
BugWithSameId(entries, d) == entries \cap {d}

\* findByIncidentID
WithSameId(entries, d) == {e \in entries : IdOf[e] = IdOf[d]}

\* The new-occurrence path: checkOccurrenceCap against what was read.
AfterCaps(p, entries) ==
    IF Cardinality(entries) >= MaxOccurrences
    THEN Return(p, "tooManyOccurrences")
    ELSE /\ Goto(p, "ensure")
         /\ seen' = [seen EXCEPT ![p] = entries]
         /\ UNCHANGED <<doc, existed, result>>

ReadIndex(p) ==
    LET same == WithSameId(idx[Fp(p)], doc[p]) IN
    /\ pc[p] = "readIndex"
    /\ \/ /\ Malformed(Fp(p)) \/ Cardinality(same) > 1
          /\ Return(p, "malformed")
       \/ /\ ~Malformed(Fp(p))
          /\ Cardinality(same) = 1
          /\ seen' = [seen EXCEPT ![p] = idx[Fp(p)]]
          /\ Goto(p, "verifyExisting")
          /\ UNCHANGED <<doc, existed, result>>
       \/ /\ ~Malformed(Fp(p))
          /\ same = {}
          /\ existed[p]
          /\ AfterCaps(p, idx[Fp(p)])
       \/ /\ ~Malformed(Fp(p))
          /\ same = {}
          /\ ~existed[p]
          /\ seen' = [seen EXCEPT ![p] = idx[Fp(p)]]
          /\ Goto(p, "countEntries")
          /\ UNCHANGED <<doc, existed, result>>
    /\ UNCHANGED <<fsVars, ckVars, acked, consented>>

\* An entry with this incident.id exists: verify its bytes, then decide
\* between the idempotent and the conflicting re-add.
VerifyExisting(p) ==
    /\ pc[p] = "verifyExisting"
    /\ \E e \in WithSameId(seen[p], doc[p]) :
        \/ /\ ~Verifies(e)
           /\ Return(p, "corrupted")
           /\ UNCHANGED acked
        \/ /\ Verifies(e)
           /\ e = doc[p]
           /\ Return(p, "idempotent")
           /\ Acknowledge(p)
        \/ /\ Verifies(e)
           /\ e # doc[p]
           /\ Return(p, "conflict")
           /\ UNCHANGED acked
    /\ UNCHANGED <<fsVars, ckVars, consented>>

\* Mutant: the count is compared with > instead of >=.
BugCountEntries(p) ==
    /\ pc[p] = "countEntries"
    /\ IF Cardinality(fpDirs) > MaxLibraryEntries
       THEN Return(p, "tooManyEntries")
       ELSE AfterCaps(p, seen[p])
    /\ UNCHANGED <<fsVars, ckVars, acked, consented>>

\* checkLibraryEntryCap: directories only ever appear, so a walk that takes
\* several readdir calls returns the number at some instant inside it.
CountEntries(p) ==
    /\ pc[p] = "countEntries"
    /\ IF Cardinality(fpDirs) >= MaxLibraryEntries
       THEN Return(p, "tooManyEntries")
       ELSE AfterCaps(p, seen[p])
    /\ UNCHANGED <<fsVars, ckVars, acked, consented>>

\* Mutant: a corrupt file found at the digest's path is written again.
BugEnsureRepairs(p) ==
    /\ pc[p] = "ensure"
    /\ Goto(p, IF occ[doc[p]] = "intact" THEN "writeIndex" ELSE "mkdir")
    /\ UNCHANGED <<fsVars, doc, existed, seen, result, ckVars, acked,
                   consented>>

\* Mutant: an orphan is taken for a corrupted library.
BugEnsureRefusesOrphan(p) ==
    /\ pc[p] = "ensure"
    /\ \/ /\ occ[doc[p]] = "absent"
          /\ Goto(p, "mkdir")
          /\ UNCHANGED <<doc, existed, seen, result>>
       \/ /\ occ[doc[p]] # "absent"
          /\ Return(p, "corrupted")
    /\ UNCHANGED <<fsVars, ckVars, acked, consented>>

\* ensureOccurrenceStored: an orphan left by an interrupted add is verified
\* and reused, anything else found there is refused.
Ensure(p) ==
    /\ pc[p] = "ensure"
    /\ \/ /\ occ[doc[p]] = "intact"
          /\ Goto(p, "writeIndex")
          /\ UNCHANGED <<doc, existed, seen, result>>
       \/ /\ occ[doc[p]] = "absent"
          /\ Goto(p, "mkdir")
          /\ UNCHANGED <<doc, existed, seen, result>>
       \/ /\ occ[doc[p]] = "corrupt"
          /\ Return(p, "corrupted")
    /\ UNCHANGED <<fsVars, ckVars, acked, consented>>

\* Mutant: the bytes are written at the final path, not to a temporary file.
BugMkdirAndWriteTemp(p) ==
    /\ pc[p] = "mkdir"
    /\ fpDirs' = fpDirs \cup {Fp(p)}
    /\ occ' = [occ EXCEPT ![doc[p]] = "corrupt"]
    /\ Goto(p, "renameOcc")
    /\ UNCHANGED <<idx, malformed, temps, doc, existed, seen, result,
                   ckVars, acked, consented>>

\* writeOccurrenceAtomic up to the rename: MkdirAll creates the fingerprint
\* directory too; the temporary file is written, synced, closed, chmodded.
MkdirAndWriteTemp(p) ==
    /\ pc[p] = "mkdir"
    /\ fpDirs' = fpDirs \cup {Fp(p)}
    /\ temps' = temps \cup {<<p, "occurrence">>}
    /\ Goto(p, "renameOcc")
    /\ UNCHANGED <<occ, idx, malformed, doc, existed, seen, result,
                   ckVars, acked, consented>>

\* Mutant: a copy and delete stands in for the rename and may stop halfway.
BugRenameOcc(p) ==
    /\ pc[p] = "renameOcc"
    /\ occ' = [occ EXCEPT ![doc[p]] = "partial"]
    /\ temps' = temps \ {<<p, "occurrence">>}
    /\ Goto(p, "writeIndex")
    /\ UNCHANGED <<fpDirs, idx, malformed, doc, existed, seen, result,
                   ckVars, acked, consented>>

\* The finalizing os.Rename.
RenameOcc(p) ==
    /\ pc[p] = "renameOcc"
    /\ occ' = [occ EXCEPT ![doc[p]] = "intact"]
    /\ temps' = temps \ {<<p, "occurrence">>}
    /\ Goto(p, "writeIndex")
    /\ UNCHANGED <<fpDirs, idx, malformed, doc, existed, seen, result,
                   ckVars, acked, consented>>

\* Mutant: index.json is truncated and rewritten in place.
BugWriteIndexTemp(p) ==
    /\ pc[p] = "writeIndex"
    /\ idx' = [idx EXCEPT ![Fp(p)] = {}]
    /\ Goto(p, "renameIndex")
    /\ UNCHANGED <<fpDirs, occ, malformed, temps, doc, existed, seen,
                   result, ckVars, acked, consented>>

\* writeIndex up to the rename.
WriteIndexTemp(p) ==
    /\ pc[p] = "writeIndex"
    /\ fpDirs' = fpDirs \cup {Fp(p)}
    /\ temps' = temps \cup {<<p, "index">>}
    /\ Goto(p, "renameIndex")
    /\ UNCHANGED <<occ, idx, malformed, doc, existed, seen, result,
                   ckVars, acked, consented>>

\* idx.Entries after the append.
Published(p) == seen[p] \cup {doc[p]}

\* The rename publishes the entries read earlier plus this one, whatever the
\* index holds by now.
RenameIndex(p) ==
    /\ pc[p] = "renameIndex"
    /\ idx' = [idx EXCEPT ![Fp(p)] = Published(p)]
    /\ malformed' = malformed \ {Fp(p)}
    /\ temps' = temps \ {<<p, "index">>}
    /\ seen' = [seen EXCEPT ![p] = {}]
    /\ Goto(p, "report")
    /\ UNCHANGED <<fpDirs, occ, doc, existed, result, ckVars, acked, consented>>

\* AddOutcomeStored reaches the caller, unless the process is killed first.
Report(p) ==
    /\ pc[p] = "report"
    /\ Return(p, "stored")
    /\ Acknowledge(p)
    /\ UNCHANGED <<fsVars, ckVars, consented>>

\* Mutant: a failed index update rolls the occurrence file back.
BugAddFailsRollsBack(p) ==
    /\ pc[p] # "idle"
    /\ temps' = temps \ ({p} \X {"occurrence", "index"})
    /\ occ' = IF pc[p] = "renameIndex"
              THEN [occ EXCEPT ![doc[p]] = "absent"] ELSE occ
    /\ Return(p, "failed")
    /\ UNCHANGED <<fpDirs, idx, malformed, ckVars, acked, consented>>

\* A system call of Add fails (permission, full disk, removed directory):
\* the deferred cleanup removes the temporary file, nothing is retried.
\* MkdirAll may have run before the call that failed.
AddFails(p) ==
    /\ pc[p] \notin {"idle", "report"}
    /\ temps' = temps \ ({p} \X {"occurrence", "index"})
    /\ fpDirs' \in {fpDirs} \cup
                   (IF pc[p] = "mkdir" THEN {fpDirs \cup {Fp(p)}} ELSE {})
    /\ Return(p, "failed")
    /\ UNCHANGED <<occ, idx, malformed, ckVars, acked, consented>>

\* The process is killed (signal, power, the operator): no deferred cleanup.
AddKilled(p) ==
    /\ pc[p] # "idle"
    /\ temps' = {<<IF t[1] = p THEN "nobody" ELSE t[1], t[2]>> : t \in temps}
    /\ fpDirs' \in {fpDirs} \cup
                   (IF pc[p] = "mkdir" THEN {fpDirs \cup {Fp(p)}} ELSE {})
    /\ Return(p, "killed")
    /\ UNCHANGED <<occ, idx, malformed, ckVars, acked, consented>>

AddStep(p) ==
    \/ StatDir(p)
    \/ ReadIndex(p)
    \/ VerifyExisting(p)
    \/ CountEntries(p)
    \/ Ensure(p)
    \/ MkdirAndWriteTemp(p)
    \/ RenameOcc(p)
    \/ WriteIndexTemp(p)
    \/ RenameIndex(p)
    \/ Report(p)

-----------------------------------------------------------------------------
(* library check (Check and CheckFingerprint share checkFingerprint)       *)

CkGoto(c, label) == ckPc' = [ckPc EXCEPT ![c] = label]

\* The entries read are kept with a match: the result holds their number.
CkReturn(c, r) ==
    /\ ckPc' = [ckPc EXCEPT ![c] = "idle"]
    /\ ckResult' = [ckResult EXCEPT ![c] = r]
    /\ ckSeen' = [ckSeen EXCEPT ![c] = IF r = "match" THEN @ ELSE {}]
    /\ ckTodo' = [ckTodo EXCEPT ![c] = {}]

CkBegin(c, f) ==
    /\ ckPc[c] = "idle"
    /\ ckFp' = [ckFp EXCEPT ![c] = f]
    /\ ckKnown' = [ckKnown EXCEPT ![c] = \E d \in acked : FpOf[d] = f]
    /\ ckRotten' = [ckRotten EXCEPT ![c] = {d \in Docs : occ[d] = "corrupt"}]
    /\ ckSeen' = [ckSeen EXCEPT ![c] = {}]
    /\ ckTodo' = [ckTodo EXCEPT ![c] = {}]
    /\ ckResult' = [ckResult EXCEPT ![c] = "none"]
    /\ CkGoto(c, "readIndex")
    /\ UNCHANGED <<fsVars, addVars, acked, consented>>

CkReadIndex(c) ==
    /\ ckPc[c] = "readIndex"
    /\ \/ /\ Malformed(ckFp[c])
          /\ CkReturn(c, "malformed")
       \/ /\ ~Malformed(ckFp[c])
          /\ idx[ckFp[c]] = {}
          /\ CkReturn(c, "noMatch")
       \/ /\ ~Malformed(ckFp[c])
          /\ idx[ckFp[c]] # {}
          /\ ckSeen' = [ckSeen EXCEPT ![c] = idx[ckFp[c]]]
          /\ ckTodo' = [ckTodo EXCEPT ![c] = idx[ckFp[c]]]
          /\ CkGoto(c, "verify")
          /\ UNCHANGED ckResult
    /\ UNCHANGED <<fsVars, addVars, ckFp, ckKnown, ckRotten, acked, consented>>

\* Mutant: an entry that fails verification is skipped, the rest still match.
BugCkVerify(c) ==
    /\ ckPc[c] = "verify"
    /\ \/ /\ ckTodo[c] = {}
          /\ CkReturn(c, "match")
       \/ \E d \in ckTodo[c] :
            /\ ckTodo' = [ckTodo EXCEPT ![c] = @ \ {d}]
            /\ UNCHANGED <<ckPc, ckSeen, ckResult>>
    /\ UNCHANGED <<fsVars, addVars, ckFp, ckKnown, ckRotten, acked, consented>>

\* One iteration of the loop over the entries, or the return after it.
CkVerify(c) ==
    /\ ckPc[c] = "verify"
    /\ \/ /\ ckTodo[c] = {}
          /\ CkReturn(c, "match")
       \/ \E d \in ckTodo[c] :
            \/ /\ Verifies(d)
               /\ ckTodo' = [ckTodo EXCEPT ![c] = @ \ {d}]
               /\ UNCHANGED <<ckPc, ckSeen, ckResult>>
            \/ /\ ~Verifies(d)
               /\ CkReturn(c, "corrupted")
    /\ UNCHANGED <<fsVars, addVars, ckFp, ckKnown, ckRotten, acked, consented>>

\* An I/O error, or the 30 second command timeout seen by the loop.
CkFails(c) ==
    /\ ckPc[c] # "idle"
    /\ CkReturn(c, "failed")
    /\ UNCHANGED <<fsVars, addVars, ckFp, ckKnown, ckRotten, acked, consented>>

CkStep(c) == CkReadIndex(c) \/ CkVerify(c)

-----------------------------------------------------------------------------
AddNext ==
    \E p \in Adders :
        \/ \E d \in Docs, a \in BOOLEAN : Begin(p, d, a)
        \/ AddStep(p)
        \/ AddFails(p)
        \/ AddKilled(p)

CheckNext ==
    \E c \in Checkers :
        \/ \E f \in Fps : CkBegin(c, f)
        \/ CkStep(c)
        \/ CkFails(c)

Next == AddNext \/ CheckNext

Spec == Init /\ [][Next]_vars

-----------------------------------------------------------------------------
(* A second actor that bypasses the tool, while no add is running: stored  *)
(* bytes change or vanish, an index.json is made unreadable.               *)

AddersIdle == \A p \in Adders : pc[p] = "idle"

TamperOccurrence(d) ==
    /\ AddersIdle
    /\ occ[d] # "absent"
    /\ \/ /\ occ' = [occ EXCEPT ![d] = "corrupt"]
          /\ UNCHANGED ckRotten
       \/ /\ occ' = [occ EXCEPT ![d] = "absent"]
          /\ ckRotten' = [c \in Checkers |-> ckRotten[c] \ {d}]
    /\ UNCHANGED <<fpDirs, idx, malformed, temps, addVars, ckPc, ckFp, ckSeen,
                   ckTodo, ckResult, ckKnown, acked, consented>>

TamperIndex(f) ==
    /\ AddersIdle
    /\ f \in fpDirs
    /\ malformed' = malformed \cup {f}
    /\ UNCHANGED <<fpDirs, occ, idx, temps, addVars, ckVars, acked, consented>>

Tamper == (\E d \in Victims : TamperOccurrence(d)) \/ (\E f \in Fps : TamperIndex(f))

-----------------------------------------------------------------------------
(* At most one add at a time works on a fingerprint: how the documented    *)
(* single local user runs the tool.                                        *)

Exclusive == \A p, q \in Adders :
    pc[p] # "idle" /\ pc[q] # "idle" /\ Fp(p) = Fp(q) => p = q

SerialSpec == Init /\ [][Next /\ Exclusive']_vars

\* The same with a second actor that damages files.
TamperSpec == Init /\ [][(Next /\ Exclusive') \/ Tamper]_vars

-----------------------------------------------------------------------------
(* Properties of Spec: any interleaving, any I/O error, any kill           *)

\* Occurrence before index: every entry of an index.json, and every entry an
\* add still holds in memory to write back, has its intact occurrence file,
\* whatever was interrupted (Add stores the bytes, then publishes the entry).
NoDanglingEntry ==
    /\ \A f \in Fps : \A d \in idx[f] : occ[d] = "intact"
    /\ \A p \in Adders : \A d \in seen[p] : occ[d] = "intact"

\* No index.json holds two entries with one incident.id, even when two adds
\* of conflicting documents run at once: findByIncidentID's "Add's own
\* semantics never produce that state".
UniqueIncidentIds ==
    \A f \in Fps : \A d, e \in idx[f] : IdOf[d] = IdOf[e] => d = e

\* MaxOccurrencesPerFingerprint bounds every index.json: racing adds lose an
\* entry before they exceed the cap.
IndexWithinCap == \A f \in Fps : Cardinality(idx[f]) <= MaxOccurrences

\* MaxLibraryEntries bounds the fingerprint directories, but for adds that
\* have counted before another creates its directory: each concurrent add
\* but one may exceed the cap by one.
FpDirsNearCap == Cardinality(fpDirs) < MaxLibraryEntries + Cardinality(Adders)

\* The caps of limits.go, which an add compares with what it read before it
\* writes, bound what racing adds leave behind.
CapsHold == IndexWithinCap /\ FpDirsNearCap

\* No bytes of a document that does not declare privacy.redacted are in the
\* library unless some add was run on it with --allow-unredacted.
PrivacyHeld ==
    \A d \in Docs : occ[d] # "absent" => d \in Redacted \cup consented

\* What an add acknowledged stays on disk intact, even when a racing add
\* drops its index entry: re-adding it can recover it.
AckedOccurrenceKept == \A d \in acked : occ[d] = "intact"

\* Once an add under a fingerprint was acknowledged, no check that starts
\* afterwards answers "no match", although the index is rewritten without a
\* lock: a lost update costs an occurrence, never the failure class.
KnownIsNeverNoMatch ==
    \A c \in Checkers : ckResult[c] = "noMatch" => ~ckKnown[c]

\* Without a second actor no command ever reports corruption: no reader sees
\* a half-written index or occurrence, whatever was interrupted.
NoSpuriousCorruption ==
    /\ \A p \in Adders : result[p] \notin {"corrupted", "malformed"}
    /\ \A c \in Checkers : ckResult[c] \notin {"corrupted", "malformed"}

\* A live process owns a temporary file only between creating and renaming
\* it: every error return removes it, only a kill leaves one behind.
TempsOwned ==
    \A t \in temps : t[1] # "nobody" =>
        pc[t[1]] = IF t[2] = "occurrence" THEN "renameOcc" ELSE "renameIndex"

\* The inductive strengthening of the properties above, from which
\* LibraryProofs derives them: what each program counter may rely on.
OnePerId(S) == \A d, e \in S : IdOf[d] = IdOf[e] => d = e

Stored(p) == pc[p] \in {"writeIndex", "renameIndex", "report"}

Inserting(p) == pc[p] \in {"countEntries", "ensure", "mkdir", "renameOcc",
                           "writeIndex", "renameIndex"}

DiskInv ==
    /\ malformed = {}
    /\ \A d \in Docs : occ[d] # "corrupt"
    /\ \A f \in Fps : \A d \in idx[f] : occ[d] = "intact"
    /\ \A f \in Fps : OnePerId(idx[f])
    /\ \A d \in acked : occ[d] = "intact" /\ idx[FpOf[d]] # {}

AddInv ==
    \A p \in Adders :
        /\ \A d \in seen[p] : occ[d] = "intact"
        /\ OnePerId(seen[p])
        /\ Stored(p) => occ[doc[p]] = "intact"
        /\ Inserting(p) => \A d \in seen[p] : IdOf[d] # IdOf[doc[p]]
        /\ pc[p] \in {"report", "verifyExisting"} => idx[Fp(p)] # {}
        /\ result[p] \notin {"corrupted", "malformed"}

CheckInv ==
    \A c \in Checkers :
        /\ \A d \in ckTodo[c] : occ[d] = "intact"
        /\ ckKnown[c] => idx[ckFp[c]] # {} /\ ckResult[c] # "noMatch"
        /\ ckResult[c] \notin {"corrupted", "malformed"}

IInv == DiskInv /\ AddInv /\ CheckInv

-----------------------------------------------------------------------------
(* One add at a time                                                       *)

\* With one add at a time per fingerprint the file protocol implements the
\* memory of IncidentMemory: index.json is its contents, and nothing that was
\* acknowledged leaves it across kills, I/O errors, retries and damage.
Memory == INSTANCE IncidentMemory WITH members <- idx

ImplementsMemory == Memory!Spec

-----------------------------------------------------------------------------
(* Retrying                                                                *)

\* The operator retries every redacted document for ever, a started command
\* keeps running.
RetrySpec ==
    /\ Spec
    /\ \A p \in Adders : WF_vars(AddStep(p))
    /\ \A p \in Adders, d \in Redacted : SF_vars(Begin(p, d, FALSE))

Faultless == [][~\E p \in Adders : AddFails(p) \/ AddKilled(p)]_vars

\* d is indexed, conflicts with what is indexed, or a cap refuses it.
Settled(d) ==
    \/ WithSameId(idx[FpOf[d]], d) # {}
    \/ Cardinality(idx[FpOf[d]]) >= MaxOccurrences
    \/ Cardinality(fpDirs) >= MaxLibraryEntries /\ FpOf[d] \notin fpDirs

\* Whatever kills and I/O errors left behind (an orphaned occurrence, an
\* empty fingerprint directory, temporary files), once they stop a retried
\* add settles its document: nothing wedges the library.
RetryHeals == <>Faultless => \A d \in Redacted : <>Settled(d)

-----------------------------------------------------------------------------
(* Next to a second actor                                                  *)

\* The tool never repairs or overwrites a corrupt occurrence, whichever
\* sequence of commands is run on it.
CorruptIsNeverReplaced ==
    [][\A d \in Docs : occ[d] = "corrupt" => occ'[d] # "intact"]_vars

\* A check never reports a match over an occurrence that was already corrupt
\* when it began and that nobody removed meanwhile.
CorruptNeverMatched ==
    \A c \in Checkers : ckResult[c] = "match" => ckSeen[c] \cap ckRotten[c] = {}

-----------------------------------------------------------------------------
(* What the documentation says and the code does not guarantee             *)

\* "A same-incident.id document with materially different content is refused
\* as a conflict" (README).  The lookup is made in the index of the document's
\* own fingerprint, so a change that alters the fingerprint is stored.
IncidentIdNeverForks == \A d, e \in acked : IdOf[d] = IdOf[e] => d = e

\* "MaxLibraryEntries is the maximum number of distinct fingerprint entries
\* the library will hold" (limits.go).  Two adds that count before either
\* creates its directory exceed it.
FpDirsWithinCap == Cardinality(fpDirs) <= MaxLibraryEntries

=============================================================================
