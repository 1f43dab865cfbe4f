---------------------------- MODULE ReleaseGate ----------------------------
(***************************************************************************)
(* The release gate: suite runs write --report, `policy evaluate` reads it *)
(* and looks every linked fingerprint up in the incident library, while    *)
(* incidents are added.  A suite run promises what SuiteContract says.     *)
(*                                                                         *)
(* The pipeline runs the suite and the gate with the same report path, in  *)
(* any order; or it is check-release-gate.sh, run again and again: a new   *)
(* directory, the suite run, and unless that exits with 1 the gate.        *)
(*                                                                         *)
(* A suite run rewrites its report in place and the gate reads it in       *)
(* several reads: in a pipeline without order it may meet two reports.     *)
(***************************************************************************)
EXTENDS Integers, Sequences, FiniteSets, SequencesExt

CONSTANTS
    N,              \* scenarios listed
    Fingerprints,
    Outcomes,       \* bound: outcomes of a scenario that are told apart
    Policies,       \* [rules, library, report]: a sequence of RequireResult(_)
                    \* and RequireOccurrence, --library and --report given
    Outputs,        \* bytes captured of one scenario's two streams
    Escapes,        \* JSON bytes one output byte takes: 1, or 6 for control
                    \* characters, <, >, & and bytes that are not UTF-8
    MaxReport,      \* MaxReportDocumentSize
    MaxRules,       \* MaxRulesPerPolicy (20 in the code)
    MaxDistinct,    \* MaxDistinctFingerprintsPerEvaluation (100)
    Pipelines,      \* what scripted may be
    MaxCycles       \* bound: suite runs

\* The two types of rule a policy document may have.
Rules == [type : {"result", "occurrence"}, value : STRING]

NoLink == "noLink"
Malformed == "malformed"    \* a link that is no fingerprint

ASSUME GateAssumption ==
    /\ N \in Nat
    /\ NoLink \notin Fingerprints /\ Malformed \notin Fingerprints
    /\ \A p \in Policies : /\ p.library \in BOOLEAN /\ p.report \in BOOLEAN
                          /\ p.rules \in Seq(Rules)
    /\ Outputs \subseteq Nat /\ Escapes \subseteq 1..6
    /\ MaxReport \in Nat /\ MaxRules \in Nat /\ MaxDistinct \in Nat
    /\ Pipelines \subseteq BOOLEAN /\ MaxCycles \in Nat

VARIABLES
    scripted,   \* the pipeline is check-release-gate.sh
    cycle,      \* suite runs begun
    suite,      \* the suite runner: "idle" or "running"
    suiteCode,  \* exit code of the last suite run
    report,     \* the file at the suite's --report
    draft,      \* the account it holds, all of it or a part
    details,    \* of the draft: links and sizes of its entries
    author,     \* the cycle whose run opened the file last
    known,      \* fingerprints with an occurrence in the library
    gate,       \* where the gate is
    policy,     \* its policy and flags
    offset,     \* the part to read next: result, entries, the end
    readFrom,   \* author when it read the last part
    mixed,      \* history: the parts are of different reports
    loaded,     \* result and links of what it read
    todo,       \* fingerprints to look up
    found,      \* LibraryLookups: the fingerprints found
    statuses,   \* of the rules
    verdict,
    verdictFile,
    code,       \* exit code of the gate
    knewAtStart,    \* history: known when the gate began
    startedIn       \* history: the cycle in which it began

suiteVars == <<suite, suiteCode, report, draft, details, author>>
reading == <<offset, readFrom, mixed, loaded>>
gateVars == <<gate, policy, reading, todo, found, statuses, verdict, verdictFile,
              code, knewAtStart, startedIn>>
vars == <<scripted, cycle, known, suiteVars, gateVars>>

Suite == INSTANCE SuiteContract WITH Listed <- N, wanted <- TRUE, code <- suiteCode

ASSUME OutcomesAssumption == Outcomes \subseteq Suite!EntryOutcomes

NoCode == -1
KilledCode == 137
NotLoaded == [result |-> "none", links |-> <<>>]
NoDetails == [links |-> <<>>, sizes |-> <<>>]

RequireResult(value) == [type |-> "result", value |-> value]
RequireOccurrence == [type |-> "occurrence", value |-> ""]

Verdicts == {"PASS", "FAIL", "INVALID", "INTERNAL_ERROR"}
Results == Verdicts \cup {"none"}

LinksOf(links) == ToSet(links) \ {NoLink}

\* DistinctFingerprints of the report that was read.
Linked == LinksOf(loaded.links)

Places == {"idle", "policy", "report", "read", "open", "lookup", "evaluate", "write", "exited"}

TypeOK ==
    /\ scripted \in Pipelines
    /\ cycle \in 0..MaxCycles
    /\ suite \in {"idle", "running"}
    /\ suiteCode \in {NoCode, 0, 1, 2, KilledCode}
    /\ report \in {Suite!Absent, Suite!Torn} \/ Suite!IsAccount(report)
    /\ draft = Suite!Absent \/ Suite!IsAccount(draft)
    /\ author \in 0..cycle
    /\ known \subseteq Fingerprints
    /\ gate \in Places
    /\ policy \in Policies
    /\ offset \in 0..N + 1 /\ readFrom \in 0..author /\ mixed \in BOOLEAN
    /\ loaded \in [result : Results, links : Seq(Fingerprints \cup {NoLink, Malformed})]
    /\ todo \subseteq Linked /\ found \subseteq Linked \cap known
    /\ statuses \in Seq({"OK", "FAIL", "SKIP"}) /\ Len(statuses) <= Len(policy.rules)
    /\ verdict \in Results
    /\ verdictFile \in Verdicts \cup {"stale", "torn"}
    /\ code \in {NoCode, 0, 1, 2}

GateInit ==
    /\ gate = "idle"
    /\ offset = 0 /\ readFrom = 0 /\ mixed = FALSE /\ loaded = NotLoaded
    /\ todo = {} /\ found = {}
    /\ statuses = <<>> /\ verdict = "none"
    /\ verdictFile = "stale"
    /\ code = NoCode
    /\ knewAtStart = {} /\ startedIn = 0

Init ==
    /\ scripted \in Pipelines
    /\ cycle = 0
    /\ suite = "idle" /\ suiteCode = NoCode
    /\ report = Suite!Absent /\ draft = Suite!Absent /\ details = NoDetails /\ author = 0
    /\ known \in SUBSET Fingerprints
    /\ policy \in Policies
    /\ GateInit

-----------------------------------------------------------------------------
(* The suite runs and the library                                          *)

GateRests == gate \in {"idle", "exited"}

\* Mutant: the script keeps its directory from run to run.
BugBeginSuite ==
    /\ suite = "idle" /\ cycle < MaxCycles
    /\ scripted => GateRests
    /\ suite' = "running"
    /\ cycle' = cycle + 1
    /\ suiteCode' = NoCode
    /\ UNCHANGED <<scripted, known, report, draft, details, author, gateVars>>

BeginSuite ==
    /\ suite = "idle" /\ cycle < MaxCycles
    /\ scripted => GateRests
    /\ suite' = "running"
    /\ cycle' = cycle + 1
    /\ suiteCode' = NoCode
    /\ IF scripted THEN report' = Suite!Absent /\ draft' = Suite!Absent /\ details' = NoDetails
       ELSE UNCHANGED <<report, draft, details>>
    /\ UNCHANGED <<scripted, known, author, gateVars>>

\* Which links and sizes the entries of an account may have.  A skipped entry
\* has no report, one whose file could not be loaded names no link, and one
\* that is not valid whatever the file says; the file may be edited between
\* two runs.
LinkChoices(outcome) ==
    CASE outcome = "SKIPPED" -> {NoLink}
      [] outcome = "INVALID" -> Fingerprints \cup {NoLink, Malformed}
      [] outcome = "INTERNAL_ERROR" -> Fingerprints \cup {NoLink}
      [] OTHER -> Fingerprints

DetailsOf(entries) ==
    {[links |-> links, sizes |-> sizes] :
        links \in {l \in [DOMAIN entries -> Fingerprints \cup {NoLink, Malformed}] :
            \A i \in DOMAIN entries : l[i] \in LinkChoices(entries[i])},
        sizes \in {s \in [DOMAIN entries -> {b * e : b \in Outputs \cup {0}, e \in Escapes}] :
            \A i \in DOMAIN entries :
                entries[i] \in {"SKIPPED", "INVALID"} => s[i] = 0}}

Accounts ==
    {Suite!Account(result, <<>>) : result \in Suite!Refusals} \cup
    {Suite!Account(IF Suite!AllPassed(entries) THEN "PASS" ELSE "FAIL", entries) :
        entries \in [1..N -> Outcomes]}

\* The suite has run; WriteReport truncates the file and starts to write.
OpenReport ==
    /\ suite = "running" /\ author # cycle
    /\ Suite!Open
    /\ author' = cycle
    /\ draft' \in Accounts
    /\ details' \in DetailsOf(draft'.entries)
    /\ UNCHANGED <<scripted, cycle, known, suite, gateVars>>

CompleteReport ==
    /\ suite = "running" /\ author = cycle
    /\ report' = draft
    /\ Suite!Complete
    /\ suite' = "idle"
    /\ UNCHANGED <<scripted, cycle, known, draft, details, author, gateVars>>

\* The report cannot be written.
SuiteFails ==
    /\ suite = "running"
    /\ Suite!Fail
    /\ suite' = "idle"
    /\ UNCHANGED <<scripted, cycle, known, draft, details, author, gateVars>>

\* The runner gets a SIGKILL.
SuiteKilled ==
    /\ suite = "running"
    /\ suite' = "idle" /\ suiteCode' = KilledCode
    /\ UNCHANGED <<scripted, cycle, known, report, draft, details, author, gateVars>>

\* `library add` is acknowledged; an occurrence stays.
AddOccurrence(f) ==
    /\ known' = known \cup {f}
    /\ UNCHANGED <<scripted, cycle, suiteVars, gateVars>>

-----------------------------------------------------------------------------
(* policy evaluate                                                         *)

BeginGate ==
    /\ gate = "idle"
    /\ scripted => suite = "idle" /\ suiteCode \notin {NoCode, 1}
    /\ gate' = "policy"
    /\ knewAtStart' = known
    /\ startedIn' = cycle
    /\ UNCHANGED <<scripted, cycle, known, suiteVars, policy, reading, todo, found, statuses,
                   verdict, verdictFile, code>>

\* The gate ends before or without an evaluation.
Abandon(why) == gate' = "write" /\ verdict' = why

ValidPolicy ==
    /\ Len(policy.rules) \in 1..MaxRules
    /\ \A i \in DOMAIN policy.rules :
        policy.rules[i].type = "result" => policy.rules[i].value # ""

\* LoadFile and Validate.
LoadPolicy ==
    /\ gate = "policy"
    /\ \/ ValidPolicy /\ gate' = "report" /\ UNCHANGED verdict
       \/ Abandon("INVALID")
    /\ UNCHANGED <<scripted, cycle, known, suiteVars, policy, reading, todo, found, statuses,
                   verdictFile, code, knewAtStart, startedIn>>

ReportSize == FoldSeq(LAMBDA size, sum : size + sum, 0, details.sizes)

\* A report of this run is neither too long nor names too many fingerprints.
Readable == ReportSize <= MaxReport /\ Cardinality(LinksOf(details.links)) <= MaxDistinct

\* readCappedReportFile up to os.Open.
OpenSuiteReport ==
    /\ gate = "report"
    /\ \/ report # Suite!Absent /\ gate' = "read" /\ readFrom' = author /\ UNCHANGED verdict
       \/ Abandon("INVALID") /\ UNCHANGED readFrom
    /\ UNCHANGED <<scripted, cycle, known, suiteVars, policy, offset, mixed, loaded, todo, found,
                   statuses, verdictFile, code, knewAtStart, startedIn>>

\* The file was rewritten since the gate read a part of it.
Rewritten == offset # 0 /\ readFrom # author

\* The part of the draft that is next in the file: the two reports need not
\* have their parts at the same bytes.  The last one is the end.
NextPart == IF Rewritten THEN 0..Len(draft.entries) + 1 ELSE {offset}

\* One read of io.ReadAll: the result, which comes first, or an entry.  All of
\* a draft may be in the file before its run has ended, or if it was killed.
ReadPart ==
    /\ gate = "read"
    /\ \E part \in NextPart \cap (0..Len(draft.entries)) :
        /\ offset' = part + 1
        /\ loaded' = IF part = 0 THEN [loaded EXCEPT !.result = draft.result]
                     ELSE [loaded EXCEPT !.links = Append(@, details.links[part])]
    /\ readFrom' = author
    /\ mixed' = (mixed \/ Rewritten)
    /\ UNCHANGED <<scripted, cycle, known, suiteVars, gate, policy, todo, found, statuses,
                   verdict, verdictFile, code, knewAtStart, startedIn>>

\* The read reaches the end, and what was read parses as a report; or it ends
\* early, is too long or is none.  The length of a mixture is not modelled.
LoadSuiteReport ==
    /\ gate = "read"
    /\ \/ /\ Len(draft.entries) + 1 \in NextPart
          /\ mixed' = (mixed \/ Rewritten)
          /\ mixed' \/ ReportSize <= MaxReport
          /\ Cardinality(Linked) <= MaxDistinct
          /\ gate' = "open"
          /\ UNCHANGED verdict
       \/ Abandon("INVALID") /\ UNCHANGED mixed
    /\ UNCHANGED <<scripted, cycle, known, suiteVars, policy, offset, readFrom, loaded, todo, found,
                   statuses, verdictFile, code, knewAtStart, startedIn>>

\* library.Open, if --library is given.
OpenLibrary ==
    /\ gate = "open"
    /\ \/ gate' = "lookup" /\ todo' = (IF policy.library THEN Linked ELSE {}) /\ UNCHANGED verdict
       \/ policy.library /\ Abandon("INTERNAL_ERROR") /\ UNCHANGED todo
    /\ UNCHANGED <<scripted, cycle, known, suiteVars, policy, reading, found, statuses,
                   verdictFile, code, knewAtStart, startedIn>>

\* Mutant: a lookup that fails counts as an answer.
BugLookupFails ==
    /\ gate = "lookup" /\ todo # {}
    /\ \E f \in todo :
        /\ todo' = todo \ {f}
        /\ found' \in {found \cup ({f} \cap known), found}
    /\ UNCHANGED <<scripted, cycle, known, suiteVars, gate, verdict, policy, reading, statuses,
                   verdictFile, code, knewAtStart, startedIn>>

\* One CheckFingerprint, or the end of the lookups with an error, which is
\* certain for a malformed link.  The order of the lookups does not matter.
Lookup ==
    /\ gate = "lookup" /\ todo # {}
    /\ \/ \E f \in todo \ {Malformed} :
            /\ todo' = todo \ {f}
            /\ found' = found \cup ({f} \cap known)
            /\ UNCHANGED <<gate, verdict>>
       \/ Abandon("INTERNAL_ERROR") /\ UNCHANGED <<todo, found>>
    /\ UNCHANGED <<scripted, cycle, known, suiteVars, policy, reading, statuses, verdictFile, code,
                   knewAtStart, startedIn>>

LookupsDone ==
    /\ gate = "lookup" /\ todo = {}
    /\ gate' = "evaluate"
    /\ UNCHANGED <<scripted, cycle, known, suiteVars, policy, reading, todo, found, statuses,
                   verdict, verdictFile, code, knewAtStart, startedIn>>

\* evaluateRequireResult, evaluateRequireLibraryOccurrence.
Status(rule) ==
    CASE rule.type = "result" -> IF loaded.result = rule.value THEN "OK" ELSE "FAIL"
      [] OTHER -> IF ~policy.library THEN "SKIP"
                  ELSE IF found = Linked THEN "OK" ELSE "FAIL"

\* Mutant: only FAIL fails the verdict.
BugFailsVerdict(status) == status = "FAIL"

FailsVerdict(status) == status # "OK"

\* Evaluate, one rule of the loop at a time.
EvaluateRule ==
    /\ gate = "evaluate" /\ Len(statuses) < Len(policy.rules)
    /\ LET status == Status(policy.rules[Len(statuses) + 1]) IN
        /\ statuses' = Append(statuses, status)
        /\ verdict' = IF FailsVerdict(status) THEN "FAIL"
                      ELSE IF verdict = "none" THEN "PASS" ELSE verdict
    /\ UNCHANGED <<scripted, cycle, known, suiteVars, gate, policy, reading, todo, found,
                   verdictFile, code, knewAtStart, startedIn>>

EvaluateEnds ==
    /\ gate = "evaluate" /\ Len(statuses) = Len(policy.rules)
    /\ gate' = "write"
    /\ UNCHANGED <<scripted, cycle, known, suiteVars, policy, reading, todo, found, statuses,
                   verdict, verdictFile, code, knewAtStart, startedIn>>

CodeOf(result) ==
    CASE result = "PASS" -> 0
      [] result = "FAIL" -> 2
      [] OTHER -> 1

\* WriteReport and the exit code; the file may be left as it was, or torn.
WriteVerdict ==
    /\ gate = "write"
    /\ gate' = "exited"
    /\ \/ ~policy.report /\ code' = CodeOf(verdict) /\ UNCHANGED verdictFile
       \/ policy.report /\ code' = CodeOf(verdict) /\ verdictFile' = verdict
       \/ policy.report /\ code' = 1 /\ verdictFile' \in {verdictFile, "torn"}
    /\ UNCHANGED <<scripted, cycle, known, suiteVars, policy, reading, todo, found, statuses,
                   verdict, knewAtStart, startedIn>>

-----------------------------------------------------------------------------
GateNext ==
    \/ BeginGate \/ LoadPolicy \/ OpenSuiteReport \/ ReadPart \/ LoadSuiteReport
    \/ OpenLibrary \/ Lookup \/ LookupsDone \/ EvaluateRule \/ EvaluateEnds \/ WriteVerdict

Next ==
    \/ BeginSuite \/ OpenReport \/ CompleteReport \/ SuiteFails \/ SuiteKilled
    \/ \E f \in Fingerprints : AddOccurrence(f)
    \/ GateNext

Terminated == gate = "exited" /\ UNCHANGED vars

Spec == Init /\ [][Next \/ Terminated]_vars

-----------------------------------------------------------------------------
(* Properties                                                              *)

\* Exit code 0 means that every declared rule holds, whatever was added or
\* rewritten while the gate worked, and that --report says so.
PassMeansEveryRule ==
    code = 0 =>
        /\ \A i \in DOMAIN policy.rules :
            LET rule == policy.rules[i] IN
            IF rule.type = "result" THEN loaded.result = rule.value
            ELSE policy.library /\ Linked \subseteq known
        /\ policy.report => verdictFile = "PASS"

\* Exit code 2 means that a rule does not hold: an incident that was in the
\* library when the gate began never fails it, and neither does an error.
FailIsEarned ==
    code = 2 =>
        \E i \in DOMAIN policy.rules :
            LET rule == policy.rules[i] IN
            IF rule.type = "result" THEN loaded.result # rule.value
            ELSE ~policy.library \/ ~(Linked \subseteq knewAtStart)

StrictPass == code = 0 /\ {RequireResult("PASS"), RequireOccurrence} \subseteq ToSet(policy.rules)

\* A policy that requires PASS and occurrences vouches for every listed
\* scenario: the report has a link for each of the N, one after the other, and
\* the library knows them all, whatever was written, killed or added meanwhile;
\* unless the report was rewritten between two reads of it.
StrictPassCoversSuite == StrictPass /\ ~mixed => loaded.links \in [1..N -> known]

\* A verdict of check-release-gate.sh is on the report of its own suite run
\* and on no other, also when that run was killed or could not write it.
ScriptedIsFresh == scripted /\ code \in {0, 2} => readFrom = startedIn /\ ~mixed

\* "A legitimate maximal suite report is never rejected."
LegitimateReportIsReadable == gate = "report" /\ report.kind = "report" => Readable

\* StrictPassCoversSuite without its exception, which the code does not
\* keep: the result of one report and the entries of the next can pass.
StrictPassAlwaysCovers == StrictPass => loaded.links \in [1..N -> known]

=============================================================================
