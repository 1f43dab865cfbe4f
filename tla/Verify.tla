------------------------------- MODULE Verify -------------------------------
(***************************************************************************)
(* `scenario verify [--source] [--library]` and `suite verify [--library]` *)
(* (cmd_scenario.go, cmd_suite.go, internal/suite/validate.go): one        *)
(* command that validates documents and then looks their                   *)
(* linked_fingerprints up in the library, while adds rewrite the library   *)
(* and somebody edits the documents.                                       *)
(*                                                                         *)
(* A suite manifest is the paths it lists; a scenario file is whether it   *)
(* loads, whether the rules that look at the document alone hold of it,    *)
(* its link, its timeout and the sources of its workspace files.  `suite   *)
(* verify --library` loads every scenario a second time, for the link.     *)
(* Lookups are the check process of Library.                               *)
(***************************************************************************)
EXTENDS Library, PathRules

CONSTANTS
    Verifier,       \* the Checker whose CheckFingerprint the command calls
    Names,          \* scenario files there may be, as cleaned paths
    Contents,       \* what a scenario file may hold
    Commands,       \* command lines, with the manifest and base directory
    MaxScenarios,   \* MaxScenariosPerSuite (100 in the code)
    MaxTimeout,     \* MaxSuiteTotalTimeoutSeconds (1,800 in the code)
    MaxEdits        \* bound: edits of scenario files during the command

MalformedLink == "malformed"

ASSUME VerifyAssumption ==
    /\ Verifier \in Checkers
    /\ "none" \notin Fps
    /\ \A c \in Contents :
        /\ c.loads \in BOOLEAN /\ c.ok \in BOOLEAN /\ c.timeout \in Nat
        /\ c.link \in Fps \cup {MalformedLink}
        /\ c.sources \in Seq(Paths)
    /\ \A c \in Commands :
        /\ c.name \in {"suite", "scenario"}
        /\ c.base \in Paths /\ c.paths \in Seq(Paths)
        /\ c.loads \in BOOLEAN /\ c.ok \in BOOLEAN /\ c.library \in BOOLEAN
        /\ c.name = "scenario" => Len(c.paths) = 1
    /\ MaxScenarios \in Nat /\ MaxTimeout \in Nat /\ MaxEdits \in Nat

VARIABLES
    vpc,
    cmd,        \* the command line
    files,      \* scenario files
    k,          \* index of the loop over the listed scenarios
    valid,      \* no issue so far
    listed,     \* cleaned paths met so far
    total,      \* seconds of the valid scenarios so far
    link,       \* linked_fingerprint read last
    cache,      \* answers of the lookups, by fingerprint
    lines,      \* annotations: link and number of occurrences
    code,       \* exit code
    canceled,   \* Ctrl-C, or the 30 second command timeout
    edits,      \* edits so far
    vKnown      \* history: fingerprints acknowledged before the command began

vInputs == <<cmd, files, edits, vKnown>>
vLocals == <<k, valid, listed, total, link, cache, lines>>
vVars == <<vpc, vInputs, vLocals, code, canceled>>

Running == vpc \notin {"idle", "done"}

NoCommand == CHOOSE c \in Commands : TRUE

VInit ==
    /\ vpc = "idle"
    /\ cmd = NoCommand
    /\ files = [n \in Names |-> CHOOSE c \in Contents : TRUE]
    /\ k = 1 /\ valid = TRUE /\ listed = {} /\ total = 0
    /\ link = MalformedLink
    /\ cache = [f \in {} |-> 0]
    /\ lines = <<>>
    /\ code = 0
    /\ canceled = FALSE
    /\ edits = 0
    /\ vKnown = {}

Exit(c) == vpc' = "done" /\ code' = c

\* A step that stays in the command and only moves its program counter.
VGoto(label) == vpc' = label /\ UNCHANGED code

VBegin ==
    /\ vpc = "idle"
    /\ VGoto("load")
    /\ cmd' \in Commands
    /\ files' \in [Names -> Contents]
    /\ vKnown' = {FpOf[d] : d \in acked}
    /\ UNCHANGED <<vars, vLocals, edits, canceled>>

-----------------------------------------------------------------------------
(* Validation                                                              *)

Path(i) == cmd.paths[i]

\* The scenario file at a listed path loads.
Loads(p) == Clean(p) \in Names /\ files[Clean(p)].loads

Scenario(p) == files[Clean(p)]

\* scenario.Validate of the file at path p, its directory given by the path.
ScenarioValid(p) ==
    /\ Scenario(p).ok
    /\ \A s \in Range(Scenario(p).sources) :
        SafeRelative(s) /\ Contained(Dir(Join(cmd.base, p)), s)

\* The context ends while the workspace files of the scenario are validated.
CanceledWithin(p) == canceled /\ Scenario(p).sources # <<>>

\* suite.LoadFile, and the rules of suite.Validate before its loop.
LoadSuite ==
    /\ vpc = "load" /\ cmd.name = "suite"
    /\ \/ ~cmd.loads /\ Exit(1) /\ UNCHANGED valid
       \/ /\ cmd.loads
          /\ valid' = (cmd.ok /\ Len(cmd.paths) \in 1..MaxScenarios)
          /\ VGoto(IF Len(cmd.paths) \in 1..MaxScenarios THEN "check"
                   ELSE "verdict")
    /\ UNCHANGED <<vars, vInputs, k, listed, total, link, cache, lines, canceled>>

\* Mutant: duplicates are looked for before the path is cleaned.
BugFresh(p) == p \notin listed

\* No earlier entry names the same file.
Fresh(p) == Clean(p) \notin listed

\* What the loop of suite.Validate requires of one entry.
EntryValid(p) ==
    /\ SafeRelative(p)
    /\ Fresh(p)
    /\ Contained(cmd.base, p)
    /\ Loads(p)
    /\ ScenarioValid(p) /\ ~CanceledWithin(p)

\* One iteration of the loop, or the aggregate bound after it.
CheckEntry ==
    /\ vpc = "check"
    /\ \/ /\ k > Len(cmd.paths)
          /\ valid' = (valid /\ total <= MaxTimeout)
          /\ VGoto("verdict")
          /\ UNCHANGED <<k, listed, total>>
       \/ /\ k <= Len(cmd.paths) /\ canceled
          /\ valid' = FALSE
          /\ VGoto("verdict")
          /\ UNCHANGED <<k, listed, total>>
       \/ /\ k <= Len(cmd.paths) /\ ~canceled
          /\ valid' = (valid /\ EntryValid(Path(k)))
          /\ total' = IF EntryValid(Path(k)) THEN total + Scenario(Path(k)).timeout
                      ELSE total
          /\ listed' = IF SafeRelative(Path(k)) THEN listed \cup {Clean(Path(k))}
                       ELSE listed
          /\ k' = k + 1
          /\ VGoto("check")
    /\ UNCHANGED <<vars, vInputs, link, cache, lines, canceled>>

\* What runSuiteVerify does with the result.
Verdict ==
    /\ vpc = "verdict"
    /\ \/ ~valid /\ Exit(2)
       \/ valid /\ ~cmd.library /\ Exit(0)
       \/ valid /\ cmd.library /\ VGoto("open")
    /\ UNCHANGED <<vars, vInputs, vLocals, canceled>>

\* scenario.LoadFile and scenario.Validate in runScenarioVerify.
LoadScenario ==
    /\ vpc = "load" /\ cmd.name = "scenario"
    /\ \/ ~Loads(Path(1)) /\ Exit(1) /\ UNCHANGED link
       \/ /\ Loads(Path(1))
          /\ ~ScenarioValid(Path(1)) \/ CanceledWithin(Path(1))
          /\ Exit(2) /\ UNCHANGED link
       \/ /\ Loads(Path(1))
          /\ ScenarioValid(Path(1)) /\ ~CanceledWithin(Path(1))
          /\ link' = Scenario(Path(1)).link
          /\ VGoto("source")
    /\ UNCHANGED <<vars, vInputs, k, valid, listed, total, cache, lines, canceled>>

\* CheckSourceFingerprint, when --source is given: the incident file is
\* "broken", or it has the fingerprint cmd.source.
CheckSource ==
    /\ vpc = "source"
    /\ \/ /\ cmd.source # "none"
          /\ cmd.source = "broken" \/ canceled
          /\ Exit(1)
       \/ cmd.source \in Fps /\ cmd.source # link /\ Exit(2)
       \/ /\ cmd.source \in {"none", link}
          /\ IF cmd.library THEN VGoto("open") ELSE Exit(0)
    /\ UNCHANGED <<vars, vInputs, vLocals, canceled>>

-----------------------------------------------------------------------------
(* The cross-reference with the library                                    *)

\* openLibraryStore may fail.
OpenLibrary ==
    /\ vpc = "open"
    /\ \/ Exit(1)
       \/ VGoto(IF cmd.name = "suite" THEN "reload" ELSE "lookup")
    /\ k' = 1
    /\ UNCHANGED <<vars, vInputs, valid, listed, total, link, cache, lines, canceled>>

\* suiteLibraryCrossReference loads the next scenario again, for its link.
Reload ==
    /\ vpc = "reload"
    /\ \/ k > Len(cmd.paths) /\ Exit(0) /\ UNCHANGED link
       \/ /\ k <= Len(cmd.paths)
          /\ canceled \/ ~Loads(Path(k))
          /\ Exit(1) /\ UNCHANGED link
       \/ /\ k <= Len(cmd.paths)
          /\ ~canceled /\ Loads(Path(k))
          /\ link' = Scenario(Path(k)).link
          /\ VGoto("lookup")
    /\ UNCHANGED <<vars, vInputs, k, valid, listed, total, cache, lines, canceled>>

\* Mutant: every scenario makes its own lookup.
BugCached(f) == FALSE

\* Each distinct fingerprint is looked up once.
Cached(f) == f \in DOMAIN cache

\* The line of this scenario gets its suffix; a suite goes on.
Annotate(f, count) ==
    /\ lines' = Append(lines, [link |-> f, count |-> count])
    /\ k' = k + 1
    /\ IF cmd.name = "suite" THEN VGoto("reload") ELSE Exit(0)

\* CheckFingerprint up to its first read, or the cached answer.
Lookup ==
    /\ vpc = "lookup"
    /\ \/ Cached(link) /\ Annotate(link, cache[link]) /\ UNCHANGED vars
       \/ /\ ~Cached(link)
          /\ link = MalformedLink \/ canceled
          /\ Exit(1) /\ UNCHANGED <<vars, k, lines>>
       \/ /\ ~Cached(link) /\ ~canceled
          /\ link # MalformedLink
          /\ CkBegin(Verifier, link)
          /\ VGoto("answer") /\ UNCHANGED <<k, lines>>
    /\ UNCHANGED <<vInputs, valid, listed, total, link, cache, canceled>>

\* Mutant: a lookup that fails is shown as no occurrences.
BugAnswered == ckResult[Verifier] # "none"

\* CheckFingerprint returned without an error.
Answered == ckResult[Verifier] \in {"match", "noMatch"}

\* CheckFingerprint has returned: MatchCount is the number of entries.
Answer ==
    LET count == Cardinality(ckSeen[Verifier]) IN
    /\ vpc = "answer" /\ ckPc[Verifier] = "idle"
    /\ \/ /\ Answered
          /\ cache' = [f \in DOMAIN cache \cup {link} |->
                         IF f = link THEN count ELSE cache[f]]
          /\ Annotate(link, count)
       \/ ~Answered /\ Exit(1) /\ UNCHANGED <<k, cache, lines>>
    /\ UNCHANGED <<vars, vInputs, valid, listed, total, link, canceled>>

VNext ==
    \/ VBegin
    \/ LoadSuite \/ CheckEntry \/ Verdict
    \/ LoadScenario \/ CheckSource
    \/ OpenLibrary \/ Reload \/ Lookup \/ Answer
    \/ (CkStep(Verifier) \/ CkFails(Verifier)) /\ UNCHANGED vVars

-----------------------------------------------------------------------------
(* Meanwhile                                                               *)

Cancel ==
    /\ Running /\ ~canceled
    /\ canceled' = TRUE
    /\ UNCHANGED <<vars, vpc, vInputs, vLocals, code>>

\* Somebody edits, replaces or removes a scenario file: at any time, and seen
\* only before one of the loads.
EditScenario ==
    /\ vpc \in {"load", "check", "verdict", "reload"} /\ edits < MaxEdits
    /\ \E n \in Names, c \in Contents : files' = [files EXCEPT ![n] = c]
    /\ edits' = edits + 1
    /\ UNCHANGED <<vars, vpc, vLocals, cmd, vKnown, code, canceled>>

VerifyInit == Init /\ VInit

\* The library moves at any time; a move while the command reads only its
\* documents changes nothing that it sees before its next lookup.
LibraryMoves ==
    /\ vpc \in {"idle", "answer"}
    /\ AddNext \/ \E d \in Victims : TamperOccurrence(d)
    /\ UNCHANGED vVars

VerifyNext == VNext \/ Cancel \/ EditScenario \/ LibraryMoves

VerifySpec == VerifyInit /\ [][VerifyNext]_<<vars, vVars>>

-----------------------------------------------------------------------------
Undisturbed == vpc = "done" /\ ~canceled /\ edits = 0

\* What the documentation requires, without the order of the checks: paths
\* that are relative and stay below the document's own directory, one file
\* each, every file a valid scenario, timeouts that sum up to the limit.
SourcesBelow(p) == \A s \in Range(Scenario(p).sources) : SafeRelative(s)

ScenarioAcceptable(p) == Loads(p) /\ Scenario(p).ok /\ SourcesBelow(p)

SuiteAcceptable ==
    LET seconds(sum, p) == sum + Scenario(p).timeout IN
    /\ cmd.ok
    /\ Len(cmd.paths) \in 1..MaxScenarios
    /\ \A i \in DOMAIN cmd.paths :
        SafeRelative(Path(i)) /\ ScenarioAcceptable(Path(i))
    /\ \A i, j \in DOMAIN cmd.paths : Clean(Path(i)) = Clean(Path(j)) => i = j
    /\ FoldLeft(seconds, 0, cmd.paths) <= MaxTimeout

Acceptable ==
    IF cmd.name = "suite" THEN SuiteAcceptable
    ELSE ScenarioAcceptable(Path(1)) /\ cmd.source \in {"none", Scenario(Path(1)).link}

\* "exit 2 - decodes but fails a semantic rule, or a listed scenario is
\* invalid" (usage): a valid document is never answered so, in whatever
\* directory it lies.
ValidIsAccepted == Undisturbed /\ code = 2 => ~Acceptable

\* The documents alone decide between the exit codes 0 and 2: whatever the
\* library holds, gains or loses meanwhile, its lookups may fail the command
\* (exit 1) but never make a valid suite invalid or the reverse, and the
\* loop that stops at some entries and skips others agrees with the rules.
DocumentsDecide ==
    /\ ValidIsAccepted
    /\ Undisturbed /\ code = 0 => Acceptable

\* Two scenarios with one link are annotated alike, although the library
\* changes between their lines and either file may be edited.
SameLinkSameAnswer ==
    \A i, j \in DOMAIN lines : lines[i].link = lines[j].link =>
        lines[i].count = lines[j].count

\* "no occurrences" is never printed for a failure class that an add had
\* acknowledged before the command began, although the index is rewritten
\* and occurrences are damaged while the command reads.
KnownIsAnnotated ==
    \A i \in DOMAIN lines : lines[i].count = 0 => lines[i].link \notin vKnown

\* Not guaranteed: "its own already-validated linked_fingerprint field"
\* (comment of suiteLibraryCrossReference).  The second load is of a file
\* that may have changed since it was validated.
AnnotatedIsValidated == vpc = "lookup" => link # MalformedLink

=============================================================================
