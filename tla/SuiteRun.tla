------------------------------ MODULE SuiteRun ------------------------------
(***************************************************************************)
(* `incidentdna suite run`: verify the manifest and every listed scenario, *)
(* run them one after the other, aggregate, write the report, exit; while  *)
(* scenario files are edited, time passes and Ctrl-C is pressed.           *)
(*                                                                         *)
(* A scenario is its number.  Its file is its timeout, or Unreadable or    *)
(* Invalid.  One run of it promises what RunContract says; it is over when *)
(* its context ends, but for output that a process the kill did not reach  *)
(* still holds (RunReturns of ScenarioExec).  Time counts units.           *)
(***************************************************************************)
EXTENDS Integers, Sequences, FiniteSetsExt

CONSTANTS
    N,              \* scenarios listed
    Timeouts,       \* timeout_seconds a file may declare
    WithFiles,      \* scenarios that declare workspace_files
    Roots,          \* what --workspace-root may be, see TypeOK
    Edits,          \* BOOLEAN: scenario files are edited after suite.Validate
    Overhead,       \* bound: time between two scenarios, well below MaxTotal
    MaxHeld,        \* bound: time for which output is held after kills, in all
    MaxScenarios,   \* MaxScenariosPerSuite (100 in the code)
    MaxTotal        \* MaxSuiteTotalTimeoutSeconds (1800)

ASSUME SuiteAssumption ==
    /\ N \in Nat /\ Timeouts \subseteq Nat \ {0} /\ WithFiles \subseteq 1..N
    /\ Roots \subseteq {"notGiven", "absent", "empty", "occupied"}
    /\ Edits \in BOOLEAN /\ Overhead \in Nat /\ MaxHeld \in Nat /\ MaxScenarios \in Nat
    /\ MaxTotal \in Nat /\ Overhead <= MaxTotal

VARIABLES
    pc,
    failFast, keep, wanted,     \* --fail-fast, --keep-workspaces (of the root), --report
    file,       \* the scenario files
    root,       \* --workspace-root: none given, or the state of the directory
    results,    \* outcomes so far, in declared order
    skipRest,
    now,        \* time since the suite's context began
    pause,      \* time since the last scenario ended
    held,       \* history: how much of now was spent on held output
    began,      \* when the command of the current scenario was started
    canceled,   \* Ctrl-C
    aggregate,
    report,     \* the file at --report
    code,
    launched    \* history: scenarios whose command was started

vars == <<pc, failFast, keep, wanted, file, root, results, skipRest, now, pause,
          held, began, canceled, aggregate, report, code, launched>>

Unreadable == -1
Invalid == 0
NoCode == -1
Scenarios == 1..N

Contract == INSTANCE RunContract WITH started <- FALSE, outcome <- "none", told <- TRUE,
                                     code <- NoCode
Suite == INSTANCE SuiteContract WITH Listed <- N

EntryOutcomes == Contract!Allowed(TRUE) \cup Contract!Allowed(FALSE) \cup {"SKIPPED"}
Aggregates == {"none", "PASS", "FAIL", "INVALID", "INTERNAL_ERROR"}

TypeOK ==
    /\ pc \in {"load", "validate", "root", "entry", "run", "expired", "aborted",
               "clean", "summary", "write", "exited"}
    /\ failFast \in BOOLEAN /\ keep \in BOOLEAN /\ wanted \in BOOLEAN
    /\ file \in [Scenarios -> Timeouts \cup {Unreadable, Invalid}]
    /\ root \in {"notGiven", "absent", "empty", "occupied", "ours"}
    /\ results \in Seq(EntryOutcomes) /\ Len(results) <= N
    /\ skipRest \in BOOLEAN
    /\ now \in Nat /\ pause \in 0..Overhead /\ held \in 0..now /\ began \in 0..now
    /\ canceled \in BOOLEAN
    /\ aggregate \in Aggregates
    /\ report.kind \in {"absent", "torn", "report"}
    /\ code \in {NoCode, 0, 1, 2}
    /\ launched \subseteq Scenarios

Init ==
    /\ pc = "load"
    /\ failFast \in BOOLEAN /\ wanted \in BOOLEAN
    /\ file \in [Scenarios -> Timeouts \cup {Invalid}]
    /\ root \in Roots
    /\ keep \in (IF root = "notGiven" THEN {FALSE} ELSE BOOLEAN)
    /\ results = <<>> /\ skipRest = FALSE
    /\ now = 0 /\ pause = 0 /\ held = 0 /\ began = 0
    /\ canceled = FALSE
    /\ aggregate = "none"
    /\ report \in {Suite!Absent} \cup
                  (IF wanted THEN {Suite!Account("PASS", [i \in Scenarios |-> "PASS"])} ELSE {})
    /\ code = NoCode
    /\ launched = {}

-----------------------------------------------------------------------------
\* The suite's context has ended: Ctrl-C or the backstop.
Ended == canceled \/ now >= MaxTotal

Current == Len(results) + 1

Refuse(result) == aggregate' = result /\ pc' = "summary"

Load ==
    /\ pc = "load"
    /\ \/ pc' = "validate" /\ UNCHANGED aggregate
       \/ Refuse("INTERNAL_ERROR")
    /\ UNCHANGED <<failFast, keep, wanted, file, root, results, skipRest, now, pause,
                   held, began, canceled, report, code, launched>>

\* suite.Validate, which calls scenario.Validate for every listed file.
ManifestOK ==
    /\ N \in 1..MaxScenarios
    /\ ~canceled
    /\ \A i \in Scenarios : file[i] \in Timeouts
    /\ MapThenSumSet(LAMBDA i : file[i], Scenarios) <= MaxTotal

Validate ==
    /\ pc = "validate"
    /\ IF ManifestOK THEN pc' = "root" /\ UNCHANGED aggregate ELSE Refuse("INVALID")
    /\ UNCHANGED <<failFast, keep, wanted, file, root, results, skipRest, now, pause,
                   held, began, canceled, report, code, launched>>

PrepareRoot ==
    /\ pc = "root"
    /\ \/ /\ root # "occupied"
          /\ pc' = "entry"
          /\ root' = IF root = "notGiven" THEN root ELSE "ours"
          /\ UNCHANGED aggregate
       \/ /\ root # "notGiven"
          /\ Refuse("INTERNAL_ERROR")
          /\ UNCHANGED root
    /\ UNCHANGED <<failFast, keep, wanted, file, results, skipRest, now, pause, held, began,
                   canceled, report, code, launched>>

\* Mutant: --fail-fast is triggered by FAIL alone.
BugRecord(outcome) ==
    /\ results' = Append(results, outcome)
    /\ skipRest' = (skipRest \/ (failFast /\ outcome = "FAIL"))
    /\ pause' = 0

\* One entry of the result, and --fail-fast.
Record(outcome) ==
    /\ results' = Append(results, outcome)
    /\ skipRest' = (skipRest \/ (failFast /\ outcome # "PASS"))
    /\ pause' = 0

Skip ==
    /\ pc = "entry" /\ Current <= N /\ skipRest
    /\ Record("SKIPPED")
    /\ UNCHANGED <<pc, failFast, keep, wanted, file, root, now, held, began, canceled,
                   aggregate, report, code, launched>>

\* A run that ends before its command is started: the file is gone, or
\* scenario.Validate refuses it (with files also because the context has
\* ended), or the workspace, the staging, the resolving or the start fails.
EndsUnstarted ==
    IF file[Current] = Unreadable THEN {"INTERNAL_ERROR"}
    ELSE IF file[Current] = Invalid \/ (Ended /\ Current \in WithFiles) THEN {"INVALID"}
    ELSE {"INTERNAL_ERROR"}

NotStarted ==
    /\ pc = "entry" /\ Current <= N /\ ~skipRest
    /\ \E outcome \in EndsUnstarted \cap Contract!Allowed(FALSE) : Record(outcome)
    /\ UNCHANGED <<pc, failFast, keep, wanted, file, root, now, held, began, canceled,
                   aggregate, report, code, launched>>

\* Ctrl-C alone does not keep a scenario without files from being started.
StartScenario ==
    /\ pc = "entry" /\ Current <= N /\ ~skipRest
    /\ file[Current] \in Timeouts
    /\ ~(Ended /\ Current \in WithFiles)
    /\ pc' = "run"
    /\ began' = now
    /\ launched' = launched \cup {Current}
    /\ UNCHANGED <<failFast, keep, wanted, file, root, results, skipRest, now, pause,
                   held, canceled, aggregate, report, code>>

\* Mutant: the suite's own context bounds nothing.
BugDeadline == began + file[Current]

\* When execCtx ends by itself: WithTimeout keeps the parent's deadline if
\* that is earlier.
Deadline ==
    IF began + file[Current] < MaxTotal THEN began + file[Current] ELSE MaxTotal

\* The context of the running scenario has ended.
ContextOver == canceled \/ now >= Deadline

\* The select takes execCtx.Done(): the process tree is killed, and the runner
\* waits for the end of the output.  Which of two events ended the context
\* first is left open when both have.
Kill ==
    /\ pc = "run"
    /\ \/ now >= Deadline /\ pc' = "expired"
       \/ canceled /\ pc' = "aborted"
    /\ UNCHANGED <<failFast, keep, wanted, file, root, results, skipRest, now, pause, held,
                   began, canceled, aggregate, report, code, launched>>

Holding == pc \in {"expired", "aborted"}

\* Time passes between two scenarios, while a command runs whose context is
\* live (the runner wakes when it ends), and for as long as a process that the
\* kill did not reach keeps the output open: nothing bounds that wait.
Tick ==
    /\ \/ /\ pc = "entry" /\ pause < Overhead
          /\ pause' = pause + 1
          /\ UNCHANGED held
       \/ /\ pc = "run" /\ ~ContextOver
          /\ UNCHANGED <<pause, held>>
       \/ /\ Holding /\ held < MaxHeld
          /\ held' = held + 1
          /\ UNCHANGED pause
    /\ now' = now + 1
    /\ UNCHANGED <<pc, failFast, keep, wanted, file, root, results, skipRest, began,
                   canceled, aggregate, report, code, launched>>

\* What a started run may end with: a command whose end the select has taken,
\* also when its context ended just then, is judged.
EndsStarted ==
    CASE pc = "run" -> {"PASS", "FAIL", "INTERNAL_ERROR"}
      [] pc = "expired" -> {"TIMEOUT"}
      [] pc = "aborted" -> {"INTERNAL_ERROR"}

EndScenario ==
    /\ pc = "run" \/ Holding
    /\ \E outcome \in EndsStarted \cap Contract!Allowed(TRUE) : Record(outcome)
    /\ pc' = "entry"
    /\ UNCHANGED <<failFast, keep, wanted, file, root, now, held, began, canceled, aggregate,
                   report, code, launched>>

\* Mutant: SKIPPED and INVALID entries do not count.
BugAggregate ==
    IF \E i \in DOMAIN results : results[i] \in {"FAIL", "TIMEOUT", "INTERNAL_ERROR"}
    THEN "FAIL" ELSE "PASS"

\* aggregateOutcome.
Aggregate ==
    IF \E i \in DOMAIN results : results[i] # "PASS" THEN "FAIL" ELSE "PASS"

Finish ==
    /\ pc = "entry" /\ Current > N
    /\ aggregate' = Aggregate
    /\ pc' = "clean"
    /\ UNCHANGED <<failFast, keep, wanted, file, root, results, skipRest, now, pause,
                   held, began, canceled, report, code, launched>>

\* The deferred removal of the workspace root; that it failed is not looked at.
Clean ==
    /\ pc = "clean"
    /\ pc' = "summary"
    /\ root' \in IF root = "ours" /\ ~keep THEN {"absent", "ours"} ELSE {root}
    /\ UNCHANGED <<failFast, keep, wanted, file, results, skipRest, now, pause, held, began,
                   canceled, aggregate, report, code, launched>>

ExitCode ==
    CASE aggregate = "PASS" -> 0
      [] aggregate = "FAIL" -> 2
      [] OTHER -> 1

OpenReport ==
    /\ pc = "summary"
    /\ \/ /\ ~wanted
          /\ pc' = "exited" /\ code' = ExitCode
          /\ UNCHANGED report
       \/ /\ wanted
          /\ pc' = "write" /\ report' = Suite!Torn
          /\ UNCHANGED code
       \/ /\ wanted
          /\ pc' = "exited" /\ code' = 1
          /\ UNCHANGED report
    /\ UNCHANGED <<failFast, keep, wanted, file, root, results, skipRest, now, pause,
                   held, began, canceled, aggregate, launched>>

\* Mutant: the exit code ignores that the report could not be written.
BugWriteReport ==
    /\ pc = "write"
    /\ pc' = "exited"
    /\ report' \in {Suite!Account(aggregate, results), report}
    /\ code' = ExitCode
    /\ UNCHANGED <<failFast, keep, wanted, file, root, results, skipRest, now, pause,
                   held, began, canceled, aggregate, launched>>

WriteReport ==
    /\ pc = "write"
    /\ pc' = "exited"
    /\ \/ report' = Suite!Account(aggregate, results) /\ code' = ExitCode
       \/ UNCHANGED report /\ code' = 1
    /\ UNCHANGED <<failFast, keep, wanted, file, root, results, skipRest, now, pause,
                   held, began, canceled, aggregate, launched>>

-----------------------------------------------------------------------------
Interrupt ==
    /\ pc \in {"load", "validate", "root", "entry", "run", "expired", "aborted"}
    /\ ~canceled
    /\ canceled' = TRUE
    /\ UNCHANGED <<pc, failFast, keep, wanted, file, root, results, skipRest, now,
                   pause, held, began, aggregate, report, code, launched>>

\* A scenario file whose turn is yet to come is edited or removed.
Edit(i) ==
    /\ Edits /\ pc = "entry" /\ i >= Current
    /\ \E contents \in Timeouts \cup {Unreadable, Invalid} :
            file' = [file EXCEPT ![i] = contents]
    /\ UNCHANGED <<pc, failFast, keep, wanted, root, results, skipRest, now, pause,
                   held, began, canceled, aggregate, report, code, launched>>

RunEntry == Skip \/ NotStarted \/ StartScenario \/ Kill \/ EndScenario

SuiteNext ==
    \/ Load \/ Validate \/ PrepareRoot
    \/ RunEntry
    \/ Finish \/ Clean \/ OpenReport \/ WriteReport

Next ==
    \/ SuiteNext
    \/ Tick
    \/ Interrupt
    \/ \E i \in Scenarios : Edit(i)

Terminated == pc = "exited" /\ UNCHANGED vars

Spec == Init /\ [][Next \/ Terminated]_vars

-----------------------------------------------------------------------------
(* Properties                                                              *)

\* Aggregate PASS accounts for every listed scenario: each was executed and
\* each one's own outcome was PASS, whatever was edited, skipped, canceled.
PassMeansAllPassed ==
    aggregate = "PASS" =>
        /\ launched = Scenarios
        /\ results = [i \in Scenarios |-> "PASS"]

\* A scenario is SKIPPED exactly when --fail-fast was given and one before it
\* did not pass, and it was not executed.
SkippedExactly ==
    \A j \in DOMAIN results :
        /\ results[j] = "SKIPPED" <=>
                failFast /\ \E i \in 1..(j - 1) : results[i] # "PASS"
        /\ results[j] = "SKIPPED" => j \notin launched

\* The run implements its contract, over a report of an earlier run too.
ImplementsSuiteContract == Suite!Spec

\* However the files change after the sum of their timeouts was checked, no
\* command runs on beyond the backstop with the runner looking on: what a suite
\* takes longer than MaxTotal is the time between scenarios, and the time for
\* which a process that a kill did not reach kept the output open.
SuiteTimeBounded == now - held <= MaxTotal + N * Overhead

-----------------------------------------------------------------------------
(* What the backstop is taken for and the code does not guarantee          *)

\* The whole run is over by the suite's own deadline.
SuiteOverInTime == now <= MaxTotal + N * Overhead

=============================================================================
