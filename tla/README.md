# A verification development for IncidentDNA

IncidentDNA is a local command line tool (Go, no server, no daemon, no lock
file). Each command is an operating system process; commands meet only in the
file system: an incident library, an evidence store, scenario workspaces and
report files. This directory holds TLA+ modules translated from the source,
TLC configurations that check them on small instances, and proofs that TLAPS
checks for instances of every size. `PROJECT.json` maps every definition to the
lines it models and lists runs, mutants, hazards, findings and theorems.

To run it: `tlc -config MCLibrary.cfg MCLibrary`, and so on for the other
configurations; `tlapm LibraryProofs.tla`, and so on for the other proof modules.

## 1. Inventory

| Component (code) | State it keeps | Operations | Talks to |
|---|---|---|---|
| incident library (`internal/library`, `cmd_library.go`) | fingerprint directories, occurrence files, one `index.json` per fingerprint, temporary files | `Add`, `Check`, `CheckFingerprint`, `List` | other commands through the files; the release gate through `CheckFingerprint` |
| evidence store (`internal/evidence`, `cmd_evidence.go`) | one object file per digest | `Put`, `Verify`, `List`, `Inspect` | sources that the user edits |
| scenario execution (`internal/scenario/run*.go`) | process tree, captured output, context | start, assign, wait, kill, judge | the command under test |
| scenario run (`internal/scenario`, `cmd_scenario.go`) | workspace, staged files, report | validate, prepare, stage, resolve, execute, clean up, report | source files, the user, `--report` |
| suite run (`internal/suite`, `cmd_suite.go`) | results so far, workspace root, report | validate, run one by one, aggregate, report | scenario run, `--report` |
| release gate (`internal/policy`, `cmd_policy.go`, `check-release-gate.sh`) | loaded report, lookups, rule statuses | load, look up, evaluate, report | suite report, library |
| verify commands (`cmd_scenario.go`, `cmd_suite.go`, `internal/suite/validate.go`) | issues so far, answers of the lookups, annotations | validate, compare the source, look up, annotate | scenario files, the library through `CheckFingerprint` |
| causality validation (`internal/validate`) | colours and path of a depth-first search | id pass, dangling pass, search | every command that loads a document |
| fingerprint and compare (`internal/fingerprint`, `internal/compare`) | none (functions of documents) | `Compute`, `Documents` | library, compare |
| field rules, loading, canonical JSON, printing, `init`, `inspect` | none | | |
| command line (`cmd/incidentdna/main.go`) | the context: Ctrl-C, 30 s timeout | dispatch | all commands |

What is hard in it, and what would make it correct:

* *Library.* Two adds of one fingerprint read `index.json`, and each rewrites it
  whole: the second drops the first's entry. An add may die between any two
  system calls. Correct means: no reader ever sees a torn or self-contradictory
  library, an acknowledged document keeps its bytes, a known failure class is
  never reported as unknown, retrying heals whatever a crash left behind,
  damaged bytes are neither trusted nor repaired, unredacted bytes never land.
* *Evidence.* A source may be edited while it is streamed; objects may be damaged
  between a reader's two passes. Correct: an object is the bytes its digest
  names, what is acknowledged is found, damage shows, reads stay bounded.
* *Execution.* A select between two events that may both have happened, output
  held open by descendants, kills that do not reach everybody.
* *Scenario and suite run.* Files are checked first and used later; a failure at
  any point must leave the right outcome, exit code, report and workspace.
* *Verify commands.* A file is loaded once for its verdict and once for its link,
  and the library changes between the lines. Correct: the documents alone decide,
  one fingerprint is answered once, a known class is never shown as unseen; paths
  that stay below a directory are accepted and no others.
* *Gate.* It reads a file that another process rewrites in place and a library
  that changes between lookups. Exit code 0 must be earned.
* *Causality, identity.* Order, duplicates and dangling references in the file
  must not change a verdict; cosmetic edits must not change a fingerprint.

`PROJECT.json` lists 40 hazards, each at its line and with the properties that
watch it, or a note saying why none does.

## 2. Modules

| Module | Models | Composes |
|---|---|---|
| `Library` | `Add` and `Check` as processes, one step per observable system call | refines `IncidentMemory` |
| `IncidentMemory` | what the library promises | |
| `LibraryListing` | `List` next to the adds | extends `Library` |
| `PathRules` | relative paths, `filepath.Clean`, the comparison of prefixes | |
| `Verify` | `scenario verify`, `suite verify`, with `--source` and `--library` | extends `Library`, `PathRules` |
| `EvidenceStore` | `Put`, `Verify`, `List`, `Inspect` | refines `ContentStore` |
| `ContentStore` | what the store promises | |
| `ScenarioExec` | `execCommand`: processes, pipe, context, Unix and Windows | |
| `ScenarioRun` | `scenario run` from loading to the exit code | extends `ScenarioExec`, `PathRules`, refines `RunContract` |
| `RunContract` | what one scenario run promises | |
| `SuiteRun` | `suite run`, one scenario standing for `RunContract` | uses `RunContract`, refines `SuiteContract` |
| `SuiteContract` | what a suite run promises | |
| `ReleaseGate` | `policy evaluate` next to suite runs and adds, free or as `check-release-gate.sh` orders them | a suite run is `SuiteContract` |
| `CausalGraph`, `Causality` | events of a document; `checkEventsAndCausality` and `findCycle` | |
| `Identity` | fingerprint and compare over a document and an edited copy | uses `CausalGraph` |
| `FoldProofs` | lemmas about sums and flattened sequences, theorems about the path rules | extends `PathRules`; used by `LibraryProofs`, `ScenarioProofs`, `CausalityProofs`, `IdentityProofs` |
| `LibraryProofs` | theorems about the library, `library list` and the verify commands | extends `Library`, `LibraryListing`, `Verify` |
| `EvidenceProofs`, `ScenarioProofs`, `SuiteProofs`, `GateProofs`, `CausalityProofs`, `IdentityProofs` | theorems | extend `EvidenceStore`, `ScenarioRun`, `SuiteRun`, `ReleaseGate`, `Causality`, `Identity` |
| `MC*` | instances for TLC | |

The chain `ScenarioRun => RunContract`, `SuiteRun => SuiteContract`,
`ReleaseGate` over `SuiteContract` is assume-guarantee: each module is checked
against the contract that the next one takes for granted, so that the gate is
never explored together with processes and pipes.

**Library.** A document is a model value standing for one canonical byte string,
hence also for its digest and its occurrence file; `FpOf`, `IdOf`, `Redacted`
give its fingerprint, incident id and privacy declaration. `fpDirs`, `occ`, `idx`,
`malformed`, `temps` are the files; `pc, doc, existed, seen, result` the locals
of one `Add` per process. The step names follow `Add`: `StatDir`, `ReadIndex`
(the index and `findByIncidentID`), `VerifyExisting`, `CountEntries`
(`checkLibraryEntryCap`), `Ensure` (`ensureOccurrenceStored`),
`MkdirAndWriteTemp`, `RenameOcc`, `WriteIndexTemp`, `RenameIndex`, `Report`.
`seen` is what the code read from the index and will write back: the window in
which another add's entry is lost. `AddFails` and `AddKilled` may strike before
any step. `TamperSpec` adds a second actor that damages occurrences of `Victims`
and makes an index unreadable while no add runs.

**LibraryListing.** One `List`: the root, each shard, each fingerprint directory and
its index are read in separate steps while adds and the second actor go on.

**PathRules, Verify.** A path is its elements as written, with `.` and `..`, and
whether it is absolute. `Contained` compares prefixes of the text of cleaned
paths, as the code does, and not components. `Verify` is one process with the
program counter `vpc`: `LoadSuite`, `CheckEntry` (one iteration of the loop of
`suite.Validate`), `Verdict`, or `LoadScenario`, `CheckSource`; then
`OpenLibrary`, `Reload` (the second load), `Lookup` and `Answer`. The lookup is
the check process of `Library`, entered by `CkBegin`; `cache` and `lines` are the
answers kept and the annotations printed.

**EvidenceStore.** Bytes are sequences of chunks and a digest is the sequence it
names. `PutCopy` reads one chunk per step, so an edit in between yields bytes no
version had. Readers run the content-free pre-pass, the aggregate limit and one
re-hash per distinct digest as separate steps.

**ScenarioExec.** The runner waits in `select` for the command's end or its
context's; the pipe is copied up to `MaxOutput`; `Wait` returns when the command
has exited and nobody holds the pipe. `container` says what holds the tree
together: a process group, a Job Object or nothing. The processes spawn, detach,
write and exit as they like; no fairness is assumed of them.

**ScenarioRun.** Adds validation, workspace, staging (`Lstat` and copy are two
steps), resolving, the deferred removal in two steps, and the report. A document
lists its `workspace_files` with source and destination paths: two destinations
may be one path written in two ways, one may be a directory of the other, a path
may leave its directory. `staged` records what was written where, and from which
source. The rules that look at the rest of the document are one Boolean, and a
command may name a staged file, which is written without an executable bit. A copy that
fails may leave a part of its file. Either step of the removal may fail for any entry by
itself, since `run.go:167` and `run.go:200` drop the error of `os.RemoveAll`: `stuck` is
what was there and could not be removed.

**SuiteRun.** A scenario file is its timeout, or `Unreadable` or `Invalid`; it may
be edited until its turn. Time counts units; `Deadline` is the earlier of the
scenario's timeout and the backstop. When a scenario's context is over, `Kill` is due
and time stands until it happens, but afterwards the run ends only when nobody holds the
output any more (`run.go:338`): time passes while it is `Holding`, and `held` adds up
that time.

**ReleaseGate.** Reports carry the link and size of each entry; a link may be missing or
no fingerprint where the code lets it. `scripted` chooses between any order of the commands and
the order of `check-release-gate.sh`. `suite run` truncates its report and writes it in
place: `draft` is what the file holds, all of it or a part. The gate opens it and reads
part by part (`ReadPart`: the result, which comes first, then the entries), and it may be
rewritten in between; then the next part is read from anywhere in the new report, since the
two need not have their parts at the same bytes. `mixed` says that what was read is of
different reports. Any mixture may turn out to parse, or not to.

**Causality, Identity.** `Causality` runs the three passes one iteration at a time
with the recursion as an explicit stack; `CausalGraph` defines well-formedness
independently, by the existence of a ranking. `Identity` compares the payload
that is hashed with edits that are declared cosmetic or material by what they
do to the incident.

## 3. What the runs check

Ten runs pass, over 40 properties; for each property a mutant of the code's
translation makes TLC report it violated.

| Run | Instance | What it shows |
|---|---|---|
| `library` | two adders, one checker, two versions of one incident (one unredacted), kills and errors, fairness of retries | `TypeOK`, `UniqueIncidentIds`, `AckedOccurrenceKept`, `KnownIsNeverNoMatch`, `NoSpuriousCorruption`, `PrivacyHeld`; `RetryHeals`: once errors stop, every retried document settles |
| `library_serial` | one add at a time on a fingerprint: three incidents of one class with a check and a second actor; or three classes, a cap of one and two adds | `CapsHold`, `CorruptNeverMatched`, `CorruptIsNeverReplaced`; the files implement `IncidentMemory` |
| `readers` | one adder and a second actor next to one reader: a list over two shards, or the verify commands on two scenario files | `AckedIsListed`, `DocumentsDecide`, `SameLinkSameAnswer`, `KnownIsAnnotated` |
| `evidence` | one putter, one reader, two versions whose edit tears a read, a second actor | `KnownIsFound`, `ReadsWithinCap`, `DamageIsSeen`, `DamageIsNeverRepaired`; the store implements `ContentStore` |
| `exec` | a command, two descendants that may detach, all three containers, output one beyond the limit | `VerdictIsEarned`, `TreeDiesAtTimeout`, `RunReturns` |
| `run` | up to two files with paths that alias, nest or escape, sizes on both sides of both limits, three choices of flags, every kind of `--workspace`, removals that fail | `NothingRunsUnstaged`, `CleanupIsExact`; it implements `RunContract` |
| `suite` | three scenarios, edits, Ctrl-C, timeouts that fit only before an edit, output held after a kill | `PassMeansAllPassed`, `SkippedExactly`, `SuiteTimeBounded`; it implements `SuiteContract` |
| `gate` | two scenarios, two suite runs, one gate that reads while the report is rewritten, five policies | `PassMeansEveryRule`, `FailIsEarned`, `StrictPassCoversSuite`, `ScriptedIsFresh` |
| `causality` | every document of up to three events over three ids | `AcceptedIsWellFormed`, `WellFormedIsAccepted`, `ReportedCycleIsReal` |
| `identity` | three originals, up to four edits | `CosmeticEditsKeepIdentity`, `MaterialEditIsNoticed`, `DifferenceIsExplained` |
| `library_fork` | two adds, one incident in two classes | violated: `IncidentIdNeverForks` |
| `path_dot` | a valid suite and a valid scenario in the current directory | violated: `ValidIsAccepted` |

### Bounds, and why they are enough

* Two adders exhibit every pairwise race of `Add`, and the properties are
  about pairs; the proofs remove the bound for all safety properties of the
  library and of its readers. `Victims` limits which
  documents are damaged; one victim with an entry beside it suffices for
  `CorruptNeverMatched`.
* `library_serial` has two kinds of behaviour. In one, three incidents of one class and
  `MaxOccurrences = 2` reach the occurrence cap; in the other, three classes and
  `MaxLibraryEntries = 1` let two adds count the same number before either creates
  its directory, so that the library cap is exceeded by one and `CapsHold` could
  fail at two.
* `readers`: the readers do not disturb each other, so each behaviour has one. The
  list and the second actor's damage come with two shards, one fingerprint in each.
  The library moves only while a verify command has not begun or waits for an
  answer: its other steps read nothing of the library, so a move commutes with
  them. Command lines, edits (`MaxEdits = 1`: between the two loads of one file) and
  Ctrl-C are explored over a library at rest. `MaxScenarios = 2` and `MaxTimeout = 3`
  are exceeded by the suites given.
* `MaxLost` bounds the objects the second actor touches. One chunk per object and
  a version of two chunks give a torn read, a read beyond the limit and a total
  beyond the aggregate limit.
* `MaxEmit = MaxOutput + 1`: exactly at the limit and one beyond it. Two
  descendants: one in the group and one detached, or a chain of two.
* File sizes 1 to 3 with limits 2 and 3 break either limit alone. Sources are
  edited until they are staged; afterwards they are not read.
* The flags of `run` (`MCOptions`): none; `--workspace` and `--keep-workspace`; `--workspace`
  and `--report`. Each flag is given and not given; `--report` is read only after the
  removal, so its combinations with the others add nothing.
* `Overhead` bounds the time between two scenarios, `MaxTotal` is the backstop: the
  timeouts 1 and 2 of three scenarios sum to it or exceed it. `MaxHeld = 1` bounds the time
  for which output is held, in all; one unit suffices to pass the backstop.
* `MaxCycles = 2` suite runs: one report can be stale, or be rewritten while it is read.
  `MaxRules`, `MaxDistinct` are reached by the policies and links given.
* `Outcomes` are three (`ThreeOutcomes`): `INVALID` stands for all that make the result FAIL, as its link
  may be any, none or malformed, which includes what theirs may be. The proofs have all of them.
  The two fingerprints are symmetric: no property or constant names one. The VIEW `Seen`
  leaves the suite runs out of a state once the gate has read its report: from then on no
  step of the gate and no property looks at them, and what the suite runs and the library
  may do does not depend on the gate but in the script, where they wait for its end.
* `MaxEvents`, `MaxCauses`, `MaxList` and `MaxEdits` bound documents and edits. Three
  events with two causes contain diamonds, self loops, cycles of two and three,
  duplicates and dangling causes; longer cycles repeat the same steps.

`CHECK_DEADLOCK FALSE` is given where processes may all be done with nothing left
to edit or damage, or where the specification has no terminal stuttering step
(`Library`, `LibraryListing`, `Verify`, `EvidenceStore`, `Causality`, `Identity`). The
others state their termination as an explicit step and check deadlock.

### Fairness

* `exec`: weak fairness of the runner's own steps, of the copying goroutine and of
  the timer; the Go runtime schedules and timers fire. The processes get none,
  nor does Ctrl-C.
* `library`: weak fairness of a started add (the process is scheduled), strong
  fairness of beginning each redacted document (the operator retries it); this
  is a statement about an operator who retries, and `RetryHeals` is conditional
  on errors and kills eventually stopping.

No other run assumes fairness.

## 4. What is proved

TLAPS proves, for every value of the constants that the assumptions allow, each
safety property that the passing runs check and the refinement of the four abstract
specifications. Two of the properties are not true of every input, and their theorems say
of which they are: the half of `DocumentsDecide` that accepts a valid document, and
`DifferenceIsExplained`. All theorems are of the same
specifications that TLC runs. A theorem about `Spec` has the form of an inductive
invariant `IInv` with `Init => IInv`, `IInv /\ [Next]_vars => IInv'` and
`IInv => property`; each invariant can also be given to TLC with the run's
configuration.

| Theorem | States |
|---|---|
| **`LibraryProofs`** `TypeCorrect`, `Safety` | `[]TypeOK`, `[]IInv` |
| `EntriesHaveBytes`, `IdsAreUnique`, `AckedBytesStay`, `KnownStaysKnown`, `CorruptionIsReal` | `NoDanglingEntry`, `UniqueIncidentIds`, `AckedOccurrenceKept`, `KnownIsNeverNoMatch`, `NoSpuriousCorruption` |
| `PrivacyIsHeld`, `CapIsHeld`, `CapsAreHeld` | `PrivacyHeld`, `IndexWithinCap`, `CapsHold`: an index holds no more than `MaxOccurrences`, the library fewer than `MaxLibraryEntries` plus the number of adders fingerprints; under `Spec` and `TamperSpec` |
| `CorruptionIsKept`, `MatchesAreVerified` | `CorruptIsNeverReplaced`, `CorruptNeverMatched`, under `TamperSpec` |
| `MemoryIsImplemented` | `TamperSpec => ImplementsMemory` |
| `ListingTypeCorrect`, `ListsWhatWasAcked` | `AckedIsListed` |
| `LinksAgree`, `KnownIsShown` | `SameLinkSameAnswer`, `KnownIsAnnotated` |
| `AcceptedIsAcceptable`, `DocumentsAloneDecide` | exit code 0 is earned in every directory; `DocumentsDecide` for documents in directories with a name |
| **`FoldProofs`** `SafeLeadsBelow`, `ContainedBelow`, `NothingIsContainedHere` | of `PathRules`, for all paths: `SafeRelative` implies `Below`, and implies `Contained` if the base has a name; in the current directory nothing is `Contained` |
| **`EvidenceProofs`** `EvidenceTypeCorrect`, `EvidenceInvariant` | `[]TypeOK`, `[]IInv` |
| `KnownEvidenceIsFound`, `VerifyReadsWithinCap`, `NoDamageIsMissed`, `PutsNeverRepair` | `KnownIsFound`, `ReadsWithinCap`, `DamageIsSeen`, `DamageIsNeverRepaired` |
| `EvidenceImplementsContentStore` | `ImplementsContentStore`; all of these under `TamperSpec`, which `Spec` implies |
| **`ScenarioProofs`** `ExecTypeCorrect`, `ExecInvariant`, `RunInvariant` | `[]TypeOK`, `[]ExecInv`, `[]RunInv` |
| `VerdictsAreEarned`, `TreesDie`, `RunVerdictsAreEarned` | `VerdictIsEarned`, `TreeDiesAtTimeout`, of an execution and inside a run |
| `StagingIsComplete`, `CleanupsAreExact` | `NothingRunsUnstaged`, `CleanupIsExact` |
| `RunImplementsContract` | `RunSpec => ImplementsContract` |
| **`SuiteProofs`** `SuiteTypeCorrect`, `SuiteInvariant` | `[]TypeOK`, `[]IInv` |
| `PassAccountsForAll`, `SkipsAreExact`, `SuiteIsBounded` | `PassMeansAllPassed`, `SkippedExactly`, `SuiteTimeBounded` |
| `SuiteImplementsContract` | `Spec => ImplementsSuiteContract` |
| **`GateProofs`** `GateTypeCorrect`, `GateInvariant` | `[]TypeOK`, `[]IInv` |
| `PassSatisfiesRules`, `FailNamesARule`, `StrictPassCovers`, `ScriptIsFresh` | `PassMeansEveryRule`, `FailIsEarned`, `StrictPassCoversSuite`, `ScriptedIsFresh` |
| **`CausalityProofs`** `CausalityInvariant` | `[]IInv` |
| `CyclesAreReal`, `AcceptedIsAcyclic`, `AcyclicIsAccepted` | `ReportedCycleIsReal`, `AcceptedIsWellFormed`, `WellFormedIsAccepted` |
| **`IdentityProofs`** `IdentityInvariant` | `[]IInv` |
| `CosmeticKeeps`, `MaterialIsNoticed` | `CosmeticEditsKeepIdentity`, `MaterialEditIsNoticed` |
| `DifferencesAreExplained` | `DifferenceIsExplained`, if `PlainTypes` |

### Assumptions

The proofs rest on the named ASSUMEs of the modules, which TLC evaluates on every
run, and on nothing else but what a theorem states (`CapsAreHeld` also of a finite,
non empty set of adders). They type the constants and say of the inputs what any
input of the code is: `FpOf` is a function to fingerprints (a digest), limits are
naturals, an evidence version is a sequence of chunks and a document a sequence of
digests, the second actor damages a path with something that can lie there
(`Damages` among `Files`), a document's workspace files are a sequence of existing
names, a link is a fingerprint or malformed, `NoLink`, `NoId` and an absent `--source`
are no fingerprint and no id, a manifest is a sequence of paths and a path a sequence
of elements, the outcomes of a scenario are among those the report has (`OutcomesAssumption`), an event type is a sequence of tokens, `TypeOrder` is one of types and
`trigger` is a dimension. Three say more:

* `OriginalsAssumption`: the documents of `Identity` are valid. `fingerprint` and
  `compare` validate their arguments first (`loadAndValidate` in `cmd_compare.go:26`
  and `cmd_fingerprint.go:26`).
* `SuiteAssumption`: `Overhead <= MaxTotal`. `Overhead` is the model's bound on the time
  between two scenarios, units against the thirty minutes of the backstop.
* `ExecAssumption`: every expectation judges an exit code and an output of at most
  `MaxOutput`, which is what is captured.

`PlainTypes` (no event type is empty or contains one of the separators of a summary) is
not among them: the code accepts such types. It is a hypothesis of
`DifferencesAreExplained` alone, which without it is not true (finding 10). The instance of
the run `identity` satisfies it, as TLC confirms (`InstanceIsPlain` in `MCIdentity`).

### Along which argument

**Library.** None of the properties is inductive alone:
`UniqueIncidentIds` of the disk says nothing about the entries an add carries in
memory and will write back over the index. `IInv` therefore speaks of the disk
(`DiskInv`), of each add's memory (`AddInv`: what it has read has intact bytes and
one entry per id, and between the lookup and the write none with its own id;
past `ensure` its own bytes are stored) and of each check (`CheckInv`). The key
step is `RenameIndex`: it publishes `seen` plus the add's document over whatever
the index holds by now, so the invariant must hold of `seen` and not of the
index that is overwritten. `KnownIsNeverNoMatch` needs that an index, once non
empty, stays so: a lost update replaces entries but never with none.

*Next to a second actor* other invariants are needed: `PrivacyInv` (an add beyond
the gate works on a permitted document), `CapInv` (past the caps `seen` leaves
room for one), `RottenInv` (no add is about to write over damaged bytes; no
occurrence damaged since a check began was verified by it), `MatchInv`.

*The library cap.* An add counts the directories, and others may create theirs before
it creates its own, so the count alone is not an invariant. `RoomInv` bounds the
number of directories together with the adds that are entitled to create one
(past the count, no directory of their fingerprint yet): creating a directory
moves an add from one side of the sum to the other, and an add becomes entitled
only after a count below the cap, when every other add has room. `PlaceInv` says
why an add with an index before it is no newcomer: its directory was there.

*The refinement* holds with one add at a time per fingerprint; `SerialInv` says
that then `seen` still is what the index holds, so `RenameIndex` is an `Insert`.
Two concurrent adds do lose entries (`SerialSpec` is where the documentation's
single local user is assumed), which is why `KnownIsNeverNoMatch` and not the
memory is what `Spec` is proved to give.

**Readers.** `KnownInv` is what a reader may rely on while the library moves: what was
acknowledged keeps an index, and that lies in a directory; it needs `PlaceInv` again.
`ListInv` follows a listing: each fingerprint known at its beginning is listed, or still
ahead in the shards, the directories or the entries to be verified. For the verify
commands `CheckOf` says the same of the check process that they call (a check of a known
fingerprint that answers has read entries), and `AnswerInv` that each line is a cached
answer, that no known fingerprint is cached with a count of 0, and that the lookup in
progress is for a link that is not cached.

*What the documents decide.* `DecideInv` says, at each label, of a command that nobody
cancelled and whose files nobody edited, what its locals mean: in the loop of
`suite.Validate`, `listed` is the set of the cleaned paths of the safe entries so far,
`valid` holds iff the rules hold of the manifest up to there (`RulesUpTo`), and then
`total` is the sum up to there; later the label itself says whether `Rules` hold. `Rules` are
those of the code, with the comparison of prefixes; `RulesAccept` and `AcceptRules` show
that they are those of the documentation. For the second a path that is safe must pass the
comparison. `JoinIsBelow` shows that cleaning the joined path gives the cleaned base
followed by the cleaned path: `Clean` is followed element by element over both (`CleanRun`),
and as long as the path does not climb above its base, what is on the stack below is not
touched (`TidyBelow`). Then the text of the one is the text of the other, a separator and
more (`TextOfConcat`), if the base has a name (`Anchored`). If it has none, its text is
`.`, with which no text of a cleaned path begins: `NothingIsContainedHere` is finding 2
for every manifest. `SafeLeadsBelow` needs no such condition: what the comparison guards
against is excluded already when `safeRelativePath` has accepted the path.

**Evidence.** `StoreInv` speaks of what the second actor has not touched: nothing but the
digest's bytes lies at a path, and acknowledged bytes stay. `PutInv` is about the window
between `Lstat` and rename, `EntryInv` about each entry of a reader by its status.
`ReadsWithinCap` needs a sum over a set of distinct objects: `CapInv` weighs the objects
still to be hashed (`Weight`, the number of their chunks as a set of pairs) and says that
those read and those still to be read stay within the limit the pre-pass checked, though
puts go on.

**Execution and run.** `ExecInv` has four parts: who is alive and who holds the pipe
(`ProcInv`), that the captured bytes are a prefix of the written ones up to the limit
(`FlowInv`), that `done` is final and which program counters exclude a cancellation
(`WaitInv`), and the process tree (`TreeInv`). `RunInv` adds the staging (`StageInv`,
`TotalInv`: the total is the sum of the sizes found and the sizes staged),
the workspace (`WorkspaceInv`: whose directory it is, what may lie in it, and that what remains
of it after the removal was stuck or is a survivor's) and the report. The refinement maps a run to `RunContract` by these parts.

**Suite.** `LaunchInv` (a result of PASS belongs to a command that was started),
`SkipInv`, `SumInv` (the aggregate is that of all results), `TimeInv`. The last is the
accounting: the time before a scenario, less the time for which output was held, is within
the backstop plus the overhead of the scenarios before, because `Deadline` of a scenario
never lies beyond the backstop. That is all the code gives: `SuiteOverInTime` (finding 6)
is the bound without the exception.

**Gate.** `LookupInv` brackets the answers between what the library held when the gate
began and what it holds now; `RuleInv` says that each status is the rule's value over
them. `ReportInv` says which links an account of each result has. `ReadInv` follows the
reads: as long as the file is not rewritten, what was read is the beginning of the draft,
and all of it at the end; `ScriptInv` says that in the script it never is rewritten, and whose
report it is. `FailIsEarned` uses the lower end of the bracket and `PassMeansEveryRule`
the upper.

**Causality.** `PassInv` says what the presence and the absence of each issue mean for
the events looked at. For the search, `PathInv` says that the stack is a path and is what
is being visited, `LookedInv` that the causes already looked at are done or the next on
the stack, `RankInv` that the order in which ids became done is a ranking. A cycle that
is reported is a segment of the path; a search that ends with all ids done has built
the ranking by which `CausalGraph` defines well-formedness. The converse is that a
ranking excludes a closed path, by induction along it.

**Identity.** Two payloads are equal exactly if incident, structure and lists agree
pointwise, where the structure is each event's type with the set of types of its
causes. Each kind of edit is a lemma: renaming events with their references, reordering
or repeating lists, one more cause of a type that was there keep it; the material ones
change one component.

For `DifferenceIsExplained` it remains to show that two documents with the same summaries
have the same structure. `JoinedApart`: sequences that are joined by a separator which
none of their elements contains can be told apart, by induction on the number of elements,
each time at the last separator. `ShownApart` splits a summary at its first `<-[`, and so
into the type and the joined types of the causes; sorting keeps what was in the list
(`SortedRange`). With `PlainTypes`, a summary contains no ` | `, so that the same argument
applies to the whole line (`SignatureApart`). For the other dimensions, `compare` looks at
the sorted lists, and equal sorted lists have the same set of entries (`SortedApart`).

**Induction.** Sums, folds and paths need induction over numbers, which the library
states with an operator as a parameter. `NatSetInduction` states it of a set instead
(from the well-foundedness of `<`, by `WFMin`), and every induction of these proofs is
the proof that a set of numbers is closed under successor. A fold is evaluated by a
function on the sets of indices that is defined by recursion: `FoldExists` builds that
function, and `FoldIsRun` gives its values on the initial segments, one step after another,
which is all that the proofs about sums, paths and texts use.

### Only model-checked

* `RetryHeals` and `RunReturns`: liveness under fairness, which is beyond the prover.
* The second half of `DocumentsDecide` for a document in the current directory or in the root:
  it is not true there (finding 2). Likewise `DifferenceIsExplained` of event types that
  contain a separator of the summary (finding 10).

## 5. Disagreements met while modelling

Two are runs of the project:

1. **An incident id forks** (`library_fork`). `Add` looks for the `incident.id` in the
   index of the new content's own fingerprint (`internal/library/add.go:116`); an edit
   that changes the fingerprint is stored beside the old version, where README and
   `docs/product-scope.md` say that such a document is refused as a conflict.
   `docs/incident-library.md:175-187` restricts the conflict to an occurrence "under that
   fingerprint", as the code does: the documents disagree with each other.
2. **A valid suite is invalid in its own directory** (`path_dot`). The directory of a
   manifest named without one is `.`, the prefix that the paths are compared with is
   `./`, and no cleaned path begins so (`internal/suite/validate.go:155`); the same
   holds of `workspace_files` of a scenario (`internal/scenario/validate.go:158`).
   Named with a directory, as in the other runs, both are accepted.

The rest are stated as definitions and can be reproduced by adding the definition
to a configuration:

3. `ScenarioExec!AssignedTreeDies` (an INVARIANT of `MCExec.cfg`): on Windows a
   descendant spawned between `cmd.Start` and the assignment is outside the Job
   Object (comment at `run_windows.go:126-129`).
4. `ScenarioExec!KillReachesCommand`: when the assignment failed, `kill` terminates an
   empty Job Object and the command runs on (comment at `run_windows.go:142-144`).
5. `ScenarioExec!TimeoutMeansKilled`: TIMEOUT is reported of a command that exited by
   itself (`docs/regression-scenarios.md:215`).
6. `<>(pc = "returned")` without the second disjunct of `RunReturns`: after the kill the
   runner waits for the end of the output, so a process that left the group and
   holds the pipe hangs the tool past its timeout (`run.go:338`; no `WaitDelay`;
   `docs/threat-model.md:262-266`). It hangs a whole suite past its backstop:
   `SuiteRun!SuiteOverInTime` (an INVARIANT of `MCSuite.cfg`), where `docs/scenario-suites.md:189`
   and `cmd_suite.go:283` speak of a bound for the whole run. What remains true is
   `SuiteTimeBounded`.
7. `ScenarioRun!WorkspaceAlwaysRemoved` (an INVARIANT of `MCRun.cfg`): a process that outlives the
   command writes during the removal, or the removal fails by itself; its error is dropped
   (`run.go:167`, `run.go:200`; `docs/regression-scenarios.md:238`). What remains true is
   in `CleanupIsExact`: what is left is what could not be removed, or a survivor's.
8. `ScenarioRun!InvalidMeansInvalid` (a PROPERTY): Ctrl-C during the validation of a scenario with
   workspace files is reported as INVALID (`validate.go:131`).
9. `Library!FpDirsWithinCap` (an INVARIANT of `MCLibrarySerial.cfg`): adds that count before either
   creates its directory exceed the cap (`limits.go:42-45`). `CapsHold` is what remains
   true.
10. `Identity!DifferenceIsExplained` with `TypeOrder <- MCTypeOrderSeparator`: an event
    type containing the separator of the summary makes `compare` print DIFFERENT
    and no difference (`compare.go:125`).
11. `Identity!NamedDimensionDiffers`: `compare` names a dimension whose only change is
    a repeated entry, which is none to the fingerprint (`compare.go:167`).
12. The suite's backstop starts before the validation and runs on between the
    scenarios, so the last scenario of a suite whose timeouts sum up to the limit
    may be cut short and reported as TIMEOUT (`cmd_suite.go:283-291`); `Deadline` in
    `SuiteRun` has it.
13. `ReleaseGate!LegitimateReportIsReadable` (an INVARIANT of `MCGate.cfg` with `Outputs <- FullOutput`,
    `Escapes <- PlainOrEscaped`, `Policies <- StrictPolicy`, `MaxReport = 5242`): `MaxReportDocumentSize`
    counts an output byte as one byte of JSON; control characters, `<`, `>`, `&` and bytes
    that are not UTF-8 take six (`internal/policy/limits.go:21-26`).
14. `ScenarioRun!AcceptedIsStageable` (an INVARIANT of `MCRun.cfg`): destinations of which one is a
    directory of the other are accepted by `scenario verify` and can never be staged.
15. `Verify!AnnotatedIsValidated` (an INVARIANT of `MCReaders.cfg`): the comment of
    `suiteLibraryCrossReference` speaks of the "already-validated" link; it is the link
    of a second load, of a file that may have been edited since.
16. A staged file is written with mode 0644 (`run.go:246`), and `resolveCommandPath` wants an
    executable bit, so `command[0]` relative to the workspace, which
    `docs/regression-scenarios.md:134-135` describes, ends in INTERNAL_ERROR unless it names a
    file that was not staged: `Resolve` has no other outcome for `doc.staged`. On Windows Go reports no executable
    bit of a regular file at all, so the same test (`run.go:273`) seems to refuse every
    command there; this is read from the code and Go's documentation, not modelled.
17. `ReleaseGate!StrictPassAlwaysCovers` (an INVARIANT of `MCGate.cfg`): `readCappedReportFile`
    (`report_load.go:121-147`) reads in several reads what `suite.WriteReport`
    (`internal/suite/report.go:123`) truncates and rewrites in place, so in a pipeline that orders
    nothing the result PASS of an old report and entries of the next can be read as one
    report, and a listed scenario stays uncovered. In the order of `check-release-gate.sh` it
    cannot happen (`ScriptedIsFresh`).

## 6. Not modelled, and why

* Document field rules, loading, canonical JSON, formatting and printing: pure
  functions or I/O with no state another command can observe. Canonical JSON
  and SHA-256 are taken to be injective.
* Power loss: a rename is durable at once. Directories are not synced by the code
  and the documentation accepts the loss (a hazard without a property).
* A source replaced between `Lstat` and `ReadFile` in staging, an object replaced
  between a putter's `Lstat` and its rename: accepted by `docs/threat-model.md` and
  `docs/evidence-storage.md`.
* Temporary files of the evidence store: unique names in a directory no command reads.
  Those of the library are counted and carry no document, so `PrivacyHeld` speaks of
  published occurrences only.
* Damage to an occurrence while a check reads it: `CorruptNeverMatched` speaks of damage
  before the check began. No check of a file can promise more, as it may be damaged after
  its bytes were hashed.
* Which mixtures of two reports parse (`ReleaseGate`), and how long one is: any may be
  accepted, whatever its bytes.
* Errors of the removal of a suite's workspace root and of a scenario's workspace are
  outcomes of the step, without a cause: nothing says when they happen.
* Release and demo scripts.

## 7. Plan

Done first, because it is the system's heart and its only shared mutable state:
the library with its proofs. Then the modules that protect a release decision,
from the process tree up to the gate, then validation and identity.

Then the commands that only read the library, with the rules for paths, the
workspace files entry by entry, and the proof of the library cap.

Next, extending the model:

1. A volatile directory layer under `Library`: which of the promises survive a
   power loss (`add.go:285`).
2. `ReleaseGate` over `Library` itself in place of `AddOccurrence`, on one fingerprint.

Then proving more: what survives in the volatile directory layer, once it is modelled.
