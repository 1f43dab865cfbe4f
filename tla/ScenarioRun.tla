---------------------------- MODULE ScenarioRun ----------------------------
(***************************************************************************)
(* `incidentdna scenario run`: load, validate, prepare a workspace, stage  *)
(* the declared files, execute (ScenarioExec), remove the workspace, write *)
(* the report, exit; while the source files are edited, the processes      *)
(* write into the workspace, Ctrl-C is pressed or the runner is killed.    *)
(*                                                                         *)
(* A document is [valid, files, staged]: files are its workspace_files, a  *)
(* sequence of [source, destination]; valid stands for every rule but      *)
(* theirs that looks at the document alone; staged tells that command[0]   *)
(* names a file of the workspace.  Sizes are small numbers.                *)
(***************************************************************************)
EXTENDS ScenarioExec, PathRules

CONSTANTS
    Sources,        \* sources that documents declare, cleaned
    Sizes,          \* sizes a source may have
    Base,           \* the directory of the scenario file
    Docs,           \* scenario documents
    Options,        \* [explicit, keep, report : BOOLEAN], the flags
    Litters,        \* BOOLEAN: processes create files in the workspace
    MaxFiles,       \* MaxWorkspaceFiles (50 in the code)
    MaxFileSize,    \* MaxWorkspaceFileSize (10 MiB)
    MaxTotalSize    \* MaxWorkspaceTotalBytes (50 MiB)

ASSUME RunAssumption ==
    /\ Sizes \subseteq Nat
    /\ \A d \in Docs : /\ d.files \in Seq(Range(d.files))
                      /\ \A f \in Range(d.files) : Clean(f.source) \in Sources
    /\ Options \subseteq [explicit : BOOLEAN, keep : BOOLEAN, report : BOOLEAN]
    /\ MaxFiles \in Nat /\ MaxFileSize \in Nat /\ MaxTotalSize \in Nat

VARIABLES
    doc, opts,
    src,        \* the size of each source, or NoFile
    before,     \* what --workspace named before the run
    ws,         \* the workspace path
    prepared,   \* prepareWorkspace succeeded
    next,       \* index of the entry to stage
    reading,    \* it is between its Lstat and its ReadFile
    total,      \* bytes that Lstat has found
    staged,     \* what was written at each destination
    stuck,      \* what the removal of the workspace failed to remove
    report,     \* the file at --report
    code        \* exit code

runVars == <<doc, opts, src, before, ws, prepared, next, reading, total, staged,
             stuck, report, code>>
vars == <<execVars, runVars>>

NoFile == -1    \* missing, or not a regular file
NoCode == -1

AbsentDir == [kind |-> "absent", entries |-> {}]
Directory(names) == [kind |-> "directory", entries |-> names]
NoDirectory == [kind |-> "other", entries |-> {}]   \* a file or a symlink

Source(f) == Clean(f.source)
Destination(f) == Clean(f.destination)

\* A file of the user, and one that the processes created.
Theirs == Rel(<<"theirs">>)
LitterFile == Rel(<<"litter">>)

\* The workspace itself, among what may be stuck.
TheDirectory == Rel(<<>>)

Entries == {Destination(f) : f \in UNION {Range(d.files) : d \in Docs}}
               \cup {Theirs, LitterFile}

RunPc == ExecPc \cup {"load", "validate", "prepare", "stage", "resolve", "rmdir",
                      "summary", "write", "exited", "killed"}

RunTypeOK ==
    /\ pc \in RunPc /\ ExecTypeOK
    /\ doc \in Docs /\ opts \in Options
    /\ src \in [Sources -> Sizes \cup {NoFile}]
    /\ {before, ws} \subseteq
            {AbsentDir, NoDirectory} \cup {Directory(names) : names \in SUBSET Entries}
    /\ prepared \in BOOLEAN
    /\ next \in 1..Len(doc.files) + 1
    /\ reading \in BOOLEAN
    /\ total \in 0..MaxTotalSize
    /\ DOMAIN staged \subseteq Entries
    /\ Range(staged) \subseteq [source : Sources, size : Sizes]
    /\ stuck \subseteq Entries \cup {TheDirectory}
    /\ report \in {"absent", "stale", "torn"} \cup (Outcomes \ {"none"})
    /\ code \in {NoCode, 0, 1, 2}

RunInit ==
    /\ pc = "load" /\ ExecInit
    /\ doc \in Docs /\ opts \in Options
    /\ src \in [Sources -> Sizes \cup {NoFile}]
    /\ before \in (IF opts.explicit
                   THEN {AbsentDir, NoDirectory, Directory({}), Directory({Theirs})}
                   ELSE {AbsentDir})
    /\ ws = before
    /\ prepared = FALSE
    /\ next = 1 /\ reading = FALSE /\ total = 0
    /\ staged = [p \in {} |-> 0] /\ stuck = {}
    /\ report \in (IF opts.report THEN {"absent", "stale"} ELSE {"absent"})
    /\ code = NoCode

-----------------------------------------------------------------------------
TotalOf(sizes) == FoldLeft(LAMBDA a, b : a + b, 0, sizes)

\* Run ends with this outcome; what is deferred comes next.
Conclude(verdict, label) ==
    /\ pc' = label
    /\ outcome' = verdict
    /\ UNCHANGED <<expected, procVars, container, ctx, outVars, done, canceled>>

Advance(label) ==
    /\ pc' = label
    /\ UNCHANGED <<expected, procVars, container, ctx, outVars, done, canceled, outcome>>

Load ==
    /\ pc = "load"
    /\ Advance("validate") \/ Conclude("INTERNAL_ERROR", "summary")
    /\ UNCHANGED runVars

\* Mutant: destinations are compared as they are written.
BugSameDestination(f, g) == f.destination = g.destination

SameDestination(f, g) == Destination(f) = Destination(g)

SourceSize(f) == src[Source(f)]

\* validateWorkspaceFiles
FilesOK ==
    /\ Len(doc.files) <= MaxFiles
    /\ \A i \in DOMAIN doc.files :
        LET f == doc.files[i] IN
        /\ SafeRelative(f.source) /\ SafeRelative(f.destination)
        /\ \A j \in 1..(i - 1) : ~SameDestination(doc.files[j], f)
        /\ Contained(Base, f.source)
        /\ SourceSize(f) \in Sizes /\ SourceSize(f) <= MaxFileSize
    /\ TotalOf([i \in DOMAIN doc.files |-> SourceSize(doc.files[i])]) <= MaxTotalSize

\* scenario.Validate; with files it also notices that ctx was canceled.
Validate ==
    /\ pc = "validate"
    /\ IF doc.valid /\ FilesOK /\ (ctx = "canceled" => doc.files = <<>>)
       THEN Advance("prepare")
       ELSE Conclude("INVALID", "summary")
    /\ UNCHANGED runVars

\* --workspace must name nothing or an empty directory.
MayUse == ws = AbsentDir \/ ws = Directory({})

\* prepareWorkspace: MkdirTemp, or the directory of --workspace.
Prepare ==
    /\ pc = "prepare"
    /\ \/ /\ MayUse
          /\ Advance("stage")
          /\ ws' = Directory(ws.entries)
          /\ prepared' = TRUE
       \/ /\ Conclude("INTERNAL_ERROR", "summary")
          /\ UNCHANGED <<ws, prepared>>
    /\ UNCHANGED <<doc, opts, src, before, next, reading, total, staged, stuck, report, code>>

\* Lstat, checkWorkspaceFileSize and checkWorkspaceTotalBytes, once more.
Fits(f) ==
    /\ SourceSize(f) \in Sizes
    /\ SourceSize(f) <= MaxFileSize
    /\ total + SourceSize(f) <= MaxTotalSize

StageStat ==
    LET f == doc.files[next] IN
    /\ pc = "stage" /\ ~reading /\ next <= Len(doc.files)
    /\ \/ /\ Fits(f)
          /\ Advance("stage")
          /\ reading' = TRUE
          /\ total' = total + SourceSize(f)
       \/ /\ ~Fits(f)
          /\ Conclude("INTERNAL_ERROR", "returned")
          /\ UNCHANGED <<reading, total>>
    /\ UNCHANGED <<doc, opts, src, before, ws, prepared, next, staged, stuck, report, code>>

\* MkdirAll and WriteFile can create this file: no file staged before is one
\* of its directories, and it is not a directory of one.
Creatable(f) ==
    \A p \in ws.entries : ~IsStrictPrefix(p.parts, Destination(f).parts)
                         /\ ~IsStrictPrefix(Destination(f).parts, p.parts)

Written(f) == [p \in DOMAIN staged \cup {Destination(f)} |->
                 IF p = Destination(f)
                 THEN [source |-> Source(f), size |-> SourceSize(f)] ELSE staged[p]]

\* ReadFile, MkdirAll and WriteFile, any of which may fail; the last may leave
\* a part of the file.
StageCopy ==
    LET f == doc.files[next]
        withFile == Directory(ws.entries \cup {Destination(f)}) IN
    /\ pc = "stage" /\ reading
    /\ \/ /\ Creatable(f)
          /\ Advance("stage")
          /\ ws' = withFile
          /\ staged' = Written(f)
          /\ reading' = FALSE /\ next' = next + 1
       \/ /\ Conclude("INTERNAL_ERROR", "returned")
          /\ \/ UNCHANGED ws
             \/ Creatable(f) /\ ws' = withFile
          /\ UNCHANGED <<staged, next, reading>>
    /\ UNCHANGED <<doc, opts, src, before, prepared, total, stuck, report, code>>

StageEnd ==
    /\ pc = "stage" /\ next > Len(doc.files)
    /\ Advance("resolve")
    /\ UNCHANGED runVars

\* resolveCommandPath: the command exists and is executable, or not.  What is
\* staged is written with mode 0644.
Resolve ==
    /\ pc = "resolve"
    /\ \/ ~doc.staged /\ Advance("start")
       \/ Conclude("INTERNAL_ERROR", "returned")
    /\ UNCHANGED runVars

\* Mutant: after an error nothing is removed.
BugUnlink ==
    /\ pc = "returned"
    /\ \/ /\ opts.keep \/ outcome = "INTERNAL_ERROR"
          /\ Advance("summary")
          /\ UNCHANGED <<ws, stuck>>
       \/ /\ ~opts.keep /\ outcome # "INTERNAL_ERROR"
          /\ Advance("rmdir")
          /\ stuck' \in SUBSET ws.entries
          /\ ws' = [ws EXCEPT !.entries = stuck']
    /\ UNCHANGED <<doc, opts, src, before, prepared, next, reading, total, staged,
                   report, code>>

\* The deferred cleanup: os.RemoveAll unlinks the entries, and goes on when it
\* cannot remove one (an I/O error, a directory made unwritable) ...
Unlink ==
    /\ pc = "returned"
    /\ \/ /\ opts.keep
          /\ Advance("summary")
          /\ UNCHANGED <<ws, stuck>>
       \/ /\ ~opts.keep
          /\ Advance("rmdir")
          /\ stuck' \in SUBSET ws.entries
          /\ ws' = [ws EXCEPT !.entries = stuck']
    /\ UNCHANGED <<doc, opts, src, before, prepared, next, reading, total, staged,
                   report, code>>

\* ... and then the directory, which fails if something is in it, or by
\* itself.  Every error is ignored.
RemoveDir ==
    /\ pc = "rmdir"
    /\ Advance("summary")
    /\ \/ ws' = (IF ws.entries = {} THEN AbsentDir ELSE ws) /\ UNCHANGED stuck
       \/ stuck' = stuck \cup {TheDirectory} /\ UNCHANGED ws
    /\ UNCHANGED <<doc, opts, src, before, prepared, next, reading, total, staged,
                   report, code>>

ExitCode ==
    CASE outcome = "PASS" -> 0
      [] outcome \in {"FAIL", "TIMEOUT"} -> 2
      [] OTHER -> 1

\* os.WriteFile truncates the file at --report, if it can.
OpenReport ==
    /\ pc = "summary"
    /\ \/ /\ ~opts.report
          /\ Advance("exited")
          /\ code' = ExitCode
          /\ UNCHANGED report
       \/ /\ opts.report
          /\ Advance("write")
          /\ report' = "torn"
          /\ UNCHANGED code
       \/ /\ opts.report
          /\ Advance("exited")
          /\ code' = 1
          /\ UNCHANGED report
    /\ UNCHANGED <<doc, opts, src, before, ws, prepared, next, reading, total, staged,
                   stuck>>

\* Mutant: the exit code does not tell that the report could not be written.
BugWriteReport ==
    /\ pc = "write"
    /\ Advance("exited")
    /\ report' \in {outcome, report}
    /\ code' = ExitCode
    /\ UNCHANGED <<doc, opts, src, before, ws, prepared, next, reading, total, staged,
                   stuck>>

WriteReport ==
    /\ pc = "write"
    /\ Advance("exited")
    /\ \/ report' = outcome /\ code' = ExitCode
       \/ UNCHANGED report /\ code' = 1
    /\ UNCHANGED <<doc, opts, src, before, ws, prepared, next, reading, total, staged,
                   stuck>>

-----------------------------------------------------------------------------
(* The environment                                                         *)

Running == pc \notin {"exited", "killed"}

\* Ctrl-C outside execCommand (inside it is ContextEnds).
Interrupt ==
    /\ pc \in {"load", "validate", "prepare", "stage", "resolve"}
    /\ ctx = "live" /\ ctx' = "canceled"
    /\ UNCHANGED <<pc, expected, procVars, container, outVars, done, canceled, outcome>>
    /\ UNCHANGED runVars

\* A source is edited, removed or replaced; once staged it is not read again.
\* An edit between Lstat and ReadFile is left out: docs/threat-model.md
\* accepts that gap.
Edit(file) ==
    /\ pc \in {"load", "validate", "prepare", "stage"}
    /\ ~(reading /\ file = Source(doc.files[next]))
    /\ \E size \in Sizes \cup {NoFile} : src' = [src EXCEPT ![file] = size]
    /\ UNCHANGED <<execVars, doc, opts, before, ws, prepared, next, reading, total,
                   staged, stuck, report, code>>

\* A process creates a file in the workspace.
Litter ==
    /\ Litters /\ alive # {} /\ ws.kind = "directory"
    /\ ws' = [ws EXCEPT !.entries = @ \cup {LitterFile}]
    /\ UNCHANGED <<execVars, doc, opts, src, before, prepared, next, reading, total,
                   staged, stuck, report, code>>

\* The runner gets a SIGKILL.
RunnerKilled ==
    /\ Running
    /\ Advance("killed")
    /\ UNCHANGED runVars

Cleanup == Unlink \/ RemoveDir \/ OpenReport \/ WriteReport

RunnerNext ==
    \/ Load \/ Validate \/ Prepare \/ StageStat \/ StageCopy \/ StageEnd \/ Resolve
    \/ WaitNext /\ UNCHANGED runVars
    \/ Cleanup

RunNext ==
    \/ RunnerNext
    \/ ExecNext /\ UNCHANGED runVars
    \/ Interrupt
    \/ \E file \in Sources : Edit(file)
    \/ Litter
    \/ RunnerKilled

RunTerminated == ~Running /\ UNCHANGED vars

RunSpec == RunInit /\ [][RunNext \/ RunTerminated]_vars

-----------------------------------------------------------------------------
(* Properties                                                              *)

\* Nothing is executed unless every declared destination is in the workspace
\* and was written from the source declared for it, and what was staged is
\* within the limits although sources change after Validate.
NothingRunsUnstaged ==
    born # {} =>
        /\ \A f \in Range(doc.files) :
            /\ pc \in ExecPc => Destination(f) \in ws.entries
            /\ Destination(f) \in DOMAIN staged
            /\ staged[Destination(f)].source = Source(f)
            /\ staged[Destination(f)].size <= MaxFileSize
        /\ TotalOf([i \in DOMAIN doc.files |-> staged[Destination(doc.files[i])].size])
                <= MaxTotalSize

\* --workspace naming anything but an empty directory or nothing stays as it
\* was, through every failure and cleanup.
TheirFilesStay == before \notin {AbsentDir, Directory({})} => ws = before

\* What may be left of a workspace: what could not be removed, and what a
\* process that the command spawned has written since.
MayRemain == stuck \cup (IF born \cap Descendants # {} THEN {LitterFile} ELSE {})

\* "The workspace is removed after the run completes (any outcome) unless
\* --keep-workspace is passed, in which case [it] is left."  What the code
\* guarantees of it, whichever step failed: a workspace that is kept is still
\* there, with every file that was staged if no command ran to change them; of
\* any other the removal is tried for every entry and for the directory, so
\* that nothing is left unless that very thing could not be removed or was
\* written behind its back.
WorkspaceRemoved ==
    pc = "exited" /\ prepared =>
        IF opts.keep
        THEN /\ ws.kind = "directory"
             /\ born = {} => DOMAIN staged \subseteq ws.entries
        ELSE \/ ws = AbsentDir
             \/ /\ ws = Directory(ws.entries) /\ ws.entries \subseteq MayRemain
                /\ ws.entries = {} => TheDirectory \in stuck

\* The cleanup removes what the run may have created, after every failure,
\* and nothing else.
CleanupIsExact == TheirFilesStay /\ WorkspaceRemoved

\* The run implements its contract, interrupted, cut off or unable to write
\* its report.
Contract == INSTANCE RunContract WITH
    started <- (born # {}),
    told <- (~opts.report \/ report = outcome)

ImplementsContract == Contract!Spec

-----------------------------------------------------------------------------
(* What the documentation says and the code does not guarantee             *)

\* The workspace goes whatever the processes do, and whatever call fails.
WorkspaceAlwaysRemoved ==
    pc = "exited" /\ prepared /\ ~opts.keep => ws = AbsentDir

\* INVALID is said of a scenario that fails the checks `scenario verify` makes.
InvalidMeansInvalid ==
    [][outcome' = "INVALID" /\ outcome = "none" => ~(doc.valid /\ FilesOK)]_vars

\* What `scenario verify` accepts can be staged when no call fails: it accepts
\* destinations of which one is a directory of the other.
AcceptedIsStageable ==
    pc = "stage" /\ reading => Creatable(doc.files[next])

=============================================================================
