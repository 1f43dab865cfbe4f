--------------------------- MODULE ScenarioProofs ---------------------------
(***************************************************************************)
(* Theorems about ScenarioExec and ScenarioRun, for any processes,         *)
(* containers, limits, documents and flags.                                *)
(*                                                                         *)
(* The invariants of the execution do not say what pc may be: they hold of *)
(* an execution alone (Spec) and as a part of a run (RunSpec), whose other *)
(* steps move pc to labels of their own.                                   *)
(***************************************************************************)
EXTENDS ScenarioRun, FoldProofs, FiniteSetTheorems, TLAPS

-----------------------------------------------------------------------------
(* The inductive invariant of an execution                                 *)

\* Before the command is started.
Early == {"load", "validate", "prepare", "stage", "resolve", "start"}

ProcInv ==
    /\ born \subseteq Procs
    /\ alive \subseteq born /\ holders \subseteq alive /\ group \subseteq born
    /\ Child \in born \ alive => exit # {}

\* What was captured is the beginning of what was written: everything but
\* the bytes in the pipe and those beyond the limit.
FlowInv ==
    /\ pipe \in Nat /\ emitted \in Nat /\ pipe <= emitted
    /\ captured = IF emitted - pipe < MaxOutput THEN emitted - pipe ELSE MaxOutput
    /\ truncated \in BOOLEAN
    /\ truncated <=> emitted - pipe > MaxOutput

\* done is final: nobody is left that could write, and nothing to be read.
WaitInv ==
    /\ done => Child \in born \ alive /\ holders = {} /\ pipe = 0
    /\ pc \in Early => born = {}
    /\ pc \in Early \cup {"assign", "select"} => ~canceled
    /\ pc \in Early \cup {"assign", "select", "drain", "classify"} => outcome = "none"
    /\ pc = "classify" => done
    /\ ctx \in {"live", "deadline", "canceled"}
    /\ canceled => ctx # "live"
    /\ outcome \in {"PASS", "FAIL"} => done /\ ~canceled

\* On Unix a process is in the group or has left it.
TreeInv ==
    /\ container = "group" => alive \subseteq group \cup detached
    /\ container = "none" => group = {}
    /\ TreeDiesAtTimeout

ExecInv == ProcInv /\ FlowInv /\ WaitInv /\ TreeInv

-----------------------------------------------------------------------------
(* The inductive invariant of a run                                        *)

\* The entry that is staged as the document says, within its limit.
StagedAs(f) ==
    /\ Destination(f) \in DOMAIN staged
    /\ staged[Destination(f)].source = Source(f)
    /\ staged[Destination(f)].size \in Nat
    /\ staged[Destination(f)].size <= MaxFileSize

\* The sizes staged so far, and their sum.
StagedSizes == [i \in 1..(next - 1) |-> staged[Destination(doc.files[i])].size]

Started == pc \in {"resolve", "start"} \/ born # {}

StageInv ==
    /\ doc \in Docs /\ src \in [Sources -> Sizes \cup {NoFile}]
    /\ next \in 1..Len(doc.files) + 1
    /\ pc \in {"load", "validate", "prepare"} => next = 1 /\ ~reading /\ total = 0
    /\ pc \in {"prepare", "stage"} =>
        \A i, j \in DOMAIN doc.files : j < i => ~SameDestination(doc.files[j], doc.files[i])
    /\ pc = "stage" /\ reading => next <= Len(doc.files)
    /\ \A i \in 1..(next - 1) :
        /\ StagedAs(doc.files[i])
        /\ pc \in {"stage", "resolve"} \cup ExecPc => Destination(doc.files[i]) \in ws.entries
    /\ pc = "stage" /\ reading =>
        /\ SourceSize(doc.files[next]) \in Nat
        /\ SourceSize(doc.files[next]) <= MaxFileSize
    /\ Started => next = Len(doc.files) + 1

\* The bytes that Lstat found are the bytes staged, with those of the entry
\* that is being read.
TotalInv ==
    /\ total \in 0..MaxTotalSize
    /\ pc = "stage" =>
        IF reading THEN total = TotalOf(StagedSizes) + SourceSize(doc.files[next])
        ELSE total = TotalOf(StagedSizes)
    /\ Started => TotalOf(StagedSizes) <= MaxTotalSize

IsWorkspace(w) == w \in {AbsentDir, NoDirectory} \/ w = Directory(w.entries)

WorkspaceInv ==
    /\ IsWorkspace(ws)
    /\ prepared => before \in {AbsentDir, Directory({})}
    /\ ~prepared => ws = before /\ born = {} /\ DOMAIN staged = {}
    /\ pc \in {"load", "validate", "prepare"} => ~prepared
    /\ pc \in {"stage", "resolve", "rmdir"} \cup ExecPc => prepared /\ ws = Directory(ws.entries)
    /\ pc \in {"returned", "rmdir", "summary", "write", "exited"} => Child \notin alive
    /\ born = {} /\ (opts.keep \/ pc \in {"stage", "resolve"} \cup ExecPc) =>
        \/ ~prepared
        \/ ws.kind = "directory" /\ DOMAIN staged \subseteq ws.entries
    /\ pc = "rmdir" => ~opts.keep /\ ws.entries \subseteq MayRemain
    /\ pc \in {"summary", "write", "exited"} /\ prepared =>
        IF opts.keep THEN ws.kind = "directory"
        ELSE \/ ws = AbsentDir
             \/ /\ ws = Directory(ws.entries) /\ ws.entries \subseteq MayRemain
                /\ ws.entries = {} => TheDirectory \in stuck

\* The report is written last, and the outcome is settled by then.
ReportInv ==
    /\ opts \in Options
    /\ pc \in {"returned", "rmdir", "summary", "write"} => outcome # "none"
    /\ outcome \in Outcomes
    /\ outcome = "none" \/ pc \in {"returned", "rmdir", "summary"} => report \in {"absent", "stale"}
    /\ pc = "write" => opts.report /\ report = "torn"
    /\ pc # "exited" => code = NoCode

RunInv == ExecInv /\ StageInv /\ TotalInv /\ WorkspaceInv /\ ReportInv

-----------------------------------------------------------------------------
(* An execution: each step of ExecNext keeps each part of ExecInv.         *)

LEMMA ExecInvInit == ExecInit /\ pc \in Early => ExecInv
  <1> SUFFICES ASSUME ExecInit, pc \in Early PROVE ExecInv
    OBVIOUS
  <1>1. ProcInv /\ WaitInv
    BY DEF ExecInit, ProcInv, WaitInv, Early
  <1>2. FlowInv
    <2>1. pipe = 0 /\ emitted = 0 /\ captured = 0 /\ truncated = FALSE /\ MaxOutput \in Nat
      BY ExecAssumption DEF ExecInit
    <2>2. truncated <=> emitted - pipe > MaxOutput
      BY <2>1
    <2>3. captured = IF emitted - pipe < MaxOutput THEN emitted - pipe ELSE MaxOutput
      BY <2>1
    <2>4. pipe \in Nat /\ emitted \in Nat /\ pipe <= emitted
      BY <2>1
    <2>5. truncated \in BOOLEAN
      BY <2>1
    <2> QED
      BY <2>2, <2>3, <2>4, <2>5 DEF FlowInv
  <1>3. TreeInv
    BY DEF ExecInit, TreeInv, TreeDiesAtTimeout
  <1> QED
    BY <1>1, <1>2, <1>3 DEF ExecInv

LEMMA ProcStep ==
  ASSUME ProcInv, WaitInv, ExecNext
  PROVE  ProcInv'
  <1> USE DEF ProcInv, Procs
  <1>1. CASE Start
    BY <1>1 DEF Start, procVars, WaitInv, Early
  <1>2. CASE Assign
    BY <1>2 DEF Assign
  <1>3. CASE SelectCtx
    BY <1>3 DEF SelectCtx, Killed
  <1>4. CASE WaitReturns \/ SelectDone \/ Drain \/ Classify \/ Copy
    BY <1>4 DEF WaitReturns, SelectDone, Drain, Classify, Copy, procVars
  <1>5. ASSUME NEW cause \in {"deadline", "canceled"}, ContextEnds(cause) PROVE ProcInv'
    BY <1>5 DEF ContextEnds, procVars
  <1>6. ASSUME NEW p \in Procs, NEW q \in Descendants, Spawn(p, q) PROVE ProcInv'
    BY <1>6, ExecAssumption DEF Spawn
  <1>7. ASSUME NEW p \in Procs, Write(p) PROVE ProcInv'
    BY <1>7 DEF Write, procVars
  <1>8. ASSUME NEW p \in Procs, NEW c \in ExitCodes \cup {0}, Exit(p, c) PROVE ProcInv'
    BY <1>8 DEF Exit
  <1> QED
    BY <1>1, <1>2, <1>3, <1>4, <1>5, <1>6, <1>7, <1>8 DEF ExecNext, WaitNext, ProcNext

LEMMA FlowStep ==
  ASSUME FlowInv, ExecNext
  PROVE  FlowInv'
  <1> USE ExecAssumption DEF FlowInv
  <1>1. CASE Copy
    <2>1. /\ pipe' = pipe - 1 /\ emitted' = emitted /\ pipe > 0
          /\ captured' = IF captured < MaxOutput THEN captured + 1 ELSE captured
      BY <1>1 DEF Copy
    <2>2. /\ pipe' \in Nat /\ emitted' \in Nat /\ pipe' <= emitted'
          /\ captured' = IF emitted' - pipe' < MaxOutput THEN emitted' - pipe' ELSE MaxOutput
      BY <2>1
    <2>3. truncated' = (truncated \/ Overflows)
      BY <1>1 DEF Copy
    <2>4. CASE Overflows
      <3>1. emitted' - pipe' > MaxOutput
        BY <2>1, <2>4 DEF Overflows
      <3> QED
        BY <2>2, <2>3, <2>4, <3>1
    <2>5. CASE ~Overflows
      <3>1. ~(emitted - pipe > MaxOutput) /\ ~(emitted' - pipe' > MaxOutput)
        BY <2>1, <2>5 DEF Overflows
      <3> QED
        BY <2>2, <2>3, <2>5, <3>1
    <2> QED
      BY <2>4, <2>5
  <1>2. ASSUME NEW p \in Procs, Write(p) PROVE FlowInv'
    BY <1>2 DEF Write
  <1>3. CASE UNCHANGED outVars
    BY <1>3 DEF outVars
  <1>4. WaitNext => UNCHANGED outVars
    BY DEF WaitNext, Start, Assign, WaitReturns, SelectDone, SelectCtx, Drain, Classify
  <1>5. ASSUME NEW cause \in {"deadline", "canceled"}, ContextEnds(cause)
        PROVE  UNCHANGED outVars
    BY <1>5 DEF ContextEnds
  <1>6. ASSUME NEW p \in Procs, NEW q \in Descendants, Spawn(p, q) PROVE UNCHANGED outVars
    BY <1>6 DEF Spawn
  <1>7. ASSUME NEW p \in Procs, NEW c, Exit(p, c) PROVE UNCHANGED outVars
    BY <1>7 DEF Exit
  <1> QED
    BY <1>1, <1>2, <1>3, <1>4, <1>5, <1>6, <1>7 DEF ExecNext, ProcNext, Procs

LEMMA WaitStep ==
  ASSUME ProcInv, WaitInv, ExecNext
  PROVE  WaitInv'
  <1> USE DEF WaitInv, Early
  <1>1. CASE Start
    BY <1>1 DEF Start, procVars, outVars, ProcInv
  <1>2. CASE Assign
    BY <1>2 DEF Assign, outVars
  <1>3. CASE WaitReturns
    BY <1>3 DEF WaitReturns, procVars, outVars
  <1>4. CASE SelectDone \/ Drain
    BY <1>4 DEF SelectDone, Drain, procVars, outVars
  <1>5. CASE SelectCtx
    BY <1>5 DEF SelectCtx, outVars
  <1>6. CASE Classify
    BY <1>6 DEF Classify, Judge, procVars, outVars
  <1>7. CASE Copy
    BY <1>7 DEF Copy, procVars
  <1>8. ASSUME NEW cause \in {"deadline", "canceled"}, ContextEnds(cause) PROVE WaitInv'
    BY <1>8 DEF ContextEnds, procVars, outVars
  <1>9. ASSUME NEW p \in Procs, NEW q \in Descendants, Spawn(p, q) PROVE WaitInv'
    BY <1>9, ExecAssumption DEF Spawn, outVars, ProcInv
  <1>10. ASSUME NEW p \in Procs, Write(p) PROVE WaitInv'
    BY <1>10 DEF Write, procVars
  <1>11. ASSUME NEW p \in Procs, NEW c \in ExitCodes \cup {0}, Exit(p, c) PROVE WaitInv'
    BY <1>11 DEF Exit, outVars, ProcInv
  <1> QED
    BY <1>1, <1>2, <1>3, <1>4, <1>5, <1>6, <1>7, <1>8, <1>9, <1>10, <1>11
       DEF ExecNext, WaitNext, ProcNext, Procs

\* The kill reaches whoever is in the group, and who is spawned after it by a
\* process that is not in the group is not in it either.
LEMMA TreeStep ==
  ASSUME ProcInv, WaitInv, TreeInv, ExecNext
  PROVE  TreeInv'
  <1> USE DEF TreeInv, TreeDiesAtTimeout
  <1>1. CASE Start
    BY <1>1 DEF Start, procVars, ProcInv, WaitInv, Early
  <1>2. CASE Assign
    BY <1>2 DEF Assign
  <1>3. CASE SelectCtx
    BY <1>3 DEF SelectCtx, Killed
  <1>4. CASE WaitReturns \/ SelectDone \/ Drain \/ Classify \/ Copy
    BY <1>4 DEF WaitReturns, SelectDone, Drain, Classify, Copy, procVars, WaitInv, Early
  <1>5. ASSUME NEW cause \in {"deadline", "canceled"}, ContextEnds(cause) PROVE TreeInv'
    BY <1>5 DEF ContextEnds, procVars
  <1>6. ASSUME NEW p \in Procs, NEW q \in Descendants, Spawn(p, q) PROVE TreeInv'
    BY <1>6 DEF Spawn, ProcInv
  <1>7. ASSUME NEW p \in Procs, Write(p) PROVE TreeInv'
    BY <1>7 DEF Write, procVars
  <1>8. ASSUME NEW p \in Procs, NEW c \in ExitCodes \cup {0}, Exit(p, c) PROVE TreeInv'
    BY <1>8 DEF Exit
  <1> QED
    BY <1>1, <1>2, <1>3, <1>4, <1>5, <1>6, <1>7, <1>8 DEF ExecNext, WaitNext, ProcNext, Procs

LEMMA ExecStep ==
  ASSUME ExecInv, ExecNext
  PROVE  ExecInv'
  BY ProcStep, FlowStep, WaitStep, TreeStep DEF ExecInv

\* The invariants give both properties of an execution.
LEMMA ExecInvSafe == ExecInv => VerdictIsEarned /\ TreeDiesAtTimeout
  <1> SUFFICES ASSUME ExecInv PROVE VerdictIsEarned /\ TreeDiesAtTimeout
    OBVIOUS
  <1>1. KilledIsNeverJudged
    BY DEF ExecInv, WaitInv, ProcInv, KilledIsNeverJudged
  <1>2. ASSUME outcome \in {"PASS", "FAIL"}
        PROVE  captured = MinOutput /\ truncated = (emitted > MaxOutput)
    <2>1. pipe = 0
      BY <1>2 DEF ExecInv, WaitInv
    <2>2. emitted \in Nat /\ emitted - pipe = emitted
      BY <2>1 DEF ExecInv, FlowInv
    <2>3. captured = MinOutput
      BY <2>2 DEF ExecInv, FlowInv, MinOutput
    <2>4. truncated \in BOOLEAN /\ (truncated <=> emitted > MaxOutput)
      BY <2>2 DEF ExecInv, FlowInv
    <2> QED
      BY <2>3, <2>4
  <1> QED
    BY <1>1, <1>2 DEF VerdictIsEarned, JudgedOnFullOutput, ExecInv, TreeInv

LEMMA ExecTypeInit == ExecInit => ExecTypeOK
  <1> SUFFICES ASSUME ExecInit PROVE ExecTypeOK
    OBVIOUS
  <1>1. Cardinality(exit) <= 1
    BY FS_EmptySet DEF ExecInit
  <1>2. pipe \in 0..MaxEmit /\ emitted \in 0..MaxEmit /\ captured \in 0..MaxOutput
    BY ExecAssumption DEF ExecInit
  <1> QED
    BY <1>1, <1>2 DEF ExecInit, ExecTypeOK, Outcomes

LEMMA ExecTypeStep ==
  ASSUME ExecTypeOK, FlowInv, WaitInv, ExecNext
  PROVE  ExecTypeOK'
  <1> USE DEF ExecTypeOK
  <1>1. CASE Start
    BY <1>1 DEF Start, procVars, outVars, Procs, Outcomes, WaitInv, Early
  <1>2. CASE Assign
    BY <1>2 DEF Assign, outVars
  <1>3. CASE SelectCtx
    <2>1. Cardinality({-1}) = 1
      BY FS_Singleton
    <2> QED
      BY <1>3, <2>1 DEF SelectCtx, Killed, outVars
  <1>4. CASE WaitReturns \/ SelectDone \/ Drain
    BY <1>4 DEF WaitReturns, SelectDone, Drain, procVars, outVars
  <1>5. CASE Classify
    BY <1>5 DEF Classify, Judge, WaitInv, Outcomes, procVars, outVars
  <1>6. CASE Copy
    BY <1>6, ExecAssumption DEF Copy, procVars
  <1>7. ASSUME NEW cause \in {"deadline", "canceled"}, ContextEnds(cause) PROVE ExecTypeOK'
    BY <1>7 DEF ContextEnds, procVars, outVars
  <1>8. ASSUME NEW p \in Procs, NEW q \in Descendants, Spawn(p, q) PROVE ExecTypeOK'
    BY <1>8 DEF Spawn, outVars, Procs
  <1>9. ASSUME NEW p \in Procs, Write(p) PROVE ExecTypeOK'
    <2>1. pipe' \in 0..MaxEmit /\ emitted' \in 0..MaxEmit
      BY <1>9, ExecAssumption DEF Write, FlowInv
    <2> QED
      BY <1>9, <2>1 DEF Write, procVars
  <1>10. ASSUME NEW p \in Procs, NEW c \in ExitCodes \cup {0}, Exit(p, c),
                p = Child => c \in ExitCodes
         PROVE  ExecTypeOK'
    <2>1. Cardinality({c}) = 1
      BY FS_Singleton
    <2> QED
      BY <1>10, <2>1 DEF Exit, outVars
  <1> QED
    BY <1>1, <1>2, <1>3, <1>4, <1>5, <1>6, <1>7, <1>8, <1>9, <1>10, ExecAssumption
       DEF ExecNext, WaitNext, ProcNext, Procs

\* What one step of an execution keeps, and a step that moves none of it.
LEMMA ExecStutter ==
  ASSUME ExecInv, UNCHANGED execVars
  PROVE  ExecInv'
  BY DEF ExecInv, ProcInv, FlowInv, WaitInv, TreeInv, TreeDiesAtTimeout, execVars,
         procVars, outVars, Procs

LEMMA ExecTypeStutter ==
  ASSUME ExecTypeOK, UNCHANGED execVars
  PROVE  ExecTypeOK'
  BY DEF ExecTypeOK, execVars, procVars, outVars

\* The variables of an execution keep their types.
THEOREM ExecTypeCorrect == Spec => []TypeOK
  <1> DEFINE Inv == TypeOK /\ ExecInv
  <1>1. Init => Inv
    BY ExecInvInit, ExecTypeInit DEF Init, TypeOK, ExecPc, Early
  <1>2. Inv /\ [Next]_execVars => Inv'
    <2> SUFFICES ASSUME Inv, [Next]_execVars PROVE Inv'
      OBVIOUS
    <2>1. CASE ExecNext
      <3>1. pc' \in ExecPc
        BY <2>1 DEF TypeOK, ExecPc, ExecNext, WaitNext, ProcNext, Start, Assign, WaitReturns,
                    SelectDone, SelectCtx, Drain, Classify, Copy, ContextEnds, Spawn, Write, Exit
      <3> QED
        BY <2>1, <3>1, ExecStep, ExecTypeStep DEF TypeOK, ExecInv
    <2>2. CASE UNCHANGED execVars
      BY <2>2, ExecStutter, ExecTypeStutter DEF TypeOK, execVars
    <2> QED
      BY <2>1, <2>2 DEF Next, Terminated
  <1>3. Inv => TypeOK
    OBVIOUS
  <1> QED
    BY <1>1, <1>2, <1>3, PTL DEF Spec

\* ExecInv is inductive.
THEOREM ExecInvariant == Spec => []ExecInv
  <1>1. Init => ExecInv
    BY ExecInvInit DEF Init, Early
  <1>2. ExecInv /\ [Next]_execVars => ExecInv'
    BY ExecStep, ExecStutter DEF Next, Terminated
  <1> QED
    BY <1>1, <1>2, PTL DEF Spec

\* The verdict of execCommand rests on a whole run: on all its output up to
\* the limit, and never on a command that was killed.
THEOREM VerdictsAreEarned == Spec => []VerdictIsEarned
  BY ExecInvariant, ExecInvSafe, PTL

\* On Unix nobody of the tree outlives the timeout but who left the group; on
\* Windows nobody who was in the Job Object.
THEOREM TreesDie == Spec => []TreeDiesAtTimeout
  BY ExecInvariant, ExecInvSafe, PTL

-----------------------------------------------------------------------------
(* A run: ExecInv through the steps around the execution                   *)

LEMMA AdvanceStep ==
  ASSUME ExecInv, Advance(pc'), pc' \notin {"assign", "select", "drain", "classify"},
         pc' \in Early => pc \in Early
  PROVE  ExecInv'
  <1>1. ProcInv' /\ FlowInv'
    BY DEF ExecInv, ProcInv, FlowInv, Advance, procVars, outVars, Procs
  <1>2. TreeInv'
    BY DEF ExecInv, TreeInv, TreeDiesAtTimeout, Advance, procVars
  <1>3. WaitInv'
    BY DEF ExecInv, WaitInv, Early, Advance, procVars, outVars
  <1> QED
    BY <1>1, <1>2, <1>3 DEF ExecInv

LEMMA ConcludeStep ==
  ASSUME ExecInv, NEW verdict \in {"INVALID", "INTERNAL_ERROR"},
         NEW label \in {"summary", "returned"}, Conclude(verdict, label)
  PROVE  ExecInv'
  <1>1. ProcInv' /\ FlowInv'
    BY DEF ExecInv, ProcInv, FlowInv, Conclude, procVars, outVars, Procs
  <1>2. TreeInv'
    BY DEF ExecInv, TreeInv, TreeDiesAtTimeout, Conclude, procVars
  <1>3. WaitInv'
    BY DEF ExecInv, WaitInv, Early, Conclude, procVars, outVars
  <1> QED
    BY <1>1, <1>2, <1>3 DEF ExecInv

LEMMA RunExecStep ==
  ASSUME ExecInv, RunNext
  PROVE  ExecInv'
  <1> USE DEF Early
  <1>1. CASE Load
    BY <1>1, AdvanceStep, ConcludeStep DEF Load, Advance
  <1>2. CASE Validate
    BY <1>2, AdvanceStep, ConcludeStep DEF Validate, Advance
  <1>3. CASE Prepare
    BY <1>3, AdvanceStep, ConcludeStep DEF Prepare, Advance
  <1>4. CASE StageStat
    BY <1>4, AdvanceStep, ConcludeStep DEF StageStat, Advance
  <1>5. CASE StageCopy
    BY <1>5, AdvanceStep, ConcludeStep DEF StageCopy, Advance
  <1>6. CASE StageEnd \/ Resolve
    BY <1>6, AdvanceStep, ConcludeStep DEF StageEnd, Resolve, Advance
  <1>7. CASE Cleanup
    BY <1>7, AdvanceStep
       DEF Cleanup, Unlink, RemoveDir, OpenReport, WriteReport, Advance
  <1>8. CASE RunnerKilled
    BY <1>8, AdvanceStep DEF RunnerKilled, Advance
  <1>9. CASE ExecNext
    BY <1>9, ExecStep
  <1>10. CASE Interrupt
    BY <1>10 DEF Interrupt, ExecInv, ProcInv, FlowInv, WaitInv, TreeInv, TreeDiesAtTimeout,
                 procVars, outVars, Procs
  <1>11. CASE Litter \/ \E file \in Sources : Edit(file)
    BY <1>11, ExecStutter DEF Litter, Edit
  <1> QED
    BY <1>1, <1>2, <1>3, <1>4, <1>5, <1>6, <1>7, <1>8, <1>9, <1>10, <1>11
       DEF RunNext, RunnerNext, ExecNext

\* How an execution moves what the rest of a run looks at.
LEMMA ExecMoves ==
  ASSUME ExecInv, ExecNext
  PROVE  /\ \/ pc' = pc /\ outcome' = outcome
            \/ /\ pc \in {"start", "assign", "select", "drain"}
               /\ pc' \in {"assign", "select", "drain", "classify"}
               /\ outcome' = outcome
            \/ /\ pc \in {"start", "classify"} /\ pc' = "returned"
               /\ outcome = "none"
               /\ outcome' \in IF born = {} THEN {"INTERNAL_ERROR"}
                               ELSE {"PASS", "FAIL", "TIMEOUT", "INTERNAL_ERROR"}
               /\ born' = born /\ Child \notin alive'
         /\ born \subseteq born'
         /\ born' # {} => born # {} \/ pc = "start"
         /\ pc # "start" /\ Child \notin alive => Child \notin alive'
  <1> USE DEF ExecInv, ProcInv, WaitInv, Early, Outcomes
  <1>1. CASE Start
    BY <1>1 DEF Start, procVars
  <1>2. CASE Assign \/ SelectCtx
    BY <1>2 DEF Assign, SelectCtx
  <1>3. CASE WaitReturns \/ SelectDone \/ Drain \/ Copy
    BY <1>3 DEF WaitReturns, SelectDone, Drain, Copy, procVars
  <1>4. CASE Classify
    BY <1>4 DEF Classify, Judge, procVars
  <1>5. CASE \E cause \in {"deadline", "canceled"} : ContextEnds(cause)
    BY <1>5 DEF ContextEnds, procVars
  <1>6. ASSUME NEW p \in Procs, NEW q \in Descendants, Spawn(p, q) PROVE
            pc' = pc /\ outcome' = outcome /\ born # {} /\ born \subseteq born'
            /\ (Child \notin alive => Child \notin alive')
    BY <1>6, ExecAssumption DEF Spawn
  <1>7. ASSUME NEW p \in Procs, NEW c, Write(p) \/ Exit(p, c) PROVE
            pc' = pc /\ outcome' = outcome /\ born' = born
            /\ (Child \notin alive => Child \notin alive')
    BY <1>7 DEF Write, Exit, procVars
  <1> QED
    BY <1>1, <1>2, <1>3, <1>4, <1>5, <1>6, <1>7 DEF ExecNext, WaitNext, ProcNext, Procs

-----------------------------------------------------------------------------
(* A run: the report and the workspace                                     *)

LEMMA ReportStep ==
  ASSUME ExecInv, ReportInv, RunNext
  PROVE  ReportInv'
  <1> USE DEF ReportInv
  <1>1. CASE Load \/ Validate \/ Prepare
    BY <1>1 DEF Load, Validate, Prepare, Advance, Conclude, runVars, Outcomes,
                ExecInv, WaitInv, Early
  <1>2. CASE StageStat \/ StageCopy \/ StageEnd \/ Resolve
    BY <1>2 DEF StageStat, StageCopy, StageEnd, Resolve, Advance, Conclude, runVars, Outcomes,
                ExecInv, WaitInv, Early
  <1>3. CASE Unlink \/ RemoveDir
    BY <1>3 DEF Unlink, RemoveDir, Advance
  <1>4. CASE OpenReport
    BY <1>4 DEF OpenReport, Advance
  <1>5. CASE WriteReport
    BY <1>5 DEF WriteReport, Advance
  <1>6. CASE ExecNext /\ UNCHANGED runVars
    BY <1>6, ExecMoves DEF runVars, Outcomes
  <1>7. CASE Interrupt \/ Litter \/ RunnerKilled \/ \E file \in Sources : Edit(file)
    BY <1>7 DEF Interrupt, Litter, RunnerKilled, Running, Edit, Advance, execVars, runVars
  <1> QED
    BY <1>1, <1>2, <1>3, <1>4, <1>5, <1>6, <1>7
       DEF RunNext, RunnerNext, Cleanup, ExecNext

LEMMA WorkspaceStep ==
  ASSUME ExecInv, WorkspaceInv, RunNext
  PROVE  WorkspaceInv'
  <1> USE DEF WorkspaceInv, IsWorkspace, Directory, AbsentDir, NoDirectory
  <1>1. CASE Load \/ Validate
    BY <1>1 DEF Load, Validate, Advance, Conclude, procVars, runVars, ExecInv, ProcInv, WaitInv,
                Early, ExecPc
  <1>2. CASE Prepare
    BY <1>2 DEF Prepare, MayUse, Advance, Conclude, procVars, ExecInv, ProcInv, WaitInv,
                Early, ExecPc
  <1>3. CASE StageStat
    BY <1>3 DEF StageStat, Advance, Conclude, procVars, ExecInv, ProcInv, WaitInv, Early, ExecPc
  <1>4. CASE StageCopy
    <2>1. /\ born' = born /\ alive' = alive /\ born = {} /\ alive = {}
          /\ pc = "stage" /\ pc' \in {"stage", "returned"}
          /\ UNCHANGED <<before, prepared, opts>>
          /\ prepared /\ ws = Directory(ws.entries) /\ DOMAIN staged \subseteq ws.entries
      BY <1>4 DEF StageCopy, Advance, Conclude, procVars, ExecInv, ProcInv, WaitInv, Early
    <2>2. \/ ws' = ws
          \/ ws' = Directory(ws.entries \cup {Destination(doc.files[next])})
      BY <1>4 DEF StageCopy
    <2>3. ws' = Directory(ws'.entries)
      BY <2>1, <2>2
    <2>4. DOMAIN staged' \subseteq ws'.entries
      <3>1. CASE staged' = staged
        BY <2>1, <2>2, <3>1
      <3>2. CASE /\ ws' = Directory(ws.entries \cup {Destination(doc.files[next])})
                 /\ staged' = Written(doc.files[next])
        BY <2>1, <3>2 DEF Written
      <3> QED
        BY <1>4, <3>1, <3>2 DEF StageCopy
    <2> QED
      BY <2>1, <2>3, <2>4 DEF ExecPc
  <1>5. CASE StageEnd \/ Resolve
    BY <1>5 DEF StageEnd, Resolve, Advance, Conclude, procVars, runVars, ExecInv, ProcInv,
                WaitInv, Early, ExecPc
  <1>6. CASE Unlink
    BY <1>6 DEF Unlink, MayRemain, Advance, procVars, ExecPc
  <1>7. CASE RemoveDir
    BY <1>7 DEF RemoveDir, MayRemain, Advance, procVars, ExecPc
  <1>8. CASE OpenReport \/ WriteReport
    BY <1>8 DEF OpenReport, WriteReport, MayRemain, Advance, procVars, ExecPc
  <1>9. CASE ExecNext /\ UNCHANGED runVars
    BY <1>9, ExecMoves DEF runVars, MayRemain, ExecPc
  <1>10. CASE Litter
    <2>1. /\ UNCHANGED <<pc, born, alive, opts, before, prepared, staged, stuck>>
          /\ ws.kind = "directory" /\ alive # {} /\ born # {}
          /\ ws' = [ws EXCEPT !.entries = @ \cup {LitterFile}]
      BY <1>10 DEF Litter, execVars, procVars, ExecInv, ProcInv
    <2>2. ws = Directory(ws.entries) /\ prepared
      BY <2>1
    <2>3. ws' = Directory(ws.entries \cup {LitterFile})
      BY <2>1, <2>2
    <2>4. Child \notin alive => born \cap Descendants # {}
      BY <2>1 DEF ExecInv, ProcInv, Procs
    <2>5. Child \notin alive /\ ws.entries \subseteq MayRemain => ws'.entries \subseteq MayRemain'
      BY <2>1, <2>3, <2>4 DEF MayRemain
    <2>6. ws'.entries # {}
      BY <2>3
    <2> QED
      BY <2>1, <2>2, <2>3, <2>5, <2>6
  <1>11. CASE Interrupt \/ RunnerKilled \/ \E file \in Sources : Edit(file)
    BY <1>11 DEF Interrupt, RunnerKilled, Edit, MayRemain, Advance, execVars, procVars, runVars,
                 ExecPc
  <1> QED
    BY <1>1, <1>2, <1>3, <1>4, <1>5, <1>6, <1>7, <1>8, <1>9, <1>10, <1>11
       DEF RunNext, RunnerNext, Cleanup, ExecNext

-----------------------------------------------------------------------------
(* A run: the staged files                                                 *)

LEMMA DocFiles ==
  ASSUME doc \in Docs
  PROVE  /\ doc.files \in Seq(Range(doc.files)) /\ Len(doc.files) \in Nat
         /\ DOMAIN doc.files = 1..Len(doc.files)
         /\ \A i \in DOMAIN doc.files : Source(doc.files[i]) \in Sources
  <1>1. doc.files \in Seq(Range(doc.files))
    BY RunAssumption
  <1>2. \A i \in DOMAIN doc.files : doc.files[i] \in Range(doc.files)
    BY DEF Range
  <1> QED
    BY <1>1, <1>2, RunAssumption DEF Source

\* StageCopy adds the entry that is next and, its destination being new,
\* leaves those before it as they are.
LEMMA StageCopyStep ==
  ASSUME ExecInv, StageInv, StageCopy
  PROVE  StageInv'
  <1> DEFINE f == doc.files[next]
  <1>. /\ doc \in Docs /\ doc' = doc /\ src' = src /\ born = {} /\ born' = {}
       /\ pc = "stage" /\ reading /\ pc' \in {"stage", "returned"}
    BY DEF StageCopy, StageInv, ExecInv, ProcInv, WaitInv, Early, Advance, Conclude, procVars
  <1>. /\ next \in 1..Len(doc.files) /\ Len(doc.files) \in Nat
       /\ DOMAIN doc.files = 1..Len(doc.files)
    BY DocFiles DEF StageInv
  <1>1. CASE /\ UNCHANGED <<staged, next, reading>> /\ pc' = "returned"
             /\ ws' = ws \/ ws' = Directory(ws.entries \cup {Destination(f)})
    <2>1. ws.entries \subseteq ws'.entries
      BY <1>1 DEF Directory
    <2> QED
      BY <1>1, <2>1 DEF StageInv, StagedAs, Started, SourceSize, ExecPc, Source, Destination
  <1>2. CASE /\ pc' = "stage" /\ ws' = Directory(ws.entries \cup {Destination(f)})
             /\ staged' = Written(f) /\ reading' = FALSE /\ next' = next + 1
    <2>1. DOMAIN staged' = DOMAIN staged \cup {Destination(f)}
      BY <1>2 DEF Written
    <2>2. staged'[Destination(f)] = [source |-> Source(f), size |-> SourceSize(f)]
      BY <1>2 DEF Written
    <2>3. \A p \in DOMAIN staged \ {Destination(f)} : staged'[p] = staged[p]
      BY <1>2 DEF Written
    <2>4. ws'.entries = ws.entries \cup {Destination(f)}
      BY <1>2 DEF Directory
    <2>5. ASSUME NEW i \in 1..(next' - 1)
          PROVE  StagedAs(doc.files[i])' /\ Destination(doc.files[i]) \in ws'.entries
      <3>1. CASE i = next
        BY <3>1, <2>1, <2>2, <2>4 DEF StageInv, StagedAs, Destination, Source
      <3>2. CASE i # next
        <4>1. i \in 1..(next - 1) /\ i \in DOMAIN doc.files
          BY <1>2, <3>2
        <4>2. Destination(doc.files[i]) # Destination(f)
          BY <4>1 DEF StageInv, SameDestination
        <4>3. StagedAs(doc.files[i]) /\ Destination(doc.files[i]) \in ws.entries
          BY <4>1 DEF StageInv
        <4> QED
          BY <4>2, <4>3, <2>1, <2>3, <2>4 DEF StagedAs, Destination, Source
      <3> QED
        BY <3>1, <3>2
    <2>6. ~Started'
      BY <1>2 DEF Started
    <2>7. \A i, j \in DOMAIN doc'.files :
            j < i => ~SameDestination(doc'.files[j], doc'.files[i])
      BY DEF StageInv
    <2>8. doc' \in Docs /\ src' \in [Sources -> Sizes \cup {NoFile}]
          /\ next' \in 1..Len(doc'.files) + 1
      BY <1>2 DEF StageInv
    <2> QED
      BY <1>2, <2>5, <2>6, <2>7, <2>8 DEF StageInv, Destination, SameDestination
  <1> QED
    BY <1>1, <1>2 DEF StageCopy, Advance, Conclude

\* A step that leaves the staging alone.
LEMMA StageSame ==
  ASSUME StageInv, UNCHANGED <<doc, src, next, reading, total, staged>>,
         pc' \in {"load", "validate", "prepare"} => pc \in {"load", "validate", "prepare"},
         pc' \in {"prepare", "stage"} => pc \in {"prepare", "stage"},
         pc' = "stage" => pc = "stage" \/ ~reading,
         pc' \in {"stage", "resolve"} \cup ExecPc =>
            \/ next = 1
            \/ pc \in {"stage", "resolve"} \cup ExecPc /\ ws.entries \subseteq ws'.entries,
         Started' => Started \/ next = Len(doc.files) + 1
  PROVE  StageInv'
  <1>1. \A i \in 1..(next - 1) :
          StagedAs(doc.files[i])' /\ Destination(doc.files[i])' = Destination(doc.files[i])
    BY DEF StageInv, StagedAs, Source, Destination
  <1>2. ASSUME NEW i \in 1..(next - 1), pc' \in {"stage", "resolve"} \cup ExecPc
        PROVE  Destination(doc.files[i]) \in ws'.entries
    BY <1>2 DEF StageInv
  <1>3. SourceSize(doc.files[next])' = SourceSize(doc.files[next])
    BY DEF SourceSize, Source
  <1>4. \A i, j \in DOMAIN doc.files :
          SameDestination(doc.files[j], doc.files[i])' = SameDestination(doc.files[j], doc.files[i])
    BY DEF SameDestination, Destination
  <1> QED
    BY <1>1, <1>2, <1>3, <1>4 DEF StageInv

LEMMA StageStatStep ==
  ASSUME ExecInv, StageInv, StageStat
  PROVE  StageInv'
  <1> DEFINE f == doc.files[next]
  <1>1. pc = "stage" /\ born = {} /\ next <= Len(doc.files) /\ UNCHANGED <<doc, src, next, staged, ws, born>>
    BY DEF StageStat, Advance, Conclude, procVars, ExecInv, WaitInv, Early
  <1>2. CASE pc' = "returned" /\ UNCHANGED <<reading, total>>
    BY <1>1, <1>2, StageSame DEF Started, ExecPc
  <1>3. CASE Fits(f) /\ pc' = "stage" /\ reading' = TRUE
    <2>1. SourceSize(f) \in Nat /\ SourceSize(f) <= MaxFileSize
      BY <1>3, RunAssumption DEF Fits
    <2>2. ~Started'
      BY <1>1, <1>3 DEF Started
    <2> QED
      BY <1>1, <1>3, <2>1, <2>2
         DEF StageInv, StagedAs, Source, Destination, SourceSize, SameDestination
  <1> QED
    BY <1>2, <1>3 DEF StageStat, Advance, Conclude

LEMMA StageStep ==
  ASSUME ExecInv, StageInv, IsWorkspace(ws), RunNext
  PROVE  StageInv'
  <1>. /\ doc \in Docs /\ Len(doc.files) \in Nat /\ DOMAIN doc.files = 1..Len(doc.files)
       /\ \A i \in DOMAIN doc.files : Source(doc.files[i]) \in Sources
    BY DocFiles DEF StageInv
  <1>1. CASE Load
    BY <1>1, StageSame DEF Load, Advance, Conclude, procVars, runVars, Started, ExecPc
  <1>2. CASE Validate
    <2>1. CASE FilesOK /\ Advance("prepare")
      <3>1. \A i, j \in DOMAIN doc.files :
              j < i => ~SameDestination(doc.files[j], doc.files[i])
        BY <2>1 DEF FilesOK
      <3>2. /\ pc = "validate" /\ pc' = "prepare" /\ ~Started'
            /\ UNCHANGED <<doc, src, next, reading, total, staged, ws>>
        BY <1>2, <2>1 DEF Validate, Advance, procVars, runVars, Started, ExecInv, WaitInv, Early
      <3>3. next = 1 /\ ~reading /\ total = 0
        BY <3>2 DEF StageInv
      <3> QED
        BY <3>1, <3>2, <3>3 DEF StageInv, SameDestination, Destination, ExecPc
    <2>2. CASE Conclude("INVALID", "summary")
      BY <1>2, <2>2, StageSame DEF Validate, Conclude, procVars, runVars, Started, ExecPc
    <2> QED
      BY <1>2, <2>1, <2>2 DEF Validate
  <1>3. CASE Prepare
    <2>1. next = 1 /\ ~reading
      BY <1>3 DEF Prepare, StageInv
    <2> QED
      BY <1>3, <2>1, StageSame DEF Prepare, Advance, Conclude, procVars, Started, ExecPc
  <1>4. CASE StageStat
    BY <1>4, StageStatStep
  <1>5. CASE StageCopy
    BY <1>5, StageCopyStep
  <1>6. CASE StageEnd
    <2>1. next = Len(doc.files) + 1
      BY <1>6 DEF StageEnd, StageInv
    <2> QED
      BY <1>6, <2>1, StageSame DEF StageEnd, Advance, procVars, runVars, Started, ExecPc
  <1>7. CASE Resolve
    BY <1>7, StageSame DEF Resolve, Advance, Conclude, procVars, runVars, Started, ExecPc
  <1>8. CASE Cleanup
    BY <1>8, StageSame
       DEF Cleanup, Unlink, RemoveDir, OpenReport, WriteReport, Advance, procVars, Started, ExecPc
  <1>9. CASE ExecNext /\ UNCHANGED runVars
    <2>1. UNCHANGED <<doc, src, next, reading, total, staged, ws>>
      BY <1>9 DEF runVars
    <2>2. Started' => Started
      BY <1>9, ExecMoves DEF Started
    <2>3. \/ pc' = pc
          \/ /\ pc \in {"start", "assign", "select", "drain", "classify"}
             /\ pc' \in {"assign", "select", "drain", "classify", "returned"}
      BY <1>9, ExecMoves
    <2> QED
      BY <2>1, <2>2, <2>3, StageSame DEF ExecPc
  <1>10. ASSUME NEW file \in Sources, Edit(file) PROVE StageInv'
    <2>1. /\ UNCHANGED <<pc, born, doc, next, reading, total, staged, ws>>
          /\ pc \in {"load", "validate", "prepare", "stage"}
      BY <1>10 DEF Edit, execVars, procVars
    <2>2. src' \in [Sources -> Sizes \cup {NoFile}]
      BY <1>10 DEF Edit, StageInv
    <2>3. pc = "stage" /\ reading => SourceSize(doc.files[next])' = SourceSize(doc.files[next])
      BY <1>10 DEF Edit, StageInv, SourceSize, Source
    <2> QED
      BY <2>1, <2>2, <2>3
         DEF StageInv, StagedAs, Started, Source, Destination, SameDestination
  <1>11. CASE Litter
    <2>1. ws.entries \subseteq ws'.entries
      <3>1. ws' = [ws EXCEPT !.entries = @ \cup {LitterFile}]
        BY <1>11 DEF Litter
      <3> QED
        BY <3>1 DEF IsWorkspace, AbsentDir, NoDirectory, Directory
    <2> QED
      BY <1>11, <2>1, StageSame DEF Litter, execVars, procVars, Started, ExecPc
  <1>12. CASE Interrupt \/ RunnerKilled
    BY <1>12, StageSame DEF Interrupt, RunnerKilled, Advance, procVars, runVars, Started, ExecPc
  <1> QED
    BY <1>1, <1>2, <1>3, <1>4, <1>5, <1>6, <1>7, <1>8, <1>9, <1>10, <1>11, <1>12
       DEF RunNext, RunnerNext, ExecNext

-----------------------------------------------------------------------------
(* What TotalOf computes: nothing is 0, and a last element is added.       *)

LEMMA TotalOfIsRun ==
  ASSUME NEW n \in Nat, NEW s \in [1..n -> Nat]
  PROVE  \E r : FoldRun(n, Nat, Add, 0, s, r) /\ TotalOf(s) = r[n]
  <1> DEFINE Raw(g) == [S \in SUBSET (1..n) |->
                          IF S = {} THEN 0 ELSE g[S \ {Max(S)}] + s[Max(S)]]
             G == CHOOSE g : g = Raw(g)
  <1>1. TotalOf(s) = G[1..n]
    BY DEF TotalOf, FoldLeft, MapThenFoldSet
  <1>2. G = Raw(G)
    <2>1. PICK g \in [SUBSET (1..n) -> Nat] :
            \A S \in SUBSET (1..n) : g[S] = IF S = {} THEN 0 ELSE g[S \ {Max(S)}] + s[Max(S)]
      BY SumExists
    <2>2. g = Raw(g)
      BY <2>1
    <2> HIDE DEF Raw
    <2> QED
      BY <2>2
  <1>3. Add \in [Nat \X Nat -> Nat] /\ \A x, y \in Nat : Add[<<x, y>>] = x + y
    BY DEF Add
  <1>4. IsFold(n, Nat, Add, 0, s, G)
    <2> HIDE DEF G
    <2>1. G[{}] = 0
      BY <1>2
    <2>2. ASSUME NEW S \in SUBSET (1..n), S # {}, G[S \ {Max(S)}] \in Nat
          PROVE  G[S] = Add[<<G[S \ {Max(S)}], s[Max(S)]>>]
      <3>1. s[Max(S)] \in Nat
        BY <2>2, MaxIsIn
      <3>2. G[S] = G[S \ {Max(S)}] + s[Max(S)]
        BY <1>2, <2>2
      <3> QED
        BY <1>3, <2>2, <3>1, <3>2
    <2> QED
      BY <2>1, <2>2 DEF IsFold
  <1>5. Folder(n, Nat, Nat, Add, 0, s)
    BY <1>3 DEF Folder
  <1>6. PICK r : FoldRun(n, Nat, Add, 0, s, r) /\ Folded(n, G) = r[n]
    <2> HIDE DEF G
    <2> QED
      BY <1>4, <1>5, FoldIsRun
  <1> QED
    BY <1>1, <1>6 DEF Folded

LEMMA TotalOfEmpty ==
  ASSUME NEW s \in [1..0 -> Nat]
  PROVE  TotalOf(s) = 0
  <1>1. PICK r : FoldRun(0, Nat, Add, 0, s, r) /\ TotalOf(s) = r[0]
    BY TotalOfIsRun
  <1> QED
    BY <1>1 DEF FoldRun

LEMMA TotalOfLonger ==
  ASSUME NEW n \in Nat, NEW s \in [1..n + 1 -> Nat], NEW t \in [1..n -> Nat],
         \A i \in 1..n : t[i] = s[i]
  PROVE  TotalOf(s) = TotalOf(t) + s[n + 1]
  <1> DEFINE m == n + 1
  <1>1. m \in Nat /\ n <= m /\ m \in 1..m /\ m - 1 = n /\ s \in [1..m -> Nat]
    OBVIOUS
  <1> HIDE DEF m
  <1>2. PICK r : FoldRun(m, Nat, Add, 0, s, r) /\ TotalOf(s) = r[m]
    BY <1>1, TotalOfIsRun
  <1>3. PICK q : FoldRun(n, Nat, Add, 0, t, q) /\ TotalOf(t) = q[n]
    BY TotalOfIsRun
  <1>4. q[n] = r[n]
    <2>1. \A i \in 1..n : t[i] = s[i]
      OBVIOUS
    <2> QED
      BY <1>1, <1>2, <1>3, <2>1, SumsAgree
  <1>5. r[m] = r[m - 1] + s[m]
    BY <1>1, <1>2, SumRun
  <1>6. TotalOf(s) = TotalOf(t) + s[m]
    BY <1>1, <1>2, <1>3, <1>4, <1>5
  <1> QED
    BY <1>6 DEF m

-----------------------------------------------------------------------------
(* A run: the sum of the staged sizes                                      *)

LEMMA StagedSizesType ==
  ASSUME StageInv
  PROVE  /\ next \in Nat /\ next - 1 \in Nat
         /\ StagedSizes \in [1..(next - 1) -> Nat]
  <1>1. next \in 1..Len(doc.files) + 1 /\ Len(doc.files) \in Nat
    BY DocFiles DEF StageInv
  <1>2. \A i \in 1..(next - 1) : staged[Destination(doc.files[i])].size \in Nat
    BY DEF StageInv, StagedAs
  <1> QED
    BY <1>1, <1>2 DEF StagedSizes

LEMMA TotalStep ==
  ASSUME ExecInv, StageInv, StageInv', TotalInv, RunNext
  PROVE  TotalInv'
  <1> DEFINE f == doc.files[next]
  <1>. /\ MaxTotalSize \in Nat /\ next \in Nat /\ next - 1 \in Nat
       /\ StagedSizes \in [1..(next - 1) -> Nat]
       /\ doc \in Docs /\ Len(doc.files) \in Nat /\ DOMAIN doc.files = 1..Len(doc.files)
       /\ \A i \in DOMAIN doc.files : Source(doc.files[i]) \in Sources
    BY RunAssumption, StagedSizesType, DocFiles DEF StageInv
  <1>a. ASSUME UNCHANGED <<doc, next, staged>> PROVE StagedSizes' = StagedSizes
    BY <1>a DEF StagedSizes, Destination
  <1>1. CASE Prepare
    <2>1. next = 1 /\ ~reading /\ total = 0 /\ born = {}
      BY <1>1 DEF Prepare, StageInv, ExecInv, WaitInv, Early
    <2>2. TotalOf(StagedSizes) = 0
      <3>1. 1..(next - 1) = 1..0
        BY <2>1
      <3> QED
        BY <3>1, TotalOfEmpty
    <2>3. UNCHANGED <<doc, next, staged, reading, total, born>> /\ pc' \in {"stage", "summary"}
      BY <1>1 DEF Prepare, Advance, Conclude, procVars
    <2> QED
      BY <1>a, <2>1, <2>2, <2>3 DEF TotalInv, Started
  <1>2. CASE StageStat
    <2>1. UNCHANGED <<doc, next, staged, src, born>> /\ pc = "stage" /\ ~reading
      BY <1>2 DEF StageStat, Advance, Conclude, procVars
    <2>2. CASE Fits(f) /\ pc' = "stage" /\ reading' = TRUE /\ total' = total + SourceSize(f)
      <3>1. SourceSize(f) \in Nat /\ total' \in 0..MaxTotalSize
        <4>1. SourceSize(f) \in Nat /\ total + SourceSize(f) <= MaxTotalSize
          BY <2>2, RunAssumption DEF Fits
        <4>2. total \in 0..MaxTotalSize
          BY DEF TotalInv
        <4> HIDE DEF f
        <4> QED
          BY <2>2, <4>1, <4>2
      <3>2. total = TotalOf(StagedSizes)
        BY <2>1 DEF TotalInv
      <3>3. SourceSize(f)' = SourceSize(f)
        BY <2>1 DEF SourceSize, Source
      <3>4. ~Started'
        BY <2>1, <2>2 DEF Started, StageInv, ExecInv, WaitInv, Early
      <3> QED
        BY <1>a, <2>1, <2>2, <3>1, <3>2, <3>3, <3>4 DEF TotalInv
    <2>3. CASE pc' = "returned" /\ UNCHANGED <<reading, total>>
      BY <1>a, <2>1, <2>3 DEF TotalInv, Started
    <2> QED
      BY <1>2, <2>2, <2>3 DEF StageStat, Advance, Conclude
  <1>3. CASE StageCopy
    <2>1. /\ UNCHANGED <<doc, src, total, born>> /\ pc = "stage" /\ reading
          /\ next \in 1..Len(doc.files) /\ born = {}
      <3>1. UNCHANGED <<doc, src, total, born>> /\ pc = "stage" /\ reading
        BY <1>3 DEF StageCopy, Advance, Conclude, procVars
      <3>2. next <= Len(doc.files) /\ 1 <= next
        BY <3>1 DEF StageInv
      <3> QED
        BY <3>1, <3>2 DEF ExecInv, WaitInv, Early
    <2>2. CASE pc' = "returned" /\ UNCHANGED <<staged, next, reading>>
      BY <1>a, <2>1, <2>2 DEF TotalInv, Started
    <2>3. CASE /\ pc' = "stage" /\ staged' = Written(f)
               /\ reading' = FALSE /\ next' = next + 1
      <3>1. staged'[Destination(f)].size = SourceSize(f)
        BY <2>3 DEF Written
      <3>2. ASSUME NEW i \in 1..(next - 1)
            PROVE  staged'[Destination(doc.files[i])] = staged[Destination(doc.files[i])]
        <4>1. i \in DOMAIN doc.files /\ next \in DOMAIN doc.files /\ i < next
          BY <2>1
        <4>2. Destination(doc.files[i]) # Destination(f)
          BY <2>1, <4>1 DEF StageInv, SameDestination
        <4>3. Destination(doc.files[i]) \in DOMAIN staged
          BY DEF StageInv, StagedAs
        <4> QED
          BY <2>3, <4>2, <4>3 DEF Written
      <3>3. StagedSizes' = [i \in 1..next |-> staged'[Destination(doc.files[i])].size]
        BY <2>1, <2>3 DEF StagedSizes, Destination
      <3>4. StagedSizes' \in [1..(next - 1) + 1 -> Nat]
        <4>1. ASSUME NEW i \in 1..next PROVE staged'[Destination(doc.files[i])].size \in Nat
          <5>1. CASE i = next
            <6>1. SourceSize(f) \in Nat
              BY <2>1 DEF StageInv
            <6> QED
              BY <3>1, <5>1, <6>1
          <5>2. CASE i # next
            <6>1. i \in 1..(next - 1)
              BY <2>1, <5>2
            <6>2. staged[Destination(doc.files[i])].size \in Nat
              BY <6>1 DEF StageInv, StagedAs
            <6> QED
              BY <3>2, <6>1, <6>2
          <5> QED
            BY <5>1, <5>2
        <4>2. (next - 1) + 1 = next
          OBVIOUS
        <4> QED
          BY <3>3, <4>1, <4>2
      <3>5. TotalOf(StagedSizes') = TotalOf(StagedSizes) + StagedSizes'[(next - 1) + 1]
        <4>1. ASSUME NEW i \in 1..(next - 1) PROVE StagedSizes[i] = StagedSizes'[i]
          <5>1. StagedSizes[i] = staged[Destination(doc.files[i])].size
            BY DEF StagedSizes
          <5>2. StagedSizes'[i] = staged'[Destination(doc.files[i])].size
            BY <3>3
          <5> QED
            BY <3>2, <5>1, <5>2
        <4> QED
          BY <3>4, <4>1, TotalOfLonger
      <3>6. StagedSizes'[(next - 1) + 1] = SourceSize(f)
        BY <2>1, <3>1, <3>3
      <3>7. total' = TotalOf(StagedSizes')
        BY <2>1, <3>5, <3>6 DEF TotalInv
      <3>8. ~Started'
        BY <2>1, <2>3 DEF Started
      <3> QED
        BY <2>1, <2>3, <3>7, <3>8 DEF TotalInv
    <2> QED
      BY <1>3, <2>2, <2>3 DEF StageCopy, Advance, Conclude
  <1>4. CASE StageEnd
    <2>1. UNCHANGED <<doc, next, staged, total>> /\ pc = "stage" /\ pc' = "resolve" /\ ~reading
      BY <1>4 DEF StageEnd, Advance, runVars, StageInv
    <2> QED
      BY <1>a, <2>1 DEF TotalInv
  <1>5. CASE /\ UNCHANGED <<doc, next, staged, total>>
             /\ pc' # "stage"
             /\ Started' => Started
    BY <1>a, <1>5 DEF TotalInv
  <1>6. ASSUME NEW file \in Sources, Edit(file) PROVE TotalInv'
    <2>1. UNCHANGED <<pc, born, doc, next, staged, reading, total>>
      BY <1>6 DEF Edit, execVars, procVars
    <2>2. pc = "stage" /\ reading => SourceSize(f)' = SourceSize(f)
      BY <1>6 DEF Edit, StageInv, SourceSize, Source
    <2> QED
      BY <1>a, <2>1, <2>2 DEF TotalInv, Started
  <1>7. CASE UNCHANGED <<doc, next, staged, reading, total, src, pc>> /\ (Started' => Started)
    <2>1. SourceSize(f)' = SourceSize(f)
      BY <1>7 DEF SourceSize, Source
    <2> QED
      BY <1>a, <1>7, <2>1 DEF TotalInv
  <1>8. CASE Load \/ Validate
    BY <1>5, <1>8 DEF Load, Validate, Advance, Conclude, procVars, runVars, Started
  <1>9. CASE Resolve
    BY <1>5, <1>9 DEF Resolve, Advance, Conclude, procVars, runVars, Started
  <1>10. CASE Cleanup
    BY <1>5, <1>10 DEF Cleanup, Unlink, RemoveDir, OpenReport, WriteReport, Advance, procVars,
                      Started
  <1>11. CASE ExecNext /\ UNCHANGED runVars
    BY <1>5, <1>7, <1>11, ExecMoves DEF runVars, Started
  <1>12. CASE Litter \/ Interrupt
    BY <1>7, <1>12 DEF Litter, Interrupt, execVars, procVars, runVars, Started
  <1>13. CASE RunnerKilled
    BY <1>5, <1>13 DEF RunnerKilled, Advance, procVars, runVars, Started
  <1> QED
    BY <1>1, <1>2, <1>3, <1>4, <1>6, <1>8, <1>9, <1>10, <1>11, <1>12, <1>13
       DEF RunNext, RunnerNext, ExecNext

-----------------------------------------------------------------------------
(* A run: the invariant and what follows from it                           *)

LEMMA RunInvInit == RunInit => RunInv
  <1> SUFFICES ASSUME RunInit PROVE RunInv
    OBVIOUS
  <1>1. ExecInv
    BY ExecInvInit DEF RunInit, Early
  <1>2. /\ doc \in Docs /\ Len(doc.files) \in Nat /\ DOMAIN doc.files = 1..Len(doc.files)
        /\ pc = "load" /\ born = {} /\ next = 1 /\ ~reading /\ total = 0 /\ ~Started
    BY DocFiles DEF RunInit, ExecInit, Started
  <1>3. StageInv
    BY <1>2 DEF StageInv, RunInit
  <1>4. TotalInv
    BY <1>2, RunAssumption DEF TotalInv
  <1>5. WorkspaceInv
    BY DEF WorkspaceInv, IsWorkspace, AbsentDir, NoDirectory, Directory, RunInit, ExecInit, ExecPc
  <1>6. ReportInv
    BY DEF ReportInv, RunInit, ExecInit, Outcomes
  <1> QED
    BY <1>1, <1>3, <1>4, <1>5, <1>6 DEF RunInv

LEMMA RunInvStutter ==
  ASSUME RunInv, UNCHANGED vars
  PROVE  RunInv'
  <1>1. UNCHANGED execVars /\ UNCHANGED runVars
    BY DEF vars
  <1>2. ExecInv'
    BY <1>1, ExecStutter DEF RunInv
  <1>3. StageInv'
    BY <1>1 DEF RunInv, StageInv, StagedAs, Started, Destination, Source, SameDestination,
                SourceSize, runVars, execVars, procVars
  <1>4. TotalInv'
    <2>1. StagedSizes' = StagedSizes /\ SourceSize(doc.files[next])' = SourceSize(doc.files[next])
      BY <1>1 DEF StagedSizes, SourceSize, Source, Destination, runVars
    <2> QED
      BY <1>1, <2>1 DEF RunInv, TotalInv, Started, runVars, execVars, procVars
  <1>5. WorkspaceInv' /\ ReportInv'
    BY <1>1 DEF RunInv, WorkspaceInv, IsWorkspace, MayRemain, ReportInv, runVars, execVars,
                procVars
  <1> QED
    BY <1>2, <1>3, <1>4, <1>5 DEF RunInv

\* RunInv is inductive.
THEOREM RunInvariant == RunSpec => []RunInv
  <1>1. RunInv /\ [RunNext \/ RunTerminated]_vars => RunInv'
    BY RunInvStutter, RunExecStep, ReportStep, WorkspaceStep, StageStep, TotalStep
       DEF RunInv, WorkspaceInv, RunTerminated
  <1> QED
    BY <1>1, RunInvInit, PTL DEF RunSpec

\* Whatever is edited between the validation and the staging of an entry, a
\* command is executed only over what the document declares, within both
\* limits.
THEOREM StagingIsComplete == RunSpec => []NothingRunsUnstaged
  <1>1. RunInv => NothingRunsUnstaged
    <2> SUFFICES ASSUME RunInv, born # {} PROVE NothingRunsUnstaged
      BY DEF NothingRunsUnstaged
    <2>1. /\ next = Len(doc.files) + 1 /\ Len(doc.files) \in Nat
          /\ DOMAIN doc.files = 1..Len(doc.files) /\ next - 1 = Len(doc.files)
      BY DocFiles DEF RunInv, StageInv, Started
    <2>2. ASSUME NEW f \in Range(doc.files)
          PROVE  /\ pc \in ExecPc => Destination(f) \in ws.entries
                 /\ StagedAs(f)
      <3>1. PICK i \in 1..(next - 1) : f = doc.files[i]
        BY <2>1, <2>2 DEF Range
      <3> QED
        BY <3>1 DEF RunInv, StageInv
    <2>3. [i \in DOMAIN doc.files |-> staged[Destination(doc.files[i])].size] = StagedSizes
      BY <2>1 DEF StagedSizes
    <2>4. TotalOf(StagedSizes) <= MaxTotalSize
      BY DEF RunInv, TotalInv, Started
    <2> QED
      BY <2>2, <2>3, <2>4 DEF NothingRunsUnstaged, StagedAs
  <1> QED
    BY <1>1, RunInvariant, PTL

\* However a run ends, its cleanup leaves nothing behind but what could not be
\* removed and what a process the command spawned has put there, a workspace
\* that is to be kept is kept, and nothing of the user's is touched.
THEOREM CleanupsAreExact == RunSpec => []CleanupIsExact
  <1>1. RunInv => CleanupIsExact
    BY DEF RunInv, WorkspaceInv, CleanupIsExact, TheirFilesStay, WorkspaceRemoved
  <1> QED
    BY <1>1, RunInvariant, PTL

\* Inside a run, with its interrupts and its kill, an execution still gives
\* its two guarantees.
THEOREM RunVerdictsAreEarned == RunSpec => [](VerdictIsEarned /\ TreeDiesAtTimeout)
  BY RunInvariant, ExecInvSafe, PTL DEF RunInv

-----------------------------------------------------------------------------
(* A run: the refinement of RunContract.  The step that starts the command *)
(* is the contract's Start, the one that settles the outcome its Settle,   *)
(* the one that exits its ExitWith; every other step stutters.             *)

LEMMA ContractStutter ==
  ASSUME outcome' = outcome, (born' # {}) <=> (born # {}), UNCHANGED <<opts, report, code>>
  PROVE  UNCHANGED Contract!vars
  BY DEF Contract!vars

\* The report tells no outcome before there is one, so settling it leaves
\* told as it was.
LEMMA ContractSettle ==
  ASSUME ReportInv, outcome = "none", born' = born, UNCHANGED <<opts, report, code>>,
         outcome' \in IF born = {} THEN {"INVALID", "INTERNAL_ERROR"}
                     ELSE {"PASS", "FAIL", "TIMEOUT", "INTERNAL_ERROR"}
  PROVE  Contract!Settle
  <1>1. outcome' \in Contract!Allowed(born # {})
    BY DEF Contract!Allowed
  <1>2. report # outcome /\ report' # outcome'
    BY DEF ReportInv
  <1> QED
    BY <1>1, <1>2 DEF Contract!Settle

LEMMA ContractExec ==
  ASSUME RunInv, ExecNext, UNCHANGED runVars
  PROVE  [Contract!Next]_Contract!vars
  <1>. ReportInv /\ UNCHANGED <<opts, report, code>>
    BY DEF RunInv, runVars
  <1>1. CASE outcome' = outcome
    <2>1. CASE (born' # {}) <=> (born # {})
      BY <1>1, <2>1, ContractStutter
    <2>2. CASE ~((born' # {}) <=> (born # {}))
      <3>1. pc = "start" /\ born = {} /\ born' # {} /\ outcome = "none"
        BY <2>2, ExecMoves DEF RunInv, ExecInv, WaitInv, Early
      <3>2. Contract!Start
        BY <1>1, <3>1 DEF Contract!Start
      <3> QED
        BY <3>2 DEF Contract!Next
    <2> QED
      BY <2>1, <2>2
  <1>2. CASE outcome' # outcome
    BY <1>2, ExecMoves, ContractSettle DEF RunInv, Contract!Next
  <1> QED
    BY <1>1, <1>2

\* A step that ends a run before the command is started.
LEMMA ContractConclude ==
  ASSUME RunInv, pc \in Early, NEW verdict \in {"INVALID", "INTERNAL_ERROR"}, NEW label,
         Conclude(verdict, label), UNCHANGED <<opts, report, code>>
  PROVE  Contract!Next
  <1>1. born' = born /\ born = {} /\ outcome = "none" /\ outcome' = verdict
    BY DEF RunInv, ExecInv, WaitInv, Early, Conclude, procVars
  <1> QED
    BY <1>1, ContractSettle DEF RunInv, Contract!Next

LEMMA ContractAdvance ==
  ASSUME NEW label, Advance(label), UNCHANGED <<opts, report, code>>
  PROVE  UNCHANGED Contract!vars
  BY ContractStutter DEF Advance, procVars

LEMMA ContractExit ==
  ASSUME RunInv, OpenReport \/ WriteReport
  PROVE  [Contract!Next]_Contract!vars
  <1>. /\ outcome # "none" /\ code = NoCode /\ UNCHANGED <<opts, outcome, born>>
       /\ outcome \in Outcomes
    BY DEF RunInv, ReportInv, OpenReport, WriteReport, Advance, procVars
  <1>1. ExitCode \in Contract!CodesFor(outcome) /\ 1 \in Contract!CodesFor(outcome)
    BY DEF ExitCode, Contract!CodesFor, Outcomes
  <1> DEFINE told == ~opts.report \/ report = outcome
  <1>2. ASSUME told' = TRUE \/ told' = told, code' \in IF told' THEN {ExitCode, 1} ELSE {1}
        PROVE  Contract!ExitWith
    <2>1. told' \in {told, TRUE}
      BY <1>2
    <2>2. code' \in IF told' THEN Contract!CodesFor(outcome) ELSE {1}
      BY <1>1, <1>2
    <2> QED
      BY <2>1, <2>2 DEF Contract!ExitWith, NoCode, Contract!NoCode
  <1>3. CASE OpenReport
    <2>1. CASE ~opts.report /\ code' = ExitCode
      BY <1>2, <2>1 DEF Contract!Next
    <2>2. CASE opts.report /\ report' = "torn" /\ code' = code
      <3>1. report \in {"absent", "stale"}
        BY <1>3 DEF RunInv, ReportInv, OpenReport
      <3>2. ~told /\ ~told'
        BY <2>2, <3>1 DEF Outcomes
      <3> QED
        BY <2>2, <3>2 DEF Contract!vars
    <2>3. CASE opts.report /\ report' = report /\ code' = 1
      BY <1>2, <2>3 DEF Contract!Next
    <2> QED
      BY <1>3, <2>1, <2>2, <2>3 DEF OpenReport
  <1>4. CASE WriteReport
    <2>1. CASE report' = outcome /\ code' = ExitCode
      BY <1>2, <2>1 DEF Contract!Next
    <2>2. CASE report' = report /\ code' = 1
      BY <1>2, <2>2 DEF Contract!Next
    <2> QED
      BY <1>4, <2>1, <2>2 DEF WriteReport
  <1> QED
    BY <1>3, <1>4

LEMMA ContractStep ==
  ASSUME RunInv, RunNext
  PROVE  [Contract!Next]_Contract!vars
  <1> USE DEF Early
  <1>1. CASE Load \/ Validate \/ Prepare
    BY <1>1, ContractConclude, ContractAdvance DEF Load, Validate, Prepare, runVars
  <1>2. CASE StageStat \/ StageCopy \/ StageEnd \/ Resolve
    BY <1>2, ContractConclude, ContractAdvance
       DEF StageStat, StageCopy, StageEnd, Resolve, runVars
  <1>3. CASE Unlink \/ RemoveDir \/ RunnerKilled
    BY <1>3, ContractAdvance DEF Unlink, RemoveDir, RunnerKilled, runVars
  <1>4. CASE OpenReport \/ WriteReport
    BY <1>4, ContractExit
  <1>5. CASE ExecNext /\ UNCHANGED runVars
    BY <1>5, ContractExec
  <1>6. CASE Interrupt \/ Litter \/ \E file \in Sources : Edit(file)
    BY <1>6, ContractStutter DEF Interrupt, Litter, Edit, execVars, procVars, runVars
  <1> QED
    BY <1>1, <1>2, <1>3, <1>4, <1>5, <1>6 DEF RunNext, RunnerNext, Cleanup, ExecNext

\* A run keeps its contract.
THEOREM RunImplementsContract == RunSpec => ImplementsContract
  <1>1. RunInit => Contract!Init
    <2> SUFFICES ASSUME RunInit PROVE Contract!Init
      OBVIOUS
    <2>1. (born # {}) = FALSE /\ outcome = "none" /\ code = Contract!NoCode
      BY DEF RunInit, ExecInit, NoCode, Contract!NoCode
    <2>2. (~opts.report \/ report = outcome) \in BOOLEAN
      OBVIOUS
    <2> QED
      BY <2>1, <2>2 DEF Contract!Init
  <1>2. RunInv /\ [RunNext \/ RunTerminated]_vars => [Contract!Next]_Contract!vars
    <2>1. ASSUME UNCHANGED vars PROVE UNCHANGED Contract!vars
      BY <2>1 DEF vars, execVars, procVars, runVars, Contract!vars
    <2> QED
      BY <2>1, ContractStep DEF RunTerminated
  <1> QED
    BY <1>1, <1>2, RunInvariant, PTL DEF RunSpec, ImplementsContract, Contract!Spec
=============================================================================
