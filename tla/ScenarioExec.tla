---------------------------- MODULE ScenarioExec ----------------------------
(***************************************************************************)
(* execCommand of internal/scenario: the runner starts a command in a      *)
(* process group (on Windows a Job Object), waits for it and for the end   *)
(* of its output, and kills the group when its context ends first.         *)
(*                                                                         *)
(* The command and its descendants do what they like: spawn, leave the     *)
(* group, write, exit.  stdout and stderr are captured alike; one stream   *)
(* stands for both, and its bytes are counted.                             *)
(***************************************************************************)
EXTENDS Integers, FiniteSets

CONSTANTS
    Child,          \* the command
    Descendants,    \* processes it may spawn
    CanDetach,      \* BOOLEAN: descendants may leave the process group
    Containers,     \* how the tree may be held together, see container
    MaxOutput,      \* MaxScenarioOutputBytes (1 MiB in the code)
    MaxEmit,        \* bound: what the processes write in all
    ExitCodes,      \* what the command may exit with; -1 is death by a signal
    Expectations    \* documents: [exit, accepts], accepts the captured lengths
                    \* that satisfy the declared stream assertions

Procs == {Child} \cup Descendants

ASSUME ExecAssumption ==
    /\ Child \notin Descendants
    /\ CanDetach \in BOOLEAN
    /\ Containers \subseteq {"group", "job", "none"} /\ Containers # {}
    /\ MaxOutput \in Nat /\ MaxEmit \in Nat
    /\ ExitCodes \subseteq Int
    /\ Expectations \subseteq [exit : Int, accepts : SUBSET (0..MaxOutput)]

VARIABLES
    pc,         \* where the runner is
    expected,   \* doc.Expected
    alive,      \* running processes
    born,       \* processes that were ever started
    group,      \* members of the process group or Job Object
    detached,   \* processes that left the group on purpose, and their children
    holders,    \* processes with the write end of the output pipe
    exit,       \* exit status of the command, in a set that is empty before
    container,  \* "group" on Unix; on Windows "job", or "none" when the Job
                \* Object could not be created (newProcessGroup)
    ctx,        \* execCtx: the first event that ended it is its Err
    pipe,       \* written and not yet copied
    captured,   \* boundedWriter.buf
    truncated,  \* boundedWriter.truncated
    emitted,    \* history: written in all
    done,       \* cmd.Wait has returned
    canceled,   \* the select took the ctx.Done branch
    outcome

procVars == <<alive, born, group, detached, holders, exit>>
outVars == <<pipe, captured, truncated, emitted>>
execVars == <<pc, expected, procVars, container, ctx, outVars, done, canceled, outcome>>

Outcomes == {"none", "PASS", "FAIL", "TIMEOUT", "INTERNAL_ERROR", "INVALID"}

ExecPc == {"start", "assign", "select", "drain", "classify", "returned"}

ExecTypeOK ==
    /\ expected \in Expectations
    /\ alive \subseteq born /\ born \subseteq Procs
    /\ group \subseteq born /\ detached \subseteq born
    /\ holders \subseteq alive
    /\ exit \subseteq ExitCodes \cup {-1} /\ Cardinality(exit) <= 1
    /\ container \in Containers
    /\ ctx \in {"live", "deadline", "canceled"}
    /\ pipe \in 0..MaxEmit /\ emitted \in 0..MaxEmit
    /\ captured \in 0..MaxOutput
    /\ truncated \in BOOLEAN
    /\ done \in BOOLEAN /\ canceled \in BOOLEAN
    /\ outcome \in Outcomes

TypeOK == pc \in ExecPc /\ ExecTypeOK

ExecInit ==
    /\ expected \in Expectations
    /\ alive = {} /\ born = {} /\ group = {} /\ detached = {} /\ holders = {}
    /\ exit = {}
    /\ container \in Containers
    /\ ctx = "live"
    /\ pipe = 0 /\ captured = 0 /\ truncated = FALSE /\ emitted = 0
    /\ done = FALSE /\ canceled = FALSE
    /\ outcome = "none"

Init == pc = "start" /\ ExecInit

-----------------------------------------------------------------------------
(* The runner                                                              *)

\* cmd.Start fails, or the command runs, on Unix in its group at once.
Start ==
    /\ pc = "start"
    /\ \/ /\ outcome' = "INTERNAL_ERROR"
          /\ pc' = "returned"
          /\ UNCHANGED procVars
       \/ /\ pc' = "assign"
          /\ alive' = {Child} /\ born' = {Child} /\ holders' = {Child}
          /\ group' = IF container = "group" THEN {Child} ELSE {}
          /\ UNCHANGED <<detached, exit, outcome>>
    /\ UNCHANGED <<expected, container, ctx, outVars, done, canceled>>

\* processGroup.started: on Windows the running command is put into the Job
\* Object, unless there is none or OpenProcess fails.  What it has spawned by
\* then is not in it.
Assign ==
    /\ pc = "assign"
    /\ pc' = "select"
    /\ \/ UNCHANGED group
       \/ container = "job" /\ Child \in alive /\ group' = group \cup {Child}
    /\ UNCHANGED <<expected, alive, born, detached, holders, exit, container, ctx, outVars,
                   done, canceled, outcome>>

\* Mutant: cmd.Wait does not wait for the copying of the output.
BugWaitReturns ==
    /\ pc \in {"select", "drain"} /\ ~done
    /\ Child \in born \ alive
    /\ done' = TRUE
    /\ UNCHANGED <<pc, expected, procVars, container, ctx, outVars, canceled, outcome>>

\* cmd.Wait returns in its goroutine: the command is dead and the output has
\* been copied to its end, which comes when nobody can write any more.
WaitReturns ==
    /\ pc \in {"select", "drain"} /\ ~done
    /\ Child \in born \ alive
    /\ holders = {} /\ pipe = 0
    /\ done' = TRUE
    /\ UNCHANGED <<pc, expected, procVars, container, ctx, outVars, canceled, outcome>>

SelectDone ==
    /\ pc = "select" /\ done
    /\ pc' = "classify"
    /\ UNCHANGED <<expected, procVars, container, ctx, outVars, done, canceled, outcome>>

\* Mutant: only the command is killed, not its group.
BugKilled == {Child} \cap alive

\* Whom processGroup.kill reaches: the group, or on Windows without a Job
\* Object the command.
Killed == (IF container = "none" THEN {Child} ELSE group) \cap alive

\* The context ended first, or the select picked it when both were ready.
SelectCtx ==
    /\ pc = "select" /\ ctx # "live"
    /\ pc' = "drain"
    /\ canceled' = TRUE
    /\ alive' = alive \ Killed
    /\ holders' = holders \ Killed
    /\ exit' = IF Child \in Killed THEN {-1} ELSE exit
    /\ UNCHANGED <<expected, born, group, detached, container, ctx, outVars, done, outcome>>

\* waitErr = <-done, after the kill.
Drain ==
    /\ pc = "drain" /\ done
    /\ pc' = "classify"
    /\ UNCHANGED <<expected, procVars, container, ctx, outVars, done, canceled, outcome>>

\* The end of execCommand and of Run: matchesExpected looks at a completed
\* run only, and at the captured excerpt.
Judge ==
    CASE canceled /\ ctx = "deadline" -> "TIMEOUT"
      [] canceled /\ ctx = "canceled" -> "INTERNAL_ERROR"
      [] ~canceled /\ exit = {expected.exit} /\ captured \in expected.accepts -> "PASS"
      [] OTHER -> "FAIL"

\* cmd.Wait may also fail without an exit status.
Classify ==
    /\ pc = "classify"
    /\ pc' = "returned"
    /\ \/ outcome' = Judge
       \/ ~canceled /\ outcome' = "INTERNAL_ERROR"
    /\ UNCHANGED <<expected, procVars, container, ctx, outVars, done, canceled>>

\* boundedWriter.Write: beyond the limit bytes are dropped and noted.
Overflows == captured >= MaxOutput

Copy ==
    /\ pipe > 0
    /\ pipe' = pipe - 1
    /\ captured' = IF captured < MaxOutput THEN captured + 1 ELSE captured
    /\ truncated' = (truncated \/ Overflows)
    /\ UNCHANGED <<pc, expected, procVars, container, ctx, emitted, done, canceled, outcome>>

\* The deadline of context.WithTimeout, or Ctrl-C, whichever is first.
ContextEnds(cause) ==
    /\ pc \in {"start", "assign", "select"}
    /\ ctx = "live"
    /\ ctx' = cause
    /\ UNCHANGED <<pc, expected, procVars, container, outVars, done, canceled, outcome>>

-----------------------------------------------------------------------------
(* The command and its descendants                                         *)

Spawn(p, q) ==
    /\ p \in alive /\ q \in Descendants \ born
    /\ alive' = alive \cup {q} /\ born' = born \cup {q}
    /\ \/ /\ group' = IF p \in group THEN group \cup {q} ELSE group
          /\ detached' = IF p \in detached THEN detached \cup {q} ELSE detached
       \/ /\ CanDetach
          /\ detached' = detached \cup {q}
          /\ UNCHANGED group
    /\ \/ p \in holders /\ holders' = holders \cup {q}
       \/ UNCHANGED holders
    /\ UNCHANGED <<pc, expected, exit, container, ctx, outVars, done, canceled, outcome>>

Write(p) ==
    /\ p \in holders
    /\ emitted < MaxEmit
    /\ emitted' = emitted + 1
    /\ pipe' = pipe + 1
    /\ UNCHANGED <<pc, expected, procVars, container, ctx, captured, truncated, done,
                   canceled, outcome>>

Exit(p, code) ==
    /\ p \in alive
    /\ alive' = alive \ {p}
    /\ holders' = holders \ {p}
    /\ exit' = IF p = Child THEN {code} ELSE exit
    /\ UNCHANGED <<pc, expected, born, group, detached, container, ctx, outVars, done,
                   canceled, outcome>>

ProcNext ==
    \/ \E p \in Procs, q \in Descendants : Spawn(p, q)
    \/ \E p \in Procs : Write(p)
    \/ \E code \in ExitCodes : Exit(Child, code)
    \/ \E p \in Descendants : Exit(p, 0)

WaitNext == Start \/ Assign \/ WaitReturns \/ SelectDone \/ SelectCtx \/ Drain \/ Classify

ExecNext ==
    \/ WaitNext
    \/ Copy
    \/ \E cause \in {"deadline", "canceled"} : ContextEnds(cause)
    \/ ProcNext

Terminated == pc = "returned" /\ UNCHANGED execVars

Next == ExecNext \/ Terminated

Spec == Init /\ [][Next]_execVars

\* The runner's goroutines are scheduled and the timer fires.  Nothing is
\* assumed of the processes: a command may run, or write, for ever.
FairSpec ==
    /\ Spec
    /\ WF_execVars(WaitNext)
    /\ WF_execVars(Copy)
    /\ WF_execVars(ContextEnds("deadline"))

-----------------------------------------------------------------------------
(* Properties                                                              *)

MinOutput == IF emitted < MaxOutput THEN emitted ELSE MaxOutput

\* A run is judged PASS or FAIL on all its output up to the limit, whichever
\* process of the tree wrote it and whenever the command itself exited, and
\* truncated says exactly whether something was dropped.
JudgedOnFullOutput ==
    outcome \in {"PASS", "FAIL"} =>
        captured = MinOutput /\ truncated = (emitted > MaxOutput)

\* A run the runner killed is never judged: neither PASS nor FAIL can come
\* from a command, or a part of its tree, that was cut off.
KilledIsNeverJudged ==
    outcome \in {"PASS", "FAIL"} => ~canceled /\ exit # {} /\ holders = {}

\* Both: a verdict rests on a whole run.
VerdictIsEarned == JudgedOnFullOutput /\ KilledIsNeverJudged

\* On Unix the whole tree dies at the timeout, except processes that left the
\* group: the "process tree guarantee" of execCommand.  On Windows everything
\* dies that was assigned, or spawned by what was assigned.
TreeDiesAtTimeout ==
    pc \in {"drain", "classify"} /\ canceled =>
        /\ container = "group" => alive \subseteq detached
        /\ alive \cap group = {}

\* The timeout bounds the run, whatever the processes do, unless the output
\* is held open for ever by one that the kill does not reach: one that left
\* the group, or on Windows was never in the Job Object.
RunReturns ==
    \/ <>(pc = "returned")
    \/ <>[](holders \ (IF container = "none" THEN {Child} ELSE group) # {})

-----------------------------------------------------------------------------
(* What comments and documentation say and the code does not guarantee     *)

\* processGroup.started on Windows: a command in the Job Object is terminated
\* together with any descendant that does not break away.
AssignedTreeDies ==
    pc \in {"drain", "classify"} /\ canceled /\ Child \in group =>
        alive \subseteq detached

\* The kill reaches at least the command itself.
KillReachesCommand == pc = "drain" => Child \notin alive

\* TIMEOUT is said of a command that was killed at the bound.
TimeoutMeansKilled == outcome = "TIMEOUT" => exit = {-1}

=============================================================================
