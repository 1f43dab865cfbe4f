---------------------------- MODULE SuiteProofs ----------------------------
(***************************************************************************)
(* Theorems about SuiteRun, for any number of scenarios, timeouts, edits   *)
(* of the scenario files and time between two scenarios.                   *)
(***************************************************************************)
EXTENDS SuiteRun, SequenceTheorems, TLAPS

-----------------------------------------------------------------------------
(* The inductive invariant                                                 *)

Before == {"load", "validate", "root"}
After == {"clean", "summary", "write", "exited"}

\* A command was started and its result is not recorded.
Executing == {"run", "expired", "aborted"}

\* Nothing was executed yet, or every command that was started has a result
\* but the one that runs.
LaunchInv ==
    /\ pc \in Before => results = <<>> /\ launched = {} /\ now = 0 /\ pause = 0 /\ held = 0
    /\ pc \notin Executing => launched \subseteq DOMAIN results
    /\ pc \in Executing => Current \in launched /\ Current <= N
                          /\ launched \subseteq DOMAIN results \cup {Current}
    /\ \A i \in DOMAIN results : results[i] = "PASS" => i \in launched

\* skipRest is --fail-fast and a result that is not PASS.
SkipInv ==
    /\ skipRest <=> failFast /\ \E i \in DOMAIN results : results[i] # "PASS"
    /\ pc \in Executing => ~skipRest
    /\ SkippedExactly

\* A refused suite has no results, another one all of them, aggregated.
SumInv ==
    /\ pc \notin After => aggregate = "none"
    /\ pc \in After =>
          \/ aggregate \in {"INVALID", "INTERNAL_ERROR"} /\ results = <<>>
          \/ Len(results) = N /\ aggregate = Aggregate

ReportInv ==
    /\ pc # "exited" => code = NoCode
    /\ pc = "write" => wanted /\ report = Suite!Torn

\* The time, without that of held output, before the first result, and after
\* each further one.
Spent == now - held

TimeInv ==
    /\ results = <<>> => Spent <= MaxTotal /\ (pc = "entry" => now = pause /\ held = 0)
    /\ results # <<>> => Spent <= MaxTotal + (Len(results) - 1) * Overhead + pause

IInv == TypeOK /\ LaunchInv /\ SkipInv /\ SumInv /\ ReportInv /\ TimeInv

-----------------------------------------------------------------------------
(* The steps that give a result, and the others                            *)

Counting(outcome) ==
    /\ Record(outcome)
    /\ pc' = "entry" /\ Current <= N
    /\ UNCHANGED <<failFast, wanted, file, root, now, held, began, canceled, aggregate,
                   report, code, launched>>
    /\ outcome = "PASS" => pc \in Executing
    /\ outcome = "SKIPPED" <=> skipRest
    /\ pc \in Executing \/ pc = "entry"

LEMMA Outcomes ==
  EntryOutcomes = {"PASS", "FAIL", "TIMEOUT", "INVALID", "INTERNAL_ERROR", "SKIPPED"}
  BY DEF EntryOutcomes, Contract!Allowed

LEMMA Counts ==
  ASSUME LaunchInv, SkipInv, Skip \/ NotStarted \/ EndScenario
  PROVE  keep' = keep /\ \E outcome \in EntryOutcomes : Counting(outcome)
  <1>1. CASE Skip
    <2>1. "SKIPPED" \in EntryOutcomes /\ Counting("SKIPPED") /\ keep' = keep
      BY <1>1, Outcomes DEF Skip, Counting
    <2> QED
      BY <2>1
  <1>2. CASE NotStarted
    <2>1. PICK outcome \in EndsUnstarted \cap Contract!Allowed(FALSE) : Record(outcome)
      BY <1>2 DEF NotStarted
    <2>2. outcome \in {"INVALID", "INTERNAL_ERROR"}
      BY DEF Contract!Allowed
    <2>3. outcome \in EntryOutcomes /\ Counting(outcome) /\ keep' = keep
      BY <1>2, <2>1, <2>2, Outcomes DEF NotStarted, Counting
    <2> QED
      BY <2>3
  <1>3. CASE EndScenario
    <2>1. PICK outcome \in EndsStarted \cap Contract!Allowed(TRUE) : Record(outcome)
      BY <1>3 DEF EndScenario
    <2>2. outcome \in {"PASS", "FAIL", "TIMEOUT", "INTERNAL_ERROR"}
      BY DEF Contract!Allowed
    <2>3. Current <= N /\ ~skipRest
      BY <1>3 DEF EndScenario, Holding, Executing, LaunchInv, SkipInv
    <2>4. outcome \in EntryOutcomes /\ Counting(outcome) /\ keep' = keep
      BY <1>3, <2>1, <2>2, <2>3, Outcomes DEF EndScenario, Holding, Executing, Counting
    <2> QED
      BY <2>4
  <1> QED
    BY <1>1, <1>2, <1>3

\* What a recorded outcome does to the results.
LEMMA Recorded ==
  ASSUME TypeOK, NEW outcome \in EntryOutcomes, Counting(outcome)
  PROVE  /\ results' \in Seq(EntryOutcomes)
         /\ Len(results') = Len(results) + 1 /\ Len(results') <= N
         /\ DOMAIN results' = DOMAIN results \cup {Current}
         /\ Current \notin DOMAIN results /\ Current \in Scenarios
         /\ \A i \in DOMAIN results : results'[i] = results[i]
         /\ results'[Current] = outcome
  <1>1. results \in Seq(EntryOutcomes) /\ results' = Append(results, outcome)
    BY DEF TypeOK, Counting, Record
  <1>2. /\ results' \in Seq(EntryOutcomes)
        /\ Len(results') = Len(results) + 1
        /\ \A i \in 1..Len(results) : results'[i] = results[i]
        /\ results'[Len(results) + 1] = outcome
    BY <1>1, AppendProperties
  <1>3. /\ Len(results) \in Nat
        /\ DOMAIN results = 1..Len(results) /\ DOMAIN results' = 1..Len(results')
    BY <1>1, <1>2, LenProperties
  <1>4. Current <= N
    BY DEF Counting
  <1> QED
    BY <1>2, <1>3, <1>4, SuiteAssumption DEF Current, Scenarios

\* The steps of the runner that count nothing, and everybody else's.
Passing ==
    \/ Load \/ Validate \/ PrepareRoot \/ StartScenario \/ Kill \/ Finish \/ Clean
    \/ OpenReport \/ WriteReport \/ Tick \/ Interrupt \/ \E i \in Scenarios : Edit(i)

LEMMA NextSplit ==
  Next <=> Passing \/ Skip \/ NotStarted \/ EndScenario
  BY DEF Next, SuiteNext, RunEntry, Passing

LEMMA PassingKeeps ==
  ASSUME Passing
  PROVE  UNCHANGED <<failFast, keep, wanted, results, skipRest>>
  <1>1. CASE Load \/ Validate \/ PrepareRoot \/ StartScenario \/ Kill
    BY <1>1 DEF Load, Validate, PrepareRoot, StartScenario, Kill
  <1>2. CASE Finish \/ Clean \/ OpenReport \/ WriteReport
    BY <1>2 DEF Finish, Clean, OpenReport, WriteReport
  <1>3. CASE Tick \/ Interrupt \/ \E i \in Scenarios : Edit(i)
    BY <1>3 DEF Tick, Interrupt, Edit
  <1> QED
    BY <1>1, <1>2, <1>3 DEF Passing

-----------------------------------------------------------------------------
(* Each part of the invariant is kept                                      *)

LEMMA TypesKept ==
  ASSUME TypeOK, LaunchInv, SkipInv, Next
  PROVE  TypeOK'
  <1>1. CASE Load \/ Validate \/ Finish
    BY <1>1 DEF TypeOK, Load, Validate, Finish, Refuse, Aggregates, Aggregate
  <1>2. CASE PrepareRoot \/ Clean
    BY <1>2 DEF TypeOK, PrepareRoot, Clean, Refuse, Aggregates
  <1>3. CASE StartScenario
    <2>1. Current \in Scenarios
      BY <1>3, SuiteAssumption DEF StartScenario, Current, Scenarios, TypeOK
    <2> QED
      BY <1>3, <2>1 DEF TypeOK, StartScenario
  <1>4. CASE OpenReport \/ WriteReport
    <2>1. Suite!Torn.kind = "torn" /\ Suite!Account(aggregate, results).kind = "report"
      BY DEF Suite!Torn, Suite!Account
    <2>2. ExitCode \in {0, 1, 2}
      BY DEF ExitCode
    <2>3. report'.kind \in {"absent", "torn", "report"}
      BY <1>4, <2>1 DEF TypeOK, OpenReport, WriteReport
    <2>4. pc' \in {"exited", "write"} /\ code' \in {NoCode, 0, 1, 2}
      BY <1>4, <2>2 DEF TypeOK, OpenReport, WriteReport
    <2>5. UNCHANGED <<failFast, keep, wanted, file, root, results, skipRest, now, pause,
                      held, began, canceled, aggregate, launched>>
      BY <1>4 DEF OpenReport, WriteReport
    <2> QED
      BY <2>3, <2>4, <2>5 DEF TypeOK
  <1>5. CASE Tick \/ Kill
    BY <1>5, SuiteAssumption DEF TypeOK, Tick, Kill
  <1>6. CASE Interrupt \/ \E i \in Scenarios : Edit(i)
    <2>1. file' \in [Scenarios -> Timeouts \cup {Unreadable, Invalid}]
      <3>1. file \in [Scenarios -> Timeouts \cup {Unreadable, Invalid}]
        BY DEF TypeOK
      <3>2. \/ file' = file
            \/ \E i \in Scenarios, contents \in Timeouts \cup {Unreadable, Invalid} :
                  file' = [file EXCEPT ![i] = contents]
        BY <1>6 DEF Interrupt, Edit
      <3> QED
        BY <3>1, <3>2
    <2>2. canceled' \in BOOLEAN
      BY <1>6 DEF TypeOK, Interrupt, Edit
    <2>3. UNCHANGED <<pc, failFast, keep, wanted, root, results, skipRest, now, pause,
                      held, began, aggregate, report, code, launched>>
      BY <1>6 DEF Interrupt, Edit
    <2> QED
      BY <2>1, <2>2, <2>3 DEF TypeOK
  <1>7. CASE Skip \/ NotStarted \/ EndScenario
    <2>1. PICK outcome \in EntryOutcomes : Counting(outcome)
      BY <1>7, Counts
    <2>2. keep' = keep
      BY <1>7, Counts
    <2>3. results' \in Seq(EntryOutcomes) /\ Len(results') <= N
      BY <2>1, Recorded
    <2>4. skipRest' \in BOOLEAN /\ pause' \in 0..Overhead
      BY <2>1, SuiteAssumption DEF Counting, Record, TypeOK
    <2> QED
      BY <2>1, <2>2, <2>3, <2>4 DEF TypeOK, Counting
  <1> QED
    BY <1>1, <1>2, <1>3, <1>4, <1>5, <1>6, <1>7, NextSplit DEF Passing

LEMMA LaunchKept ==
  ASSUME TypeOK, LaunchInv, SkipInv, Next
  PROVE  LaunchInv'
  <1>1. CASE Passing /\ ~StartScenario
    <2>1. results' = results
      BY <1>1, PassingKeeps
    <2>2. /\ launched' = launched
          /\ pc' \in Before =>
                pc \in Before /\ now' = now /\ pause' = pause /\ held' = held
          /\ pc' \in Executing <=> pc \in Executing
      BY <1>1 DEF Passing, Load, Validate, PrepareRoot, Kill, Finish, Clean, OpenReport,
            WriteReport, Tick, Holding, Interrupt, Edit, Refuse, Before, Executing
    <2> QED
      BY <2>1, <2>2 DEF LaunchInv, Current
  <1>2. CASE StartScenario
    <2>1. /\ UNCHANGED results /\ pc = "entry" /\ pc' = "run" /\ Current <= N
          /\ launched' = launched \cup {Current}
      BY <1>2 DEF StartScenario
    <2> QED
      BY <2>1 DEF LaunchInv, Current, Before, Executing
  <1>3. CASE Skip \/ NotStarted \/ EndScenario
    <2>1. PICK outcome \in EntryOutcomes : Counting(outcome)
      BY <1>3, Counts
    <2>2. /\ DOMAIN results' = DOMAIN results \cup {Current}
          /\ \A i \in DOMAIN results : results'[i] = results[i]
          /\ results'[Current] = outcome
      BY <2>1, Recorded
    <2>3. /\ launched' = launched /\ pc' = "entry" /\ (pc \in Executing \/ pc = "entry")
          /\ outcome = "PASS" => pc \in Executing
      BY <2>1 DEF Counting
    <2> QED
      BY <2>2, <2>3 DEF LaunchInv, Before, Executing
  <1> QED
    BY <1>1, <1>2, <1>3, NextSplit

LEMMA SkipKept ==
  ASSUME TypeOK, LaunchInv, SkipInv, Next
  PROVE  SkipInv'
  <1>1. CASE Passing
    <2>1. UNCHANGED <<failFast, results, skipRest>>
      BY <1>1, PassingKeeps
    <2>2. /\ launched' \subseteq launched \cup {Current}
          /\ pc' \in Executing => pc \in Executing \/ ~skipRest
      BY <1>1 DEF Passing, Load, Validate, PrepareRoot, StartScenario, Kill, Finish, Clean,
            OpenReport, WriteReport, Tick, Interrupt, Edit, Refuse, Executing
    <2>3. Current \notin DOMAIN results
      BY LenProperties DEF TypeOK, Current
    <2>4. SkippedExactly'
      BY <2>1, <2>2, <2>3 DEF SkipInv, SkippedExactly
    <2> QED
      BY <2>1, <2>2, <2>4 DEF SkipInv
  <1>2. CASE Skip \/ NotStarted \/ EndScenario
    <2>1. PICK outcome \in EntryOutcomes : Counting(outcome)
      BY <1>2, Counts
    <2>2. /\ DOMAIN results' = DOMAIN results \cup {Current}
          /\ \A i \in DOMAIN results : results'[i] = results[i]
          /\ results'[Current] = outcome /\ Current \notin DOMAIN results
      BY <2>1, Recorded
    <2>3. /\ launched' = launched /\ failFast' = failFast /\ pc' = "entry"
          /\ outcome = "SKIPPED" <=> skipRest
          /\ skipRest' <=> skipRest \/ (failFast /\ outcome # "PASS")
      BY <2>1 DEF Counting, Record
    <2>4. DOMAIN results = 1..Len(results) /\ Len(results) \in Nat
      BY LenProperties DEF TypeOK
    <2>5. skipRest' <=> failFast' /\ \E i \in DOMAIN results' : results'[i] # "PASS"
      BY <2>2, <2>3 DEF SkipInv
    <2>6. ASSUME NEW j \in DOMAIN results'
          PROVE  /\ results'[j] = "SKIPPED" <=>
                       failFast' /\ \E i \in 1..(j - 1) : results'[i] # "PASS"
                 /\ results'[j] = "SKIPPED" => j \notin launched'
      <3>1. CASE j \in DOMAIN results
        <4>1. 1..(j - 1) \subseteq DOMAIN results
          BY <2>4, <3>1
        <4> QED
          BY <2>2, <2>3, <3>1, <4>1 DEF SkipInv, SkippedExactly
      <3>2. CASE j = Current
        <4>1. 1..(j - 1) = DOMAIN results
          BY <2>4, <3>2 DEF Current
        <4>2. results'[j] = "SKIPPED" => launched \subseteq DOMAIN results
          BY <2>2, <2>3, <3>2 DEF LaunchInv, SkipInv
        <4> QED
          BY <2>2, <2>3, <3>2, <4>1, <4>2 DEF SkipInv
      <3> QED
        BY <2>2, <3>1, <3>2
    <2> QED
      BY <2>3, <2>5, <2>6 DEF SkipInv, SkippedExactly, Executing
  <1> QED
    BY <1>1, <1>2, NextSplit

LEMMA SumKept ==
  ASSUME TypeOK, LaunchInv, SkipInv, SumInv, Next
  PROVE  SumInv'
  <1>1. CASE Load \/ Validate \/ PrepareRoot
    BY <1>1 DEF SumInv, LaunchInv, Before, After, Load, Validate, PrepareRoot, Refuse
  <1>2. CASE Finish
    <2>1. Len(results) = N
      BY <1>2, SuiteAssumption DEF Finish, Current, TypeOK
    <2> QED
      BY <1>2, <2>1 DEF SumInv, After, Finish, Aggregate
  <1>3. CASE Clean \/ OpenReport \/ WriteReport
    BY <1>3 DEF SumInv, After, Clean, OpenReport, WriteReport, Aggregate
  <1>4. CASE StartScenario \/ Kill \/ Tick \/ Interrupt \/ \E i \in Scenarios : Edit(i)
    BY <1>4 DEF SumInv, After, StartScenario, Kill, Tick, Interrupt, Edit, Aggregate
  <1>5. CASE Skip \/ NotStarted \/ EndScenario
    <2>1. PICK outcome \in EntryOutcomes : Counting(outcome)
      BY <1>5, Counts
    <2> QED
      BY <2>1 DEF Counting, Executing, SumInv, After
  <1> QED
    BY <1>1, <1>2, <1>3, <1>4, <1>5, NextSplit DEF Passing

LEMMA ReportKept ==
  ASSUME TypeOK, LaunchInv, SkipInv, ReportInv, Next
  PROVE  ReportInv'
  <1>1. CASE Load \/ Validate \/ PrepareRoot \/ StartScenario \/ Kill \/ Finish \/ Clean
    BY <1>1 DEF ReportInv, Load, Validate, PrepareRoot, StartScenario, Kill, Finish, Clean,
          Refuse
  <1>2. CASE OpenReport \/ WriteReport
    BY <1>2 DEF ReportInv, OpenReport, WriteReport
  <1>3. CASE Tick \/ Interrupt \/ \E i \in Scenarios : Edit(i)
    BY <1>3 DEF ReportInv, Tick, Interrupt, Edit
  <1>4. CASE Skip \/ NotStarted \/ EndScenario
    <2>1. PICK outcome \in EntryOutcomes : Counting(outcome)
      BY <1>4, Counts
    <2> QED
      BY <2>1 DEF Counting, Executing, ReportInv
  <1> QED
    BY <1>1, <1>2, <1>3, <1>4, NextSplit DEF Passing

LEMMA ProductGrows ==
  ASSUME NEW a \in Nat, NEW b \in Nat, NEW c \in Nat, a <= b
  PROVE  a * c \in Nat /\ b * c \in Nat /\ a * c <= b * c /\ (a + 1) * c = a * c + c
  OBVIOUS

LEMMA TimeKept ==
  ASSUME TypeOK, LaunchInv, SkipInv, TimeInv, Next
  PROVE  TimeInv'
  <1>0. /\ Len(results) \in Nat /\ (results = <<>> <=> Len(results) = 0)
        /\ now \in Nat /\ held \in Nat /\ Spent \in Nat /\ Spent <= now
        /\ pause \in Nat /\ pause <= Overhead
        /\ MaxTotal \in Nat /\ Overhead \in Nat /\ Overhead <= MaxTotal
    BY SuiteAssumption, LenProperties DEF TypeOK, Spent
  <1>1. CASE Passing /\ ~Tick
    <2>1. UNCHANGED results /\ UNCHANGED <<now, pause, held>>
      BY <1>1, PassingKeeps DEF Passing, Load, Validate, PrepareRoot, StartScenario, Kill,
            Finish, Clean, OpenReport, WriteReport, Interrupt, Edit, Refuse
    <2>2. pc' = "entry" => pc = "entry" \/ pc \in Before
      BY <1>1 DEF Passing, Load, Validate, PrepareRoot, StartScenario, Kill, Finish, Clean,
            OpenReport, WriteReport, Interrupt, Edit, Refuse, Before
    <2> QED
      BY <2>1, <2>2 DEF TimeInv, LaunchInv, Spent
  <1>2. CASE Tick
    <2>1. UNCHANGED <<results, pc>> /\ now' = now + 1
      BY <1>2 DEF Tick
    <2>2. CASE pc = "entry"
      <3>1. pause < Overhead /\ pause' = pause + 1 /\ held' = held /\ Spent' = Spent + 1
        BY <1>0, <1>2, <2>1, <2>2 DEF Tick, Holding, Spent
      <3> DEFINE gaps == (Len(results) - 1) * Overhead
      <3>2. results # <<>> => gaps \in Nat
        BY <1>0, ProductGrows
      <3> HIDE DEF gaps
      <3>3. results # <<>> => Spent <= MaxTotal + gaps + pause
        BY DEF TimeInv, gaps
      <3>4. results # <<>> => Spent' <= MaxTotal + gaps + pause'
        BY <1>0, <3>1, <3>2, <3>3
      <3>5. results = <<>> => Spent' <= MaxTotal /\ now' = pause' /\ held' = 0
        BY <1>0, <2>1, <2>2, <3>1 DEF TimeInv, Spent
      <3> QED
        BY <2>1, <3>4, <3>5 DEF TimeInv, gaps
    <2>3. CASE pc = "run"
      <3>1. UNCHANGED <<pause, held>> /\ now < MaxTotal
        <4>1. Current \in Scenarios
          BY <2>3, SuiteAssumption, LenProperties
             DEF LaunchInv, TypeOK, Current, Scenarios, Executing
        <4>2. file[Current] \in Int /\ began \in Int
          <5>1. Timeouts \cup {Unreadable, Invalid} \subseteq Int
            BY SuiteAssumption DEF Unreadable, Invalid
          <5>2. file[Current] \in Timeouts \cup {Unreadable, Invalid}
            BY <4>1 DEF TypeOK
          <5>3. began \in 0..now
            BY DEF TypeOK
          <5> QED
            BY <1>0, <5>1, <5>2, <5>3
        <4>3. ~(now >= Deadline) /\ UNCHANGED <<pause, held>>
          BY <1>2, <2>3 DEF Tick, Holding, ContextOver
        <4> QED
          BY <1>0, <4>2, <4>3 DEF Deadline
      <3> DEFINE gaps == (Len(results) - 1) * Overhead
      <3>2. results # <<>> => gaps \in Nat
        BY <1>0, ProductGrows
      <3> HIDE DEF gaps
      <3>3. Spent' = Spent + 1
        BY <1>0, <2>1, <3>1 DEF Spent
      <3>4. Spent' <= MaxTotal /\ (results # <<>> => Spent' <= MaxTotal + gaps + pause)
        BY <1>0, <3>1, <3>2, <3>3
      <3> QED
        BY <2>1, <2>3, <3>1, <3>4 DEF TimeInv, gaps
    <2>4. CASE Holding
      <3>1. Spent' = Spent /\ pause' = pause /\ pc' # "entry"
        BY <1>0, <1>2, <2>1, <2>4 DEF Tick, Holding, Spent
      <3> QED
        BY <2>1, <3>1 DEF TimeInv
    <2> QED
      BY <1>2, <2>2, <2>3, <2>4 DEF Tick
  <1>3. CASE Skip \/ NotStarted \/ EndScenario
    <2>1. PICK outcome \in EntryOutcomes : Counting(outcome)
      BY <1>3, Counts
    <2>2. /\ Len(results') = Len(results) + 1 /\ results' # <<>>
      BY <1>0, <2>1, Recorded
    <2>3. Spent' = Spent /\ pause' = 0
      BY <2>1 DEF Counting, Record, Spent
    <2>4. Spent <= MaxTotal + Len(results) * Overhead
      <3>1. CASE results = <<>>
        BY <1>0, <3>1, ProductGrows DEF TimeInv
      <3>2. CASE results # <<>>
        <4> DEFINE k == Len(results) - 1
        <4>1. k \in Nat /\ k + 1 = Len(results)
          BY <1>0, <3>2
        <4> HIDE DEF k
        <4>2. k * Overhead \in Nat /\ (k + 1) * Overhead = k * Overhead + Overhead
          BY <1>0, <4>1, ProductGrows
        <4>3. Spent <= MaxTotal + k * Overhead + pause
          BY <3>2 DEF TimeInv, k
        <4> QED
          BY <1>0, <4>1, <4>2, <4>3
      <3> QED
        BY <3>1, <3>2
    <2>5. Len(results') - 1 = Len(results)
      BY <1>0, <2>2
    <2>6. Len(results) * Overhead \in Nat
      BY <1>0, ProductGrows
    <2>7. Spent' <= MaxTotal + (Len(results') - 1) * Overhead + pause'
      BY <1>0, <2>3, <2>4, <2>5, <2>6
    <2> QED
      BY <2>2, <2>7 DEF TimeInv
  <1> QED
    BY <1>1, <1>2, <1>3, NextSplit

-----------------------------------------------------------------------------
(* The theorems                                                            *)

LEMMA IInvAtFirst ==
  ASSUME Init
  PROVE  IInv
  <1>0. results = <<>> /\ DOMAIN results = {} /\ Len(results) = 0
    BY DEF Init
  <1>1. TypeOK
    <2>1. report.kind \in {"absent", "torn", "report"}
      BY DEF Init, Suite!Absent, Suite!Account
    <2>2. file \in [Scenarios -> Timeouts \cup {Unreadable, Invalid}]
      BY DEF Init
    <2>3. results \in Seq(EntryOutcomes) /\ Len(results) <= N
      BY <1>0, EmptySeq, SuiteAssumption
    <2>4. now \in Nat /\ pause \in 0..Overhead /\ held \in 0..now /\ began \in 0..now
      BY SuiteAssumption DEF Init
    <2> QED
      BY <2>1, <2>2, <2>3, <2>4, SuiteAssumption DEF Init, TypeOK, Aggregates
  <1>2. LaunchInv
    BY <1>0 DEF Init, LaunchInv, Executing
  <1>3. SkipInv
    BY <1>0 DEF Init, SkipInv, SkippedExactly, Executing
  <1>4. SumInv
    BY DEF Init, SumInv, After
  <1>5. ReportInv
    BY DEF Init, ReportInv
  <1>6. TimeInv
    BY <1>0, SuiteAssumption DEF Init, TimeInv, Spent
  <1> QED
    BY <1>1, <1>2, <1>3, <1>4, <1>5, <1>6 DEF IInv

LEMMA IInvKept ==
  ASSUME IInv, [Next \/ Terminated]_vars
  PROVE  IInv'
  <1>1. CASE Next
    BY <1>1, TypesKept, LaunchKept, SkipKept, SumKept, ReportKept, TimeKept DEF IInv
  <1>2. CASE UNCHANGED vars
    <2>1. TypeOK' /\ ReportInv' /\ TimeInv'
      BY <1>2 DEF IInv, TypeOK, ReportInv, TimeInv, Spent, vars
    <2>2. LaunchInv' /\ SkipInv' /\ SumInv'
      BY <1>2 DEF IInv, LaunchInv, SkipInv, SkippedExactly, SumInv, Aggregate, Current, vars
    <2> QED
      BY <2>1, <2>2 DEF IInv
  <1> QED
    BY <1>1, <1>2 DEF Terminated

\* The inductive invariant of a suite run.
THEOREM SuiteInvariant == Spec => []IInv
  BY IInvAtFirst, IInvKept, PTL DEF Spec

\* Every variable keeps its type.
THEOREM SuiteTypeCorrect == Spec => []TypeOK
  <1>1. IInv => TypeOK
    BY DEF IInv
  <1> QED
    BY <1>1, SuiteInvariant, PTL

\* PASS of the suite: every listed scenario was executed and passed
\* (aggregateOutcome over the entries Execute appends).
THEOREM PassAccountsForAll == Spec => []PassMeansAllPassed
  <1>1. ASSUME IInv, aggregate = "PASS"
        PROVE  launched = Scenarios /\ results = [i \in Scenarios |-> "PASS"]
    <2>1. Len(results) = N /\ \A i \in DOMAIN results : results[i] = "PASS"
      BY <1>1 DEF IInv, SumInv, Aggregate
    <2>2. results \in [Scenarios -> EntryOutcomes] /\ DOMAIN results = Scenarios
      BY <1>1, <2>1, LenProperties DEF IInv, TypeOK, Scenarios
    <2>3. launched = Scenarios
      BY <1>1, <2>1, <2>2 DEF IInv, TypeOK, LaunchInv, SumInv, After, Executing
    <2> QED
      BY <2>1, <2>2, <2>3
  <1> QED
    BY <1>1, SuiteInvariant, PTL DEF PassMeansAllPassed

\* SKIPPED says exactly that --fail-fast was triggered before.
THEOREM SkipsAreExact == Spec => []SkippedExactly
  <1>1. IInv => SkippedExactly
    BY DEF IInv, SkipInv
  <1> QED
    BY <1>1, SuiteInvariant, PTL

\* A suite takes no longer than MaxTotal, the time between scenarios and the
\* time for which output was held after a kill, although files change after
\* the sum of their timeouts was checked.
THEOREM SuiteIsBounded == Spec => []SuiteTimeBounded
  <1>1. ASSUME IInv PROVE SuiteTimeBounded
    <2>0. /\ Len(results) \in Nat /\ Len(results) <= N /\ N \in Nat
          /\ (results = <<>> <=> Len(results) = 0)
          /\ Spent \in Nat /\ pause \in Nat /\ pause <= Overhead
          /\ MaxTotal \in Nat /\ Overhead \in Nat
      BY <1>1, SuiteAssumption, LenProperties DEF IInv, TypeOK, Spent
    <2>1. CASE results = <<>>
      <3>1. N * Overhead \in Nat /\ Spent <= MaxTotal
        BY <1>1, <2>0, <2>1, ProductGrows DEF IInv, TimeInv
      <3> QED
        BY <2>0, <3>1 DEF SuiteTimeBounded, Spent
    <2>2. CASE results # <<>>
      <3> DEFINE k == Len(results) - 1
      <3>1. k \in Nat /\ k + 1 = Len(results)
        BY <2>0, <2>2
      <3>2. Spent <= MaxTotal + k * Overhead + pause
        BY <1>1, <2>2 DEF IInv, TimeInv
      <3> HIDE DEF k
      <3>3. /\ k * Overhead \in Nat /\ (k + 1) * Overhead = k * Overhead + Overhead
            /\ (k + 1) * Overhead <= N * Overhead /\ N * Overhead \in Nat
        BY <2>0, <3>1, ProductGrows
      <3> QED
        BY <2>0, <3>2, <3>3 DEF SuiteTimeBounded, Spent
    <2> QED
      BY <2>1, <2>2
  <1> QED
    BY <1>1, SuiteInvariant, PTL

-----------------------------------------------------------------------------
(* The refinement                                                          *)

LEMMA CodesAgree == ExitCode = Suite!CodeOf(aggregate)
  BY DEF ExitCode, Suite!CodeOf

\* What is written at the end of a run is an account of it.
LEMMA AccountIsTrue ==
  ASSUME IInv, pc = "write"
  PROVE  Suite!IsAccount(Suite!Account(aggregate, results))
  <1>1. /\ Suite!Account(aggregate, results).result = aggregate
        /\ Suite!Account(aggregate, results).entries = results
    BY DEF Suite!Account
  <1>2. \/ aggregate \in Suite!Refusals /\ results = <<>>
        \/ /\ results \in [1..N -> Suite!EntryOutcomes]
           /\ aggregate = IF Suite!AllPassed(results) THEN "PASS" ELSE "FAIL"
    <2>1. CASE aggregate \in {"INVALID", "INTERNAL_ERROR"} /\ results = <<>>
      BY <2>1 DEF Suite!Refusals
    <2>2. CASE Len(results) = N /\ aggregate = Aggregate
      <3>1. results \in [1..N -> EntryOutcomes]
        BY <2>2, LenProperties DEF IInv, TypeOK
      <3> QED
        BY <2>2, <3>1, Outcomes DEF Suite!EntryOutcomes, Suite!AllPassed, Aggregate
    <2> QED
      BY <2>1, <2>2 DEF IInv, SumInv, After
  <1> QED
    BY <1>1, <1>2 DEF Suite!IsAccount

\* The run implements its contract: the report goes from what was there to
\* torn to a true account, and the exit code follows the account.
THEOREM SuiteImplementsContract == Spec => ImplementsSuiteContract
  <1>1. Init => Suite!Init
    BY DEF Init, Suite!Init, NoCode, Suite!NoCode
  <1>2. ASSUME IInv, [Next \/ Terminated]_vars PROVE [Suite!Next]_(Suite!vars)
    <2>1. CASE OpenReport
      <3>1. code = Suite!NoCode /\ wanted' = wanted
        BY <1>2, <2>1 DEF OpenReport, IInv, ReportInv, NoCode, Suite!NoCode
      <3>2. ExitCode \in {0, 1, 2}
        BY DEF ExitCode
      <3> QED
        BY <2>1, <3>1, <3>2 DEF OpenReport, Suite!Next, Suite!Open, Suite!Quiet, Suite!Fail
    <2>2. CASE WriteReport
      <3>1. code = Suite!NoCode /\ wanted' = wanted /\ wanted /\ report = Suite!Torn
        BY <1>2, <2>2 DEF WriteReport, IInv, ReportInv, NoCode, Suite!NoCode
      <3>2. CASE report' = Suite!Account(aggregate, results) /\ code' = ExitCode
        <4>1. Suite!IsAccount(report')
          BY <1>2, <2>2, <3>2, AccountIsTrue DEF WriteReport
        <4>2. report'.result = aggregate
          BY <3>2 DEF Suite!Account
        <4> QED
          BY <3>1, <3>2, <4>1, <4>2, CodesAgree DEF Suite!Next, Suite!Complete
      <3>3. CASE UNCHANGED report /\ code' = 1
        BY <3>1, <3>3 DEF Suite!Next, Suite!Fail
      <3> QED
        BY <2>2, <3>2, <3>3 DEF WriteReport
    <2>3. CASE UNCHANGED <<wanted, report, code>>
      BY <2>3 DEF Suite!vars
    <2>4. Next => OpenReport \/ WriteReport \/ UNCHANGED <<wanted, report, code>>
      <3>1. Skip \/ NotStarted \/ EndScenario => UNCHANGED <<wanted, report, code>>
        BY DEF Skip, NotStarted, EndScenario
      <3> QED
        BY <3>1, NextSplit DEF Passing, Load, Validate, PrepareRoot, StartScenario, Kill,
              Finish, Clean, Tick, Interrupt, Edit
    <2> QED
      BY <1>2, <2>1, <2>2, <2>3, <2>4 DEF Terminated, vars
  <1> QED
    BY <1>1, <1>2, SuiteInvariant, PTL DEF Spec, ImplementsSuiteContract, Suite!Spec
=============================================================================
