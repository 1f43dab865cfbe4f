----------------------------- MODULE GateProofs -----------------------------
(***************************************************************************)
(* Theorems about ReleaseGate, for any suite, library, policies and        *)
(* number of suite runs, under both pipelines and however the reads of the  *)
(* report fall between its rewrites.                                       *)
(***************************************************************************)
EXTENDS ReleaseGate, SequenceTheorems, TLAPS

-----------------------------------------------------------------------------
(* The inductive invariant                                                 *)

LinkValues == Fingerprints \cup {NoLink, Malformed}

\* A PASS report has a fingerprint for every scenario.
ReportInv ==
    /\ details.links \in [DOMAIN draft.entries -> LinkValues]
    /\ draft.result = "PASS" => details.links \in [1..N -> Fingerprints]

Early == {"idle", "policy", "report", "read", "open"}

\* The gate has a report and has not given up.
Loaded ==
    \/ gate \in {"lookup", "evaluate"}
    \/ gate \in {"write", "exited"} /\ verdict \in {"PASS", "FAIL"}

\* What was read is a part of the draft, from its start, as long as the file is
\* not rewritten; and all of it in the end.
ReadInv ==
    /\ gate \in {"idle", "policy", "report"} => offset = 0
    /\ offset = 0 => loaded = NotLoaded /\ ~mixed
    /\ gate = "read" /\ ~mixed /\ offset # 0 /\ readFrom = author =>
        /\ loaded.result = draft.result
        /\ offset - 1 <= Len(draft.entries)
        /\ loaded.links \in [1..offset - 1 -> LinkValues]
        /\ \A i \in 1..offset - 1 : loaded.links[i] = details.links[i]
    /\ (gate = "open" \/ Loaded) /\ ~mixed /\ loaded.result = "PASS" =>
        loaded.links \in [1..N -> Fingerprints]

\* The pipeline of the script: the directory is new, and nothing but the gate
\* runs while the gate does, which then reads the file of its own suite run.
ScriptInv ==
    scripted =>
        /\ report # Suite!Absent => author = cycle
        /\ ~GateRests => suite = "idle" /\ cycle = startedIn
        /\ gate = "read" => author = cycle
        /\ gate \in {"read", "open"} \/ Loaded => readFrom = startedIn /\ ~mixed

\* What the lookups answered is between what the library held when the gate
\* began and what it holds now.
LookupInv ==
    /\ gate \in Early => found = {} /\ todo = {}
    /\ knewAtStart \subseteq known
    /\ Loaded =>
        /\ policy.library => (Linked \ todo) \cap knewAtStart \subseteq found
        /\ gate # "lookup" => todo = {}

\* The rules evaluated so far, and the verdict on them.
RuleInv ==
    /\ gate \in Early \cup {"lookup"} => statuses = <<>> /\ verdict = "none"
    /\ gate = "evaluate" => verdict \in {"none", "PASS", "FAIL"}
    /\ gate \in {"report", "read", "open", "lookup", "evaluate"} => Len(policy.rules) >= 1
    /\ gate \in {"write", "exited"} => verdict # "none"
    /\ Loaded /\ verdict # "none" =>
        /\ \A i \in DOMAIN statuses : statuses[i] = Status(policy.rules[i])
        /\ verdict = "PASS" => \A i \in DOMAIN statuses : statuses[i] = "OK"
        /\ verdict = "FAIL" => \E i \in DOMAIN statuses : statuses[i] # "OK"
        /\ gate # "evaluate" => Len(statuses) = Len(policy.rules)
    /\ gate = "evaluate" /\ verdict = "none" => statuses = <<>>

CodeInv ==
    /\ gate # "exited" => code = NoCode
    /\ code = 0 => verdict = "PASS" /\ (policy.report => verdictFile = "PASS")
    /\ code = 2 => verdict = "FAIL"

IInv == TypeOK /\ ReportInv /\ ReadInv /\ ScriptInv /\ LookupInv /\ RuleInv /\ CodeInv

-----------------------------------------------------------------------------
(* Who changes what                                                        *)

SuiteSide == BeginSuite \/ OpenReport \/ CompleteReport \/ SuiteFails \/ SuiteKilled

LEMMA NextSplit ==
  Next <=> SuiteSide \/ (\E f \in Fingerprints : AddOccurrence(f)) \/ GateNext
  BY DEF Next, SuiteSide

LEMMA SuiteKeepsGate ==
  ASSUME SuiteSide
  PROVE  UNCHANGED <<scripted, known, gateVars>>
  BY DEF SuiteSide, BeginSuite, OpenReport, CompleteReport, SuiteFails, SuiteKilled

LEMMA AddKeepsOthers ==
  ASSUME NEW f \in Fingerprints, AddOccurrence(f)
  PROVE  known' = known \cup {f} /\ UNCHANGED <<scripted, cycle, suiteVars, gateVars>>
  BY DEF AddOccurrence

LEMMA GateKeepsSuite ==
  ASSUME GateNext
  PROVE  UNCHANGED <<scripted, cycle, known, suiteVars, policy>>
  <1>1. CASE BeginGate \/ LoadPolicy \/ Lookup
    BY <1>1 DEF BeginGate, LoadPolicy, Lookup
  <1>3. CASE OpenSuiteReport \/ ReadPart \/ LoadSuiteReport \/ OpenLibrary
    BY <1>3 DEF OpenSuiteReport, ReadPart, LoadSuiteReport, OpenLibrary
  <1>2. CASE LookupsDone \/ EvaluateRule \/ EvaluateEnds \/ WriteVerdict
    BY <1>2 DEF LookupsDone, EvaluateRule, EvaluateEnds, WriteVerdict
  <1> QED
    BY <1>1, <1>2, <1>3 DEF GateNext

-----------------------------------------------------------------------------
(* Type correctness                                                        *)

SuiteTypes ==
    /\ scripted \in Pipelines
    /\ cycle \in 0..MaxCycles
    /\ suite \in {"idle", "running"}
    /\ suiteCode \in {NoCode, 0, 1, 2, KilledCode}
    /\ report \in {Suite!Absent, Suite!Torn} \/ Suite!IsAccount(report)
    /\ draft = Suite!Absent \/ Suite!IsAccount(draft)
    /\ author \in 0..cycle

GateTypes ==
    /\ known \subseteq Fingerprints
    /\ gate \in Places
    /\ policy \in Policies
    /\ offset \in 0..N + 1 /\ readFrom \in 0..author /\ mixed \in BOOLEAN
    /\ loaded \in [result : Results, links : Seq(Fingerprints \cup {NoLink, Malformed})]
    /\ todo \subseteq Linked /\ found \subseteq Linked \cap known
    /\ statuses \in Seq({"OK", "FAIL", "SKIP"}) /\ Len(statuses) <= Len(policy.rules)
    /\ verdict \in Results
    /\ verdictFile \in Verdicts \cup {"stale", "torn"}
    /\ code \in {NoCode, 0, 1, 2}

LEMMA TypesSplit == TypeOK <=> SuiteTypes /\ GateTypes
  BY DEF TypeOK, SuiteTypes, GateTypes

LEMMA AccountTypes ==
  ASSUME NEW a \in Accounts
  PROVE  Suite!IsAccount(a)
  <1>1. CASE a \in {Suite!Account(result, <<>>) : result \in Suite!Refusals}
    BY <1>1 DEF Suite!Account, Suite!IsAccount
  <1>2. ASSUME NEW entries \in [1..N -> Outcomes],
               a = Suite!Account(IF Suite!AllPassed(entries) THEN "PASS" ELSE "FAIL", entries)
        PROVE  Suite!IsAccount(a)
    <2>1. entries \in [1..N -> Suite!EntryOutcomes]
      BY OutcomesAssumption
    <2> QED
      BY <1>2, <2>1 DEF Suite!Account, Suite!IsAccount
  <1> QED
    BY <1>1, <1>2 DEF Accounts

LEMMA SuiteTypesKept ==
  ASSUME SuiteTypes, SuiteSide
  PROVE  SuiteTypes' /\ author' >= author
  <1>0. cycle \in Nat /\ MaxCycles \in Nat /\ author \in Nat /\ author <= cycle
    BY GateAssumption DEF SuiteTypes
  <1>1. CASE BeginSuite
    <2>1. cycle' \in 0..MaxCycles /\ author' \in 0..cycle' /\ author' = author
      BY <1>0, <1>1 DEF BeginSuite
    <2>2. /\ report' \in {Suite!Absent, Suite!Torn} \/ Suite!IsAccount(report')
          /\ draft' = Suite!Absent \/ Suite!IsAccount(draft')
      BY <1>1 DEF BeginSuite, SuiteTypes
    <2> QED
      BY <1>0, <1>1, <2>1, <2>2 DEF BeginSuite, SuiteTypes, Suite!IsAccount
  <1>2. CASE OpenReport
    <2>1. draft' \in Accounts /\ report' = Suite!Torn
      BY <1>2 DEF OpenReport, Suite!Open
    <2>2. Suite!IsAccount(draft')
      BY <2>1, AccountTypes
    <2> QED
      BY <1>0, <1>2, <2>1, <2>2 DEF OpenReport, Suite!Open, SuiteTypes, Suite!IsAccount
  <1>3. CASE CompleteReport
    <2>1. suiteCode' \in {0, 1, 2}
      BY <1>3 DEF CompleteReport, Suite!Complete, Suite!CodeOf
    <2>2. Suite!IsAccount(report')
      BY <1>3 DEF CompleteReport, Suite!Complete
    <2> QED
      BY <1>0, <1>3, <2>1, <2>2 DEF CompleteReport, SuiteTypes, Suite!IsAccount
  <1>4. CASE SuiteFails
    BY <1>0, <1>4 DEF SuiteFails, Suite!Fail, SuiteTypes, Suite!IsAccount
  <1>5. CASE SuiteKilled
    BY <1>0, <1>5 DEF SuiteKilled, SuiteTypes, Suite!IsAccount
  <1> QED
    BY <1>1, <1>2, <1>3, <1>4, <1>5 DEF SuiteSide

\* The draft is a report of no more than N entries, all of them for a PASS.
LEMMA DraftTypes ==
  ASSUME SuiteTypes
  PROVE  /\ Len(draft.entries) \in 0..N /\ DOMAIN draft.entries = 1..Len(draft.entries)
         /\ draft.result \in Results
         /\ draft.result = "PASS" => Len(draft.entries) = N
  <1>9. draft.result \in Results
    BY DEF SuiteTypes, Suite!Absent, Suite!IsAccount, Suite!Refusals, Results, Verdicts
  <1>0. N \in Nat
    BY GateAssumption
  <1>1. CASE draft.entries = <<>> /\ draft.result # "PASS"
    BY <1>0, <1>1, <1>9
  <1>2. CASE draft.entries \in [1..N -> Suite!EntryOutcomes]
    <2>1. draft.entries \in Seq(Suite!EntryOutcomes) /\ Len(draft.entries) = N
      BY <1>0, <1>2
    <2> QED
      BY <1>0, <1>9, <2>1, LenProperties
  <1>3. \/ draft.entries = <<>> /\ draft.result # "PASS"
        \/ draft.entries \in [1..N -> Suite!EntryOutcomes]
    BY DEF SuiteTypes, Suite!Absent, Suite!IsAccount, Suite!Refusals
  <1> QED
    BY <1>1, <1>2, <1>3, <1>9

LEMMA PolicyTypes ==
  ASSUME GateTypes
  PROVE  /\ policy.library \in BOOLEAN /\ policy.report \in BOOLEAN
         /\ policy.rules \in Seq(Rules) /\ Len(policy.rules) \in Nat
         /\ DOMAIN policy.rules = 1..Len(policy.rules)
         /\ Len(statuses) \in Nat /\ DOMAIN statuses = 1..Len(statuses)
  BY GateAssumption, LenProperties DEF GateTypes

\* The rule whose turn it is, and its status.
LEMMA RuleEvaluated ==
  ASSUME GateTypes, EvaluateRule
  PROVE  LET k == Len(statuses) + 1  status == Status(policy.rules[k]) IN
         /\ k \in DOMAIN policy.rules
         /\ status \in {"OK", "FAIL", "SKIP"}
         /\ statuses' \in Seq({"OK", "FAIL", "SKIP"})
         /\ Len(statuses') = k /\ DOMAIN statuses' = DOMAIN statuses \cup {k}
         /\ \A i \in DOMAIN statuses : statuses'[i] = statuses[i]
         /\ statuses'[k] = status
         /\ verdict' = IF status # "OK" THEN "FAIL"
                       ELSE IF verdict = "none" THEN "PASS" ELSE verdict
  <1> DEFINE k == Len(statuses) + 1
             status == Status(policy.rules[k])
  <1>1. status \in {"OK", "FAIL", "SKIP"}
    BY DEF Status
  <1>2. /\ statuses' = Append(statuses, status)
        /\ Len(statuses) < Len(policy.rules)
        /\ verdict' = IF status # "OK" THEN "FAIL"
                       ELSE IF verdict = "none" THEN "PASS" ELSE verdict
    BY DEF EvaluateRule, FailsVerdict
  <1>3. k \in DOMAIN policy.rules
    BY <1>2, PolicyTypes
  <1> HIDE DEF status
  <1>4. statuses \in Seq({"OK", "FAIL", "SKIP"})
    BY DEF GateTypes
  <1>5. /\ statuses' \in Seq({"OK", "FAIL", "SKIP"})
        /\ Len(statuses') = k
        /\ \A i \in 1..Len(statuses) : statuses'[i] = statuses[i]
        /\ statuses'[k] = status
    BY <1>1, <1>2, <1>4, AppendProperties
  <1>6. DOMAIN statuses' = DOMAIN statuses \cup {k} /\ DOMAIN statuses = 1..Len(statuses)
    BY <1>4, <1>5, LenProperties, PolicyTypes
  <1> QED
    BY <1>1, <1>2, <1>3, <1>5, <1>6 DEF status

\* One read of the report, which is of the type of a prefix of it.
LEMMA PartRead ==
  ASSUME SuiteTypes, GateTypes, ReportInv, ReadPart
  PROVE  \E part \in NextPart :
            /\ part \in 0..Len(draft.entries) /\ part \in 0..N
            /\ offset' = part + 1 /\ offset' \in 1..N + 1
            /\ part = 0 => loaded' = [loaded EXCEPT !.result = draft.result]
            /\ part # 0 => /\ details.links[part] \in LinkValues
                          /\ loaded' = [loaded EXCEPT !.links = Append(@, details.links[part])]
  <1>1. PICK part \in NextPart \cap (0..Len(draft.entries)) :
            /\ offset' = part + 1
            /\ loaded' = IF part = 0 THEN [loaded EXCEPT !.result = draft.result]
                         ELSE [loaded EXCEPT !.links = Append(@, details.links[part])]
    BY DEF ReadPart
  <1>2. N \in Nat /\ part \in 0..Len(draft.entries)
    BY <1>1, GateAssumption
  <1>3. part \in 0..N /\ offset' \in 1..N + 1 /\ (part # 0 => part \in DOMAIN draft.entries)
    BY <1>1, <1>2, DraftTypes
  <1>4. part # 0 => details.links[part] \in LinkValues
    BY <1>3 DEF ReportInv
  <1>5. part = 0 => loaded' = [loaded EXCEPT !.result = draft.result]
    BY <1>1
  <1>6. part # 0 => loaded' = [loaded EXCEPT !.links = Append(@, details.links[part])]
    BY <1>1
  <1>7. offset' = part + 1 /\ part \in NextPart
    BY <1>1
  <1> QED
    BY <1>2, <1>3, <1>4, <1>5, <1>6, <1>7

LEMMA GateTypesKept ==
  ASSUME SuiteTypes, GateTypes, ReportInv, ReadInv, LookupInv, RuleInv, GateNext
  PROVE  GateTypes'
  <1>0. UNCHANGED <<known, policy, author>> /\ author \in Nat
    BY GateKeepsSuite, GateAssumption DEF suiteVars, SuiteTypes
  <1>1. CASE BeginGate \/ LookupsDone \/ EvaluateEnds
    BY <1>0, <1>1 DEF GateTypes, Places, BeginGate, LookupsDone, EvaluateEnds, reading, Linked
  <1>2. CASE LoadPolicy
    BY <1>0, <1>2 DEF GateTypes, Places, LoadPolicy, Abandon, Verdicts, Results, reading, Linked
  <1>3. CASE OpenSuiteReport
    <2>1. readFrom' \in 0..author
      BY <1>0, <1>3 DEF OpenSuiteReport, GateTypes
    <2>2. gate' \in Places /\ verdict' \in Results
      BY <1>3 DEF OpenSuiteReport, Abandon, GateTypes, Places, Verdicts, Results
    <2> QED
      BY <1>0, <1>3, <2>1, <2>2 DEF GateTypes, OpenSuiteReport, Linked
  <1>4. CASE ReadPart
    <2>1. offset' \in 0..N + 1 /\ loaded' \in [result : Results, links : Seq(LinkValues)]
      <3>1. PICK part \in NextPart :
              /\ offset' \in 1..N + 1
              /\ part = 0 => loaded' = [loaded EXCEPT !.result = draft.result]
              /\ part # 0 => /\ details.links[part] \in LinkValues
                            /\ loaded' = [loaded EXCEPT !.links = Append(@, details.links[part])]
        BY <1>4, PartRead
      <3>2. loaded \in [result : Results, links : Seq(LinkValues)]
        BY DEF GateTypes, LinkValues
      <3>3. CASE part = 0
        BY <3>1, <3>2, <3>3, DraftTypes, GateAssumption
      <3>4. CASE part # 0
        <4>1. Append(loaded.links, details.links[part]) \in Seq(LinkValues)
          BY <3>1, <3>2, <3>4, AppendProperties
        <4>2. loaded' \in [result : Results, links : Seq(LinkValues)]
          BY <3>1, <3>2, <3>4, <4>1
        <4> QED
          BY <3>1, <4>2, GateAssumption
      <3> QED
        BY <3>3, <3>4
    <2>2. readFrom' \in 0..author /\ mixed' \in BOOLEAN
      BY <1>0, <1>4 DEF ReadPart, GateTypes, Rewritten
    <2>3. todo' = {} /\ found' = {}
      BY <1>4 DEF ReadPart, LookupInv, Early
    <2> QED
      BY <1>0, <1>4, <2>1, <2>2, <2>3 DEF GateTypes, ReadPart, LinkValues
  <1>5. CASE LoadSuiteReport
    <2>1. mixed' \in BOOLEAN
      BY <1>5 DEF LoadSuiteReport, GateTypes, Rewritten
    <2>2. gate' \in Places /\ verdict' \in Results
      BY <1>5 DEF LoadSuiteReport, Abandon, GateTypes, Places, Verdicts, Results
    <2> QED
      BY <1>0, <1>5, <2>1, <2>2 DEF GateTypes, LoadSuiteReport, Linked
  <1>6. CASE OpenLibrary
    <2>1. found' = {} /\ todo' \subseteq Linked
      BY <1>6 DEF OpenLibrary, LookupInv, Early
    <2>2. gate' \in Places /\ verdict' \in Results
      BY <1>6 DEF OpenLibrary, Abandon, GateTypes, Places, Verdicts, Results
    <2> QED
      BY <1>0, <1>6, <2>1, <2>2 DEF GateTypes, OpenLibrary, reading, Linked
  <1>7. CASE Lookup
    <2>1. todo' \subseteq Linked /\ found' \subseteq Linked \cap known
      BY <1>7 DEF Lookup, GateTypes
    <2>2. gate' \in Places /\ verdict' \in Results
      BY <1>7 DEF Lookup, Abandon, GateTypes, Places, Verdicts, Results
    <2> QED
      BY <1>0, <1>7, <2>1, <2>2 DEF GateTypes, Lookup, reading, Linked
  <1>8. CASE EvaluateRule
    <2>1. /\ statuses' \in Seq({"OK", "FAIL", "SKIP"})
          /\ Len(statuses') <= Len(policy.rules)
          /\ verdict' \in {"PASS", "FAIL", verdict}
      BY <1>8, RuleEvaluated, PolicyTypes
    <2> QED
      BY <1>0, <1>8, <2>1 DEF GateTypes, EvaluateRule, Verdicts, Results, reading, Linked
  <1>9. CASE WriteVerdict
    <2>1. CodeOf(verdict) \in {0, 1, 2}
      BY DEF CodeOf
    <2>2. code' \in {NoCode, 0, 1, 2} /\ verdictFile' \in Verdicts \cup {"stale", "torn"}
      BY <1>9, <2>1, PolicyTypes DEF WriteVerdict, GateTypes, RuleInv, Results
    <2> QED
      BY <1>0, <1>9, <2>2 DEF GateTypes, Places, WriteVerdict, reading, Linked
  <1> QED
    BY <1>1, <1>2, <1>3, <1>4, <1>5, <1>6, <1>7, <1>8, <1>9 DEF GateNext

-----------------------------------------------------------------------------
(* The report and the pipeline                                             *)

\* The links of a report, a fingerprint for each scenario of a PASS.
LEMMA DetailsAreTrue ==
  ASSUME NEW a, Suite!IsAccount(a), NEW d \in DetailsOf(a.entries)
  PROVE  /\ d.links \in [DOMAIN a.entries -> LinkValues]
         /\ a.result = "PASS" => d.links \in [1..N -> Fingerprints]
  <1>1. /\ d.links \in [DOMAIN a.entries -> LinkValues]
        /\ \A i \in DOMAIN a.entries : d.links[i] \in LinkChoices(a.entries[i])
    BY DEF DetailsOf, LinkValues
  <1>2. ASSUME a.result = "PASS"
        PROVE  d.links \in [1..N -> Fingerprints]
    <2>1. a.entries \in [1..N -> Suite!EntryOutcomes] /\ Suite!AllPassed(a.entries)
      BY <1>2 DEF Suite!IsAccount, Suite!Refusals
    <2>2. \A i \in 1..N : d.links[i] \in Fingerprints
      BY <1>1, <2>1 DEF Suite!AllPassed, LinkChoices
    <2> QED
      BY <1>1, <2>1, <2>2
  <1> QED
    BY <1>1, <1>2

LEMMA ReportKept ==
  ASSUME SuiteTypes, ReportInv, SuiteSide
  PROVE  ReportInv'
  <1>1. CASE UNCHANGED <<draft, details>>
    BY <1>1 DEF ReportInv
  <1>2. CASE draft' = Suite!Absent /\ details' = NoDetails
    <2>1. draft'.result # "PASS" /\ draft'.entries = <<>> /\ details'.links = <<>>
      BY <1>2 DEF Suite!Absent, NoDetails
    <2> QED
      BY <2>1 DEF ReportInv
  <1>3. CASE OpenReport
    <2>1. Suite!IsAccount(draft') /\ details' \in DetailsOf(draft'.entries)
      BY <1>3, AccountTypes DEF OpenReport
    <2> QED
      BY <2>1, DetailsAreTrue DEF ReportInv
  <1>4. SuiteSide => \/ UNCHANGED <<draft, details>>
                     \/ draft' = Suite!Absent /\ details' = NoDetails
                     \/ OpenReport
    BY DEF SuiteSide, BeginSuite, CompleteReport, SuiteFails, SuiteKilled
  <1> QED
    BY <1>1, <1>2, <1>3, <1>4

\* A suite run does not change what the gate has read; if it rewrites the file
\* the gate can tell.
LEMMA ReadKeptBySuite ==
  ASSUME SuiteTypes, GateTypes, ReadInv, SuiteSide
  PROVE  ReadInv'
  <1>0. UNCHANGED <<gate, policy, reading, verdict>>
    BY SuiteKeepsGate DEF gateVars
  <1>1. CASE UNCHANGED <<draft, details, author>>
    BY <1>0, <1>1 DEF ReadInv, Loaded, reading
  <1>2. CASE OpenReport
    <2>1. author' # readFrom'
      <3>1. author' = cycle /\ author # cycle /\ readFrom' = readFrom
        BY <1>0, <1>2 DEF OpenReport, reading
      <3>2. author \in 0..cycle /\ readFrom \in 0..author /\ cycle \in Nat
        BY GateAssumption DEF SuiteTypes, GateTypes
      <3> QED
        BY <3>1, <3>2
    <2> QED
      BY <1>0, <2>1 DEF ReadInv, Loaded, reading
  <1>3. CASE BeginSuite /\ scripted
    <2>1. gate' # "read"
      BY <1>0, <1>3 DEF BeginSuite, GateRests
    <2> QED
      BY <1>0, <2>1 DEF ReadInv, Loaded, reading
  <1>4. SuiteSide => \/ UNCHANGED <<draft, details, author>>
                     \/ OpenReport
                     \/ BeginSuite /\ scripted
    <2>1. BeginSuite => scripted \/ UNCHANGED <<draft, details, author>>
      BY DEF BeginSuite
    <2>2. CompleteReport \/ SuiteFails \/ SuiteKilled => UNCHANGED <<draft, details, author>>
      BY DEF CompleteReport, SuiteFails, SuiteKilled
    <2>3. SuiteSide => BeginSuite \/ OpenReport \/ CompleteReport \/ SuiteFails \/ SuiteKilled
      BY DEF SuiteSide
    <2> QED
      BY <2>1, <2>2, <2>3
  <1> QED
    BY <1>1, <1>2, <1>3, <1>4

\* The read goes on where it was, or knows that the file is another.
LEMMA ReadKeptByPart ==
  ASSUME SuiteTypes, GateTypes, ReportInv, ReadInv, ReadPart
  PROVE  ReadInv'
  <1>0. UNCHANGED <<gate, draft, details, author>> /\ gate = "read"
    BY DEF ReadPart, suiteVars
  <1>1. PICK part \in NextPart :
            /\ part \in 0..Len(draft.entries) /\ part \in 0..N
            /\ offset' = part + 1 /\ offset' \in 1..N + 1
            /\ part = 0 => loaded' = [loaded EXCEPT !.result = draft.result]
            /\ part # 0 => /\ details.links[part] \in LinkValues
                          /\ loaded' = [loaded EXCEPT !.links = Append(@, details.links[part])]
    BY PartRead
  <1>2. N \in Nat /\ offset' # 0 /\ offset' - 1 = part /\ Len(draft.entries) \in Nat
    BY <1>1, GateAssumption, DraftTypes
  <1>3. SUFFICES ASSUME ~mixed'
                 PROVE  /\ loaded'.result = draft.result
                        /\ loaded'.links \in [1..part -> LinkValues]
                        /\ \A i \in 1..part : loaded'.links[i] = details.links[i]
    BY <1>0, <1>1, <1>2 DEF ReadInv, Loaded
  <1>4. ~mixed /\ ~Rewritten /\ part = offset
    BY <1>1, <1>3 DEF ReadPart, NextPart
  <1>5. CASE part = 0
    <2>1. loaded = NotLoaded
      BY <1>4, <1>5 DEF ReadInv
    <2>2. loaded'.result = draft.result /\ loaded'.links = <<>>
      BY <1>1, <1>5, <2>1 DEF NotLoaded
    <2> QED
      BY <1>5, <2>2
  <1>6. CASE part # 0
    <2>1. readFrom = author
      BY <1>4, <1>6 DEF Rewritten
    <2>2. /\ loaded.result = draft.result
          /\ loaded.links \in [1..part - 1 -> LinkValues]
          /\ \A i \in 1..part - 1 : loaded.links[i] = details.links[i]
      BY <1>0, <1>4, <1>6, <2>1 DEF ReadInv
    <2>3. loaded.links \in Seq(LinkValues) /\ Len(loaded.links) = part - 1
      <3>1. part - 1 \in Nat
        BY <1>1, <1>6
      <3>2. loaded.links \in Seq(LinkValues)
        BY DEF GateTypes, LinkValues
      <3>3. DOMAIN loaded.links = 1..Len(loaded.links) /\ DOMAIN loaded.links = 1..part - 1
        BY <2>2, <3>2, LenProperties
      <3> QED
        BY <3>1, <3>2, <3>3, LenProperties
    <2>4. loaded'.result = loaded.result /\ loaded'.links = Append(loaded.links, details.links[part])
      <3>1. loaded' = [loaded EXCEPT !.links = Append(@, details.links[part])]
        BY <1>1, <1>6
      <3>2. loaded \in [result : Results, links : Seq(LinkValues)]
        BY DEF GateTypes, LinkValues
      <3> QED
        BY <3>1, <3>2
    <2>5. /\ loaded'.links \in [1..part -> LinkValues]
          /\ \A i \in 1..part - 1 : loaded'.links[i] = loaded.links[i]
          /\ loaded'.links[part] = details.links[part]
      <3>1. details.links[part] \in LinkValues
        BY <1>1, <1>6
      <3>2. loaded'.links \in Seq(LinkValues) /\ Len(loaded'.links) = part
        BY <1>1, <2>3, <2>4, <3>1, AppendProperties
      <3>3. \A i \in 1..Len(loaded.links) : loaded'.links[i] = loaded.links[i]
        BY <2>3, <2>4, <3>1, AppendProperties
      <3>4. loaded'.links[Len(loaded.links) + 1] = details.links[part]
        BY <2>3, <2>4, <3>1, AppendProperties
      <3>5. part - 1 + 1 = part
        BY <1>1
      <3>6. loaded'.links \in [1..part -> LinkValues]
        BY <3>2, LenProperties
      <3> QED
        BY <2>3, <3>3, <3>4, <3>5, <3>6
    <2> QED
      BY <1>1, <1>2, <2>2, <2>4, <2>5
  <1> QED
    BY <1>5, <1>6

LEMMA ReadKeptByGate ==
  ASSUME SuiteTypes, GateTypes, ReportInv, ReadInv, RuleInv, GateNext
  PROVE  ReadInv'
  <1>0. UNCHANGED <<draft, details, author>>
    BY GateKeepsSuite DEF suiteVars
  <1>1. CASE BeginGate
    BY <1>0, <1>1 DEF BeginGate, ReadInv, Loaded, reading
  <1>2. CASE LoadPolicy
    BY <1>0, <1>2 DEF LoadPolicy, Abandon, ReadInv, Loaded, reading
  <1>3. CASE OpenSuiteReport
    BY <1>0, <1>3 DEF OpenSuiteReport, Abandon, ReadInv, Loaded
  <1>4. CASE ReadPart
    BY <1>4, ReadKeptByPart
  <1>5. CASE LoadSuiteReport
    <2>1. CASE Abandon("INVALID")
      BY <1>0, <1>5, <2>1 DEF LoadSuiteReport, Abandon, ReadInv, Loaded
    <2>2. CASE Len(draft.entries) + 1 \in NextPart /\ mixed' = (mixed \/ Rewritten) /\ gate' = "open"
      <3>1. gate = "read" /\ UNCHANGED <<offset, readFrom, loaded>>
        BY <1>5 DEF LoadSuiteReport
      <3>2. Len(draft.entries) \in Nat /\ Len(draft.entries) + 1 # 0
        BY DraftTypes
      <3>3. offset = 0 => ~Rewritten /\ NextPart = {0}
        BY DEF Rewritten, NextPart
      <3>4. offset # 0
        BY <2>2, <3>2, <3>3
      <3>5. ASSUME ~mixed', loaded'.result = "PASS"
            PROVE  loaded'.links \in [1..N -> Fingerprints]
        <4>1. ~mixed /\ ~Rewritten /\ readFrom = author /\ offset = Len(draft.entries) + 1
          BY <2>2, <3>4, <3>5 DEF Rewritten, NextPart
        <4>2. offset - 1 = Len(draft.entries)
          BY <3>2, <4>1
        <4>3. /\ loaded.result = draft.result
              /\ loaded.links \in [1..Len(draft.entries) -> LinkValues]
              /\ \A i \in 1..Len(draft.entries) : loaded.links[i] = details.links[i]
          BY <3>1, <3>4, <4>1, <4>2 DEF ReadInv
        <4>4. draft.result = "PASS"
          BY <3>1, <3>5, <4>3
        <4>5. Len(draft.entries) = N /\ details.links \in [1..N -> Fingerprints]
          BY <4>4, DraftTypes DEF ReportInv
        <4> QED
          BY <3>1, <4>3, <4>5
      <3> QED
        BY <2>2, <3>1, <3>4, <3>5 DEF ReadInv, Loaded
    <2> QED
      BY <1>5, <2>1, <2>2 DEF LoadSuiteReport
  <1>6. CASE OpenLibrary
    BY <1>0, <1>6 DEF OpenLibrary, Abandon, ReadInv, Loaded, reading
  <1>7. CASE Lookup
    BY <1>0, <1>7 DEF Lookup, Abandon, ReadInv, Loaded, reading
  <1>8. CASE LookupsDone
    BY <1>0, <1>8 DEF LookupsDone, ReadInv, Loaded, reading
  <1>9. CASE EvaluateRule \/ EvaluateEnds \/ WriteVerdict
    BY <1>0, <1>9 DEF EvaluateRule, EvaluateEnds, WriteVerdict, ReadInv, Loaded, reading
  <1> QED
    BY <1>1, <1>2, <1>3, <1>4, <1>5, <1>6, <1>7, <1>8, <1>9 DEF GateNext

LEMMA ScriptKeptBySuite ==
  ASSUME SuiteTypes, ScriptInv, SuiteSide
  PROVE  ScriptInv'
  <1> SUFFICES ASSUME scripted'
               PROVE  /\ report' # Suite!Absent => author' = cycle'
                      /\ ~GateRests' => suite' = "idle" /\ cycle' = startedIn'
                      /\ gate' = "read" => author' = cycle'
                      /\ gate' \in {"read", "open"} \/ Loaded' => readFrom' = startedIn' /\ ~mixed'
    BY DEF ScriptInv
  <1>0. scripted /\ UNCHANGED <<gate, verdict, readFrom, mixed, startedIn>>
    BY SuiteKeepsGate DEF gateVars, reading
  <1>1. GateRests
    <2>1. suite = "running" \/ BeginSuite
      BY DEF SuiteSide, OpenReport, CompleteReport, SuiteFails, SuiteKilled
    <2> QED
      BY <1>0, <2>1 DEF ScriptInv, BeginSuite
  <1>2. GateRests' /\ gate' # "read" /\ (Loaded' <=> Loaded)
    BY <1>0, <1>1 DEF GateRests, Loaded
  <1>3. report' # Suite!Absent => author' = cycle'
    <2>1. CASE BeginSuite
      BY <1>0, <2>1 DEF BeginSuite
    <2>2. CASE OpenReport \/ CompleteReport
      BY <2>2 DEF OpenReport, CompleteReport
    <2>3. CASE SuiteFails \/ SuiteKilled
      BY <1>0, <2>3 DEF SuiteFails, SuiteKilled, Suite!Fail, ScriptInv
    <2> QED
      BY <2>1, <2>2, <2>3 DEF SuiteSide
  <1> QED
    BY <1>0, <1>1, <1>2, <1>3 DEF ScriptInv, GateRests

LEMMA ScriptKeptByGate ==
  ASSUME ScriptInv, ReadInv, RuleInv, GateNext
  PROVE  ScriptInv'
  <1>0. UNCHANGED <<scripted, cycle, suite, report, author>>
    BY GateKeepsSuite DEF suiteVars
  <1> SUFFICES ASSUME scripted
               PROVE  /\ ~GateRests' => suite = "idle" /\ cycle = startedIn'
                      /\ gate' = "read" => author = cycle
                      /\ gate' \in {"read", "open"} \/ Loaded' => readFrom' = startedIn' /\ ~mixed'
    BY <1>0 DEF ScriptInv
  <1>1. CASE BeginGate
    BY <1>1 DEF BeginGate, ScriptInv, GateRests, Loaded, reading
  <1>2. CASE ~BeginGate
    <2>1. startedIn' = startedIn /\ ~GateRests
      BY <1>2 DEF GateNext, LoadPolicy, OpenSuiteReport, ReadPart, LoadSuiteReport, OpenLibrary,
            Lookup, LookupsDone, EvaluateRule, EvaluateEnds, WriteVerdict, GateRests
    <2>2. suite = "idle" /\ cycle = startedIn
      BY <2>1 DEF ScriptInv
    <2>3. CASE LoadPolicy
      BY <2>2, <2>1, <2>3 DEF LoadPolicy, Abandon, Loaded
    <2>4. CASE OpenSuiteReport
      <3>1. offset = 0 /\ mixed' = mixed
        BY <2>4 DEF OpenSuiteReport, ReadInv
      <3>2. ~mixed'
        BY <3>1 DEF ReadInv
      <3>3. CASE Abandon("INVALID")
        BY <2>1, <2>2, <3>3 DEF Abandon, Loaded
      <3>4. CASE report # Suite!Absent /\ gate' = "read" /\ readFrom' = author
        BY <2>1, <2>2, <3>2, <3>4 DEF ScriptInv
      <3> QED
        BY <2>4, <3>3, <3>4 DEF OpenSuiteReport
    <2>5. CASE ReadPart \/ LoadSuiteReport
      <3>1. gate = "read" /\ readFrom = author /\ author = cycle /\ ~mixed
        BY <2>2, <2>5 DEF ReadPart, LoadSuiteReport, ScriptInv
      <3>2. ~Rewritten
        BY <3>1 DEF Rewritten
      <3>3. readFrom' = author /\ ~mixed'
        <4>1. CASE ReadPart
          BY <3>1, <3>2, <4>1 DEF ReadPart
        <4>2. CASE LoadSuiteReport
          <5>1. readFrom' = readFrom
            BY <4>2 DEF LoadSuiteReport
          <5>2. CASE mixed' = (mixed \/ Rewritten)
            BY <3>1, <3>2, <5>1, <5>2
          <5>3. CASE UNCHANGED mixed
            BY <3>1, <5>1, <5>3
          <5> QED
            BY <4>2, <5>2, <5>3 DEF LoadSuiteReport
        <4> QED
          BY <2>5, <4>1, <4>2
      <3> QED
        BY <2>1, <2>2, <3>1, <3>3
    <2>6. CASE OpenLibrary
      BY <2>1, <2>2, <2>6 DEF OpenLibrary, Abandon, ScriptInv, Loaded, reading
    <2>7. CASE Lookup \/ LookupsDone \/ EvaluateRule \/ EvaluateEnds \/ WriteVerdict
      <3>1. UNCHANGED <<readFrom, mixed>> /\ gate' \notin {"read", "open"}
        <4>1. CASE Lookup \/ LookupsDone
          BY <4>1 DEF Lookup, LookupsDone, Abandon, reading
        <4>2. CASE EvaluateRule \/ EvaluateEnds \/ WriteVerdict
          BY <4>2 DEF EvaluateRule, EvaluateEnds, WriteVerdict, reading
        <4> QED
          BY <2>7, <4>1, <4>2
      <3>2. Loaded' => Loaded
        <4>1. CASE Lookup \/ LookupsDone
          BY <4>1 DEF Lookup, LookupsDone, Loaded
        <4>2. CASE EvaluateRule \/ EvaluateEnds \/ WriteVerdict
          BY <4>2 DEF EvaluateRule, EvaluateEnds, WriteVerdict, Loaded
        <4> QED
          BY <2>7, <4>1, <4>2
      <3>3. Loaded' => readFrom' = startedIn' /\ ~mixed'
        BY <2>1, <3>1, <3>2 DEF ScriptInv
      <3> QED
        BY <2>1, <2>2, <3>1, <3>3
    <2> QED
      BY <1>2, <2>3, <2>4, <2>5, <2>6, <2>7 DEF GateNext
  <1> QED
    BY <1>1, <1>2

-----------------------------------------------------------------------------
(* The evaluation                                                          *)

LEMMA LookupKept ==
  ASSUME GateTypes, LookupInv, RuleInv, GateNext
  PROVE  LookupInv'
  <1>0. UNCHANGED <<known, policy>>
    BY GateKeepsSuite
  <1>1. CASE BeginGate
    BY <1>0, <1>1 DEF BeginGate, LookupInv, Early, Loaded
  <1>2. CASE LoadPolicy
    BY <1>0, <1>2 DEF LoadPolicy, Abandon, LookupInv, RuleInv, Early, Loaded
  <1>3. CASE OpenSuiteReport \/ ReadPart \/ LoadSuiteReport
    <2>1. /\ gate \in Early /\ (gate' \in Early \/ Abandon("INVALID"))
          /\ UNCHANGED <<todo, found, knewAtStart>>
      BY <1>3 DEF OpenSuiteReport, ReadPart, LoadSuiteReport, Early
    <2> QED
      BY <1>0, <2>1 DEF Abandon, LookupInv, Early, Loaded
  <1>8. CASE OpenLibrary
    <2>1. gate = "open" /\ UNCHANGED <<loaded, found, knewAtStart>>
      BY <1>8 DEF OpenLibrary, reading
    <2>2. CASE Abandon("INTERNAL_ERROR") /\ UNCHANGED todo
      BY <1>0, <2>1, <2>2 DEF Abandon, LookupInv, Early, Loaded
    <2>3. CASE gate' = "lookup" /\ todo' = IF policy.library THEN Linked ELSE {}
      <3>1. Linked' = Linked
        BY <2>1 DEF Linked
      <3> QED
        BY <1>0, <2>1, <2>3, <3>1 DEF LookupInv, Early, Loaded
    <2> QED
      BY <1>8, <2>2, <2>3 DEF OpenLibrary
  <1>4. CASE Lookup
    <2>1. UNCHANGED <<loaded, knewAtStart>> /\ gate = "lookup" /\ Linked' = Linked
      BY <1>4 DEF Lookup, reading, Linked
    <2>2. CASE Abandon("INTERNAL_ERROR") /\ UNCHANGED <<todo, found>>
      BY <1>0, <2>1, <2>2 DEF Abandon, LookupInv, Early, Loaded
    <2>3. ASSUME NEW f \in todo, todo' = todo \ {f}, found' = found \cup ({f} \cap known),
                 UNCHANGED <<gate, verdict>>
          PROVE  LookupInv'
      <3>1. policy.library => (Linked \ todo) \cap knewAtStart \subseteq found
        BY <2>1 DEF LookupInv, Loaded
      <3>2. knewAtStart \subseteq known
        BY DEF LookupInv
      <3>3. policy.library => (Linked \ todo') \cap knewAtStart \subseteq found'
        BY <2>3, <3>1, <3>2
      <3> QED
        BY <1>0, <2>1, <2>3, <3>2, <3>3 DEF LookupInv, Early, Loaded
    <2> QED
      BY <1>4, <2>2, <2>3 DEF Lookup
  <1>5. CASE LookupsDone
    BY <1>0, <1>5 DEF LookupsDone, LookupInv, Early, Loaded, reading, Linked
  <1>6. CASE EvaluateRule
    BY <1>0, <1>6 DEF EvaluateRule, LookupInv, Early, Loaded, reading, Linked
  <1>7. CASE EvaluateEnds \/ WriteVerdict
    BY <1>0, <1>7 DEF EvaluateEnds, WriteVerdict, LookupInv, Early, Loaded, reading, Linked
  <1> QED
    BY <1>1, <1>2, <1>3, <1>4, <1>5, <1>6, <1>7, <1>8 DEF GateNext

LEMMA RulesKept ==
  ASSUME GateTypes, RuleInv, GateNext
  PROVE  RuleInv'
  <1>0. UNCHANGED policy
    BY GateKeepsSuite
  <1>1. CASE BeginGate
    BY <1>0, <1>1 DEF BeginGate, RuleInv, Early, Loaded
  <1>2. CASE LoadPolicy
    <2>1. gate = "policy" /\ UNCHANGED statuses
      BY <1>2 DEF LoadPolicy
    <2>2. statuses = <<>> /\ verdict = "none"
      BY <2>1 DEF RuleInv, Early
    <2>3. CASE ValidPolicy /\ gate' = "report" /\ UNCHANGED verdict
      <3>1. Len(policy.rules) >= 1
        <4>1. Len(policy.rules) \in 1..MaxRules
          BY <2>3 DEF ValidPolicy
        <4>2. MaxRules \in Nat
          BY GateAssumption
        <4> QED
          BY <4>1, <4>2
      <3>2. gate' = "report" /\ statuses' = <<>> /\ verdict' = "none"
        BY <2>1, <2>2, <2>3
      <3>3. Len(policy'.rules) >= 1
        BY <1>0, <3>1
      <3> QED
        BY <3>2, <3>3 DEF RuleInv, Early, Loaded
    <2>4. CASE gate' = "write" /\ verdict' = "INVALID"
      BY <2>4 DEF RuleInv, Early, Loaded
    <2> QED
      BY <1>2, <2>3, <2>4 DEF LoadPolicy, Abandon
  <1>3. CASE OpenSuiteReport \/ ReadPart \/ LoadSuiteReport \/ OpenLibrary
    BY <1>0, <1>3 DEF OpenSuiteReport, ReadPart, LoadSuiteReport, OpenLibrary, Abandon, RuleInv,
          Early, Loaded
  <1>4. CASE Lookup
    BY <1>0, <1>4 DEF Lookup, Abandon, RuleInv, Early, Loaded
  <1>5. CASE LookupsDone
    BY <1>0, <1>5 DEF LookupsDone, RuleInv, Early, Loaded, Status
  <1>6. CASE EvaluateRule
    <2> DEFINE k == Len(statuses) + 1
    <2>1. gate = "evaluate" /\ gate' = gate /\ UNCHANGED <<loaded, found>>
      BY <1>6 DEF EvaluateRule, reading
    <2>2. /\ DOMAIN statuses' = DOMAIN statuses \cup {k}
          /\ \A i \in DOMAIN statuses : statuses'[i] = statuses[i]
          /\ statuses'[k] = Status(policy.rules[k])
          /\ verdict' = IF Status(policy.rules[k]) # "OK" THEN "FAIL"
                        ELSE IF verdict = "none" THEN "PASS" ELSE verdict
      BY <1>6, RuleEvaluated
    <2>3. \A rule : Status(rule)' = Status(rule)
      BY <1>0, <2>1 DEF Status, Linked
    <2>4. verdict \in {"none", "PASS", "FAIL"} /\ (verdict = "none" => DOMAIN statuses = {})
      BY <2>1 DEF RuleInv
    <2>5. \A i \in DOMAIN statuses : statuses[i] = Status(policy.rules[i])
      BY <2>1, <2>4 DEF RuleInv, Loaded
    <2>6. \A i \in DOMAIN statuses' : statuses'[i] = Status(policy.rules[i])'
      <3>1. \A i \in DOMAIN statuses' : statuses'[i] = Status(policy.rules[i])
        BY <2>2, <2>5
      <3> QED
        BY <1>0, <2>1, <3>1 DEF Status, Linked
    <2>7. verdict' = "PASS" => \A i \in DOMAIN statuses' : statuses'[i] = "OK"
      <3> SUFFICES ASSUME verdict' = "PASS", NEW i \in DOMAIN statuses' PROVE statuses'[i] = "OK"
        OBVIOUS
      <3>1. CASE i = k
        BY <2>2, <3>1
      <3>2. CASE i \in DOMAIN statuses
        <4>1. verdict = "PASS"
          BY <2>2, <2>4, <3>2
        <4> QED
          BY <2>1, <2>2, <3>2, <4>1 DEF RuleInv, Loaded
      <3> QED
        BY <2>2, <3>1, <3>2
    <2>8. verdict' = "FAIL" => \E i \in DOMAIN statuses' : statuses'[i] # "OK"
      <3>1. CASE Status(policy.rules[k]) # "OK"
        BY <2>2, <3>1
      <3>2. CASE verdict = "FAIL"
        BY <2>1, <2>2, <3>2 DEF RuleInv, Loaded
      <3> QED
        BY <2>2, <3>1, <3>2
    <2>9. verdict' \in {"PASS", "FAIL"}
      BY <2>2, <2>4
    <2> QED
      BY <1>0, <2>1, <2>6, <2>7, <2>8, <2>9 DEF RuleInv, Early, Loaded
  <1>7. CASE EvaluateEnds
    <2>1. /\ gate = "evaluate" /\ gate' = "write" /\ Len(statuses) = Len(policy.rules)
          /\ UNCHANGED <<loaded, found, statuses, verdict>>
      BY <1>7 DEF EvaluateEnds, reading
    <2>2. statuses # <<>>
      BY <2>1, PolicyTypes DEF RuleInv
    <2>3. \A i \in DOMAIN statuses : Status(policy.rules[i])' = Status(policy.rules[i])
      BY <1>0, <2>1 DEF Status, Linked
    <2> QED
      BY <1>0, <2>1, <2>2, <2>3 DEF RuleInv, Early, Loaded
  <1>8. CASE WriteVerdict
    BY <1>0, <1>8 DEF WriteVerdict, RuleInv, Early, Loaded, Status, reading, Linked
  <1> QED
    BY <1>1, <1>2, <1>3, <1>4, <1>5, <1>6, <1>7, <1>8 DEF GateNext

LEMMA CodeKept ==
  ASSUME GateTypes, CodeInv, GateNext
  PROVE  CodeInv'
  <1>0. UNCHANGED policy
    BY GateKeepsSuite
  <1>1. CASE WriteVerdict
    BY <1>0, <1>1, PolicyTypes DEF WriteVerdict, CodeInv, CodeOf, NoCode
  <1>2. CASE ~WriteVerdict
    <2>1. gate # "exited" /\ gate' # "exited" /\ code' = code
      BY <1>2 DEF GateNext, BeginGate, LoadPolicy, OpenSuiteReport, ReadPart,
            LoadSuiteReport, OpenLibrary, Lookup, LookupsDone, EvaluateRule, EvaluateEnds, Abandon
    <2> QED
      BY <2>1 DEF CodeInv, NoCode
  <1> QED
    BY <1>1, <1>2

-----------------------------------------------------------------------------
(* The theorems                                                            *)

LEMMA IInvAtFirst ==
  ASSUME Init
  PROVE  IInv
  <1>1. TypeOK
    <2>1. SuiteTypes
      BY GateAssumption DEF Init, SuiteTypes
    <2>2. /\ known \subseteq Fingerprints /\ policy \in Policies
          /\ loaded.links = <<>> /\ todo = {} /\ found = {} /\ statuses = <<>>
      BY DEF Init, GateInit, NotLoaded
    <2>3. statuses \in Seq({"OK", "FAIL", "SKIP"}) /\ Len(statuses) = 0
      BY <2>2, EmptySeq
    <2>4. Len(policy.rules) \in Nat
      BY <2>2, GateAssumption, LenProperties
    <2>5. GateTypes
      <3>1. loaded \in [result : Results, links : Seq(Fingerprints \cup {NoLink, Malformed})]
        BY EmptySeq DEF Init, GateInit, NotLoaded, Results
      <3>2. offset \in 0..N + 1 /\ readFrom \in 0..author /\ mixed \in BOOLEAN
        <4>1. offset = 0 /\ readFrom = 0 /\ author = 0 /\ mixed = FALSE
          BY DEF Init, GateInit
        <4>2. N \in Nat
          BY GateAssumption
        <4>3. mixed \in BOOLEAN
          BY <4>1
        <4> QED
          BY <4>1, <4>2, <4>3
      <3>3. gate \in Places /\ verdict = "none" /\ verdictFile = "stale" /\ code = NoCode
        BY DEF Init, GateInit, Places
      <3> QED
        BY <2>2, <2>3, <2>4, <3>1, <3>2, <3>3 DEF GateTypes, Results
    <2> QED
      BY <2>1, <2>5, TypesSplit
  <1>2. ReportInv
    BY DEF Init, ReportInv, NoDetails, Suite!Absent
  <1>3. ScriptInv
    BY DEF Init, GateInit, ScriptInv, GateRests, Loaded
  <1>6. ReadInv
    BY DEF Init, GateInit, ReadInv, Loaded
  <1>4. LookupInv /\ RuleInv
    BY DEF Init, GateInit, LookupInv, RuleInv, Early, Loaded
  <1>5. CodeInv
    BY DEF Init, GateInit, CodeInv, NoCode
  <1> QED
    BY <1>1, <1>2, <1>3, <1>4, <1>5, <1>6 DEF IInv

LEMMA IInvKept ==
  ASSUME IInv, [Next \/ Terminated]_vars
  PROVE  IInv'
  <1>0. SuiteTypes /\ GateTypes
    BY TypesSplit DEF IInv
  <1>1. CASE SuiteSide
    <2>1. UNCHANGED <<known, gateVars, scripted>>
      BY <1>1, SuiteKeepsGate
    <2>2. SuiteTypes' /\ ReportInv' /\ ScriptInv' /\ ReadInv' /\ author' >= author
      BY <1>0, <1>1, SuiteTypesKept, ReportKept, ScriptKeptBySuite, ReadKeptBySuite DEF IInv
    <2>3. GateTypes'
      <3>1. readFrom' \in 0..author'
        BY <1>0, <2>1, <2>2, GateAssumption DEF GateTypes, SuiteTypes, gateVars, reading
      <3> QED
        BY <1>0, <2>1, <3>1 DEF GateTypes, gateVars, reading, Linked
    <2>4. LookupInv' /\ RuleInv' /\ CodeInv'
      BY <2>1 DEF IInv, LookupInv, RuleInv, CodeInv, Status, Loaded, gateVars, reading, Linked
    <2>5. TypeOK'
      BY <2>2, <2>3 DEF TypeOK, SuiteTypes, GateTypes
    <2> QED
      BY <2>2, <2>4, <2>5 DEF IInv
  <1>2. ASSUME NEW f \in Fingerprints, AddOccurrence(f) PROVE IInv'
    <2>1. known' = known \cup {f} /\ UNCHANGED <<scripted, cycle, suiteVars, gateVars>>
      BY <1>2, AddKeepsOthers
    <2>2. SuiteTypes'
      BY <1>0, <2>1 DEF SuiteTypes, suiteVars, Suite!IsAccount
    <2>3. GateTypes'
      BY <1>0, <2>1 DEF GateTypes, gateVars, reading, suiteVars, Linked
    <2>4. ReportInv' /\ ScriptInv' /\ ReadInv'
      BY <2>1 DEF IInv, ReportInv, ScriptInv, ReadInv, Loaded, GateRests, suiteVars, gateVars, reading
    <2>5. LookupInv' /\ RuleInv' /\ CodeInv'
      BY <2>1 DEF IInv, LookupInv, RuleInv, CodeInv, Status, Loaded, gateVars, reading, Linked
    <2>6. TypeOK'
      BY <2>2, <2>3 DEF TypeOK, SuiteTypes, GateTypes
    <2> QED
      BY <2>4, <2>5, <2>6 DEF IInv
  <1>3. CASE GateNext
    <2>1. UNCHANGED <<scripted, cycle, known, suiteVars, policy>>
      BY <1>3, GateKeepsSuite
    <2>2. SuiteTypes' /\ ReportInv'
      BY <1>0, <2>1 DEF IInv, SuiteTypes, ReportInv, suiteVars, Suite!IsAccount
    <2>3. GateTypes' /\ ScriptInv' /\ ReadInv' /\ LookupInv' /\ RuleInv' /\ CodeInv'
      BY <1>0, <1>3, GateTypesKept, ScriptKeptByGate, ReadKeptByGate, LookupKept, RulesKept, CodeKept
      DEF IInv
    <2>4. TypeOK'
      BY <2>2, <2>3 DEF TypeOK, SuiteTypes, GateTypes
    <2> QED
      BY <2>2, <2>3, <2>4 DEF IInv
  <1>4. CASE UNCHANGED vars
    <2>1. SuiteTypes' /\ ReportInv' /\ ScriptInv' /\ ReadInv'
      BY <1>0, <1>4 DEF IInv, SuiteTypes, ReportInv, ScriptInv, ReadInv, Loaded, GateRests, vars,
            suiteVars, gateVars, reading, Suite!IsAccount
    <2>2. GateTypes'
      BY <1>0, <1>4 DEF GateTypes, vars, gateVars, suiteVars, reading, Linked
    <2>3. LookupInv' /\ RuleInv' /\ CodeInv'
      BY <1>4 DEF IInv, LookupInv, RuleInv, CodeInv, Status, Loaded, vars, gateVars, reading, Linked
    <2>4. TypeOK'
      BY <2>1, <2>2 DEF TypeOK, SuiteTypes, GateTypes
    <2> QED
      BY <2>1, <2>3, <2>4 DEF IInv
  <1> QED
    BY <1>1, <1>2, <1>3, <1>4, NextSplit DEF Terminated

\* The inductive invariant of the gate and the pipelines around it.
THEOREM GateInvariant == Spec => []IInv
  BY IInvAtFirst, IInvKept, PTL DEF Spec

\* Every variable keeps its type; a report is an account of a suite run.
THEOREM GateTypeCorrect == Spec => []TypeOK
  <1>1. IInv => TypeOK
    BY DEF IInv
  <1> QED
    BY <1>1, GateInvariant, PTL

\* A judgement, from the exit code back to the rules.
LEMMA CodeIsJudgement ==
  ASSUME IInv, code \in {0, 2}
  PROVE  /\ Loaded /\ todo = {}
         /\ DOMAIN statuses = DOMAIN policy.rules
         /\ \A i \in DOMAIN policy.rules : statuses[i] = Status(policy.rules[i])
         /\ code = 0 => \A i \in DOMAIN policy.rules : statuses[i] = "OK"
         /\ code = 2 => \E i \in DOMAIN policy.rules : statuses[i] # "OK"
  <1>1. gate = "exited" /\ verdict \in {"PASS", "FAIL"}
    BY DEF IInv, CodeInv, NoCode
  <1>2. Loaded /\ todo = {} /\ Len(statuses) = Len(policy.rules)
    BY <1>1 DEF IInv, Loaded, LookupInv, RuleInv
  <1>3. DOMAIN statuses = DOMAIN policy.rules
    BY <1>2, TypesSplit, PolicyTypes DEF IInv
  <1> QED
    BY <1>1, <1>2, <1>3 DEF IInv, RuleInv, CodeInv

\* Exit code 0: every declared rule holds of the report that was read, of the
\* library as it is, and --report says so (Evaluate, cmd_policy).
THEOREM PassSatisfiesRules == Spec => []PassMeansEveryRule
  <1>1. ASSUME IInv, code = 0
        PROVE  /\ \A i \in DOMAIN policy.rules :
                    LET rule == policy.rules[i] IN
                    IF rule.type = "result" THEN loaded.result = rule.value
                    ELSE policy.library /\ Linked \subseteq known
               /\ policy.report => verdictFile = "PASS"
    <2>1. found \subseteq known
      BY <1>1 DEF IInv, TypeOK
    <2>2. \A i \in DOMAIN policy.rules : Status(policy.rules[i]) = "OK"
      BY <1>1, CodeIsJudgement
    <2>3. ASSUME NEW i \in DOMAIN policy.rules
          PROVE  IF policy.rules[i].type = "result" THEN loaded.result = policy.rules[i].value
                 ELSE policy.library /\ Linked \subseteq known
      BY <2>1, <2>2 DEF Status
    <2> QED
      BY <1>1, <2>3 DEF IInv, CodeInv
  <1> QED
    BY <1>1, GateInvariant, PTL DEF PassMeansEveryRule

\* Exit code 2: a rule fails, and not for an incident the library had when
\* the gate began (LookupLibraryEvidence reads the library once per link).
THEOREM FailNamesARule == Spec => []FailIsEarned
  <1>1. ASSUME IInv, code = 2
        PROVE  \E i \in DOMAIN policy.rules :
                  LET rule == policy.rules[i] IN
                  IF rule.type = "result" THEN loaded.result # rule.value
                  ELSE ~policy.library \/ ~(Linked \subseteq knewAtStart)
    <2>1. PICK i \in DOMAIN policy.rules : Status(policy.rules[i]) # "OK"
      BY <1>1, CodeIsJudgement
    <2>2. policy.library => Linked \cap knewAtStart \subseteq found
      BY <1>1, CodeIsJudgement DEF IInv, LookupInv
    <2>3. found \subseteq Linked
      BY <1>1 DEF IInv, TypeOK
    <2>4. CASE policy.rules[i].type = "result"
      BY <2>1, <2>4 DEF Status
    <2>5. CASE policy.rules[i].type # "result"
      <3>1. policy.library => found # Linked
        BY <2>1, <2>5 DEF Status
      <3> QED
        BY <2>2, <2>3, <2>5, <3>1
    <2> QED
      BY <2>4, <2>5
  <1> QED
    BY <1>1, GateInvariant, PTL DEF FailIsEarned

\* Under the strict policy every listed scenario has a link in the report, and
\* the library knows it, unless the report was rewritten between two reads.
THEOREM StrictPassCovers == Spec => []StrictPassCoversSuite
  <1>1. ASSUME IInv, code = 0, ~mixed,
               {RequireResult("PASS"), RequireOccurrence} \subseteq ToSet(policy.rules)
        PROVE  loaded.links \in [1..N -> known]
    <2>1. found \subseteq known
      BY <1>1 DEF IInv, TypeOK
    <2>2. \A i \in DOMAIN policy.rules : Status(policy.rules[i]) = "OK"
      BY <1>1, CodeIsJudgement
    <2>3. PICK i \in DOMAIN policy.rules : policy.rules[i] = RequireResult("PASS")
      BY <1>1 DEF ToSet
    <2>4. PICK j \in DOMAIN policy.rules : policy.rules[j] = RequireOccurrence
      BY <1>1 DEF ToSet
    <2>5. loaded.result = "PASS"
      BY <2>2, <2>3 DEF Status, RequireResult
    <2>6. loaded.links \in [1..N -> Fingerprints]
      BY <1>1, <2>5, CodeIsJudgement DEF IInv, ReadInv
    <2>7. Status(RequireOccurrence) = "OK"
      BY <2>2, <2>4
    <2>8. RequireOccurrence.type # "result"
      BY DEF RequireOccurrence
    <2>9. found = Linked
      BY <2>7, <2>8 DEF Status
    <2>10. \A n \in 1..N : loaded.links[n] \in Linked
      <3> SUFFICES ASSUME NEW n \in 1..N PROVE loaded.links[n] \in Linked
        OBVIOUS
      <3>1. loaded.links[n] \in Fingerprints /\ n \in DOMAIN loaded.links
        BY <2>6
      <3>2. loaded.links[n] # NoLink
        BY <3>1, GateAssumption
      <3> QED
        BY <3>1, <3>2 DEF Linked, LinksOf, ToSet
    <2> QED
      BY <2>1, <2>6, <2>9, <2>10
  <1>2. IInv => StrictPassCoversSuite
    BY <1>1 DEF StrictPassCoversSuite, StrictPass
  <1> QED
    BY <1>2, GateInvariant, PTL

\* The script judges the report of its own suite run, and one report only.
THEOREM ScriptIsFresh == Spec => []ScriptedIsFresh
  <1>1. IInv => ScriptedIsFresh
    BY CodeIsJudgement DEF IInv, ScriptInv, ScriptedIsFresh
  <1> QED
    BY <1>1, GateInvariant, PTL
=============================================================================
