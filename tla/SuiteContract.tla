--------------------------- MODULE SuiteContract ---------------------------
(***************************************************************************)
(* What one `suite run` promises whoever reads its exit code and --report: *)
(* the file is replaced at once by a torn one and then by an account of    *)
(* this run; PASS accounts for every listed scenario; exit codes 0 and 2   *)
(* are given only when the account, if one was asked for, is complete.     *)
(***************************************************************************)
EXTENDS Integers, Sequences

CONSTANT Listed     \* how many scenarios the manifest lists

VARIABLES
    wanted,     \* --report was given
    report,     \* what it names
    code        \* the exit code

vars == <<wanted, report, code>>

NoCode == -1

EntryOutcomes == {"PASS", "FAIL", "TIMEOUT", "INVALID", "INTERNAL_ERROR", "SKIPPED"}
Refusals == {"INVALID", "INTERNAL_ERROR"}

Absent == [kind |-> "absent", result |-> "none", entries |-> <<>>]
Torn == [kind |-> "torn", result |-> "none", entries |-> <<>>]
Account(result, entries) == [kind |-> "report", result |-> result, entries |-> entries]

\* Mutant: a skipped scenario does not count.
BugAllPassed(entries) == \A i \in DOMAIN entries : entries[i] \in {"PASS", "SKIPPED"}

AllPassed(entries) == \A i \in DOMAIN entries : entries[i] = "PASS"

\* PASS exactly if every entry is; a refused suite has no entries.
IsAccount(r) ==
    /\ r = Account(r.result, r.entries)
    /\ \/ r.result \in Refusals /\ r.entries = <<>>
       \/ /\ r.entries \in [1..Listed -> EntryOutcomes]
          /\ r.result = IF AllPassed(r.entries) THEN "PASS" ELSE "FAIL"

CodeOf(result) ==
    CASE result = "PASS" -> 0
      [] result = "FAIL" -> 2
      [] OTHER -> 1

Init == code = NoCode

Open ==
    /\ wanted /\ code = NoCode
    /\ report' = Torn
    /\ wanted' = wanted /\ code' = code

Complete ==
    /\ wanted /\ code = NoCode /\ report = Torn
    /\ IsAccount(report')
    /\ code' = CodeOf(report'.result)
    /\ wanted' = wanted

Fail ==
    /\ code = NoCode /\ code' = 1
    /\ wanted' = wanted /\ report' = report

Quiet ==
    /\ ~wanted /\ code = NoCode
    /\ code' \in {0, 1, 2}
    /\ wanted' = wanted /\ report' = report

Next == Open \/ Complete \/ Fail \/ Quiet

Spec == Init /\ [][Next]_vars

=============================================================================
