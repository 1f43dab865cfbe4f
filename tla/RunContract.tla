---------------------------- MODULE RunContract ----------------------------
(***************************************************************************)
(* What `scenario run` promises whoever reads its outcome: a command is    *)
(* started at most once; INVALID means that nothing was executed; PASS,    *)
(* FAIL and TIMEOUT are said of a command that was started; the outcome is *)
(* settled once, and exit code 0 is given only for a PASS that the report, *)
(* where one was asked for, tells.                                         *)
(***************************************************************************)
EXTENDS Integers

VARIABLES
    started,    \* the command was started
    outcome,
    told,       \* no report was asked for, or it tells the outcome
    code        \* exit code

vars == <<started, outcome, told, code>>

NoCode == -1

\* The outcomes the documentation allows for a run that did, or did not,
\* start its command.
Allowed(ran) ==
    IF ran THEN {"PASS", "FAIL", "TIMEOUT", "INTERNAL_ERROR"}
    ELSE {"INVALID", "INTERNAL_ERROR"}

\* What the exit code of a run that told its outcome may be.  A report may
\* fail late, when it is complete.
CodesFor(verdict) ==
    CASE verdict = "PASS" -> {0, 1}
      [] verdict \in {"FAIL", "TIMEOUT"} -> {2, 1}
      [] OTHER -> {1}

Init == started = FALSE /\ outcome = "none" /\ told \in BOOLEAN /\ code = NoCode

Start ==
    /\ ~started /\ outcome = "none"
    /\ started' = TRUE
    /\ UNCHANGED <<outcome, told, code>>

Settle ==
    /\ outcome = "none"
    /\ outcome' \in Allowed(started)
    /\ UNCHANGED <<started, told, code>>

ExitWith ==
    /\ outcome # "none" /\ code = NoCode
    /\ told' \in {told, TRUE}
    /\ code' \in IF told' THEN CodesFor(outcome) ELSE {1}
    /\ UNCHANGED <<started, outcome>>

Next == Start \/ Settle \/ ExitWith

Spec == Init /\ [][Next]_vars

=============================================================================
