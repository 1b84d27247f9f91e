------------------------------- MODULE Batch --------------------------------
(***************************************************************************)
(* The batch command (run_batch of                                         *)
(* crates/tpt-app-media-qc-cli/src/app.rs) with the engine it calls for    *)
(* each asset (check, run_rules and aggregate of the pipeline crate): the  *)
(* assets one after the other, and for each the rules one after the other. *)
(* Files may change or vanish between the scan of the folders and their    *)
(* turn, and an inspector or a rule may fail or panic.                     *)
(***************************************************************************)
EXTENDS Verdict

CONSTANTS
  NumAssets,     \* paths collect_assets found
  NumRules,      \* rules of the engine
  Stem,          \* the file stem of each path
  FailOn,        \* profile.policy.fail_on
  RuleAnswers    \* bound: the findings a rule may come back with

Asset == 1 .. NumAssets
Rule  == 1 .. NumRules
Name  == {Stem[a] : a \in Asset}

ASSUME SizeAssumption    == NumAssets \in Nat \ {0} /\ NumRules \in Nat
ASSUME StemAssumption    == DOMAIN Stem = Asset
ASSUME FailOnAssumption  == FailOn \in Severity
ASSUME AnswersAssumption == RuleAnswers \subseteq Seq([status : Status, severity : Severity])

\* What became of an asset: its verdict, or why it has none.
Outcome == Status \cup {"untried", "rejected", "inspection_error", "inspector_panic"}

VARIABLES
  failFast,   \* --fail-fast
  output,     \* --output
  pc,         \* the step of the loop
  cur,        \* the asset it is at
  rule,       \* the rule it is at
  findings,   \* the findings of this asset
  panicked,   \* history: a rule panicked on this asset
  outcome,    \* what became of each asset
  exit,       \* the exit code so far
  reports,    \* the asset each report file is about (0: no such file)
  code        \* what the process ended with (-1: it has not)

vars == <<failFast, output, pc, cur, rule, findings, panicked, outcome, exit, reports, code>>

options == <<failFast, output>>

TypeOK ==
  /\ failFast \in BOOLEAN /\ output \in BOOLEAN
  /\ pc \in {"build", "inspect", "rules", "report", "next", "ended"}
  /\ cur \in 1 .. NumAssets + 1
  /\ rule \in 1 .. NumRules + 1
  /\ findings \in Seq(Finding(Rule))
  /\ panicked \in BOOLEAN
  /\ outcome \in [Asset -> Outcome]
  /\ exit \in EXIT_OK .. EXIT_ERROR
  /\ reports \in [Name -> 0 .. NumAssets]
  /\ code \in -1 .. EXIT_PATH \cup {101}

Init ==
  /\ failFast \in BOOLEAN /\ output \in BOOLEAN
  /\ pc = "build" /\ cur = 1 /\ rule = 1
  /\ findings = <<>> /\ panicked = FALSE
  /\ outcome = [a \in Asset |-> "untried"]
  /\ exit = ExitCodeForVerdict("pass")
  /\ reports = [n \in Name |-> 0]
  /\ code = -1

Return(c) == pc' = "ended" /\ code' = c

-----------------------------------------------------------------------------
(* build_asset: the path is canonicalised, the file is read and hashed.    *)

BuildAsset ==
  /\ pc = "build"
  /\ pc' = "inspect"
  /\ UNCHANGED <<options, cur, rule, findings, panicked, outcome, exit, reports, code>>

\* The path is gone or no longer a file (EXIT_PATH), or it cannot be read
\* (EXIT_ERROR): run_batch returns.
RejectAsset ==
  /\ pc = "build"
  /\ outcome' = [outcome EXCEPT ![cur] = "rejected"]
  /\ \E c \in {EXIT_PATH, EXIT_ERROR} : Return(c)
  /\ UNCHANGED <<options, cur, rule, findings, panicked, exit, reports>>

-----------------------------------------------------------------------------
(* engine.check: inspection, rules, verdict.                               *)

Inspect ==
  /\ pc = "inspect"
  /\ pc' = "rules"
  /\ rule' = 1 /\ findings' = <<>> /\ panicked' = FALSE
  /\ UNCHANGED <<options, cur, outcome, exit, reports, code>>

\* Variant of InspectError: the batch gives up.
InspectErrorReturns ==
  /\ pc = "inspect"
  /\ outcome' = [outcome EXCEPT ![cur] = "inspection_error"]
  /\ Return(exit)
  /\ UNCHANGED <<options, cur, rule, findings, panicked, exit, reports>>

\* An error of the inspector is printed; the batch goes on.
InspectError ==
  /\ pc = "inspect"
  /\ outcome' = [outcome EXCEPT ![cur] = "inspection_error"]
  /\ exit' = EXIT_ERROR
  /\ pc' = "next"
  /\ UNCHANGED <<options, cur, rule, findings, panicked, reports, code>>

\* Only rules run under catch_unwind: a panic here ends the process.
InspectPanics ==
  /\ pc = "inspect"
  /\ outcome' = [outcome EXCEPT ![cur] = "inspector_panic"]
  /\ Return(101)
  /\ UNCHANGED <<options, cur, rule, findings, panicked, exit, reports>>

RunRule ==
  /\ pc = "rules" /\ rule <= NumRules
  /\ \E answer \in RuleAnswers :
       findings' = findings \o
         [k \in DOMAIN answer |->
            [rule |-> rule, status |-> answer[k].status, severity |-> answer[k].severity]]
  /\ rule' = rule + 1
  /\ UNCHANGED <<options, pc, cur, panicked, outcome, exit, reports, code>>

\* QcRule::execute turns a panic into one finding.
RulePanics ==
  /\ pc = "rules" /\ rule <= NumRules
  /\ findings' = Append(findings, [rule |-> rule, status |-> "inconclusive", severity |-> "error"])
  /\ panicked' = TRUE
  /\ rule' = rule + 1
  /\ UNCHANGED <<options, pc, cur, outcome, exit, reports, code>>

Larger(a, b) == IF a >= b THEN a ELSE b

\* Variant of CheckReturns: the code of the last asset.
CheckReturnsLast ==
  /\ pc = "rules" /\ rule = NumRules + 1
  /\ LET verdict == Resolve(FailOn, findings) IN
       /\ outcome' = [outcome EXCEPT ![cur] = verdict]
       /\ exit' = ExitCodeForVerdict(verdict)
  /\ pc' = "report"
  /\ UNCHANGED <<options, cur, rule, findings, panicked, reports, code>>

CheckReturns ==
  /\ pc = "rules" /\ rule = NumRules + 1
  /\ LET verdict == Resolve(FailOn, findings) IN
       /\ outcome' = [outcome EXCEPT ![cur] = verdict]
       /\ exit' = Larger(exit, ExitCodeForVerdict(verdict))
  /\ pc' = "report"
  /\ UNCHANGED <<options, cur, rule, findings, panicked, reports, code>>

-----------------------------------------------------------------------------
(* After the check.                                                        *)

\* With --fail-fast a failed asset ends the batch, whatever exit holds.
AfterReport ==
  IF failFast /\ outcome[cur] = "fail"
  THEN Return(EXIT_FAIL)
  ELSE pc' = "next" /\ UNCHANGED code

\* Variant of AfterReport: the code so far decides.
AfterReportByCode ==
  IF failFast /\ exit = EXIT_FAIL
  THEN Return(EXIT_FAIL)
  ELSE pc' = "next" /\ UNCHANGED code

\* The report replaces, whole, whatever file has its name; that it cannot be
\* written is not even printed by run_batch.
WriteReport ==
  /\ pc = "report"
  /\ reports' \in {reports} \cup
       (IF output THEN {[reports EXCEPT ![Stem[cur]] = cur]} ELSE {})
  /\ AfterReport
  /\ UNCHANGED <<options, cur, rule, findings, panicked, outcome, exit>>

NextAsset ==
  /\ pc = "next" /\ cur < NumAssets
  /\ cur' = cur + 1 /\ pc' = "build"
  /\ UNCHANGED <<options, rule, findings, panicked, outcome, exit, reports, code>>

LastAsset ==
  /\ pc = "next" /\ cur = NumAssets
  /\ Return(exit)
  /\ UNCHANGED <<options, cur, rule, findings, panicked, outcome, exit, reports>>

Terminating == pc = "ended" /\ UNCHANGED vars

Next ==
  \/ BuildAsset \/ RejectAsset
  \/ Inspect \/ InspectError \/ InspectPanics
  \/ RunRule \/ RulePanics \/ CheckReturns
  \/ WriteReport \/ NextAsset \/ LastAsset
  \/ Terminating

Spec == Init /\ [][Next]_vars

-----------------------------------------------------------------------------
(* Properties.                                                             *)

\* The exit code hides nothing: OK only if every asset passed, WARN only if no
\* asset was worse than a warning, FAIL only if one failed and, without
\* --fail-fast, none could not be inspected, ERROR only if one could not.
ExitCodeIsHonest ==
  LET some == {outcome[a] : a \in Asset} IN
  /\ code = EXIT_OK    => some = {"pass"}
  /\ code = EXIT_WARN  => "warn" \in some /\ some \subseteq {"pass", "warn"}
  /\ code = EXIT_FAIL  => "fail" \in some /\ (failFast \/ "inspection_error" \notin some)
  /\ code = EXIT_ERROR => some \cap {"inspection_error", "rejected"} # {}

\* An asset on which a rule panicked does not pass, whatever the other rules
\* found, under every policy but one that only fails on critical findings.
PanicNeverPasses ==
  Grade(FailOn) <= Grade("error") /\ pc = "report" /\ panicked => outcome[cur] # "pass"

\* The verdict and the statuses of the rules, computed from the same findings
\* by different orders of badness, agree: a failed asset has a failed rule, one
\* with a warning has a rule that failed or could not tell, and no rule of an
\* asset that passed failed.
VerdictIsExplained ==
  pc = "report" =>
    LET best == {Best(findings, r) : r \in Rule} IN
    CASE outcome[cur] = "fail" -> "fail" \in best
      [] outcome[cur] = "warn" -> best \cap {"fail", "inconclusive"} # {}
      [] outcome[cur] = "pass" -> "fail" \notin best

\* The batch leaves assets untried only behind one that was rejected or whose
\* inspector panicked, or with --fail-fast behind one that failed; and then it does.
StopsOnlyWhenItMust ==
  LET stopper(a) == \/ outcome[a] \in {"rejected", "inspector_panic"}
                    \/ failFast /\ outcome[a] = "fail"
  IN  /\ \A a \in Asset : stopper(a) => \A b \in a + 1 .. NumAssets : outcome[b] = "untried"
      /\ code # -1 /\ (\A a \in Asset : ~stopper(a)) => \A a \in Asset : outcome[a] # "untried"

\* docs/architecture.md, section 10: a corrupt asset must never terminate a
\* batch, which continues past per-asset errors.  The code does not: build_asset's
\* errors return, and an inspector's panic is not caught.
BatchContinues ==
  ~failFast /\ code # -1 => \A a \in Asset : outcome[a] # "untried"
=============================================================================
