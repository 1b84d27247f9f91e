------------------------------ MODULE Verdict -------------------------------
(***************************************************************************)
(* What the findings of one asset come to: the verdict under the profile's *)
(* policy (crates/tpt-app-media-qc-pipeline/src/verdict.rs), the status of *)
(* each rule (lib.rs of the same crate), and the exit code of the command  *)
(* line (crates/tpt-app-media-qc-cli/src/exit.rs).  No state.              *)
(***************************************************************************)
EXTENDS Integers, Sequences

Status   == {"pass", "warn", "fail", "inconclusive"}
Severity == {"info", "warning", "error", "critical"}

\* The derived order of Severity.
Grade(s) ==
  CASE s = "info" -> 0 [] s = "warning" -> 1 [] s = "error" -> 2 [] s = "critical" -> 3

\* A finding, with the index of the rule that made it.
Finding(Rules) == [rule : Rules, status : Status, severity : Severity]

Elements(F) == {F[k] : k \in DOMAIN F}

Reaches(f, failOn) == Grade(f.severity) >= Grade(failOn)

\* Variant of Resolve: findings that say nothing certain are passed over.
ResolveCertain(failOn, F) ==
  CASE \E f \in Elements(F) : f.status = "fail" /\ Reaches(f, failOn) -> "fail"
    [] \A f \in Elements(F) : f.status # "fail"                       -> "pass"
    [] OTHER                                                          -> "warn"

\* In whatever order the findings come.
Decide(failOn, found) ==
  CASE \E f \in found : f.status = "fail" /\ Reaches(f, failOn) -> "fail"
    [] \A f \in found :
         /\ f.status # "fail"
         /\ f.status = "inconclusive" => ~Reaches(f, failOn)    -> "pass"
    [] OTHER                                                    -> "warn"

Resolve(failOn, F) == Decide(failOn, Elements(F))

\* Variant of StatusRank: the derived order of VerdictDecision.
StatusRankDerived(s) ==
  CASE s = "pass" -> 0 [] s = "warn" -> 1 [] s = "fail" -> 2 [] s = "inconclusive" -> 3

StatusRank(s) ==
  CASE s = "pass" -> 0 [] s = "warn" -> 1 [] s = "inconclusive" -> 2 [] s = "fail" -> 3

\* The worst status among the findings of rule r: "pass" if it made none.
Best(F, r) ==
  LET found == {f.status : f \in {g \in Elements(F) : g.rule = r}} \cup {"pass"}
  IN  CHOOSE s \in found : \A t \in found : StatusRank(t) <= StatusRank(s)

EXIT_OK    == 0
EXIT_WARN  == 1
EXIT_FAIL  == 2
EXIT_ERROR == 3
EXIT_PATH  == 4

ExitCodeForVerdict(v) ==
  CASE v = "pass" -> EXIT_OK [] v = "fail" -> EXIT_FAIL [] OTHER -> EXIT_WARN
=============================================================================
