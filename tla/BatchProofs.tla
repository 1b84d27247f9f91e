---------------------------- MODULE BatchProofs -----------------------------
(***************************************************************************)
(* Theorems about Batch and the verdicts it takes from Verdict, for any    *)
(* number of assets, rules and findings and for any policy.  The inductive *)
(* invariant says what became of the assets before and behind the current  *)
(* one (Walked), what the exit code so far tells of them (Tracks), how the *)
(* process ended (Ended), and what the findings of the current asset hold  *)
(* (Found).                                                                *)
(***************************************************************************)
EXTENDS Batch, TLAPS

Settled == {"pass", "warn", "fail", "inspection_error"}

\* The batch stops at an asset that failed.
Stops(a) == failFast /\ outcome[a] = "fail"

\* The assets behind the current one are untried, those before it are settled and
\* did not stop the batch.
Walked ==
  /\ cur \in Asset
  /\ \A a \in Asset : a > cur => outcome[a] = "untried"
  /\ \A a \in Asset : a < cur => outcome[a] \in Settled /\ ~ Stops(a)
  /\ pc \in {"build", "inspect", "rules"} => outcome[cur] = "untried"
  /\ pc = "report" => outcome[cur] \in {"pass", "warn", "fail"}
  /\ pc = "next" => outcome[cur] \in Settled /\ ~ Stops(cur)

\* What an asset contributes to the exit code.
CodeOf(o) ==
  IF o = "inspection_error" THEN EXIT_ERROR
  ELSE IF o = "fail" THEN EXIT_FAIL
  ELSE IF o = "warn" THEN EXIT_WARN
  ELSE EXIT_OK

\* The exit code so far is the worst of the assets that are settled.
Tracks ==
  /\ \A a \in Asset : CodeOf(outcome[a]) <= exit
  /\ exit # EXIT_OK => \E a \in Asset : CodeOf(outcome[a]) = exit

\* The process ends behind the last asset, or at one that stops it.
Ended ==
  /\ code = -1 <=> pc # "ended"
  /\ pc = "ended" =>
       \/ code = exit /\ cur = NumAssets /\ outcome[cur] \in Settled /\ ~ Stops(cur)
       \/ code = EXIT_FAIL /\ Stops(cur)
       \/ code \in {EXIT_PATH, EXIT_ERROR} /\ outcome[cur] = "rejected"
       \/ code = 101 /\ outcome[cur] = "inspector_panic"

\* A panic has left a finding; the verdict is that of the findings.
Found ==
  /\ pc \in {"rules", "report"} /\ panicked =>
       \E f \in Elements(findings) : f.status = "inconclusive" /\ f.severity = "error"
  /\ pc = "report" => outcome[cur] = Resolve(FailOn, findings)

IInv == TypeOK /\ Walked /\ Tracks /\ Ended /\ Found

-----------------------------------------------------------------------------
(* The verdict and the status of a rule.                                   *)

\* The three cases of the policy.
LEMMA ResolveCases ==
  ASSUME NEW failOn, NEW F
  PROVE  LET bad(f) == f.status = "fail" /\ Reaches(f, failOn)
             silent(f) == f.status # "fail" /\ (f.status = "inconclusive" => ~Reaches(f, failOn))
         IN  \/ /\ Resolve(failOn, F) = "fail"
                /\ \E f \in Elements(F) : bad(f)
             \/ /\ Resolve(failOn, F) = "pass"
                /\ \A f \in Elements(F) : silent(f)
             \/ /\ Resolve(failOn, F) = "warn"
                /\ ~ \A f \in Elements(F) : silent(f)
BY DEF Resolve, Decide

\* A sequence is a function on its indices.
LEMMA SequenceTypes ==
  ASSUME NEW T, NEW F \in Seq(T)
  PROVE  Len(F) \in Nat /\ DOMAIN F = 1 .. Len(F) /\ \A k \in DOMAIN F : F[k] \in T
OBVIOUS

\* The elements of a sequence have its type.
LEMMA ElementsOfSeq ==
  ASSUME NEW T, NEW F \in Seq(T)
  PROVE  \A f \in Elements(F) : f \in T
BY DEF Elements

\* So their statuses are statuses.
LEMMA StatusOfFinding ==
  ASSUME NEW F \in Seq(Finding(Rule))
  PROVE  "pass" \in Status /\ \A f \in Elements(F) : f.rule \in Rule /\ f.status \in Status
<1>1. ASSUME NEW f \in Elements(F) PROVE f \in Finding(Rule)
  BY ElementsOfSeq
<1>2. ASSUME NEW f \in Finding(Rule) PROVE f.rule \in Rule /\ f.status \in Status
  BY DEF Finding
<1> QED
  BY <1>1, <1>2 DEF Status

\* The status of a rule is found among its findings, or "pass", and none is worse.
LEMMA BestIsWorst ==
  ASSUME NEW F \in Seq(Finding(Rule)), NEW r \in Rule
  PROVE  LET found == {f.status : f \in {g \in Elements(F) : g.rule = r}} \cup {"pass"}
         IN  /\ Best(F, r) \in found
             /\ \A t \in found : StatusRank(t) <= StatusRank(Best(F, r))
<1> DEFINE found == {f.status : f \in {g \in Elements(F) : g.rule = r}} \cup {"pass"}
<1>1. found \subseteq Status
  BY StatusOfFinding
<1>2. \E s \in found : \A t \in found : StatusRank(t) <= StatusRank(s)
  <2> HIDE DEF found
  <2> USE DEF StatusRank, Status
  <2>1. CASE "fail" \in found
    BY <1>1, <2>1
  <2>2. CASE "fail" \notin found /\ "inconclusive" \in found
    BY <1>1, <2>2
  <2>3. CASE "fail" \notin found /\ "inconclusive" \notin found /\ "warn" \in found
    BY <1>1, <2>3
  <2>4. CASE "fail" \notin found /\ "inconclusive" \notin found /\ "warn" \notin found
    <3>1. "pass" \in found
      BY DEF found
    <3> QED
      BY <1>1, <2>4, <3>1
  <2> QED
    BY <2>1, <2>2, <2>3, <2>4
<1>3. Best(F, r) = CHOOSE s \in found : \A t \in found : StatusRank(t) <= StatusRank(s)
  BY DEF Best
<1> HIDE DEF found
<1>4. Best(F, r) \in found /\ \A t \in found : StatusRank(t) <= StatusRank(Best(F, r))
  BY <1>2, <1>3
<1> QED
  BY <1>4 DEF found

\* The finding of a rule is no worse than its status.
LEMMA FindingCounts ==
  ASSUME NEW F \in Seq(Finding(Rule)), NEW f \in Elements(F)
  PROVE  /\ f.rule \in Rule
         /\ f.status = "fail" => Best(F, f.rule) = "fail"
         /\ f.status = "inconclusive" => Best(F, f.rule) \in {"fail", "inconclusive"}
<1>1. f.rule \in Rule /\ f.status \in Status
  BY StatusOfFinding
<1> DEFINE found == {g.status : g \in {h \in Elements(F) : h.rule = f.rule}} \cup {"pass"}
<1>2. f.status \in found /\ Best(F, f.rule) \in found
      /\ StatusRank(f.status) <= StatusRank(Best(F, f.rule))
  BY <1>1, BestIsWorst
<1>3. found \subseteq Status
  BY StatusOfFinding
<1>4. Best(F, f.rule) \in Status
  BY <1>2, <1>3
<1> QED
  BY <1>1, <1>2, <1>4 DEF StatusRank, Status

\* The findings of another rule are appended.
LEMMA ElementsOfConcat ==
  ASSUME NEW T, NEW F \in Seq(T), NEW G \in Seq(T)
  PROVE  F \o G \in Seq(T) /\ Elements(F) \subseteq Elements(F \o G)
<1>1. F \o G \in Seq(T) /\ Len(F \o G) = Len(F) + Len(G)
  OBVIOUS
<1>2. \A k \in DOMAIN F : k \in DOMAIN (F \o G) /\ (F \o G)[k] = F[k]
  OBVIOUS
<1> QED
  BY <1>1, <1>2 DEF Elements

-----------------------------------------------------------------------------
(* The steps.                                                              *)

USE SizeAssumption
    DEF Asset, Rule, options, EXIT_OK, EXIT_WARN, EXIT_FAIL, EXIT_ERROR, EXIT_PATH

\* The types of the counters and of the exit code.
LEMMA Numbers ==
  ASSUME TypeOK, Walked
  PROVE  /\ cur \in 1 .. NumAssets /\ cur \in 0 .. NumAssets
         /\ exit \in 0 .. 3 /\ exit \in -1 .. EXIT_PATH
BY DEF TypeOK, Walked

\* The words for what became of an asset.
LEMMA Words ==
  /\ "untried" \in Outcome /\ "untried" \notin Settled
  /\ {"rejected", "inspector_panic", "inspection_error", "pass", "warn", "fail"} \subseteq Outcome
  /\ "rejected" \notin Settled /\ "inspector_panic" \notin Settled
  /\ "inspection_error" \in Settled /\ {"pass", "warn", "fail"} \subseteq Settled
BY DEF Outcome, Status, Settled

\* What an asset contributes to the exit code is such a code.
LEMMA Codes ==
  ASSUME NEW o
  PROVE  /\ CodeOf(o) \in 0 .. 3
         /\ o \in {"untried", "rejected", "inspector_panic", "pass"} => CodeOf(o) = 0
         /\ o = "inspection_error" => CodeOf(o) = 3
BY DEF CodeOf

\* The current asset gets its outcome, and nothing else changes.
LEMMA Settles ==
  ASSUME TypeOK, Walked, NEW o \in Outcome, outcome' = [outcome EXCEPT ![cur] = o]
  PROVE  /\ outcome' \in [Asset -> Outcome]
         /\ cur \in Asset /\ outcome'[cur] = o
         /\ \A a \in Asset : a # cur => outcome'[a] = outcome[a]
<1>1. outcome \in [Asset -> Outcome] /\ cur \in Asset
  BY DEF TypeOK, Walked
<1> QED
  BY <1>1

\* Where the batch may be when it has.
LEMMA WalkedOn ==
  ASSUME TypeOK, Walked, NEW o \in Outcome, outcome' = [outcome EXCEPT ![cur] = o],
         UNCHANGED <<options, cur>>,
         \/ pc' = "ended"
         \/ pc' = "report" /\ o \in {"pass", "warn", "fail"}
         \/ pc' = "next" /\ o = "inspection_error"
  PROVE  Walked'
<1>1. /\ cur \in 1 .. NumAssets /\ outcome'[cur] = o
      /\ \A a \in Asset : a # cur => outcome'[a] = outcome[a]
  BY Settles
<1>2. \A a \in Asset : a < cur \/ a > cur => a # cur
  BY <1>1
<1>3. \A a \in Asset : a > cur => outcome'[a] = "untried"
  BY <1>1, <1>2 DEF Walked
<1>4. \A a \in Asset : a < cur => outcome'[a] \in Settled /\ ~ (failFast /\ outcome'[a] = "fail")
  BY <1>1, <1>2 DEF Walked, Stops
<1> QED
  BY <1>1, <1>3, <1>4, Words DEF Walked, Stops

\* A part of the invariant whose variables stay.
LEMMA TracksStays == ASSUME Tracks, UNCHANGED <<outcome, exit>> PROVE Tracks'
BY DEF Tracks

\* The current asset gets its outcome, and the exit code is raised to what it
\* contributes.
LEMMA TracksRaised ==
  ASSUME TypeOK, Walked, Tracks, outcome[cur] = "untried", NEW o \in Outcome,
         outcome' = [outcome EXCEPT ![cur] = o],
         exit' = Larger(exit, CodeOf(o))
  PROVE  Tracks' /\ exit' \in 0 .. 3
<1>1. exit \in 0 .. 3 /\ CodeOf(o) \in 0 .. 3 /\ CodeOf("untried") = 0
  BY Numbers, Codes
<1>2. exit' \in 0 .. 3 /\ exit <= exit' /\ CodeOf(o) <= exit' /\ exit' \in {exit, CodeOf(o)}
  BY <1>1 DEF Larger
<1>3. /\ cur \in Asset /\ outcome'[cur] = o
      /\ \A a \in Asset : a # cur => outcome'[a] = outcome[a]
  BY Settles
<1>4. ASSUME NEW a \in Asset PROVE CodeOf(outcome'[a]) <= exit'
  <2>1. CodeOf(outcome[a]) \in 0 .. 3 /\ CodeOf(outcome[a]) <= exit
    BY Codes DEF Tracks
  <2> QED
    BY <1>1, <1>2, <1>3, <2>1
<1>5. ASSUME exit' # EXIT_OK PROVE \E a \in Asset : CodeOf(outcome'[a]) = exit'
  <2>1. CASE exit' = CodeOf(o)
    BY <1>3, <2>1
  <2>2. CASE exit' = exit
    <3>1. PICK a \in Asset : CodeOf(outcome[a]) = exit
      BY <1>5, <2>2 DEF Tracks
    <3>2. a # cur
      BY <1>1, <1>5, <2>2, <3>1
    <3> QED
      BY <1>3, <2>2, <3>1, <3>2
  <2> QED
    BY <1>2, <2>1, <2>2
<1> QED
  BY <1>2, <1>4, <1>5 DEF Tracks

\* Nothing has been tried.
LEMMA InitInv == Init => IInv
<1> SUFFICES ASSUME Init PROVE IInv
  OBVIOUS
<1> USE DEF Init
<1>1. exit = 0
  BY DEF ExitCodeForVerdict
<1>2. TypeOK
  <2>1. 1 \in 1 .. NumAssets + 1 /\ 1 \in 1 .. NumRules + 1 /\ 0 \in 0 .. NumAssets
    OBVIOUS
  <2>2. <<>> \in Seq(Finding(Rule)) /\ "untried" \in Outcome
    BY Words
  <2>3. outcome \in [Asset -> Outcome] /\ reports \in [Name -> 0 .. NumAssets]
    BY <2>1, <2>2
  <2>4. exit \in 0 .. 3 /\ code \in -1 .. 4
    BY <1>1
  <2> QED
    BY <2>1, <2>2, <2>3, <2>4 DEF TypeOK
<1>3. Walked
  BY DEF Walked
<1>4. Tracks
  BY <1>1 DEF Tracks, CodeOf
<1>5. Ended /\ Found
  BY DEF Ended, Found
<1> QED
  BY <1>2, <1>3, <1>4, <1>5 DEF IInv

\* An asset is taken up: nothing is settled yet.
LEMMA BeginInv ==
  ASSUME TypeOK, Walked, Tracks, Ended, Found, BuildAsset \/ Inspect
  PROVE  IInv'
<1>1. /\ pc \in {"build", "inspect"} /\ pc' \in {"inspect", "rules"}
      /\ UNCHANGED <<options, cur, outcome, exit, reports, code>>
      /\ \/ UNCHANGED <<rule, findings, panicked>> /\ pc' = "inspect"
         \/ rule' = 1 /\ findings' = <<>> /\ panicked' = FALSE
  BY DEF BuildAsset, Inspect
<1>2. TypeOK'
  <2>1. <<>> \in Seq(Finding(Rule)) /\ 1 \in 1 .. NumRules + 1
    OBVIOUS
  <2>2. rule' \in 1 .. NumRules + 1 /\ findings' \in Seq(Finding(Rule))
    <3>1. rule \in 1 .. NumRules + 1 /\ findings \in Seq(Finding(Rule))
      BY DEF TypeOK
    <3> QED
      BY <1>1, <2>1, <3>1
  <2>3. panicked \in BOOLEAN
    BY DEF TypeOK
  <2>4. panicked' \in BOOLEAN
    BY <1>1, <2>3, Zenon
  <2> QED
    BY <1>1, <2>2, <2>4 DEF TypeOK
<1>3. Walked'
  BY <1>1 DEF Walked, Stops
<1>4. Ended' /\ Found'
  BY <1>1 DEF Ended, Found
<1> QED
  BY <1>1, <1>2, <1>3, <1>4, TracksStays DEF IInv

\* The process ends at an asset that has no verdict.
LEMMA AbortInv ==
  ASSUME TypeOK, Walked, Tracks, Ended, Found, RejectAsset \/ InspectPanics
  PROVE  IInv'
<1>1. /\ pc \in {"build", "inspect"} /\ pc' = "ended"
      /\ UNCHANGED <<options, cur, rule, findings, panicked, exit, reports>>
      /\ \/ outcome' = [outcome EXCEPT ![cur] = "rejected"] /\ code' \in {EXIT_PATH, EXIT_ERROR}
         \/ outcome' = [outcome EXCEPT ![cur] = "inspector_panic"] /\ code' = 101
  BY DEF RejectAsset, InspectPanics, Return
<1>2. PICK o \in {"rejected", "inspector_panic"} :
        /\ outcome' = [outcome EXCEPT ![cur] = o]
        /\ \/ o = "rejected" /\ code' \in {EXIT_PATH, EXIT_ERROR}
           \/ o = "inspector_panic" /\ code' = 101
  BY <1>1
<1>3. o \in Outcome
  BY Words
<1>4. outcome[cur] = "untried"
  BY <1>1 DEF Walked
<1>5. outcome' \in [Asset -> Outcome] /\ outcome'[cur] = o
  BY <1>2, <1>3, Settles
<1>6. TypeOK'
  BY <1>1, <1>2, <1>5 DEF TypeOK
<1>7. Walked'
  BY <1>1, <1>2, <1>3, WalkedOn
<1>8. Tracks'
  <2>1. exit' = Larger(exit, CodeOf(o))
    BY <1>1, Numbers, Codes DEF Larger
  <2> QED
    BY <1>2, <1>3, <1>4, <2>1, TracksRaised
<1>9. Ended' /\ Found'
  BY <1>1, <1>2, <1>5 DEF Ended, Found
<1> QED
  BY <1>6, <1>7, <1>8, <1>9 DEF IInv

\* An asset that could not be inspected is settled.
LEMMA InspectErrorInv ==
  ASSUME TypeOK, Walked, Tracks, Ended, Found, InspectError
  PROVE  IInv'
<1>1. /\ pc = "inspect" /\ pc' = "next" /\ exit' = EXIT_ERROR
      /\ outcome' = [outcome EXCEPT ![cur] = "inspection_error"]
      /\ UNCHANGED <<options, cur, rule, findings, panicked, reports, code>>
  BY DEF InspectError
<1>2. outcome[cur] = "untried" /\ "inspection_error" \in Outcome
  BY <1>1, Words DEF Walked
<1>3. TypeOK'
  <2>1. outcome' \in [Asset -> Outcome]
    BY <1>1, <1>2, Settles
  <2> QED
    BY <1>1, <2>1 DEF TypeOK
<1>4. Walked'
  BY <1>1, <1>2, WalkedOn
<1>5. Tracks'
  <2>1. exit' = Larger(exit, CodeOf("inspection_error"))
    BY <1>1, Numbers, Codes DEF Larger
  <2> QED
    BY <1>1, <1>2, <2>1, TracksRaised
<1>6. Ended' /\ Found'
  BY <1>1 DEF Ended, Found
<1> QED
  BY <1>3, <1>4, <1>5, <1>6 DEF IInv

\* A rule adds its findings to those that are there.
LEMMA RunRuleInv ==
  ASSUME TypeOK, Walked, Tracks, Ended, Found, RunRule
  PROVE  IInv'
<1>1. PICK answer \in RuleAnswers :
        findings' = findings \o
          [k \in DOMAIN answer |->
             [rule |-> rule, status |-> answer[k].status, severity |-> answer[k].severity]]
  BY DEF RunRule
<1> DEFINE more == [k \in DOMAIN answer |->
             [rule |-> rule, status |-> answer[k].status, severity |-> answer[k].severity]]
<1>2. more \in Seq(Finding(Rule))
  <2>1. answer \in Seq([status : Status, severity : Severity])
    BY AnswersAssumption
  <2>2. Len(answer) \in Nat /\ DOMAIN answer = 1 .. Len(answer)
        /\ \A k \in DOMAIN answer : answer[k] \in [status : Status, severity : Severity]
    BY <2>1, SequenceTypes
  <2>3. rule \in Rule
    BY DEF TypeOK, RunRule
  <2>4. \A k \in DOMAIN answer : more[k] \in Finding(Rule)
    BY <2>2, <2>3 DEF Finding
  <2> QED
    BY <2>2, <2>4
<1>3. findings' \in Seq(Finding(Rule)) /\ Elements(findings) \subseteq Elements(findings')
  <2> HIDE DEF more
  <2>1. findings \in Seq(Finding(Rule)) /\ findings' = findings \o more
    BY <1>1 DEF TypeOK, more
  <2> QED
    BY <1>2, <2>1, ElementsOfConcat
<1>4. /\ pc = "rules" /\ rule' = rule + 1 /\ rule <= NumRules
      /\ UNCHANGED <<options, pc, cur, panicked, outcome, exit, reports, code>>
  BY DEF RunRule
<1>5. TypeOK'
  BY <1>3, <1>4 DEF TypeOK
<1>6. Walked' /\ Tracks' /\ Ended'
  BY <1>4, TracksStays DEF Walked, Stops, Ended
<1>7. Found'
  BY <1>3, <1>4 DEF Found
<1> QED
  BY <1>5, <1>6, <1>7 DEF IInv

\* A panic adds the finding that Found speaks of.
LEMMA RulePanicsInv ==
  ASSUME TypeOK, Walked, Tracks, Ended, Found, RulePanics
  PROVE  IInv'
<1> DEFINE new == [rule |-> rule, status |-> "inconclusive", severity |-> "error"]
<1>1. /\ pc = "rules" /\ rule' = rule + 1 /\ rule <= NumRules
      /\ findings' = Append(findings, new) /\ panicked' = TRUE
      /\ UNCHANGED <<options, pc, cur, outcome, exit, reports, code>>
  BY DEF RulePanics
<1>2. new \in Finding(Rule)
  BY <1>1 DEF TypeOK, Finding, Status, Severity
<1>3. findings' \in Seq(Finding(Rule)) /\ new \in Elements(findings')
  <2> HIDE DEF new
  <2>1. findings \in Seq(Finding(Rule))
    BY DEF TypeOK
  <2>2. /\ findings' \in Seq(Finding(Rule))
        /\ Len(findings) + 1 \in DOMAIN findings'
        /\ findings'[Len(findings) + 1] = new
    BY <1>1, <1>2, <2>1
  <2> QED
    BY <2>2 DEF Elements
<1>4. TypeOK'
  BY <1>1, <1>3 DEF TypeOK
<1>5. Walked' /\ Tracks' /\ Ended'
  BY <1>1, TracksStays DEF Walked, Stops, Ended
<1>6. Found'
  BY <1>1, <1>3 DEF Found
<1> QED
  BY <1>4, <1>5, <1>6 DEF IInv

\* The verdict is written and counted in the exit code.
LEMMA CheckReturnsInv ==
  ASSUME TypeOK, Walked, Tracks, Ended, Found, CheckReturns
  PROVE  IInv'
<1> DEFINE verdict == Resolve(FailOn, findings)
<1>1. /\ pc = "rules" /\ pc' = "report"
      /\ outcome' = [outcome EXCEPT ![cur] = verdict]
      /\ exit' = Larger(exit, ExitCodeForVerdict(verdict))
      /\ UNCHANGED <<options, cur, rule, findings, panicked, reports, code>>
  BY DEF CheckReturns
<1>2. verdict \in {"pass", "warn", "fail"}
  BY ResolveCases
<1> HIDE DEF verdict
<1>3. outcome[cur] = "untried" /\ verdict \in Outcome
  BY <1>1, <1>2, Words DEF Walked
<1>4. Tracks' /\ exit' \in 0 .. 3
  <2>1. ExitCodeForVerdict(verdict) = CodeOf(verdict)
    BY <1>2 DEF ExitCodeForVerdict, CodeOf
  <2> QED
    BY <1>1, <1>3, <2>1, TracksRaised
<1>5. TypeOK'
  <2>1. outcome' \in [Asset -> Outcome]
    BY <1>1, <1>3, Settles
  <2> QED
    BY <1>1, <1>4, <2>1 DEF TypeOK
<1>6. Walked'
  BY <1>1, <1>2, <1>3, WalkedOn
<1>7. Ended'
  BY <1>1 DEF Ended
<1>8. Found'
  <2>1. outcome'[cur] = verdict
    BY <1>1, <1>3, Settles
  <2> QED
    BY <1>1, <2>1 DEF Found, verdict
<1> QED
  BY <1>4, <1>5, <1>6, <1>7, <1>8 DEF IInv

\* A report is written or not; --fail-fast may end the process.
LEMMA WriteReportInv ==
  ASSUME TypeOK, Walked, Tracks, Ended, Found, WriteReport
  PROVE  IInv'
<1>1. /\ pc = "report" /\ reports' \in [Name -> 0 .. NumAssets]
      /\ UNCHANGED <<options, cur, rule, findings, panicked, outcome, exit>>
  <2>1. cur \in 0 .. NumAssets /\ reports \in [Name -> 0 .. NumAssets]
    BY DEF TypeOK, Walked
  <2>2. [reports EXCEPT ![Stem[cur]] = cur] \in [Name -> 0 .. NumAssets]
    BY <2>1
  <2> QED
    BY <2>1, <2>2 DEF WriteReport
<1>2. \/ Stops(cur) /\ pc' = "ended" /\ code' = EXIT_FAIL
      \/ ~ Stops(cur) /\ pc' = "next" /\ UNCHANGED code
  BY DEF WriteReport, AfterReport, Return, Stops
<1>3. TypeOK'
  BY <1>1, <1>2 DEF TypeOK
<1>4. Walked'
  BY <1>1, <1>2, Words DEF Walked, Stops
<1>5. Ended' /\ Found'
  BY <1>1, <1>2 DEF Ended, Found, Stops
<1> QED
  BY <1>1, <1>3, <1>4, <1>5, TracksStays DEF IInv

\* The next asset is untried.
LEMMA NextAssetInv ==
  ASSUME TypeOK, Walked, Tracks, Ended, Found, NextAsset
  PROVE  IInv'
<1>1. /\ pc = "next" /\ pc' = "build" /\ cur < NumAssets /\ cur' = cur + 1
      /\ UNCHANGED <<options, rule, findings, panicked, outcome, exit, reports, code>>
  BY DEF NextAsset
<1>2. TypeOK'
  BY <1>1, Numbers DEF TypeOK
<1>3. Walked'
  <2>1. cur' \in Asset /\ \A a \in Asset : a < cur' => a < cur \/ a = cur
    BY <1>1, Numbers
  <2>2. \A a \in Asset : a >= cur' => a > cur
    BY <1>1, Numbers
  <2> QED
    BY <1>1, <2>1, <2>2 DEF Walked, Stops
<1>4. Ended' /\ Found'
  BY <1>1 DEF Ended, Found
<1> QED
  BY <1>1, <1>2, <1>3, <1>4, TracksStays DEF IInv

\* Behind the last asset the process ends with the code so far.
LEMMA LastAssetInv ==
  ASSUME TypeOK, Walked, Tracks, Ended, Found, LastAsset
  PROVE  IInv'
<1>1. /\ pc = "next" /\ pc' = "ended" /\ cur = NumAssets /\ code' = exit
      /\ UNCHANGED <<options, cur, rule, findings, panicked, outcome, exit, reports>>
  BY DEF LastAsset, Return
<1>2. TypeOK'
  BY <1>1, Numbers DEF TypeOK
<1>3. Walked'
  BY <1>1 DEF Walked, Stops
<1>4. Ended' /\ Found'
  BY <1>1, Numbers DEF Walked, Ended, Found, Stops
<1> QED
  BY <1>1, <1>2, <1>3, <1>4, TracksStays DEF IInv

\* Every step keeps the invariant.
LEMMA NextInv == IInv /\ [Next]_vars => IInv'
<1> SUFFICES ASSUME IInv, [Next]_vars PROVE IInv'
  OBVIOUS
<1>1. CASE UNCHANGED vars
  <2> USE DEF IInv
  <2>1. TypeOK'
    BY <1>1 DEF vars, TypeOK
  <2>2. Walked'
    BY <1>1 DEF vars, Walked, Stops
  <2>3. Ended' /\ Found'
    BY <1>1 DEF vars, Ended, Found, Stops
  <2> QED
    BY <1>1, <2>1, <2>2, <2>3, TracksStays DEF vars
<1>2. TypeOK /\ Walked /\ Tracks /\ Ended /\ Found
  BY DEF IInv
<1> QED
  BY <1>1, <1>2, BeginInv, AbortInv, InspectErrorInv, RunRuleInv, RulePanicsInv, CheckReturnsInv,
     WriteReportInv, NextAssetInv, LastAssetInv
     DEF Next, Terminating

\* Every reachable state satisfies the invariant (run_batch).
THEOREM Invariance == Spec => []IInv
<1> QED
  BY InitInv, NextInv, PTL DEF Spec

-----------------------------------------------------------------------------
(* What follows.                                                           *)

\* The exit code of run_batch hides nothing, for any number of assets.
THEOREM ExitCodeHidesNothing == Spec => []ExitCodeIsHonest
<1>1. ASSUME TypeOK, Walked, Tracks, Ended, Found PROVE ExitCodeIsHonest
  <2> DEFINE some == {outcome[a] : a \in Asset}
  <2>1. CASE code = exit /\ cur = NumAssets /\ outcome[cur] \in Settled /\ ~ Stops(cur)
    <3>1. \A a \in Asset : outcome[a] \in {"pass", "warn", "fail", "inspection_error"}
      BY <1>1, <2>1 DEF Walked, Settled
    <3>2. \A a \in Asset : CodeOf(outcome[a]) \in 0 .. 3 /\ CodeOf(outcome[a]) <= exit
      BY <1>1, Codes DEF Tracks
    <3>3. CASE exit = EXIT_OK
      <4>1. ASSUME NEW a \in Asset PROVE outcome[a] = "pass"
        BY <3>1, <3>2, <3>3 DEF CodeOf
      <4>2. cur \in Asset
        BY <1>1 DEF Walked
      <4>3. some = {"pass"}
        BY <4>1, <4>2
      <4> QED
        BY <2>1, <3>3, <4>3 DEF ExitCodeIsHonest
    <3>4. CASE exit # EXIT_OK
      <4>1. PICK a \in Asset : CodeOf(outcome[a]) = exit
        BY <1>1, <3>4 DEF Tracks
      <4>2. exit = EXIT_WARN => outcome[a] = "warn" /\ \A b \in Asset : outcome[b] \in {"pass", "warn"}
        BY <3>1, <3>2, <4>1 DEF CodeOf
      <4>3. exit = EXIT_FAIL => outcome[a] = "fail" /\ \A b \in Asset : outcome[b] # "inspection_error"
        BY <3>2, <4>1 DEF CodeOf
      <4>4. exit = EXIT_ERROR => outcome[a] = "inspection_error"
        BY <4>1 DEF CodeOf
      <4> QED
        BY <2>1, <3>4, <4>2, <4>3, <4>4 DEF ExitCodeIsHonest
    <3> QED
      BY <3>3, <3>4
  <2>2. CASE code = EXIT_FAIL /\ Stops(cur)
    BY <1>1, <2>2 DEF Walked, Stops, ExitCodeIsHonest
  <2>3. CASE code \in {EXIT_PATH, EXIT_ERROR} /\ outcome[cur] = "rejected"
    BY <1>1, <2>3 DEF Walked, ExitCodeIsHonest
  <2>4. CASE code \in {-1, 101}
    BY <2>4 DEF ExitCodeIsHonest
  <2> QED
    BY <1>1, <2>1, <2>2, <2>3, <2>4 DEF Ended
<1> QED
  <2>1. IInv => ExitCodeIsHonest
    BY <1>1 DEF IInv
  <2> QED
    BY <2>1, Invariance, PTL

\* The batch leaves assets untried behind one that stops it and nowhere else.
THEOREM StopsAreExplained == Spec => []StopsOnlyWhenItMust
<1>1. ASSUME TypeOK, Walked, Tracks, Ended, Found PROVE StopsOnlyWhenItMust
  <2> DEFINE stopper(a) == \/ outcome[a] \in {"rejected", "inspector_panic"}
                           \/ failFast /\ outcome[a] = "fail"
  <2>1. ASSUME NEW a \in Asset, stopper(a), NEW b \in a + 1 .. NumAssets
        PROVE  outcome[b] = "untried"
    <3>1. ~ (a < cur)
      BY <1>1, <2>1 DEF Walked, Settled, Stops
    <3>2. b \in Asset /\ b > cur
      BY <1>1, <2>1, <3>1 DEF Walked
    <3> QED
      BY <1>1, <3>2 DEF Walked
  <2>2. ASSUME code # -1, \A a \in Asset : ~ stopper(a), NEW a \in Asset
        PROVE  outcome[a] # "untried"
    <3>1. cur = NumAssets /\ outcome[cur] \in Settled
      BY <1>1, <2>2 DEF Walked, Ended, Stops
    <3> QED
      BY <1>1, <2>2, <3>1 DEF Walked, Settled
  <2> QED
    BY <2>1, <2>2 DEF StopsOnlyWhenItMust
<1> QED
  <2>1. IInv => StopsOnlyWhenItMust
    BY <1>1 DEF IInv
  <2> QED
    BY <2>1, Invariance, PTL

\* The verdict of an asset and the statuses of its rules agree, though they come
\* from different orders of badness.
THEOREM VerdictsAreExplained == Spec => []VerdictIsExplained
<1>1. ASSUME TypeOK, Walked, Tracks, Ended, Found, pc = "report" PROVE VerdictIsExplained
  <2> DEFINE best == {Best(findings, r) : r \in Rule}
  <2>1. findings \in Seq(Finding(Rule)) /\ outcome[cur] = Resolve(FailOn, findings)
    BY <1>1 DEF TypeOK, Found
  <2>2. CASE outcome[cur] = "fail"
    <3>1. PICK f \in Elements(findings) : f.status = "fail"
      BY <2>1, <2>2, ResolveCases
    <3>2. "fail" \in best
      BY <2>1, <3>1, FindingCounts
    <3> QED
      BY <2>2, <3>2 DEF VerdictIsExplained
  <2>3. CASE outcome[cur] = "warn"
    <3>1. PICK f \in Elements(findings) : f.status \in {"fail", "inconclusive"}
      BY <2>1, <2>3, ResolveCases
    <3>2. f.rule \in Rule /\ Best(findings, f.rule) \in {"fail", "inconclusive"}
      BY <2>1, <3>1, FindingCounts
    <3>3. best \cap {"fail", "inconclusive"} # {}
      BY <3>2
    <3> QED
      BY <2>3, <3>3 DEF VerdictIsExplained
  <2>4. CASE outcome[cur] = "pass"
    <3>1. \A f \in Elements(findings) : f.status # "fail"
      BY <2>1, <2>4, ResolveCases
    <3>2. ASSUME NEW r \in Rule PROVE Best(findings, r) # "fail"
      BY <2>1, <3>1, BestIsWorst
    <3>3. "fail" \notin best
      BY <3>2
    <3> QED
      BY <2>4, <3>3 DEF VerdictIsExplained
  <2> QED
    BY <1>1, <2>2, <2>3, <2>4 DEF Walked
<1>2. IInv => VerdictIsExplained
  BY <1>1 DEF IInv, VerdictIsExplained
<1> QED
  BY <1>2, Invariance, PTL

\* A panicking rule never lets an asset pass: the finding that execute makes of it
\* reaches every threshold up to error.
THEOREM PanicsNeverPass == Spec => []PanicNeverPasses
<1>1. ASSUME TypeOK, Walked, Tracks, Ended, Found, Grade(FailOn) <= Grade("error"), pc = "report", panicked, outcome[cur] = "pass"
      PROVE  FALSE
  <2>1. PICK f \in Elements(findings) : f.status = "inconclusive" /\ f.severity = "error"
    BY <1>1 DEF Found
  <2>2. Reaches(f, FailOn)
    <3>1. Grade("error") \in Int /\ Grade(FailOn) \in Int
      BY FailOnAssumption DEF Grade, Severity
    <3> QED
      BY <1>1, <2>1, <3>1 DEF Reaches
  <2>3. Resolve(FailOn, findings) = "pass"
    BY <1>1 DEF Found
  <2> QED
    BY <2>1, <2>2, <2>3, ResolveCases
<1>2. IInv => PanicNeverPasses
  BY <1>1 DEF IInv, PanicNeverPasses
<1> QED
  BY <1>2, Invariance, PTL
=============================================================================
