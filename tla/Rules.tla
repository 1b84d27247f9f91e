------------------------------- MODULE Rules --------------------------------
(***************************************************************************)
(* What the built-in rules share                                           *)
(* (crates/tpt-app-media-qc-rules/src/rule.rs and util.rs).  A rule is a   *)
(* function of its configuration and of a context: the streams of the      *)
(* asset and the measurements of the inspection.  No state.                *)
(*                                                                         *)
(* The result of a rule is the set of the statuses of its findings;        *)
(* messages, measured values and severities are left out (every finding    *)
(* that is not a pass has the severity of the configuration).              *)
(***************************************************************************)
EXTENDS Values

-----------------------------------------------------------------------------
(* Results.                                                                *)

NoFindings   == {}
Failure      == {"fail"}
Inconclusive == {"inconclusive"}
Info         == {"pass"}

\* No finding, or findings that report a value.
IsPass(result) == result \subseteq Info

\* The guards of a rule: without its evidence it does not judge.
Needs(evidence, result) == IF evidence THEN result ELSE Inconclusive

FailIf(offends) == IF offends THEN Failure ELSE NoFindings

\* A rule that reports the measured value when there is nothing to complain about.
WithInfo(result) == IF result = NoFindings THEN Info ELSE result

\* A clean result after a decode with errors is in doubt; a failure is not.
UnlessErrors(errors, result) ==
  IF result = NoFindings /\ errors > 0 THEN Inconclusive ELSE result

-----------------------------------------------------------------------------
(* The context: streams in file order, measurements by stream.             *)

StreamsOf(ctx, kind) == {ctx.streams[i] : i \in {j \in DOMAIN ctx.streams : ctx.streams[j].kind = kind}}

\* The first stream of a kind.
PrimaryStream(ctx, kind) ==
  LET I == {i \in DOMAIN ctx.streams : ctx.streams[i].kind = kind}
  IN  {ctx.streams[i] : i \in {j \in I : \A k \in I : j <= k}}

\* The measurements of that stream in a list (stream indices are unique in it).
MeasuredFor(list, ctx, kind) ==
  {list[i] : i \in {j \in DOMAIN list : \E s \in PrimaryStream(ctx, kind) : list[j].stream = s.index}}

\* Frames that came out of the decoder, 0 if none was tried.
Frames(m) == IF m.frames = {} THEN 0 ELSE CHOOSE n \in m.frames : TRUE
=============================================================================
