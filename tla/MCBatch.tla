------------------------------ MODULE MCBatch -------------------------------
(***************************************************************************)
(* Instance of Batch for TLC: three assets, the first and the last with    *)
(* the same file stem, and two rules that come back with up to two         *)
(* findings, below and at the policy's threshold.                          *)
(***************************************************************************)
EXTENDS Batch, SequencesExt

StemsCollide == [a \in Asset |-> IF a = 2 THEN "b" ELSE "a"]

UpToTwoFindings == BoundedSeq([status : Status, severity : {"warning", "error"}], 2)
=============================================================================
