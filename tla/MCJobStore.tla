----------------------------- MODULE MCJobStore -----------------------------
(***************************************************************************)
(* Instance of JobStore for TLC: two connections, so that two completions  *)
(* interleave their rows, and a third to repeat one that was abandoned.    *)
(* Connections and jobs are interchangeable; no property is temporal.      *)
(***************************************************************************)
EXTENDS JobStore, TLC

Symmetry == Permutations(Store) \cup Permutations(Job)
=============================================================================
