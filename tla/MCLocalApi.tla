----------------------------- MODULE MCLocalApi -----------------------------
(***************************************************************************)
(* Instance of LocalApi for TLC: two concurrent connections (one can       *)
(* cancel or read while the other creates) and two jobs.                   *)
(***************************************************************************)
EXTENDS LocalApi
=============================================================================
