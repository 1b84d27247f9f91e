---------------------------- MODULE MCScheduler -----------------------------
(***************************************************************************)
(* Instance of Scheduler for TLC: fewer workers than jobs, so that workers *)
(* come back for more and a panic can lose finished work.                  *)
(***************************************************************************)
EXTENDS Scheduler
=============================================================================
