---------------------------- MODULE MCPluginRun -----------------------------
(***************************************************************************)
(* Instances of PluginRun for TLC: pipes of one block, a request of two,   *)
(* a response limit of one, and up to three blocks of output, so that      *)
(* every pipe fills and both limits are passed.                            *)
(***************************************************************************)
EXTENDS PluginRun
=============================================================================
