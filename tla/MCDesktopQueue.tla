--------------------------- MODULE MCDesktopQueue ---------------------------
(***************************************************************************)
(* Instances of DesktopQueue for TLC.  One slot more jobs than slots makes *)
(* the queue back up; the second import happens while scans run.           *)
(***************************************************************************)
EXTENDS DesktopQueue
=============================================================================
