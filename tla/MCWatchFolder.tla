--------------------------- MODULE MCWatchFolder ----------------------------
(***************************************************************************)
(* Instances of WatchFolder for TLC: two files that collide in the         *)
(* destination, long enough to grow twice, two polls, a session that is    *)
(* interrupted and started again, destinations inside the input folder.    *)
(* One verdict is the worst case: all deliveries meet in one folder.       *)
(***************************************************************************)
EXTENDS WatchFolder
=============================================================================
