------------------------- MODULE MCSnapshotMonitor --------------------------
(***************************************************************************)
(* SnapshotMonitor for TLC; the bounds are the constants of the .cfg files.*)
(***************************************************************************)
EXTENDS SnapshotMonitor
=============================================================================
