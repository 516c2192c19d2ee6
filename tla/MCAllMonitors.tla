--------------------------- MODULE MCAllMonitors ----------------------------
(***************************************************************************)
(* AllMonitors for TLC; the bounds are the constants of the .cfg file.     *)
(***************************************************************************)
EXTENDS AllMonitors

\* The default thresholds, and a pair the wrong way round.
MCThresholds == {[warning |-> 80, critical |-> 95], [warning |-> 90, critical |-> 70]}
=============================================================================
