-------------------------- MODULE MCMonitorEngine ---------------------------
(***************************************************************************)
(* MonitorEngine for TLC: two monitors, of which the first emits twice (so *)
(* that order within a monitor matters) and the second once.               *)
(***************************************************************************)
EXTENDS MonitorEngine

MCMaxEvents == [m \in 1..N |-> IF m = 1 THEN 2 ELSE 1]
=============================================================================
