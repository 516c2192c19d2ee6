------------------------------- MODULE Runner -------------------------------
(***************************************************************************)
(* What an owner of a background poller may rely on: the abstract          *)
(* specification that utils::PeriodicRunner implements (module             *)
(* PeriodicRunner) and that every polling thread of MonitorEngine obeys    *)
(* (module MonitorEngine).                                                 *)
(*                                                                         *)
(* The poller runs its task again and again while it is running.  Once a   *)
(* stop is requested no further task begins, a task already begun may      *)
(* finish, and the stop returns only when no task is in progress.          *)
(***************************************************************************)

VARIABLES
  phase,   \* "stopped", "running", or "stopping": a stop() is in progress
  busy     \* the task is executing

vars == <<phase, busy>>

TypeOK ==
  /\ phase \in {"stopped", "running", "stopping"}
  /\ busy \in BOOLEAN

Init ==
  /\ phase = "stopped"
  /\ busy = FALSE

Start ==
  /\ phase = "stopped"
  /\ phase' = "running"
  /\ UNCHANGED busy

BeginTask ==
  /\ phase = "running"
  /\ ~busy
  /\ busy' = TRUE
  /\ UNCHANGED phase

EndTask ==
  /\ busy
  /\ busy' = FALSE
  /\ UNCHANGED phase

RequestStop ==
  /\ phase = "running"
  /\ phase' = "stopping"
  /\ UNCHANGED busy

Stopped ==
  /\ phase = "stopping"
  /\ ~busy
  /\ phase' = "stopped"
  /\ UNCHANGED busy

Next == Start \/ BeginTask \/ EndTask \/ RequestStop \/ Stopped

SafeSpec == Init /\ [][Next]_vars

(***************************************************************************)
(* A running poller keeps starting its task, a task ends, and a requested  *)
(* stop completes.  Starting and stopping are up to the owner.             *)
(***************************************************************************)
Spec ==
  /\ SafeSpec
  /\ WF_vars(BeginTask)
  /\ WF_vars(EndTask)
  /\ WF_vars(Stopped)

=============================================================================
