----------------------------- MODULE MCReporter -----------------------------
(***************************************************************************)
(* Reporter with two producers' events and a bounded number of accepted    *)
(* events.                                                                 *)
(***************************************************************************)
EXTENDS Reporter

CONSTANT MaxAccepted   \* bound on the events enqueued in a behaviour

BoundedNext ==
  /\ Next
  /\ Len(accepted') <= MaxAccepted

MCSpec ==
  /\ Init
  /\ [][BoundedNext]_rVars
  /\ WF_rVars(RunnerStep)
  /\ WF_rVars(StopStep)

=============================================================================
