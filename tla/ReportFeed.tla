----------------------------- MODULE ReportFeed -----------------------------
(***************************************************************************)
(* What the remote endpoint may rely on: the abstract specification that   *)
(* reporting::Reporter implements.  The events posted to the endpoint are  *)
(* always the first ones accepted, in the order in which they were         *)
(* accepted, each one once.                                                *)
(***************************************************************************)
EXTENDS Naturals, Sequences

CONSTANT Event

VARIABLES
  accepted,   \* every event handed to the reporter since it was created
  posted      \* every event the endpoint has received

vars == <<accepted, posted>>

Init ==
  /\ accepted = <<>>
  /\ posted = <<>>

Accept ==
  /\ \E e \in Event : \/ accepted' = Append(accepted, e)
                      \/ \E f \in Event : accepted' = accepted \o <<e, f>>
  /\ UNCHANGED posted

Post ==
  /\ \E n \in Len(posted) + 1 .. Len(accepted) :
       posted' = SubSeq(accepted, 1, n)
  /\ UNCHANGED accepted

Next == Accept \/ Post

Spec == Init /\ [][Next]_vars

=============================================================================
