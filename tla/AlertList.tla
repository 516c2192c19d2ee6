----------------------------- MODULE AlertList ------------------------------
(***************************************************************************)
(* What a caller of alerts() may rely on: the abstract specification that  *)
(* alert::AlertManager's list implements.  The list is a window of the     *)
(* numbers handed out: always the latest ones, without a gap, in the order *)
(* of their numbers, and at most Max of them.  A number is never used      *)
(* again, also after the list was cleared, and an alert stays acknowledged *)
(* for as long as it is listed.                                            *)
(***************************************************************************)
EXTENDS Naturals

CONSTANT Max

VARIABLES
  first,   \* the oldest number listed, or next when the list is empty
  next,    \* the number of the next alert
  acked    \* the numbers that are acknowledged

vars == <<first, next, acked>>

Init ==
  /\ first = 1
  /\ next = 1
  /\ acked = {}

\* An alert is listed; the oldest one leaves when there are too many.
Raise ==
  /\ next' = next + 1
  /\ first' = IF next' - first > Max THEN first + 1 ELSE first
  /\ acked' = acked \ (first .. first' - 1)

Acknowledge ==
  /\ \E n \in first .. next - 1 : acked' = acked \union {n}
  /\ UNCHANGED <<first, next>>

Clear ==
  /\ first' = next
  /\ acked' = {}
  /\ UNCHANGED next

Next == Raise \/ Acknowledge \/ Clear

Spec == Init /\ [][Next]_vars

=============================================================================
