------------------------------ MODULE EventLog ------------------------------
(***************************************************************************)
(* What a reader of the stored events may rely on: the abstract            *)
(* specification that storage::FileStorage implements.  The storage holds  *)
(* a set of events, numbered as they were handed to it.  An event can      *)
(* enter only while it is the newest, and once it is gone it never comes   *)
(* back; writing loses at most the newest event held; and what is let go   *)
(* at any other time is a stretch of neighbours, so that no hole opens     *)
(* between two events lost together, and with it perhaps the newest ones.  *)
(***************************************************************************)
EXTENDS Naturals

VARIABLES
  next,   \* the number of the next event
  held    \* the events that are stored complete

vars == <<next, held>>

Init ==
  /\ next = 1
  /\ held = {}

\* The events that a step lets go.
Lost == held \ held'

\* The next event is stored.
Store ==
  /\ next' = next + 1
  /\ held' = held \union {next}

\* The next event is refused, not written or damaged, the latter perhaps with
\* the newest one held.
Fail ==
  /\ next' = next + 1
  /\ held' \subseteq held
  /\ \A x \in Lost, y \in held : y <= x

\* Retention: of the events before the n-th a stretch goes, and all others.  (When
\* nothing fails there are no others: n is next.)
Forget(n) ==
  /\ next' = next
  /\ held' \subseteq held
  /\ \A z \in held' : z < n
  /\ \A x, y \in Lost, z \in held : x <= z /\ z <= y /\ y < n => z \in Lost

Next == Store \/ Fail \/ \E n \in 1..next : Forget(n)

Spec == Init /\ [][Next]_vars

=============================================================================
