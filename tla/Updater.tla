------------------------------ MODULE Updater -------------------------------
(***************************************************************************)
(* updater/updater.cpp: before anything else, a program that is not a one- *)
(* shot command asks GitHub for the latest version (the releases, then the *)
(* tags), offers an update if that is newer than its own, and runs git     *)
(* pull in a child process that it waits for, but not for ever.            *)
(*                                                                         *)
(* A version is the sequence of its parts between the dots; a part that    *)
(* std::stoi refuses (no digits, or too large for an int) is -1.           *)
(* GitHub, the user and git are external.                                  *)
(***************************************************************************)
EXTENDS Integers, Sequences

CONSTANTS
  Versions,   \* bound: versions the program or GitHub may have
  PartBound,  \* bound: every part is below
  MaxPolls    \* the number of times the child is asked for (60)

ASSUME UpdaterAssumption ==
  /\ PartBound \in Nat \ {0}
  /\ MaxPolls \in Nat \ {0}
  /\ \A v \in Versions : \E n \in 0..3 : v \in [1..n -> -1..PartBound - 1]

VARIABLES
  updAt,        \* the step the program is at
  current,      \* its version
  latest,       \* info.latest_version; <<>> if unknown
  available,    \* info.available
  polls,        \* times the child was asked for
  child,        \* "none", "running", "ok" or "bad": how it ended
  signalled,    \* was it sent SIGTERM?
  reaped,       \* what waitpid said of it: "nothing" yet, "status" or "error"
  childIgnored, \* does the program inherit SIGCHLD ignored?
  message       \* what the user was told

updVars == <<updAt, current, latest, available, polls, child, signalled, reaped,
             childIgnored, message>>
childVars == <<polls, child, signalled, reaped, childIgnored>>

UpdTypeOK ==
  /\ updAt \in {"releases", "tags", "prompt", "fork", "poll", "kill", "wait", "done"}
  /\ current \in Versions
  /\ latest \in Versions \cup {<<>>}
  /\ available \in BOOLEAN
  /\ polls \in 0..MaxPolls
  /\ child \in {"none", "running", "ok", "bad"}
  /\ signalled \in BOOLEAN
  /\ reaped \in {"nothing", "status", "error"}
  /\ childIgnored \in BOOLEAN
  /\ message \in {"none", "updated", "failed", "timeout", "no child"}

UpdInit ==
  /\ updAt = "releases"
  /\ current \in Versions
  /\ latest = <<>>
  /\ available = FALSE
  /\ polls = 0
  /\ child = "none"
  /\ signalled = FALSE
  /\ reaped = "nothing"
  /\ childIgnored \in BOOLEAN
  /\ message = "none"

-----------------------------------------------------------------------------
\* std::stoi with its catch
Stoi(part) == IF part < 0 THEN 0 ELSE part

Part(v, i) == IF i \in DOMAIN v THEN Stoi(v[i]) ELSE 0

\* Mutant: a part that is missing makes a version the older one.
MutantNewer(v1, v2) ==
  \E i \in DOMAIN v1 :
    /\ i \notin DOMAIN v2 \/ Part(v1, i) > Part(v2, i)
    /\ \A j \in 1..i - 1 : Part(v1, j) = Part(v2, j)

\* compare_versions(v1, v2) > 0: the first part in which they differ decides.
Newer(v1, v2) ==
  \E i \in DOMAIN v1 :
    /\ Part(v1, i) > Part(v2, i)
    /\ \A j \in 1..i - 1 : Part(v1, j) = Part(v2, j)

Learn(tag) ==
  /\ latest' = tag
  /\ available' = Newer(tag, current)
  /\ updAt' = IF available' THEN "prompt" ELSE "done"

\* check_for_update: no answer, or one without a tag, leads on to the tags.
AskReleases ==
  /\ updAt = "releases"
  /\ \/ \E tag \in Versions : Learn(tag)
     \/ updAt' = "tags" /\ UNCHANGED <<latest, available>>
  /\ UNCHANGED <<current, childVars, message>>

AskTags ==
  /\ updAt = "tags"
  /\ \/ \E tag \in Versions : Learn(tag)
     \/ updAt' = "done" /\ UNCHANGED <<latest, available>>
  /\ UNCHANGED <<current, childVars, message>>

\* prompt_update: the user answers, anything but y is a no.
Answer ==
  /\ updAt = "prompt"
  /\ updAt' \in {"fork", "done"}
  /\ UNCHANGED <<current, latest, available, childVars, message>>

Fork ==
  /\ updAt = "fork"
  /\ \/ child' = "running" /\ updAt' = "poll" /\ UNCHANGED message
     \/ updAt' = "done" /\ message' = "no child" /\ UNCHANGED child
  /\ UNCHANGED <<current, latest, available, polls, signalled, reaped, childIgnored>>

\* git ends by itself, or by the signal.
ChildEnds ==
  /\ child = "running"
  /\ child' \in IF signalled THEN {"bad"} ELSE {"ok", "bad"}
  /\ UNCHANGED <<updAt, current, latest, available, polls, signalled, reaped, childIgnored,
                 message>>

\* What waitpid says of a child that has ended: with SIGCHLD ignored there is
\* no such child any more, and the status stays 0.
Reap == reaped' = IF childIgnored THEN "error" ELSE "status"

\* The message once waitpid has returned: WIFEXITED and WEXITSTATUS of status.
Tell == IF reaped' = "error" \/ child = "ok" THEN "updated" ELSE "failed"

\* waitpid with WNOHANG, and a second's sleep.
Poll ==
  /\ updAt = "poll"
  /\ IF child = "running"
     THEN /\ polls' = polls + 1
          /\ updAt' = IF polls' = MaxPolls THEN "kill" ELSE "poll"
          /\ UNCHANGED <<reaped, message>>
     ELSE /\ Reap
          /\ message' = Tell
          /\ updAt' = "done"
          /\ UNCHANGED polls
  /\ UNCHANGED <<current, latest, available, child, signalled, childIgnored>>

\* Mutant: the child is not signalled.
MutantTerminated ==
  /\ updAt = "kill"
  /\ updAt' = "wait"
  /\ UNCHANGED <<current, latest, available, childVars, message>>

\* The last second is over: SIGTERM, too late for a child that has just ended,
Terminated ==
  /\ updAt = "kill"
  /\ signalled' = TRUE
  /\ updAt' = "wait"
  /\ UNCHANGED <<current, latest, available, polls, child, reaped, childIgnored, message>>

\* and a waitpid that blocks.
WaitForChild ==
  /\ updAt = "wait"
  /\ child # "running"
  /\ Reap
  /\ message' = "timeout"
  /\ updAt' = "done"
  /\ UNCHANGED <<current, latest, available, polls, child, signalled, childIgnored>>

UpdRest == updAt = "done" /\ UNCHANGED updVars

UpdNext ==
  \/ AskReleases \/ AskTags \/ Answer \/ Fork \/ Poll \/ Terminated \/ WaitForChild
  \/ ChildEnds
  \/ UpdRest

-----------------------------------------------------------------------------
(* Properties.                                                             *)

\* A version as one number, its parts the digits (three of them).
Value(v) == (Part(v, 1) * PartBound + Part(v, 2)) * PartBound + Part(v, 3)

(***************************************************************************)
(* An update is offered exactly when the latest version is greater than    *)
(* the program's as a number, whatever their lengths; and the user is told *)
(* that it succeeded only if git did, failed only if git did, unless the   *)
(* program was started with SIGCHLD ignored (compare_versions,             *)
(* prompt_update).                                                         *)
(***************************************************************************)
UpdateHonest ==
  /\ latest # <<>> => (available <=> Value(latest) > Value(current))
  /\ message = "updated" => child = "ok" \/ childIgnored
  /\ message = "failed" => child = "bad"

(***************************************************************************)
(* Once git was started the program goes on, however long git takes: it is *)
(* waited for, at most MaxPolls times, then ended, and no child is left.   *)
(***************************************************************************)
UpdateReturns == updAt = "poll" ~> updAt = "done" /\ child # "running"

=============================================================================
