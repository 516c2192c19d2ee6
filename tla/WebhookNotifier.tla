-------------------------- MODULE WebhookNotifier --------------------------
(***************************************************************************)
(* webhook/webhook_notifier.cpp: alerts and security events are posted to  *)
(* the configured endpoints by the monitor thread that raised them.  The   *)
(* list of webhooks is copied under the lock; each interested one is       *)
(* looked up again, and the payload is posted up to retry_count times      *)
(* without the lock, each outcome being recorded under it.                 *)
(*                                                                         *)
(* A payload is a number of its own and the kind of what it tells of.      *)
(* Serialisation, signature and the numbering of results are left out.     *)
(***************************************************************************)
EXTENDS Integers, SequencesExt, FiniteSets

CONSTANTS
  Threads,      \* the monitors' polling threads
  Hooks,        \* the webhooks configured at first, a sequence of names
  Interest,     \* the kinds of payload each webhook asks for; {} means all
  RetryCount,   \* retry_count
  MaxResults    \* the length of results_ (1000 in the code)

Hook == {Hooks[i] : i \in DOMAIN Hooks}

ASSUME NotifierAssumption ==
  /\ IsFiniteSet(Threads)
  /\ Hooks \in Seq(Hook)
  /\ \A i, j \in DOMAIN Hooks : i # j => Hooks[i] # Hooks[j]
  /\ RetryCount \in Nat
  /\ MaxResults \in Nat

VARIABLES
  webhooks,     \* webhooks_: a sequence of [name, enabled]
  results,      \* results_: a sequence of [hook, success]
  totals,       \* total_sent_, total_success_, total_failed_
  call,         \* per thread: the state of on_alert or on_security_event
  posts,        \* history: per payload so far and webhook, the outcomes of its posts
  edited        \* history: the webhooks changed so far

hookVars == <<webhooks, results, totals, call, posts, edited>>

\* The state of a call: where it is, the payload's number and kind, the rest of
\* the copied list, and the attempt that is being made for its first webhook.
Call(at, payload, kind, queue, attempt) ==
  [at |-> at, payload |-> payload, kind |-> kind, queue |-> queue, attempt |-> attempt]

NoCall == Call("none", 0, "none", <<>>, 0)

NotifierInit ==
  /\ webhooks = [i \in DOMAIN Hooks |-> [name |-> Hooks[i], enabled |-> TRUE]]
  /\ results = <<>>
  /\ totals = [sent |-> 0, success |-> 0, failed |-> 0]
  /\ call = [t \in Threads |-> NoCall]
  /\ posts = <<>>
  /\ edited = {}

-----------------------------------------------------------------------------
(* Configuration, each operation under the lock.                           *)

Edits(hs) ==
  /\ edited' = edited \cup hs
  /\ UNCHANGED <<results, totals, call, posts>>

\* webhooks_ without the one called h; no name occurs twice (add_webhook).
Without(h) ==
  IF \E i \in DOMAIN webhooks : webhooks[i].name = h
  THEN LET i == CHOOSE i \in DOMAIN webhooks : webhooks[i].name = h
       IN  SubSeq(webhooks, 1, i - 1) \o SubSeq(webhooks, i + 1, Len(webhooks))
  ELSE webhooks

add_webhook(h) ==
  /\ webhooks' = Append(Without(h), [name |-> h, enabled |-> TRUE])
  /\ Edits({h})

remove_webhook(h) ==
  /\ webhooks' = Without(h)
  /\ Edits({h})

enable_webhook(h, on) ==
  /\ webhooks' = [i \in DOMAIN webhooks |->
                    IF webhooks[i].name = h THEN [webhooks[i] EXCEPT !.enabled = on]
                    ELSE webhooks[i]]
  /\ Edits({h})

clear_webhooks ==
  /\ webhooks' = <<>>
  /\ Edits(Hook)

-----------------------------------------------------------------------------
(* Sending, on thread t.                                                   *)

\* should_send_alert and should_send_security_event.
Wants(h, kind) == Interest[h] = {} \/ kind \in Interest[h]

\* on_alert or on_security_event is called with a new payload.
Called(t, kind) ==
  /\ posts' = Append(posts, [h \in Hook |-> <<>>])
  /\ call' = [call EXCEPT ![t] = Call("copy", Len(posts) + 1, kind, <<>>, 0)]
  /\ UNCHANGED <<webhooks, results, totals, edited>>

\* Thread t goes on at another place of its call, with the rest of the list.
Goes(t, at, queue, attempt) ==
  call' = [call EXCEPT ![t] = Call(at, call[t].payload, call[t].kind, queue, attempt)]

\* The list is copied under the lock.
CopyList(t) ==
  /\ call[t].at = "copy"
  /\ Goes(t, "find", webhooks, 0)
  /\ UNCHANGED <<webhooks, results, totals, posts, edited>>

\* The webhook of the copy whose turn it is, and its list without it.
Turn(t) == Head(call[t].queue)
MovesOn(t) == Goes(t, "find", Tail(call[t].queue), 0)

\* (The Mutant definitions are deliberately wrong variants of the definition
\* that follows them; the README says what they are for.)
\* Mutant: a webhook that is gone or disabled is waited for.
MutantFind(t) ==
  /\ call[t].at = "find"
  /\ call[t].queue # <<>>
  /\ \E i \in DOMAIN webhooks : webhooks[i].name = Turn(t).name /\ webhooks[i].enabled
  /\ Goes(t, "post", call[t].queue, 0)
  /\ UNCHANGED <<webhooks, results, totals, posts, edited>>

\* A webhook that was enabled when the list was copied and wants the payload is
\* sent to: send_webhook looks it up again, as it may be gone or disabled by now.
Find(t) ==
  /\ call[t].at = "find"
  /\ call[t].queue # <<>>
  /\ IF /\ Turn(t).enabled /\ Wants(Turn(t).name, call[t].kind)
        /\ \E i \in DOMAIN webhooks : webhooks[i].name = Turn(t).name /\ webhooks[i].enabled
        /\ RetryCount > 0
     THEN Goes(t, "post", call[t].queue, 0)
     ELSE MovesOn(t)
  /\ UNCHANGED <<webhooks, results, totals, posts, edited>>

\* http_post, without the lock: it succeeds or, at the latest after the
\* time-out, fails.
Post(t) ==
  /\ call[t].at = "post"
  /\ \E outcome \in {"success", "failure"} :
       /\ posts' = [posts EXCEPT ![call[t].payload][Turn(t).name] = Append(@, outcome)]
       /\ Goes(t, outcome, call[t].queue, call[t].attempt)
  /\ UNCHANGED <<webhooks, results, totals, edited>>

Latest(s, n) == SubSeq(s, IF Len(s) > n THEN Len(s) - n + 1 ELSE 1, Len(s))

\* Under the lock: the latest results are kept and the totals brought up to date.
Recorded(t, ok) ==
  /\ results' = Latest(Append(results, [hook |-> Turn(t).name, success |-> ok]), MaxResults)
  /\ totals' = [sent |-> totals.sent + 1,
                success |-> totals.success + (IF ok THEN 1 ELSE 0),
                failed |-> totals.failed + (IF ok THEN 0 ELSE 1)]
  /\ UNCHANGED <<webhooks, posts, edited>>

\* After a success the loop over the attempts ends ...
Succeed(t) ==
  /\ call[t].at = "success"
  /\ Recorded(t, TRUE)
  /\ MovesOn(t)

\* Mutant: a webhook that fails ends the loop over the webhooks.
MutantGiveUp(t) ==
  /\ call[t].at = "failure"
  /\ Recorded(t, FALSE)
  /\ IF call[t].attempt + 1 < RetryCount
     THEN Goes(t, "post", call[t].queue, call[t].attempt + 1)
     ELSE Goes(t, "find", <<>>, 0)

\* ... and after a failure the thread sleeps and tries again, if attempts are
\* left.
Fail(t) ==
  /\ call[t].at = "failure"
  /\ Recorded(t, FALSE)
  /\ IF call[t].attempt + 1 < RetryCount
     THEN Goes(t, "post", call[t].queue, call[t].attempt + 1)
     ELSE MovesOn(t)

\* on_alert or on_security_event is about to return.
AllSent(t) == call[t].at = "find" /\ call[t].queue = <<>>
=============================================================================
