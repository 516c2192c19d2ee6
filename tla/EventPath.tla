----------------------------- MODULE EventPath -----------------------------
(***************************************************************************)
(* The way of an event through filter, alerts, audit and webhooks, on the  *)
(* thread of the monitor that emitted it (route_event and the callbacks    *)
(* that initialize_subsystems_ connects).  Composes EventFilter,           *)
(* SecurityAuditor and WebhookNotifier.  How many alerts an event raises   *)
(* is left open here (module AlertManager); storage, reporter and the      *)
(* engine's listeners come after the audit (module MonitorEngine).         *)
(***************************************************************************)
EXTENDS EventFilter, SecurityAuditor

CONSTANTS
  Inputs,       \* per monitor's thread, the events it may emit
  Alerting,     \* those that may raise alerts
  MaxAlerts,    \* bound: the alert rules that fire on one event
  FirstRules,   \* the filter's rules at first, a sequence
  FilterRules,  \* the rules that may be added to the filter
  MaxInputs,    \* bound: events emitted
  MaxChanges    \* bound: changes made to the configuration of the components

\* The first rules were added one by one.
ASSUME FilterAssumption ==
  /\ FilterRules \subseteq FilterRule
  /\ FirstRules \in Seq(FilterRule) /\ InOrder(FirstRules)
  /\ \A i, j \in DOMAIN FirstRules : FirstRules[i].name = FirstRules[j].name => i = j

VARIABLES
  judged,       \* per thread: the event at the filter, what came of it, and
                \* the rules it met
  todo,         \* per thread: the alert and security events yet to be raised
  emitted,      \* history: number of events emitted
  changes       \* history: number of changes to the configuration

vars == <<filterVars, auditVars, hookVars, judged, todo, emitted, changes>>

NotJudged == [verdict |-> "none"]

Init ==
  /\ FilterInit(FirstRules) /\ AuditorInit /\ NotifierInit
  /\ judged = [t \in Threads |-> NotJudged]
  /\ todo = [t \in Threads |-> <<>>]
  /\ emitted = 0 /\ changes = 0

-----------------------------------------------------------------------------
Idle(t) == judged[t] = NotJudged /\ todo[t] = <<>> /\ call[t] = NoCall

\* route_event begins with the filter.
Emit(t, e) ==
  /\ Idle(t)
  /\ emitted < MaxInputs
  /\ emitted' = emitted + 1
  /\ process(e)
  /\ judged' = [judged EXCEPT ![t] = [verdict |-> Walk(e).verdict, given |-> e,
                                      event |-> Walk(e).event, met |-> ToSet(rules)]]
  /\ UNCHANGED <<auditVars, hookVars, todo, changes>>

\* route_event returns for an event that was denied and goes on, with the event
\* as modified, to the alerts and the audit otherwise.
Judge(t) ==
  /\ judged[t] # NotJudged
  /\ judged' = [judged EXCEPT ![t] = NotJudged]
  /\ \/ judged[t].verdict = "Deny" /\ UNCHANGED todo
     \/ /\ judged[t].verdict = "Allow"
        /\ \E n \in 0..MaxAlerts :
             /\ n > 0 => judged[t].given \in Alerting
             /\ todo' = [todo EXCEPT ![t] =
                           [i \in 1..n |-> "alert"] \o process_event(judged[t].event)]
  /\ UNCHANGED <<filterVars, auditVars, hookVars, emitted, changes>>

\* The next alert or security event, up to its callback into the notifier.
Raise(t) ==
  /\ todo[t] # <<>> /\ call[t] = NoCall
  /\ \/ Head(todo[t]) = "alert" /\ Called(t, "alert") /\ UNCHANGED auditVars
     \/ \E type \in SecurityEventType :
          Head(todo[t]) = type /\ Called(t, type) /\ report_security_event(type)
  /\ UNCHANGED <<filterVars, judged, todo, emitted, changes>>

Send(t) ==
  /\ CopyList(t) \/ Find(t) \/ Post(t) \/ Succeed(t) \/ Fail(t)
  /\ UNCHANGED <<filterVars, auditVars, judged, todo, emitted, changes>>

\* The callback returns.
Returned(t) ==
  /\ AllSent(t)
  /\ call' = [call EXCEPT ![t] = NoCall]
  /\ todo' = [todo EXCEPT ![t] = Tail(@)]
  /\ UNCHANGED <<filterVars, auditVars, judged, emitted, changes,
                 webhooks, results, totals, posts, edited>>

Route(t) == Judge(t) \/ Raise(t) \/ Send(t) \/ Returned(t)

EditFilter ==
  /\ \/ \E r \in FilterRules : \/ AddFilterRule(r) \/ RemoveFilterRule(r.name)
                               \/ \E on \in BOOLEAN : EnableFilterRule(r.name, on)
     \/ ClearFilterRules
     \/ reset_stats
  /\ UNCHANGED <<auditVars, hookVars>>

EditAuditor ==
  /\ \/ \E r \in Rule : \E d \in Definitions[r] : AddAuditRule(r, d)
     \/ \E r \in DOMAIN auditRules : \/ RemoveAuditRule(r)
                                     \/ \E on \in BOOLEAN : EnableAuditRule(r, on)
     \/ clear_rules
  /\ UNCHANGED <<filterVars, hookVars>>

EditWebhooks ==
  /\ \/ \E h \in Hook : \/ add_webhook(h) \/ remove_webhook(h)
                                \/ \E on \in BOOLEAN : enable_webhook(h, on)
     \/ clear_webhooks
  /\ UNCHANGED <<filterVars, auditVars>>

\* The components' public operations, called from any other thread; calls that
\* change nothing are left out.
Manage ==
  /\ changes < MaxChanges
  /\ changes' = changes + 1
  /\ EditFilter \/ EditAuditor \/ EditWebhooks
  /\ <<filterVars, auditRules, webhooks>>' # <<filterVars, auditRules, webhooks>>
  /\ UNCHANGED <<judged, todo, emitted>>

TimePasses ==
  /\ AdvanceClock
  /\ UNCHANGED <<filterVars, hookVars, judged, todo, emitted, changes>>

\* Every event of the bounded model has been handled.
Rest ==
  /\ emitted = MaxInputs /\ \A t \in Threads : Idle(t)
  /\ UNCHANGED vars

Next ==
  \/ \E t \in Threads : Route(t) \/ \E e \in Inputs[t] : Emit(t, e)
  \/ Manage
  \/ TimePasses
  \/ Rest

\* A thread that is routing an event goes on: the locks are held for bounded
\* times, http_post has a time-out and the sleep between attempts ends.
Spec == Init /\ [][Next]_vars /\ \A t \in Threads : WF_vars(Route(t))

-----------------------------------------------------------------------------
(* Properties.                                                             *)

\* An event that no Modify rule touches meets the fate that a matching rule of
\* the highest priority gives it, among the rules that were there when it came,
\* whatever was added, replaced or removed before; an event that no rule matches
\* passes (add_rule's sort, process's walk).
HighestPriorityWins ==
  \A t \in Threads : judged[t] # NotJudged =>
    LET match == {r \in judged[t].met : r.enabled /\ matches_rule(r, judged[t].given)}
        top == {r \in match : \A q \in match : q.priority <= r.priority}
    IN  (\A r \in match : r.action # "Modify") =>
          judged[t].verdict \in IF match = {} THEN {"Allow"} ELSE {r.action : r \in top}

\* The security events, of all those given, that a firing f under the name r
\* rests on: each matched the rule of that name that was there when it came.
Grounds(all, r, f) ==
  {j \in 1..f.after : /\ r \in Matching(all[j].met, all[j].type)
                      /\ f.time - all[j].time < f.by.window}

\* A rule fires only on as many security events within its window as its
\* threshold asks for, and not before its cooldown since the last firing under
\* its name is over, however the threads interleave and the rules are added,
\* replaced, switched and removed.  Window, threshold and cooldown are those of
\* the definition that fires; each event was one of the types of the rule that
\* had the name when it came, which after a replacement need not be those of
\* the rule that fires (add_rule keeps what is remembered for the name;
\* check_rules under the lock).
FiringsJustified ==
  \A r \in Rule :
    /\ \A i \in DOMAIN fired[r] :
         Cardinality(Grounds(reported, r, fired[r][i])) >= fired[r][i].by.count
    /\ \A i \in 2..Len(fired[r]) :
         fired[r][i].time - fired[r][i - 1].time >= fired[r][i].by.cooldown

\* The webhook has accepted the payload or refused it retry_count times.
Settled(tries) ==
  Len(tries) = RetryCount \/ (tries # <<>> /\ tries[Len(tries)] = "success")

\* The posts made, and the threads that are yet to record the outcome of one.
MadeFor(ps, p) == UNION {{<<p, h, i>> : i \in DOMAIN ps[p][h]} : h \in Hook}
Made(ps) == UNION {MadeFor(ps, p) : p \in DOMAIN ps}
Accepted(ps) == {m \in Made(ps) : ps[m[1]][m[2]][m[3]] = "success"}
Recording(outcome) == {t \in Threads : call[t].at = outcome}

\* Once a webhook has accepted a payload it is not sent it again, and it is
\* tried at most retry_count times; when the callback returns, every webhook
\* that was left alone and wants the payload has accepted it or refused it
\* retry_count times, whatever the others did; and the totals are those of the
\* posts made (on_alert's and on_security_event's loop, send_webhook).
DeliveryDiscipline ==
  /\ \A p \in DOMAIN posts, h \in Hook :
       /\ Len(posts[p][h]) <= RetryCount
       /\ \A i \in 1..Len(posts[p][h]) - 1 : posts[p][h][i] = "failure"
  /\ \A t \in Threads : AllSent(t) =>
       \A h \in Hook \ edited :
         Wants(h, call[t].kind) => Settled(posts[call[t].payload][h])
  /\ totals.success + Cardinality(Recording("success")) = Cardinality(Accepted(posts))
  /\ totals.sent + Cardinality(Recording("success")) + Cardinality(Recording("failure"))
       = Cardinality(Made(posts))

\* A monitor's thread always comes back from routing an event, even if every
\* webhook fails and the components are being reconfigured.
PathReturns == \A t \in Threads : []<>Idle(t)
=============================================================================
