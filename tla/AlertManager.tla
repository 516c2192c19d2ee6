---------------------------- MODULE AlertManager ----------------------------
(***************************************************************************)
(* alert::AlertManager (src/alert/alert_manager.cpp).  process_event runs  *)
(* on the polling thread of whichever monitor emitted the event, on many   *)
(* threads at once.  It copies the rules, and for every enabled rule that  *)
(* matches it counts the event, checks the threshold, checks the cooldown  *)
(* and triggers the alert: four critical sections of the same mutex, with  *)
(* other threads, rule changes and time in between.                        *)
(*                                                                         *)
(* A rule's threshold, window and cooldown belong to its name here; which  *)
(* thread's events a rule's categories, types, patterns and condition      *)
(* match is the relation Match: monitors differ in what they emit.         *)
(***************************************************************************)
EXTENDS Integers, Sequences, FiniteSets

CONSTANTS
  Thread,      \* the polling threads
  Rule,        \* names of rules
  Default,     \* the rules the engine adds before it starts any monitor
  Match,       \* <<t, r>>: rule r matches the events of thread t
  Threshold,   \* threshold_count
  Window,      \* threshold_window_ms, in clock ticks
  Cooldown,    \* cooldown_ms, in clock ticks
  MaxAlerts,   \* kMaxAlerts
  MaxTime,     \* bound: last clock tick
  MaxEvents,   \* bound: events processed
  MaxChanges   \* bound: calls that change rules or alerts

ASSUME AlertAssumption ==
  /\ IsFiniteSet(Thread)
  /\ Match \subseteq Thread \X Rule
  /\ Default \in Seq(Rule)
  /\ \A i, j \in DOMAIN Default : i # j => Default[i] # Default[j]
  /\ Threshold \in Nat
  /\ Window \in Nat
  /\ Cooldown \in Nat
  /\ MaxAlerts \in Nat \ {0}
  /\ {MaxTime, MaxEvents, MaxChanges} \subseteq Nat

VARIABLES
  clock,         \* now()
  rules,         \* rules_: the names, in order
  disabled,      \* names of the rules whose enabled flag is off
  ruleEvents,    \* rule_events_: per rule, which of the timestamps in matched
                 \* the vector holds ({} also when absent)
  lastTriggered, \* last_triggered_ (Never when absent)
  alerts,        \* alerts_
  nextId,        \* next_alert_id_
  local,         \* the local variables of process_event, per thread
  matched,       \* history: <<rule, timestamp>> of every event counted
  fired,         \* history: per rule, its alerts since it was last removed
  delivered,     \* history: the alert ids handed to the callbacks
  events,        \* how many events were processed
  changes        \* how many calls changed rules or alerts

ruleVars == <<rules, disabled>>
trackVars == <<ruleEvents, lastTriggered>>
alertVars == <<alerts, nextId>>
histVars == <<matched, fired, delivered>>
boundVars == <<clock, events, changes>>
vars == <<ruleVars, trackVars, alertVars, local, histVars, boundVars>>

Never == -1
Time == 0..MaxTime

Stage == {"idle", "rule", "threshold", "cooldown", "stamp", "store", "callbacks"}

\* at: the stage; todo: the copied rules not handled yet; ev: the event's
\* timestamp; chk: when its threshold was checked; al, id: of its alert.
Local == [at : Stage, todo : Seq([name : Rule, on : BOOLEAN]), ev : Time,
          chk : Time, al : Time, id : Nat]

NoLocal == [at |-> "idle", todo |-> <<>>, ev |-> 0, chk |-> 0, al |-> 0, id |-> 0]

TypeOK ==
  /\ clock \in Time
  /\ rules \in Seq(Rule)
  /\ disabled \in SUBSET Rule
  /\ ruleEvents \in [Rule -> SUBSET DOMAIN matched]
  /\ lastTriggered \in [Rule -> Time \union {Never}]
  /\ alerts \in Seq([id : Nat \ {0}, rule : Rule, time : Time, ack : BOOLEAN])
  /\ nextId \in Nat \ {0}
  /\ local \in [Thread -> Local]
  /\ matched \in Seq(Rule \X Time)
  /\ fired \in [Rule -> Seq([time : Time, chk : Time])]
  /\ delivered \in Seq(Nat)
  /\ events \in 0..MaxEvents
  /\ changes \in 0..MaxChanges

\* As initialize_subsystems_ leaves it: with the default rules, or without
\* any when alert.enabled is off.
Init ==
  /\ clock = 0
  /\ rules \in {<<>>, Default}
  /\ disabled = {}
  /\ ruleEvents = [r \in Rule |-> {}]
  /\ lastTriggered = [r \in Rule |-> Never]
  /\ alerts = <<>>
  /\ nextId = 1
  /\ local = [t \in Thread |-> NoLocal]
  /\ matched = <<>>
  /\ fired = [r \in Rule |-> <<>>]
  /\ delivered = <<>>
  /\ events = 0
  /\ changes = 0

Tick ==
  /\ clock < MaxTime
  /\ clock' = clock + 1
  /\ UNCHANGED <<ruleVars, trackVars, alertVars, local, histVars, events, changes>>

-----------------------------------------------------------------------------
(* Rule and alert management, by any other thread.                         *)

Known == {rules[i] : i \in DOMAIN rules}

Change ==
  /\ changes < MaxChanges
  /\ changes' = changes + 1
  /\ UNCHANGED <<clock, events>>

\* add_rule(): appended, or it replaces the rule of the same name in place.
\* Either way the stored rule is an enabled one; its counters are kept.
AddRule(r) ==
  /\ Change
  /\ rules' = IF r \in Known THEN rules ELSE Append(rules, r)
  /\ disabled' = disabled \ {r}
  /\ UNCHANGED <<trackVars, alertVars, local, histVars>>

\* The rule r taken out of rules_, where no name occurs twice (add_rule).
Without(r) ==
  IF r \in Known
  THEN LET i == CHOOSE i \in DOMAIN rules : rules[i] = r
       IN  SubSeq(rules, 1, i - 1) \o SubSeq(rules, i + 1, Len(rules))
  ELSE rules

\* remove_rule(): the rule and its counters go.
RemoveRule(r) ==
  /\ Change
  /\ rules' = Without(r)
  /\ disabled' = disabled \ {r}
  /\ ruleEvents' = [ruleEvents EXCEPT ![r] = {}]
  /\ lastTriggered' = [lastTriggered EXCEPT ![r] = Never]
  /\ fired' = [fired EXCEPT ![r] = <<>>]
  /\ UNCHANGED <<alertVars, local, matched, delivered>>

EnableRule(r, on) ==
  /\ Change
  /\ r \in Known
  /\ disabled' = IF on THEN disabled \ {r} ELSE disabled \union {r}
  /\ UNCHANGED <<rules, trackVars, alertVars, local, histVars>>

ClearRules ==
  /\ Change
  /\ rules' = <<>>
  /\ disabled' = {}
  /\ ruleEvents' = [r \in Rule |-> {}]
  /\ lastTriggered' = [r \in Rule |-> Never]
  /\ fired' = [r \in Rule |-> <<>>]
  /\ UNCHANGED <<alertVars, local, matched, delivered>>

AcknowledgeAlert(i) ==
  /\ Change
  /\ i \in DOMAIN alerts
  /\ alerts' = [alerts EXCEPT ![i].ack = TRUE]
  /\ UNCHANGED <<ruleVars, trackVars, nextId, local, histVars>>

ClearAlerts ==
  /\ Change
  /\ alerts' = <<>>
  /\ UNCHANGED <<ruleVars, trackVars, nextId, local, histVars>>

Manage ==
  \/ \E r \in Rule : AddRule(r) \/ RemoveRule(r)
  \/ \E r \in Rule, on \in BOOLEAN : EnableRule(r, on)
  \/ ClearRules
  \/ \E i \in DOMAIN alerts : AcknowledgeAlert(i)
  \/ ClearAlerts

-----------------------------------------------------------------------------
(* process_event on thread t.                                              *)

At(t, stage) == local[t].at = stage

\* The rule thread t is handling.
This(t) == Head(local[t].todo).name

\* Thread t goes on to a later stage for this rule, or to the next rule.
GoTo(t, stage) == local' = [local EXCEPT ![t].at = stage]
NextRule(t) == local' = [local EXCEPT ![t].at = "rule", ![t].todo = Tail(@)]

\* An event with the current timestamp; rules_copy = rules_.
Begin(t) ==
  /\ At(t, "idle")
  /\ events < MaxEvents
  /\ events' = events + 1
  /\ local' = [local EXCEPT ![t] = [NoLocal EXCEPT
       !.at = "rule", !.ev = clock,
       !.todo = [i \in DOMAIN rules |->
                   [name |-> rules[i], on |-> rules[i] \notin disabled]]]]
  /\ UNCHANGED <<clock, changes, ruleVars, trackVars, alertVars, histVars>>

\* The rule at hand matches the events of thread t.
matches_rule(t) == <<t, This(t)>> \in Match

\* A rule that is off or does not match.
Skip(t) ==
  /\ At(t, "rule")
  /\ local[t].todo # <<>>
  /\ ~Head(local[t].todo).on \/ ~matches_rule(t)
  /\ NextRule(t)
  /\ UNCHANGED <<boundVars, ruleVars, trackVars, alertVars, histVars>>

\* rule_events_[rule.name].push_back(event.timestamp)
Count(t) ==
  /\ At(t, "rule")
  /\ local[t].todo # <<>>
  /\ Head(local[t].todo).on /\ matches_rule(t)
  /\ ruleEvents' = [ruleEvents EXCEPT ![This(t)] = @ \union {Len(matched) + 1}]
  /\ matched' = Append(matched, <<This(t), local[t].ev>>)
  /\ GoTo(t, "threshold")
  /\ UNCHANGED <<boundVars, ruleVars, lastTriggered, alertVars, fired, delivered>>

\* (The Mutant definitions are deliberately wrong variants of the definition
\* that follows them; the README says what they are for.)
MutantRecent(r) == ruleEvents[r]

\* The events of rule r that are not older than its window.
Recent(r) == {j \in ruleEvents[r] : matched[j][2] >= clock - Window}

\* Prune, and compare with the threshold.
CheckThreshold(t) ==
  /\ At(t, "threshold")
  /\ ruleEvents' = [ruleEvents EXCEPT ![This(t)] = Recent(This(t))]
  /\ IF Cardinality(Recent(This(t))) >= Threshold
     THEN local' = [local EXCEPT ![t].at = "cooldown", ![t].chk = clock]
     ELSE NextRule(t)
  /\ UNCHANGED <<boundVars, ruleVars, lastTriggered, alertVars, histVars>>

MutantIsInCooldown(r) ==
  /\ lastTriggered[r] # Never
  /\ r \in Known
  /\ clock - lastTriggered[r] < Cooldown - 1

\* is_in_cooldown(): never for a rule that was removed meanwhile.
IsInCooldown(r) ==
  /\ lastTriggered[r] # Never
  /\ r \in Known
  /\ clock - lastTriggered[r] < Cooldown

CheckCooldown(t) ==
  /\ At(t, "cooldown")
  /\ IF IsInCooldown(This(t)) THEN NextRule(t) ELSE GoTo(t, "stamp")
  /\ UNCHANGED <<boundVars, ruleVars, trackVars, alertVars, histVars>>

\* trigger_alert(): the alert takes its timestamp before the lock.
StampAlert(t) ==
  /\ At(t, "stamp")
  /\ local' = [local EXCEPT ![t].at = "store", ![t].al = clock]
  /\ UNCHANGED <<boundVars, ruleVars, trackVars, alertVars, histVars>>

\* The last MaxAlerts alerts.
Cap(s) == IF Len(s) > MaxAlerts THEN SubSeq(s, Len(s) - MaxAlerts + 1, Len(s)) ELSE s

\* The alert of thread t goes into alerts_ under the number id.
Store(t, id) ==
  /\ At(t, "store")
  /\ alerts' = Cap(Append(alerts, [id |-> id, rule |-> This(t),
                                   time |-> local[t].al, ack |-> FALSE]))
  /\ nextId' = nextId + 1
  /\ lastTriggered' = [lastTriggered EXCEPT ![This(t)] = local[t].al]
  /\ fired' = [fired EXCEPT ![This(t)] =
                  Append(@, [time |-> local[t].al, chk |-> local[t].chk])]
  /\ UNCHANGED <<boundVars, ruleVars, ruleEvents, matched, delivered>>

MutantUnnumberedCopy(t) ==
  /\ Store(t, nextId)
  /\ local' = [local EXCEPT ![t].at = "callbacks"]

\* ... and under the lock its id, its place in alerts_ and the cooldown.
StoreAlert(t) ==
  /\ Store(t, nextId)
  /\ local' = [local EXCEPT ![t].at = "callbacks", ![t].id = nextId]

\* ... and without it the callbacks.
RunCallbacks(t) ==
  /\ At(t, "callbacks")
  /\ delivered' = Append(delivered, local[t].id)
  /\ NextRule(t)
  /\ UNCHANGED <<boundVars, ruleVars, trackVars, alertVars, matched, fired>>

Return(t) ==
  /\ At(t, "rule")
  /\ local[t].todo = <<>>
  /\ local' = [local EXCEPT ![t] = NoLocal]
  /\ UNCHANGED <<boundVars, ruleVars, trackVars, alertVars, histVars>>

ProcessEvent(t) ==
  \/ Begin(t) \/ Skip(t) \/ Count(t) \/ CheckThreshold(t) \/ CheckCooldown(t)
  \/ StampAlert(t) \/ StoreAlert(t) \/ RunCallbacks(t) \/ Return(t)

\* No event is being processed; none may ever come.
Quiet ==
  /\ \A t \in Thread : At(t, "idle")
  /\ UNCHANGED vars

Next ==
  \/ Tick
  \/ Manage
  \/ \E t \in Thread : ProcessEvent(t)
  \/ Quiet

Spec == Init /\ [][Next]_vars

-----------------------------------------------------------------------------
(* Properties.                                                             *)

(***************************************************************************)
(* No false alarm: when an alert fires, at least threshold_count events    *)
(* that match its rule lie in the window that ended when the threshold was *)
(* checked, whichever threads counted them and whatever was pruned or      *)
(* removed meanwhile (process_event).                                      *)
(***************************************************************************)
ThresholdJustified ==
  \A r \in Rule : \A i \in DOMAIN fired[r] :
    Cardinality({j \in DOMAIN matched :
                   /\ matched[j][1] = r
                   /\ matched[j][2] \in fired[r][i].chk - Window .. fired[r][i].chk})
      >= Threshold

\* Two alerts of rule r that are closer than its cooldown.
TooClose(r) ==
  \E i, j \in DOMAIN fired[r] :
    i < j /\ fired[r][j].time - fired[r][i].time < Cooldown

(***************************************************************************)
(* A rule whose events all come from one monitor respects its cooldown: as *)
(* long as it is not removed, its alerts are at least cooldown_ms apart    *)
(* (is_in_cooldown, trigger_alert).                                        *)
(***************************************************************************)
SoleSourceCooldown ==
  \A r \in Rule :
    Cardinality({t \in Thread : <<t, r>> \in Match}) = 1 => ~TooClose(r)

(***************************************************************************)
(* The same for every rule (README.md:61, "Configurable cooldown periods   *)
(* to prevent alert spam").  The check and the trigger are separate        *)
(* critical sections, so two threads can both pass the check.              *)
(***************************************************************************)
CooldownPreventsSpam == \A r \in Rule : ~TooClose(r)

(***************************************************************************)
(* The callbacks get every alert exactly once and under the id it is       *)
(* stored with: when no thread is inside process_event, the delivered ids  *)
(* are a permutation of the ids handed out (trigger_alert).                *)
(***************************************************************************)
EveryAlertDeliveredOnce ==
  /\ \A i, j \in DOMAIN delivered : i # j => delivered[i] # delivered[j]
  /\ \A i \in DOMAIN delivered : delivered[i] \in 1..nextId - 1
  /\ (\A t \in Thread : At(t, "idle")) => Len(delivered) = nextId - 1

\* The numbers of the alerts that are acknowledged.
Acked == {alerts[i].id : i \in {j \in DOMAIN alerts : alerts[j].ack}}

(***************************************************************************)
(* alerts_ implements the abstract list, however many threads raise alerts *)
(* and whenever others acknowledge or clear them: it is always the latest  *)
(* numbers handed out, in order and without a gap (trigger_alert,          *)
(* acknowledge_alert, clear_alerts).                                       *)
(***************************************************************************)
List == INSTANCE AlertList WITH
  Max <- MaxAlerts, first <- nextId - Len(alerts), next <- nextId, acked <- Acked
ImplementsList == List!Spec

=============================================================================
