-------------------------- MODULE SecurityAuditor --------------------------
(***************************************************************************)
(* security/security_auditor.cpp: an event's category decides what it is   *)
(* examined for; every finding is a security event, which is numbered,     *)
(* kept, and held against the rules under one lock, and then passed to the *)
(* listeners (module WebhookNotifier) without it.                          *)
(*                                                                         *)
(* Which paths, names and ports count as suspicious is abstracted to marks *)
(* of the event.  rules_ is kept as a function of the names it holds:      *)
(* check_rules treats each rule by itself, so their order does not matter. *)
(* What is remembered for a name outlives the rule that had it.            *)
(***************************************************************************)
EXTENDS WebhookNotifier

CONSTANTS
  RuleTable,    \* the constructor's rules: their definitions by name
  Definitions,  \* per name, the definitions that add_rule may give it:
                \* event_types, threshold_count, threshold_window_ms,
                \* cooldown_ms and enabled
  MaxEvents,    \* the length of events_ (1000 in the code)
  MaxTime       \* bound: the clock

Rule == DOMAIN Definitions

Definition ==
  [types : SUBSET STRING, count : Nat, window : Nat, cooldown : Nat, enabled : BOOLEAN]

ASSUME AuditorAssumption ==
  /\ \A r \in Rule : Definitions[r] \subseteq Definition
  /\ DOMAIN RuleTable \subseteq Rule
  /\ RuleTable \in [DOMAIN RuleTable -> Definition]
  /\ MaxEvents \in Nat
  /\ MaxTime \in Nat

VARIABLES
  auditRules,     \* rules_: the definitions in force, by name
  rule_events,    \* rule_events_: per rule, the matching events, by their numbers
  last_triggered, \* last_triggered_: per rule, the set of its one last firing
  events,         \* events_: a sequence of [id, type]
  next_event_id,
  clock,
  reported,       \* history: all security events, a sequence of [type, time, met]
                  \* with the rules each met
  fired           \* history: per rule, its firings, a sequence of [after, time,
                  \* by] with the definition that fired

auditVars == <<auditRules, rule_events, last_triggered, events, next_event_id, clock,
               reported, fired>>

\* A rule of the constructor: times in minutes, as all of them have
\* threshold_window_ms = 60000 and cooldown_ms = 300000.
Watch(types, count) ==
  [types |-> types, count |-> count, window |-> 1, cooldown |-> 5, enabled |-> TRUE]

DefaultRules ==
  [ failed_login_threshold |-> Watch({"FailedLogin"}, 5),
    privilege_escalation |-> Watch({"PrivilegeEscalation", "RootAccess"}, 1),
    sensitive_file_access |-> Watch({"SensitiveFileAccess"}, 1),
    suspicious_process |-> Watch({"SuspiciousProcess"}, 1),
    network_anomaly |-> Watch({"SuspiciousOutbound", "PortScan"}, 1),
    firewall_change |-> Watch({"FirewallChange"}, 1),
    user_modification |-> Watch({"UserCreated", "UserDeleted", "GroupMembershipChange",
                                 "PasswordChange"}, 1) ]

AuditorInit ==
  /\ auditRules = RuleTable
  /\ rule_events = [r \in Rule |-> {}]
  /\ last_triggered = [r \in Rule |-> {}]
  /\ events = <<>>
  /\ next_event_id = 1
  /\ clock = 0
  /\ reported = <<>>
  /\ fired = [r \in Rule |-> <<>>]

-----------------------------------------------------------------------------
\* add_rule: d replaces a rule of the same name.
AddAuditRule(r, d) ==
  /\ auditRules' = [q \in DOMAIN auditRules \union {r} |-> IF q = r THEN d ELSE auditRules[q]]
  /\ UNCHANGED <<rule_events, last_triggered, events, next_event_id, clock, reported, fired>>

RemoveAuditRule(r) ==
  /\ auditRules' = [q \in DOMAIN auditRules \ {r} |-> auditRules[q]]
  /\ UNCHANGED <<rule_events, last_triggered, events, next_event_id, clock, reported, fired>>

EnableAuditRule(r, on) ==
  /\ auditRules' = [auditRules EXCEPT ![r].enabled = on]
  /\ UNCHANGED <<rule_events, last_triggered, events, next_event_id, clock, reported, fired>>

clear_rules ==
  /\ auditRules' = <<>>
  /\ UNCHANGED <<rule_events, last_triggered, events, next_event_id, clock, reported, fired>>

AdvanceClock ==
  /\ clock < MaxTime
  /\ clock' = clock + 1
  /\ UNCHANGED <<auditRules, rule_events, last_triggered, events, next_event_id,
                 reported, fired>>

-----------------------------------------------------------------------------
\* What each category is examined for, in order, and what is reported then.
analyze_file_event ==
  << [mark |-> "sensitive path", type |-> "SensitiveFileAccess"],
     [mark |-> "suid set", type |-> "SuidBitSet"] >>
analyze_process_event ==
  << [mark |-> "suspicious name", type |-> "SuspiciousProcess"],
     [mark |-> "started by root", type |-> "RootAccess"] >>
analyze_network_event ==
  << [mark |-> "suspicious port", type |-> "SuspiciousOutbound"] >>
analyze_system_event ==
  << [mark |-> "firewall", type |-> "FirewallChange"],
     [mark |-> "user database", type |-> "UserCreated"] >>

Checks ==
  [ Filesystem |-> analyze_file_event, Process |-> analyze_process_event,
    Network |-> analyze_network_event, SystemConfig |-> analyze_system_event ]

\* The types of security events that are reported at all.
SecurityEventType ==
  UNION {{Checks[c][i].type : i \in DOMAIN Checks[c]} : c \in DOMAIN Checks}

\* The types of the security events that process_event reports for e.
process_event(e) ==
  IF e.category \notin DOMAIN Checks THEN <<>>
  ELSE LET hits == SelectSeq(Checks[e.category], LAMBDA c : c.mark \in e.marks)
       IN  [i \in DOMAIN hits |-> hits[i].type]

is_in_cooldown(r) ==
  \E last \in last_triggered[r] : clock - last < auditRules[r].cooldown

\* The rules, of those given, that an event of the type matches.
Matching(rs, type) ==
  {r \in DOMAIN rs : rs[r].enabled /\ (rs[r].types = {} \/ type \in rs[r].types)}

\* The rules a security event counts for: those it matches and that are not
\* in their cooldown.
Counting(type) == {r \in Matching(auditRules, type) : ~is_in_cooldown(r)}

\* record_rule_event, where the last of all security events is the new one: it
\* is kept, those past the window go.
Kept(r, all) ==
  {j \in rule_events[r] \union {Len(all)} : clock - all[j].time <= auditRules[r].window}

\* (The Mutant definition is a deliberately wrong variant of the definition
\* that follows it; the README says what it is for.)
\* Mutant: a time that has just left the window is counted.
MutantTriggered(type, all) ==
  {r \in Counting(type) : Cardinality(Kept(r, all)) >= auditRules[r].count}

Triggered(type, all) ==
  {r \in Counting(type) :
     Cardinality({j \in Kept(r, all) : clock - all[j].time < auditRules[r].window})
       >= auditRules[r].count}

check_rules(type, all) ==
  /\ rule_events' =
       [r \in Rule |-> IF r \in Counting(type) THEN Kept(r, all) ELSE rule_events[r]]
  /\ last_triggered' =
       [r \in Rule |-> IF r \in Triggered(type, all) THEN {clock} ELSE last_triggered[r]]
  /\ fired' = [r \in Rule |->
       IF r \in Triggered(type, all)
         THEN Append(fired[r], [after |-> Len(all), time |-> clock, by |-> auditRules[r]])
         ELSE fired[r]]

\* report_security_event up to the callbacks, under the lock.
report_security_event(type) ==
  /\ events' = Latest(Append(events, [id |-> next_event_id, type |-> type]), MaxEvents)
  /\ next_event_id' = next_event_id + 1
  /\ reported' = Append(reported, [type |-> type, time |-> clock, met |-> auditRules])
  /\ check_rules(type, reported')
  /\ UNCHANGED <<auditRules, clock>>
=============================================================================
