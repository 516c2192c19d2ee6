---------------------------- MODULE EventFilter ----------------------------
(***************************************************************************)
(* filter/event_filter.cpp: the first stage of route_event.  process()     *)
(* copies the rules under the lock and walks through the copy, highest     *)
(* priority first, until a rule allows or denies the event; a Modify rule  *)
(* changes the event and the walk goes on.                                 *)
(*                                                                         *)
(* Of an event, the category and a set of marks matter: a mark stands for  *)
(* what a type, pattern or custom condition of a rule recognises.  Modify  *)
(* rules change attributes and the summary, and so some of the marks.      *)
(***************************************************************************)
EXTENDS Integers, SequencesExt

\* An empty set of categories is any category; a rule asks for all its marks.
FilterRule ==
  [name : STRING, priority : Int, action : {"Allow", "Deny", "Modify"}, enabled : BOOLEAN,
   categories : SUBSET STRING, marks : SUBSET STRING,
   hides : SUBSET STRING, shows : SUBSET STRING]

VARIABLES
  rules,        \* rules_, a sequence
  counts        \* total_processed_, total_allowed_, total_denied_, total_modified_

filterVars == <<rules, counts>>

NoCounts == [processed |-> 0, Allow |-> 0, Deny |-> 0, Modify |-> 0]

FilterInit(initial) ==
  /\ rules = initial
  /\ counts = NoCounts

-----------------------------------------------------------------------------
(* Rule management, each under the lock.                                   *)

InOrder(s) == \A i, j \in DOMAIN s : i < j => s[i].priority >= s[j].priority

\* std::sort by priority, highest first; equal priorities in any order.
Sorted(s) == {q \in SetToSeqs(ToSet(s)) : InOrder(q)}

Known(name) == \E i \in DOMAIN rules : rules[i].name = name

\* The rules with the one called r.name replaced, or with r at their end.
With(r) ==
  IF Known(r.name)
    THEN [i \in DOMAIN rules |-> IF rules[i].name = r.name THEN r ELSE rules[i]]
    ELSE Append(rules, r)

\* (The Mutant definitions are deliberately wrong variants of the definition
\* that follows them; the README says what they are for.)
\* Mutant: the rules are sorted only when one is added to them.
MutantAddFilterRule(r) ==
  /\ IF Known(r.name) THEN rules' = With(r) ELSE rules' \in Sorted(With(r))
  /\ UNCHANGED counts

AddFilterRule(r) ==
  /\ rules' \in Sorted(With(r))
  /\ UNCHANGED counts

\* (add_rule lets no name occur twice.)
RemoveFilterRule(name) ==
  /\ \E i \in DOMAIN rules : rules[i].name = name /\ rules' = RemoveAt(rules, i)
  /\ UNCHANGED counts

EnableFilterRule(name, on) ==
  /\ Known(name)
  /\ rules' = [i \in DOMAIN rules |->
                 IF rules[i].name = name THEN [rules[i] EXCEPT !.enabled = on] ELSE rules[i]]
  /\ UNCHANGED counts

ClearFilterRules ==
  /\ rules' = <<>>
  /\ UNCHANGED counts

reset_stats ==
  /\ counts' = NoCounts
  /\ UNCHANGED rules

-----------------------------------------------------------------------------
(* process().                                                              *)

matches_rule(r, e) ==
  /\ r.categories = {} \/ e.category \in r.categories
  /\ r.marks \subseteq e.marks

apply_modifications(r, e) == [e EXCEPT !.marks = (@ \ r.hides) \union r.shows]

\* One rule of the walk; verdict is "none" while it goes on.
Consider(w, r) ==
  IF w.verdict # "none" \/ ~r.enabled \/ ~matches_rule(r, w.event) THEN w
  ELSE IF r.action = "Modify"
         THEN [w EXCEPT !.event = apply_modifications(r, @), !.modified = @ + 1]
         ELSE [w EXCEPT !.verdict = r.action]

\* The walk through the rules s after each of them.
Walked(s, e) ==
  LET after[i \in 0..Len(s)] ==
        IF i = 0 THEN [event |-> e, verdict |-> "none", modified |-> 0]
                 ELSE Consider(after[i - 1], s[i])
  IN  after

Walk(e) ==
  LET end == Walked(rules, e)[Len(rules)]
  IN  IF end.verdict = "none" THEN [end EXCEPT !.verdict = "Allow"] ELSE end

\* The copy is the only look at the shared rules, and the counters are atomic.
process(e) ==
  /\ counts' = [counts EXCEPT !.processed = @ + 1, ![Walk(e).verdict] = @ + 1,
                              !.Modify = @ + Walk(e).modified]
  /\ UNCHANGED rules

-----------------------------------------------------------------------------
(* One of the factory functions' rules.                                    *)

ignore_temp_files ==
  [name |-> "ignore_temp_files", priority |-> 10, action |-> "Deny", enabled |-> TRUE,
   categories |-> {"Filesystem"}, marks |-> {"in /tmp"},
   hides |-> {}, shows |-> {}]
=============================================================================
