------------------------ MODULE AlertManager_proofs -------------------------
(***************************************************************************)
(* Proofs about AlertManager, for every set of polling threads and rules,  *)
(* every threshold, window and cooldown.                                   *)
(***************************************************************************)
EXTENDS AlertManager, FiniteSetTheorems, TLAPS

USE DEF Time, Never

-----------------------------------------------------------------------------
(* Types.                                                                  *)

Name(s) == {s[i] : i \in DOMAIN s}

\* Thread t has the new record l; the others keep theirs.
Moved(t, l) ==
  /\ l \in Local
  /\ local' \in [Thread -> Local]
  /\ local'[t] = l
  /\ \A u \in Thread \ {t} : local'[u] = local[u]

\* The record of t with another stage, or at the next rule.
Staged(t, stage) == [local[t] EXCEPT !.at = stage]
Advanced(t) == [local[t] EXCEPT !.at = "rule", !.todo = Tail(@)]

LEMMA GoToMoves ==
  ASSUME local \in [Thread -> Local], NEW t \in Thread, NEW stage \in Stage, GoTo(t, stage)
  PROVE  Moved(t, Staged(t, stage))
BY DEF GoTo, Local, Moved, Staged

LEMMA NextRuleMoves ==
  ASSUME local \in [Thread -> Local], NEW t \in Thread, local[t].todo # <<>>, NextRule(t)
  PROVE  Moved(t, Advanced(t))
BY DEF NextRule, Local, Stage, Moved, Advanced

\* What process_event has begun to handle is a rule that matches.
Handling ==
  \A t \in Thread :
    local[t].at \notin {"idle", "rule"} =>
      /\ local[t].todo # <<>>
      /\ <<t, This(t)>> \in Match

\* The copy of the rules that a call takes.
Copied == [i \in DOMAIN rules |-> [name |-> rules[i], on |-> rules[i] \notin disabled]]
Begun == [NoLocal EXCEPT !.at = "rule", !.ev = clock, !.todo = Copied]

LEMMA NoLocalType == NoLocal \in Local
BY AlertAssumption DEF NoLocal, Local, Stage

LEMMA BeginMoves ==
  ASSUME TypeOK, NEW t \in Thread, Begin(t)
  PROVE  Moved(t, Begun)
<1>1. /\ rules \in Seq(Rule) /\ DOMAIN rules = 1..Len(rules) /\ Len(rules) \in Nat
      /\ clock \in Time /\ 0 \in Time /\ local \in [Thread -> Local]
  BY AlertAssumption DEF TypeOK
<1>2. Copied \in Seq([name : Rule, on : BOOLEAN])
  BY <1>1 DEF Copied
<1>3. Begun \in Local
  BY <1>1, <1>2, NoLocalType DEF Begun, Local, Stage
<1>4. local' = [local EXCEPT ![t] = Begun]
  BY DEF Begin, Begun, Copied
<1>5. QED
  BY <1>1, <1>3, <1>4 DEF Moved

\* The steps of process_event but its first and last, and the record each leaves.
LEMMA StepMoves ==
  ASSUME TypeOK, Handling, NEW t \in Thread
  PROVE  /\ Skip(t) => Moved(t, Advanced(t))
         /\ Count(t) => Moved(t, Staged(t, "threshold"))
         /\ CheckThreshold(t) =>
              \/ Moved(t, [local[t] EXCEPT !.at = "cooldown", !.chk = clock])
                 /\ Cardinality(Recent(This(t))) >= Threshold
              \/ Moved(t, Advanced(t))
         /\ CheckCooldown(t) =>
              \/ Moved(t, Advanced(t))
              \/ Moved(t, Staged(t, "stamp")) /\ ~IsInCooldown(This(t))
         /\ StampAlert(t) => Moved(t, [local[t] EXCEPT !.at = "store", !.al = clock])
         /\ StoreAlert(t) => Moved(t, [local[t] EXCEPT !.at = "callbacks", !.id = nextId])
         /\ RunCallbacks(t) => Moved(t, Advanced(t))
         /\ Return(t) => Moved(t, NoLocal)
<1>1. local \in [Thread -> Local] /\ clock \in Time /\ nextId \in Nat
  BY DEF TypeOK
<1>2. {"rule", "threshold", "cooldown", "stamp", "store", "callbacks"} \subseteq Stage
  BY DEF Stage
<1>3. \A stage \in Stage : At(t, stage) /\ stage \notin {"idle", "rule"} => local[t].todo # <<>>
  BY DEF Handling, At
<1>4. Skip(t) => Moved(t, Advanced(t))
  BY <1>1, NextRuleMoves DEF Skip
<1>5. Count(t) => Moved(t, Staged(t, "threshold"))
  BY <1>1, <1>2, GoToMoves DEF Count
<1>6. CheckThreshold(t) =>
              \/ Moved(t, [local[t] EXCEPT !.at = "cooldown", !.chk = clock])
                 /\ Cardinality(Recent(This(t))) >= Threshold
              \/ Moved(t, Advanced(t))
  <2> SUFFICES ASSUME CheckThreshold(t),
                      ~(Cardinality(Recent(This(t))) >= Threshold /\
                        Moved(t, [local[t] EXCEPT !.at = "cooldown", !.chk = clock]))
               PROVE  Moved(t, Advanced(t))
    OBVIOUS
  <2>1. local' = [local EXCEPT ![t].at = "cooldown", ![t].chk = clock] =>
          Moved(t, [local[t] EXCEPT !.at = "cooldown", !.chk = clock])
    BY <1>1, <1>2, ZenonT(30) DEF Local, Moved
  <2>2. NextRule(t)
    BY <2>1 DEF CheckThreshold
  <2>3. QED
    BY <1>1, <1>2, <1>3, <2>2, NextRuleMoves DEF CheckThreshold
<1>7. CheckCooldown(t) =>
              \/ Moved(t, Advanced(t))
              \/ Moved(t, Staged(t, "stamp")) /\ ~IsInCooldown(This(t))
  BY <1>1, <1>2, <1>3, NextRuleMoves, GoToMoves DEF CheckCooldown
<1>8. StampAlert(t) => Moved(t, [local[t] EXCEPT !.at = "store", !.al = clock])
  BY <1>1, <1>2, ZenonT(30) DEF StampAlert, Local, Moved
<1>9. StoreAlert(t) => Moved(t, [local[t] EXCEPT !.at = "callbacks", !.id = nextId])
  BY <1>1, <1>2, ZenonT(30) DEF StoreAlert, Local, Moved
<1>10. RunCallbacks(t) => Moved(t, Advanced(t))
  BY <1>1, <1>2, <1>3, NextRuleMoves DEF RunCallbacks
<1>11. Return(t) => Moved(t, NoLocal)
  BY <1>1, NoLocalType DEF Return, Moved
<1>12. QED
  BY <1>4, <1>5, <1>6, <1>7, <1>8, <1>9, <1>10, <1>11

\* Taking a rule out of rules_: the others stay, in their order, and no name occurs
\* twice that did not before.
Distinct(s) == \A i, j \in DOMAIN s : i # j => s[i] # s[j]

LEMMA Concatenated ==
  ASSUME NEW u \in Seq(Rule), NEW v \in Seq(Rule)
  PROVE  u \o v \in Seq(Rule) /\ Len(u \o v) = Len(u) + Len(v)
OBVIOUS

LEMMA WithoutProperties ==
  ASSUME rules \in Seq(Rule), Distinct(rules), NEW r \in Rule
  PROVE  /\ Without(r) \in Seq(Rule)
         /\ Distinct(Without(r))
         /\ Name(Without(r)) = Known \ {r}
<1>1. CASE r \notin Known
  BY <1>1 DEF Without, Known, Name
<1>2. CASE r \in Known
  <2> DEFINE i == CHOOSE i \in DOMAIN rules : rules[i] = r
             n == Len(rules)
             w == SubSeq(rules, 1, i - 1) \o SubSeq(rules, i + 1, n)
  <2>1. i \in 1..n /\ rules[i] = r /\ n \in Nat /\ n > 0
    BY <1>2 DEF Known
  <2>2. Without(r) = w
    BY <1>2 DEF Without
  <2> HIDE DEF i
  <2>3. /\ SubSeq(rules, 1, i - 1) \in Seq(Rule) /\ Len(SubSeq(rules, 1, i - 1)) = i - 1
        /\ \A j \in 1..i - 1 : SubSeq(rules, 1, i - 1)[j] = rules[j]
    BY <2>1
  <2>4. /\ SubSeq(rules, i + 1, n) \in Seq(Rule) /\ Len(SubSeq(rules, i + 1, n)) = n - i
        /\ \A j \in 1..n - i : SubSeq(rules, i + 1, n)[j] = rules[i + j]
    BY <2>1
  <2>5. /\ w \in Seq(Rule) /\ Len(w) = n - 1
        /\ \A j \in 1..i - 1 : w[j] = rules[j]
        /\ \A j \in i..n - 1 : w[j] = rules[j + 1]
    <3> DEFINE u == SubSeq(rules, 1, i - 1)
               v == SubSeq(rules, i + 1, n)
    <3>1. /\ u \in Seq(Rule) /\ Len(u) = i - 1 /\ \A j \in 1..i - 1 : u[j] = rules[j]
          /\ v \in Seq(Rule) /\ Len(v) = n - i /\ \A j \in 1..n - i : v[j] = rules[i + j]
          /\ w = u \o v
      BY <2>3, <2>4
    <3> HIDE DEF u, v, w
    <3>2. u \o v \in Seq(Rule) /\ Len(u \o v) = n - 1
      <4>1. u \o v \in Seq(Rule)
        BY <3>1, Concatenated
      <4>2. Len(u \o v) = Len(u) + Len(v)
        BY <3>1, Concatenated
      <4>3. (i - 1) + (n - i) = n - 1
        BY <2>1
      <4>4. QED
        BY <3>1, <4>1, <4>2, <4>3
    <3>3. \A j \in 1..i - 1 : (u \o v)[j] = u[j]
      BY <2>1, <3>1
    <3>4. \A j \in i..n - 1 : (u \o v)[j] = v[j - (i - 1)] /\ j - (i - 1) \in 1..n - i
      BY <2>1, <3>1
    <3>5. \A j \in i..n - 1 : i + (j - (i - 1)) = j + 1
      BY <2>1
    <3>6. QED
      BY <3>1, <3>2, <3>3, <3>4, <3>5
  <2> HIDE DEF w
  <2>6. Distinct(w)
    <3> SUFFICES ASSUME NEW a \in 1..n - 1, NEW b \in 1..n - 1, a # b PROVE w[a] # w[b]
      BY <2>5 DEF Distinct
    <3> DEFINE f(x) == IF x < i THEN x ELSE x + 1
    <3>1. f(a) \in 1..n /\ f(b) \in 1..n /\ f(a) # f(b)
      BY <2>1
    <3>2. w[a] = rules[f(a)] /\ w[b] = rules[f(b)]
      BY <2>1, <2>5
    <3> HIDE DEF f
    <3>3. QED
      BY <3>1, <3>2 DEF Distinct
  <2>7. Name(w) = Known \ {r}
    <3>1. ASSUME NEW a \in 1..n - 1 PROVE w[a] \in Known \ {r}
      <4> DEFINE b == IF a < i THEN a ELSE a + 1
      <4>1. b \in 1..n /\ b # i /\ w[a] = rules[b]
        BY <2>1, <2>5
      <4> HIDE DEF b
      <4>2. rules[b] # r
        BY <2>1, <4>1 DEF Distinct
      <4>3. QED
        BY <4>1, <4>2 DEF Known
    <3>2. ASSUME NEW b \in 1..n, rules[b] # r PROVE \E a \in 1..n - 1 : w[a] = rules[b]
      <4>1. b # i
        BY <2>1, <3>2
      <4>2. CASE b < i
        <5>1. b \in 1..n - 1 /\ w[b] = rules[b]
          BY <2>1, <2>5, <4>2
        <5>2. QED
          BY <5>1
      <4>3. CASE b > i
        <5>1. b - 1 \in 1..n - 1 /\ w[b - 1] = rules[b]
          BY <2>1, <2>5, <4>3
        <5>2. QED
          BY <5>1
      <4>4. QED
        BY <2>1, <4>1, <4>2, <4>3
    <3>3. DOMAIN w = 1..n - 1 /\ DOMAIN rules = 1..n
      BY <2>1, <2>5
    <3>4. QED
      BY <3>1, <3>2, <3>3, ZenonT(30) DEF Name, Known
  <2>8. QED
    BY <2>2, <2>5, <2>6, <2>7
<1>3. QED
  BY <1>1, <1>2

-----------------------------------------------------------------------------
(* The invariant the others rest on.                                       *)

\* No name occurs twice in rules_, nor in a copy of it.
NamesDistinct ==
  /\ Distinct(rules)
  /\ \A t \in Thread : \A i, j \in DOMAIN local[t].todo :
       i # j => local[t].todo[i].name # local[t].todo[j].name

BaseInv == TypeOK /\ Handling /\ NamesDistinct

LEMMA BaseInit == Init => BaseInv
<1> SUFFICES ASSUME Init PROVE BaseInv
  OBVIOUS
<1>1. TypeOK
  <2>1. clock \in Time /\ events \in 0..MaxEvents /\ changes \in 0..MaxChanges
    BY AlertAssumption DEF Init
  <2>2. rules \in Seq(Rule) /\ disabled \in SUBSET Rule
    <3>1. rules = <<>> \/ rules = Default
      BY DEF Init
    <3>2. <<>> \in Seq(Rule) /\ Default \in Seq(Rule)
      BY AlertAssumption
    <3>3. QED
      BY <3>1, <3>2 DEF Init
  <2>3. ruleEvents \in [Rule -> SUBSET DOMAIN matched]
    BY DEF Init
  <2>4. lastTriggered \in [Rule -> Time \union {Never}]
    BY DEF Init
  <2>5. fired \in [Rule -> Seq([time : Time, chk : Time])]
    BY DEF Init
  <2>6. local \in [Thread -> Local]
    BY NoLocalType DEF Init
  <2>7. QED
    BY <2>1, <2>2, <2>3, <2>4, <2>5, <2>6 DEF Init, TypeOK
<1>2. \A t \in Thread : local[t].at = "idle" /\ local[t].todo = <<>>
  BY DEF Init, NoLocal
<1>3. Handling
  BY <1>2 DEF Handling
<1>4. Distinct(rules)
  BY AlertAssumption DEF Init, Distinct
<1>5. NamesDistinct
  BY <1>2, <1>4 DEF NamesDistinct
<1>6. QED
  BY <1>1, <1>3, <1>5 DEF BaseInv

\* The fields of the records that the steps leave.
LEMMA StagedFields ==
  ASSUME local \in [Thread -> Local], NEW t \in Thread, NEW stage
  PROVE  /\ Staged(t, stage).at = stage
         /\ Staged(t, stage).todo = local[t].todo
         /\ Staged(t, stage).chk = local[t].chk
         /\ Staged(t, stage).al = local[t].al
         /\ Staged(t, stage).id = local[t].id
BY DEF Staged, Local

LEMMA AdvancedFields ==
  ASSUME local \in [Thread -> Local], NEW t \in Thread, local[t].todo # <<>>
  PROVE  /\ Advanced(t).at = "rule"
         /\ Advanced(t).todo = Tail(local[t].todo)
BY DEF Advanced, Local

LEMMA HeadType ==
  ASSUME NEW S, NEW q \in Seq(S), q # <<>>
  PROVE  Head(q) \in S /\ Head(q) = q[1] /\ 1 \in DOMAIN q
OBVIOUS

LEMMA LocalFields ==
  ASSUME NEW l \in Local
  PROVE  /\ l.at \in Stage /\ l.todo \in Seq([name : Rule, on : BOOLEAN])
         /\ l.ev \in Time /\ l.chk \in Time /\ l.al \in Time /\ l.id \in Nat
         /\ l.todo # <<>> => Head(l.todo).name \in Rule
<1>1. l.at \in Stage /\ l.todo \in Seq([name : Rule, on : BOOLEAN])
      /\ l.ev \in Time /\ l.chk \in Time /\ l.al \in Time /\ l.id \in Nat
  BY DEF Local
<1>2. l.todo # <<>> => Head(l.todo) \in [name : Rule, on : BOOLEAN]
  BY <1>1, HeadType
<1>3. QED
  BY <1>1, <1>2

LEMMA MoveKeepsLocal ==
  ASSUME Handling, NamesDistinct, NEW t \in Thread, NEW l, Moved(t, l),
         l.at \notin {"idle", "rule"} => l.todo # <<>> /\ <<t, Head(l.todo).name>> \in Match,
         \A i, j \in DOMAIN l.todo : i # j => l.todo[i].name # l.todo[j].name,
         UNCHANGED rules
  PROVE  Handling' /\ NamesDistinct'
BY DEF Handling, NamesDistinct, Moved, This

LEMMA StepKeepsLocal ==
  ASSUME BaseInv, NEW t \in Thread, ProcessEvent(t)
  PROVE  local' \in [Thread -> Local] /\ Handling' /\ NamesDistinct'
<1>0. TypeOK /\ Handling /\ NamesDistinct /\ local \in [Thread -> Local] /\ local[t] \in Local
  BY DEF BaseInv, TypeOK
<1>1. UNCHANGED rules
  BY DEF ProcessEvent, Begin, Skip, Count, CheckThreshold, CheckCooldown, StampAlert,
         StoreAlert, Store, RunCallbacks, Return, ruleVars
<1>2. /\ local[t].todo \in Seq([name : Rule, on : BOOLEAN])
      /\ \A i, j \in DOMAIN local[t].todo : i # j => local[t].todo[i].name # local[t].todo[j].name
  BY <1>0, LocalFields DEF NamesDistinct
<1>3. ASSUME Moved(t, Advanced(t)), local[t].todo # <<>>
      PROVE  Handling' /\ NamesDistinct'
  <2> DEFINE q == local[t].todo
  <2>1. Advanced(t).at = "rule" /\ Advanced(t).todo = Tail(q)
    BY <1>0, <1>3, AdvancedFields
  <2>2. DOMAIN Tail(q) = 1..Len(q) - 1 /\ \A i \in 1..Len(q) - 1 : Tail(q)[i] = q[i + 1]
    BY <1>2, <1>3
  <2>3. \A i, j \in DOMAIN Tail(q) : i # j => Tail(q)[i].name # Tail(q)[j].name
    BY <1>2, <2>2, SMTT(30)
  <2>4. QED
    BY <1>0, <1>1, <1>3, <2>1, <2>3, MoveKeepsLocal
<1>4. ASSUME NEW l, Moved(t, l), l.todo = local[t].todo, local[t].todo # <<>>,
             <<t, This(t)>> \in Match
      PROVE  Handling' /\ NamesDistinct'
  BY <1>0, <1>1, <1>2, <1>4, MoveKeepsLocal DEF This
<1>5. local[t].at \notin {"idle", "rule"} => local[t].todo # <<>> /\ <<t, This(t)>> \in Match
  BY <1>0 DEF Handling
<1>6. CASE Begin(t)
  <2>1. Moved(t, Begun)
    BY <1>0, <1>6, BeginMoves
  <2>2. Begun.at = "rule" /\ Begun.todo = Copied
    BY NoLocalType DEF Begun, Local
  <2>3. DOMAIN Copied = DOMAIN rules /\ \A i \in DOMAIN rules : Copied[i].name = rules[i]
    BY DEF Copied
  <2>4. \A i, j \in DOMAIN Copied : i # j => Copied[i].name # Copied[j].name
    BY <1>0, <2>3 DEF NamesDistinct, Distinct
  <2>5. QED
    <3>1. local' \in [Thread -> Local]
      BY <2>1 DEF Moved
    <3>2. Handling' /\ NamesDistinct'
      BY <1>0, <1>1, <2>1, <2>2, <2>4, MoveKeepsLocal
    <3>3. QED
      BY <3>1, <3>2
<1>7. CASE Return(t)
  <2>1. Moved(t, NoLocal)
    BY <1>0, <1>7, StepMoves
  <2>2. NoLocal.at = "idle" /\ NoLocal.todo = <<>>
    BY DEF NoLocal
  <2>3. QED
    <3>1. local' \in [Thread -> Local]
      BY <2>1 DEF Moved
    <3>2. \A i, j \in DOMAIN NoLocal.todo : i # j => NoLocal.todo[i].name # NoLocal.todo[j].name
      BY <2>2
    <3>3. Handling' /\ NamesDistinct'
      BY <1>0, <1>1, <2>1, <2>2, <3>2, MoveKeepsLocal
    <3>4. QED
      BY <3>1, <3>3
<1>8. CASE Skip(t) \/ RunCallbacks(t)
  <2>1. Moved(t, Advanced(t)) /\ local[t].todo # <<>>
    BY <1>0, <1>5, <1>8, StepMoves DEF Skip, RunCallbacks, At
  <2>2. QED
    BY <1>3, <2>1 DEF Moved
<1>9. CASE Count(t)
  <2>1. Moved(t, Staged(t, "threshold")) /\ local[t].todo # <<>> /\ <<t, This(t)>> \in Match
    BY <1>0, <1>9, StepMoves DEF Count, matches_rule
  <2>2. QED
    BY <1>0, <1>4, <2>1, StagedFields DEF Moved
<1>10. CASE CheckThreshold(t)
  <2> DEFINE l == [local[t] EXCEPT !.at = "cooldown", !.chk = clock]
  <2>1. l.todo = local[t].todo
    BY <1>0 DEF Local
  <2>2. Moved(t, l) \/ Moved(t, Advanced(t))
    BY <1>0, <1>10, StepMoves
  <2>3. local[t].todo # <<>> /\ <<t, This(t)>> \in Match
    BY <1>5, <1>10 DEF CheckThreshold, At
  <2> HIDE DEF l
  <2>4. QED
    BY <1>3, <1>4, <2>1, <2>2, <2>3 DEF Moved
<1>11. CASE CheckCooldown(t)
  <2>1. Moved(t, Staged(t, "stamp")) \/ Moved(t, Advanced(t))
    BY <1>0, <1>11, StepMoves
  <2>2. local[t].todo # <<>> /\ <<t, This(t)>> \in Match
    BY <1>5, <1>11 DEF CheckCooldown, At
  <2>3. QED
    BY <1>0, <1>3, <1>4, <2>1, <2>2, StagedFields DEF Moved
<1>12. CASE StampAlert(t)
  <2> DEFINE l == [local[t] EXCEPT !.at = "store", !.al = clock]
  <2>1. l.todo = local[t].todo
    BY <1>0 DEF Local
  <2>2. Moved(t, l)
    BY <1>0, <1>12, StepMoves
  <2>3. local[t].todo # <<>> /\ <<t, This(t)>> \in Match
    BY <1>5, <1>12 DEF StampAlert, At
  <2> HIDE DEF l
  <2>4. QED
    BY <1>4, <2>1, <2>2, <2>3 DEF Moved
<1>13. CASE StoreAlert(t)
  <2> DEFINE l == [local[t] EXCEPT !.at = "callbacks", !.id = nextId]
  <2>1. l.todo = local[t].todo
    BY <1>0 DEF Local
  <2>2. Moved(t, l)
    BY <1>0, <1>13, StepMoves
  <2>3. local[t].todo # <<>> /\ <<t, This(t)>> \in Match
    BY <1>5, <1>13 DEF StoreAlert, Store, At
  <2> HIDE DEF l
  <2>4. QED
    BY <1>4, <2>1, <2>2, <2>3 DEF Moved
<1>14. QED
  BY <1>6, <1>7, <1>8, <1>9, <1>10, <1>11, <1>12, <1>13 DEF ProcessEvent

FiredRecord == [time : Time, chk : Time]
AlertRecord == [id : Nat \ {0}, rule : Rule, time : Time, ack : BOOLEAN]

LEMMA AlertsKept ==
  ASSUME NEW s \in Seq(AlertRecord), NEW a \in AlertRecord
  PROVE  Cap(Append(s, a)) \in Seq(AlertRecord)
<1> DEFINE u == Append(s, a)
<1>1. u \in Seq(AlertRecord) /\ Len(u) \in Nat /\ \A i \in 1..Len(u) : u[i] \in AlertRecord
  OBVIOUS
<1> HIDE DEF u
<1>2. CASE Len(u) > MaxAlerts
  <2>1. Cap(u) = SubSeq(u, Len(u) - MaxAlerts + 1, Len(u)) /\ Len(u) - MaxAlerts + 1 \in 1..Len(u)
    BY <1>1, <1>2, AlertAssumption DEF Cap
  <2>2. QED
    BY <1>1, <2>1 DEF u
<1>3. CASE ~(Len(u) > MaxAlerts)
  BY <1>1, <1>3 DEF Cap, u
<1>4. QED
  BY <1>2, <1>3

LEMMA FiredType == TypeOK => fired \in [Rule -> Seq(FiredRecord)]
BY DEF TypeOK, FiredRecord

\* The clock, and the management of rules and alerts.
LEMMA ManageBase ==
  ASSUME BaseInv, Tick \/ Manage
  PROVE  BaseInv'
<1> USE DEF ruleVars, trackVars, alertVars, histVars, Change
<1>0. TypeOK /\ Handling /\ NamesDistinct
  BY DEF BaseInv
<1>1. UNCHANGED <<local, matched, delivered>> /\ clock' \in Time /\ nextId' = nextId
      /\ events' = events /\ changes' \in 0..MaxChanges
  <2>1. UNCHANGED <<local, matched, delivered, nextId, events>>
    BY DEF Tick, Manage, AddRule, RemoveRule, EnableRule, ClearRules, AcknowledgeAlert, ClearAlerts
  <2>2. \/ clock < MaxTime /\ clock' = clock + 1 /\ changes' = changes
        \/ clock' = clock /\ changes < MaxChanges /\ changes' = changes + 1
    BY DEF Tick, Manage, AddRule, RemoveRule, EnableRule, ClearRules, AcknowledgeAlert, ClearAlerts
  <2>3. clock \in 0..MaxTime /\ changes \in 0..MaxChanges /\ MaxTime \in Nat /\ MaxChanges \in Nat
    BY <1>0, AlertAssumption DEF TypeOK
  <2>4. QED
    BY <2>1, <2>2, <2>3
<1>2. Handling'
  BY <1>0, <1>1 DEF Handling, This
<1>3. ASSUME rules' \in Seq(Rule), Distinct(rules'), disabled' \in SUBSET Rule,
             ruleEvents' \in [Rule -> SUBSET DOMAIN matched],
             lastTriggered' \in [Rule -> Time \union {Never}],
             alerts' \in Seq(AlertRecord), fired' \in [Rule -> Seq(FiredRecord)]
      PROVE  BaseInv'
  <2>1. TypeOK'
    BY <1>0, <1>1, <1>3 DEF TypeOK, AlertRecord, FiredRecord
  <2>2. NamesDistinct'
    BY <1>0, <1>1, <1>3 DEF NamesDistinct
  <2>3. QED
    BY <1>2, <2>1, <2>2 DEF BaseInv
<1>4. CASE Tick \/ ClearAlerts
  <2>1. UNCHANGED <<rules, disabled, ruleEvents, lastTriggered, fired>>
    BY <1>4 DEF Tick, ClearAlerts
  <2>2. alerts' = alerts \/ alerts' = <<>>
    BY <1>4 DEF Tick, ClearAlerts
  <2>3. alerts \in Seq(AlertRecord)
    BY <1>0 DEF TypeOK, AlertRecord
  <2>4. alerts' \in Seq(AlertRecord)
    <3>1. <<>> \in Seq(AlertRecord)
      OBVIOUS
    <3>2. QED
      BY <2>2, <2>3, <3>1, Zenon
  <2>5. QED
    BY <1>0, <1>3, <2>1, <2>4, FiredType DEF TypeOK, NamesDistinct
<1>5. ASSUME NEW r \in Rule, AddRule(r)
      PROVE  BaseInv'
  <2>1. rules' \in Seq(Rule) /\ Distinct(rules')
    <3>1. CASE r \in Known
      BY <1>0, <1>5, <3>1 DEF AddRule, TypeOK, NamesDistinct
    <3>2. CASE r \notin Known
      <4>1. rules' = Append(rules, r) /\ rules \in Seq(Rule) /\ Distinct(rules)
        BY <1>0, <1>5, <3>2 DEF AddRule, TypeOK, NamesDistinct
      <4>2. \A i \in DOMAIN rules : rules[i] # r
        BY <3>2 DEF Known
      <4>3. QED
        BY <4>1, <4>2 DEF Distinct
    <3>3. QED
      BY <3>1, <3>2
  <2>2. QED
    BY <1>0, <1>3, <1>5, <2>1, FiredType DEF AddRule, TypeOK, AlertRecord
<1>6. ASSUME NEW r \in Rule, RemoveRule(r)
      PROVE  BaseInv'
  <2>1. rules' \in Seq(Rule) /\ Distinct(rules')
    BY <1>0, <1>6, WithoutProperties DEF RemoveRule, TypeOK, NamesDistinct
  <2>2. ruleEvents' \in [Rule -> SUBSET DOMAIN matched]
    BY <1>0, <1>6 DEF RemoveRule, TypeOK
  <2>3. lastTriggered' \in [Rule -> Time \union {Never}]
    BY <1>0, <1>6 DEF RemoveRule, TypeOK
  <2>4. fired' \in [Rule -> Seq(FiredRecord)]
    BY <1>0, <1>6, FiredType DEF RemoveRule
  <2>5. alerts' \in Seq(AlertRecord) /\ disabled' \in SUBSET Rule
    BY <1>0, <1>6 DEF RemoveRule, TypeOK, AlertRecord
  <2>6. QED
    BY <1>3, <2>1, <2>2, <2>3, <2>4, <2>5
<1>7. ASSUME NEW r \in Rule, NEW on \in BOOLEAN, EnableRule(r, on)
      PROVE  BaseInv'
  BY <1>0, <1>3, <1>7, FiredType DEF EnableRule, TypeOK, AlertRecord, NamesDistinct
<1>8. CASE ClearRules
  <2>1. rules' \in Seq(Rule) /\ Distinct(rules') /\ disabled' \in SUBSET Rule
    BY <1>8 DEF ClearRules, Distinct
  <2>2. ruleEvents' \in [Rule -> SUBSET DOMAIN matched]
    BY <1>8 DEF ClearRules
  <2>3. lastTriggered' \in [Rule -> Time \union {Never}]
    BY <1>8 DEF ClearRules
  <2>4. fired' \in [Rule -> Seq(FiredRecord)]
    BY <1>8 DEF ClearRules
  <2>5. QED
    BY <1>0, <1>3, <1>8, <2>1, <2>2, <2>3, <2>4 DEF ClearRules, TypeOK, AlertRecord
<1>9. ASSUME NEW i \in DOMAIN alerts, AcknowledgeAlert(i)
      PROVE  BaseInv'
  <2>0. alerts \in Seq(AlertRecord)
    BY <1>0 DEF TypeOK, AlertRecord
  <2>1. alerts \in Seq(AlertRecord) /\ alerts[i] \in AlertRecord
    BY <2>0
  <2>2. [alerts[i] EXCEPT !.ack = TRUE] \in AlertRecord
    BY <2>1 DEF AlertRecord
  <2>3. alerts' = [alerts EXCEPT ![i] = [alerts[i] EXCEPT !.ack = TRUE]]
    BY <1>9 DEF AcknowledgeAlert
  <2>4. alerts' \in Seq(AlertRecord)
    BY <2>1, <2>2, <2>3
  <2>5. QED
    BY <1>0, <1>3, <1>9, <2>4, FiredType DEF AcknowledgeAlert, TypeOK, NamesDistinct
<1>10. QED
  BY <1>4, <1>5, <1>6, <1>7, <1>8, <1>9 DEF Manage

LEMMA ProcessBase ==
  ASSUME BaseInv, NEW t \in Thread, ProcessEvent(t)
  PROVE  BaseInv'
<1> USE DEF ruleVars, trackVars, alertVars, histVars, boundVars
<1>0. TypeOK /\ Handling /\ NamesDistinct /\ local[t] \in Local
  BY DEF BaseInv, TypeOK
<1>1. local' \in [Thread -> Local] /\ Handling' /\ NamesDistinct'
  BY StepKeepsLocal
<1>2. SUFFICES TypeOK'
  BY <1>1 DEF BaseInv
<1>3. /\ local[t].ev \in Time /\ local[t].chk \in Time /\ local[t].al \in Time
      /\ local[t].todo # <<>> => This(t) \in Rule
  BY <1>0, LocalFields DEF This
<1>4. local[t].at \notin {"idle", "rule"} => This(t) \in Rule
  BY <1>0, <1>3 DEF Handling
<1>5. CASE Begin(t)
  <2>1. events' \in 0..MaxEvents
    BY <1>0, <1>5, AlertAssumption, SMTT(30) DEF Begin, TypeOK
  <2>2. QED
    BY <1>0, <1>1, <1>5, <2>1 DEF Begin, TypeOK
<1>6. CASE Skip(t) \/ CheckCooldown(t) \/ StampAlert(t) \/ Return(t)
  <2>1. UNCHANGED <<clock, events, changes, rules, disabled, ruleEvents, lastTriggered, alerts,
                    nextId, matched, fired, delivered>>
    BY <1>6 DEF Skip, CheckCooldown, StampAlert, Return
  <2>2. QED
    BY <1>0, <1>1, <2>1 DEF TypeOK
<1>7. CASE Count(t)
  <2>1. /\ UNCHANGED <<clock, events, changes, rules, disabled, lastTriggered, alerts, nextId,
                       fired, delivered>>
        /\ matched' = Append(matched, <<This(t), local[t].ev>>)
        /\ ruleEvents' = [ruleEvents EXCEPT ![This(t)] = @ \union {Len(matched) + 1}]
        /\ This(t) \in Rule
    BY <1>3, <1>7 DEF Count
  <2>2. matched \in Seq(Rule \X Time) /\ <<This(t), local[t].ev>> \in Rule \X Time
    BY <1>0, <1>3, <2>1 DEF TypeOK
  <2>3. matched' \in Seq(Rule \X Time) /\ DOMAIN matched' = DOMAIN matched \union {Len(matched) + 1}
    BY <2>1, <2>2
  <2>4. ruleEvents' \in [Rule -> SUBSET DOMAIN matched']
    BY <1>0, <2>1, <2>3 DEF TypeOK
  <2>5. QED
    BY <1>0, <1>1, <2>1, <2>3, <2>4 DEF TypeOK
<1>8. CASE CheckThreshold(t)
  <2>1. /\ UNCHANGED <<clock, events, changes, rules, disabled, lastTriggered, alerts, nextId,
                       matched, fired, delivered>>
        /\ ruleEvents' = [ruleEvents EXCEPT ![This(t)] = Recent(This(t))]
        /\ This(t) \in Rule
    BY <1>4, <1>8 DEF CheckThreshold, At
  <2>2. ruleEvents' \in [Rule -> SUBSET DOMAIN matched']
    BY <1>0, <2>1 DEF TypeOK, Recent
  <2>3. QED
    BY <1>0, <1>1, <2>1, <2>2 DEF TypeOK
<1>9. CASE StoreAlert(t)
  <2> DEFINE a == [id |-> nextId, rule |-> This(t), time |-> local[t].al, ack |-> FALSE]
             f == [time |-> local[t].al, chk |-> local[t].chk]
  <2>1. /\ UNCHANGED <<clock, events, changes, rules, disabled, ruleEvents, matched, delivered>>
        /\ alerts' = Cap(Append(alerts, a)) /\ nextId' = nextId + 1
        /\ lastTriggered' = [lastTriggered EXCEPT ![This(t)] = local[t].al]
        /\ fired' = [fired EXCEPT ![This(t)] = Append(@, f)]
        /\ This(t) \in Rule
    BY <1>4, <1>9 DEF StoreAlert, Store, At
  <2>2. a \in AlertRecord
    BY <1>0, <1>3, <2>1 DEF TypeOK, AlertRecord
  <2>3. alerts' \in Seq(AlertRecord)
    BY <1>0, <2>1, <2>2, AlertsKept DEF TypeOK, AlertRecord
  <2>4. f \in FiredRecord
    BY <1>3 DEF FiredRecord
  <2> HIDE DEF a, f
  <2>5. fired' \in [Rule -> Seq(FiredRecord)]
    <3>1. fired \in [Rule -> Seq(FiredRecord)]
      BY <1>0, FiredType
    <3>2. Append(fired[This(t)], f) \in Seq(FiredRecord)
      BY <2>1, <2>4, <3>1
    <3>3. QED
      BY <2>1, <3>1, <3>2
  <2>6. lastTriggered' \in [Rule -> Time \union {Never}]
    BY <1>0, <1>3, <2>1 DEF TypeOK
  <2>7. nextId' \in Nat \ {0}
    BY <1>0, <2>1 DEF TypeOK
  <2>8. QED
    BY <1>0, <1>1, <2>1, <2>3, <2>5, <2>6, <2>7 DEF TypeOK, AlertRecord, FiredRecord
<1>10. CASE RunCallbacks(t)
  <2>1. /\ UNCHANGED <<clock, events, changes, rules, disabled, ruleEvents, lastTriggered, alerts,
                       nextId, matched, fired>>
        /\ delivered' = Append(delivered, local[t].id)
    BY <1>10 DEF RunCallbacks
  <2>2. delivered' \in Seq(Nat)
    BY <1>0, <2>1, LocalFields DEF TypeOK
  <2>3. QED
    BY <1>0, <1>1, <2>1, <2>2 DEF TypeOK
<1>11. QED
  BY <1>5, <1>6, <1>7, <1>8, <1>9, <1>10 DEF ProcessEvent

LEMMA BaseStep == BaseInv /\ [Next]_vars => BaseInv'
<1> SUFFICES ASSUME BaseInv, [Next]_vars PROVE BaseInv'
  OBVIOUS
<1>1. CASE UNCHANGED vars
  BY <1>1, ZenonT(30) DEF vars, ruleVars, trackVars, alertVars, histVars, boundVars, BaseInv, TypeOK,
              Handling, This, NamesDistinct, Distinct
<1>2. QED
  BY <1>1, ManageBase, ProcessBase DEF Next, Quiet

(***************************************************************************)
(* The variables keep their types, process_event works on a rule that      *)
(* matches, and no name occurs twice in rules_ or in a copy of it.         *)
(***************************************************************************)
THEOREM AlertTypes == Spec => []BaseInv
BY BaseInit, BaseStep, PTL DEF Spec

-----------------------------------------------------------------------------
(* No false alarm.                                                         *)

\* The events of rule r among those of m that lie in the window that ends at c.
WindowOf(m, r, c) == {j \in DOMAIN m : m[j][1] = r /\ m[j][2] \in c - Window .. c}
InWindow(r, c) == WindowOf(matched, r, c)

\* rule_events_ holds events of that rule, none of them from the future.
OwnEvents ==
  /\ \A j \in DOMAIN matched : matched[j][2] <= clock
  /\ \A r \in Rule : \A j \in ruleEvents[r] : matched[j][1] = r
  /\ \A t \in Thread : local[t].ev <= clock

\* A thread that has passed the threshold check carries enough of them along, and so
\* did those that have fired.
EnoughCounted ==
  /\ \A t \in Thread :
       local[t].at \in {"cooldown", "stamp", "store"} =>
         Cardinality(InWindow(This(t), local[t].chk)) >= Threshold
  /\ \A r \in Rule : \A i \in DOMAIN fired[r] :
       Cardinality(InWindow(r, fired[r][i].chk)) >= Threshold

CountInv == OwnEvents /\ EnoughCounted

LEMMA WindowFinite ==
  ASSUME NEW m \in Seq(Rule \X Time), NEW r, NEW c
  PROVE  IsFiniteSet(WindowOf(m, r, c)) /\ Cardinality(WindowOf(m, r, c)) \in Nat
<1>1. DOMAIN m = 1..Len(m) /\ Len(m) \in Nat
  OBVIOUS
<1>2. IsFiniteSet(1..Len(m))
  BY <1>1, FS_Interval
<1>3. WindowOf(m, r, c) \subseteq 1..Len(m)
  BY <1>1 DEF WindowOf
<1>4. IsFiniteSet(WindowOf(m, r, c))
  BY <1>2, <1>3, FS_Subset
<1>5. QED
  BY <1>4, FS_CardinalityType

\* Counting another event takes none away.
LEMMA WindowGrows ==
  ASSUME NEW m \in Seq(Rule \X Time), NEW n \in Seq(Rule \X Time),
         \A j \in DOMAIN m : j \in DOMAIN n /\ n[j] = m[j],
         NEW r, NEW c, Cardinality(WindowOf(m, r, c)) >= Threshold
  PROVE  Cardinality(WindowOf(n, r, c)) >= Threshold
<1>1. WindowOf(m, r, c) \subseteq WindowOf(n, r, c)
  BY DEF WindowOf
<1>2. IsFiniteSet(WindowOf(n, r, c)) /\ Cardinality(WindowOf(n, r, c)) \in Nat
  BY WindowFinite
<1>3. Cardinality(WindowOf(m, r, c)) <= Cardinality(WindowOf(n, r, c))
  BY <1>1, <1>2, FS_Subset
<1>4. Cardinality(WindowOf(m, r, c)) \in Nat /\ Threshold \in Nat
  BY WindowFinite, AlertAssumption
<1>5. QED
  BY <1>2, <1>3, <1>4

\* What the threshold check counts lies in the window that ends now.
LEMMA RecentInWindow ==
  ASSUME TypeOK, OwnEvents, NEW r \in Rule, Cardinality(Recent(r)) >= Threshold
  PROVE  Cardinality(InWindow(r, clock)) >= Threshold
<1>1. /\ matched \in Seq(Rule \X Time) /\ clock \in 0..MaxTime /\ Window \in Nat
      /\ Threshold \in Nat /\ MaxTime \in Nat /\ ruleEvents[r] \subseteq DOMAIN matched
  BY AlertAssumption DEF TypeOK
<1>2. \A j \in DOMAIN matched : matched[j][2] \in 0..MaxTime
  BY <1>1
<1>3. Recent(r) \subseteq InWindow(r, clock)
  BY <1>1, <1>2 DEF Recent, InWindow, WindowOf, OwnEvents
<1>4. IsFiniteSet(InWindow(r, clock)) /\ Cardinality(InWindow(r, clock)) \in Nat
  BY <1>1, WindowFinite DEF InWindow
<1>5. IsFiniteSet(Recent(r)) /\ Cardinality(Recent(r)) <= Cardinality(InWindow(r, clock))
  BY <1>3, <1>4, FS_Subset
<1>6. Cardinality(Recent(r)) \in Nat
  BY <1>5, FS_CardinalityType
<1>7. QED
  BY <1>1, <1>4, <1>5, <1>6

LEMMA CountInit == Init => CountInv
<1> SUFFICES ASSUME Init PROVE CountInv
  OBVIOUS
<1>1. \A t \in Thread : local[t].at = "idle" /\ local[t].ev = 0
  BY DEF Init, NoLocal
<1>2. clock = 0 /\ DOMAIN matched = {} /\ \A r \in Rule : ruleEvents[r] = {} /\ DOMAIN fired[r] = {}
  BY DEF Init
<1>3. QED
  BY <1>1, <1>2 DEF CountInv, OwnEvents, EnoughCounted

\* The clock, and the management of rules and alerts.
LEMMA ManageCount ==
  ASSUME BaseInv, CountInv, Tick \/ Manage
  PROVE  CountInv'
<1>1. UNCHANGED <<local, matched>> /\ (clock' = clock \/ clock' = clock + 1)
  BY DEF Tick, Manage, AddRule, RemoveRule, EnableRule, ClearRules, AcknowledgeAlert, ClearAlerts,
         Change, trackVars, alertVars, histVars, ruleVars
<1>2. ASSUME NEW r \in Rule
      PROVE  /\ ruleEvents'[r] = ruleEvents[r] \/ ruleEvents'[r] = {}
             /\ fired'[r] = fired[r] \/ fired'[r] = <<>>
  <2>1. CASE Tick \/ \E q \in Rule : AddRule(q)
    BY <2>1 DEF Tick, AddRule, trackVars, histVars
  <2>2. CASE \E q \in Rule : RemoveRule(q)
    BY <2>2 DEF RemoveRule, BaseInv, TypeOK
  <2>3. CASE \E q \in Rule, on \in BOOLEAN : EnableRule(q, on)
    BY <2>3 DEF EnableRule, trackVars, histVars
  <2>4. CASE ClearRules
    BY <2>4 DEF ClearRules
  <2>5. CASE ClearAlerts \/ \E i \in DOMAIN alerts : AcknowledgeAlert(i)
    BY <2>5 DEF ClearAlerts, AcknowledgeAlert, trackVars, histVars
  <2>6. QED
    BY <2>1, <2>2, <2>3, <2>4, <2>5 DEF Manage
<1>3. clock <= clock' /\ \A x \in 0..MaxTime : x <= clock => x <= clock'
  BY <1>1, AlertAssumption DEF BaseInv, TypeOK
<1>4. /\ \A j \in DOMAIN matched : matched[j][2] \in 0..MaxTime
      /\ \A t \in Thread : local[t].ev \in 0..MaxTime
  <2>1. matched \in Seq(Rule \X Time) /\ local \in [Thread -> Local]
    BY DEF BaseInv, TypeOK
  <2>2. \A j \in DOMAIN matched : matched[j] \in Rule \X Time
    BY <2>1
  <2>3. QED
    BY <2>1, <2>2, LocalFields
<1>5. OwnEvents'
  BY <1>1, <1>2, <1>3, <1>4 DEF CountInv, OwnEvents
<1>6. EnoughCounted'
  BY <1>1, <1>2 DEF CountInv, EnoughCounted, InWindow, This
<1>7. QED
  BY <1>5, <1>6 DEF CountInv

\* A step that counts nothing and fires nothing.
LEMMA MoveCount ==
  ASSUME BaseInv, CountInv, NEW t \in Thread, NEW l, Moved(t, l), l.ev <= clock,
         l.at \in {"cooldown", "stamp", "store"} =>
           Cardinality(InWindow(Head(l.todo).name, l.chk)) >= Threshold,
         UNCHANGED <<clock, matched, fired>>,
         \A r \in Rule : ruleEvents'[r] \subseteq ruleEvents[r]
  PROVE  CountInv'
<1>1. OwnEvents'
  BY DEF Moved, CountInv, OwnEvents
<1>2. \A u \in Thread : u # t => local'[u] = local[u] /\ This(u)' = This(u)
  BY DEF Moved, This
<1>3. This(t)' = Head(l.todo).name /\ local'[t] = l
  BY DEF Moved, This
<1>4. \A r, c : InWindow(r, c)' = InWindow(r, c)
  BY DEF InWindow
<1>5. EnoughCounted'
  BY <1>2, <1>3, <1>4 DEF CountInv, EnoughCounted
<1>6. QED
  BY <1>1, <1>5 DEF CountInv

LEMMA ProcessCount ==
  ASSUME BaseInv, BaseInv', CountInv, NEW t \in Thread, ProcessEvent(t)
  PROVE  CountInv'
<1> USE DEF ruleVars, trackVars, alertVars, histVars, boundVars
<1>0. /\ TypeOK /\ Handling /\ OwnEvents /\ EnoughCounted /\ local \in [Thread -> Local]
      /\ local[t] \in Local /\ clock \in 0..MaxTime /\ local[t].ev <= clock
  BY DEF BaseInv, CountInv, TypeOK, OwnEvents
<1>1. local[t].at \notin {"idle", "rule"} => local[t].todo # <<>> /\ This(t) \in Rule
  BY <1>0, LocalFields DEF Handling, This
<1>2. CASE Begin(t)
  <2>1. Moved(t, Begun) /\ Begun.at = "rule" /\ Begun.ev = clock
    BY <1>0, <1>2, BeginMoves, NoLocalType DEF Begun, Local
  <2>2. UNCHANGED <<clock, matched, fired, ruleEvents>> /\ clock <= clock
    BY <1>0, <1>2, AlertAssumption DEF Begin
  <2>3. QED
    BY <2>1, <2>2, MoveCount
<1>3. CASE Return(t)
  <2>1. Moved(t, NoLocal) /\ NoLocal.at = "idle" /\ NoLocal.ev = 0
    BY <1>0, <1>3, StepMoves DEF NoLocal
  <2>2. UNCHANGED <<clock, matched, fired, ruleEvents>> /\ 0 <= clock
    BY <1>0, <1>3, AlertAssumption DEF Return
  <2>3. QED
    BY <2>1, <2>2, MoveCount
<1>4. ASSUME Moved(t, Advanced(t)), UNCHANGED <<clock, matched, fired>>, local[t].todo # <<>>,
             \A r \in Rule : ruleEvents'[r] \subseteq ruleEvents[r]
      PROVE  CountInv'
  <2>1. Advanced(t).at = "rule" /\ Advanced(t).ev = local[t].ev
    BY <1>0, <1>4 DEF Advanced, Local
  <2>2. QED
    BY <1>0, <1>4, <2>1, MoveCount
<1>5. CASE Skip(t) \/ RunCallbacks(t)
  <2>1. Moved(t, Advanced(t)) /\ local[t].todo # <<>>
    BY <1>0, <1>1, <1>5, StepMoves DEF Skip, RunCallbacks, At
  <2>2. UNCHANGED <<clock, matched, fired, ruleEvents>>
    BY <1>5 DEF Skip, RunCallbacks
  <2>3. QED
    BY <1>4, <2>1, <2>2
<1>6. CASE Count(t)
  <2>1. /\ local[t].todo # <<>> /\ This(t) \in Rule
        /\ UNCHANGED <<clock, fired>>
        /\ matched' = Append(matched, <<This(t), local[t].ev>>)
        /\ ruleEvents' = [ruleEvents EXCEPT ![This(t)] = @ \union {Len(matched) + 1}]
        /\ Moved(t, Staged(t, "threshold"))
    BY <1>0, <1>6, StepMoves, LocalFields DEF Count, This
  <2>2. matched \in Seq(Rule \X Time) /\ matched' \in Seq(Rule \X Time)
        /\ ruleEvents \in [Rule -> SUBSET DOMAIN matched]
    BY <1>0 DEF BaseInv, TypeOK
  <2>3. <<This(t), local[t].ev>> \in Rule \X Time
    BY <1>0, <2>1, LocalFields
  <2>4. /\ DOMAIN matched' = DOMAIN matched \union {Len(matched) + 1}
        /\ \A j \in DOMAIN matched : matched'[j] = matched[j]
        /\ matched'[Len(matched) + 1] = <<This(t), local[t].ev>>
    BY <2>1, <2>2, <2>3
  <2>5. Staged(t, "threshold").at = "threshold" /\ Staged(t, "threshold").ev = local[t].ev
    BY <1>0 DEF Staged, Local
  <2>6. \A j \in DOMAIN matched' : matched'[j][2] <= clock'
    BY <1>0, <2>1, <2>4 DEF OwnEvents
  <2>7. \A r \in Rule : \A j \in ruleEvents'[r] : matched'[j][1] = r
    <3> SUFFICES ASSUME NEW r \in Rule, NEW j \in ruleEvents'[r] PROVE matched'[j][1] = r
      OBVIOUS
    <3>1. CASE j \in ruleEvents[r]
      BY <1>0, <2>2, <2>4, <3>1 DEF OwnEvents
    <3>2. CASE j \notin ruleEvents[r]
      <4>1. j = Len(matched) + 1 /\ r = This(t)
        BY <2>1, <2>2, <3>2
      <4>2. QED
        BY <2>4, <4>1
    <3>3. QED
      BY <3>1, <3>2
  <2>8. OwnEvents'
    BY <1>0, <2>1, <2>5, <2>6, <2>7 DEF OwnEvents, Moved
  <2>9. \A r, c : Cardinality(InWindow(r, c)) >= Threshold => Cardinality(InWindow(r, c)') >= Threshold
    <3> SUFFICES ASSUME NEW r, NEW c, Cardinality(WindowOf(matched, r, c)) >= Threshold
                 PROVE  Cardinality(WindowOf(matched', r, c)) >= Threshold
      BY DEF InWindow
    <3>1. QED
      BY <2>2, <2>4, WindowGrows
  <2>10. \A u \in Thread : u # t => local'[u] = local[u] /\ This(u)' = This(u)
    BY <2>1 DEF Moved, This
  <2>11. local'[t].at = "threshold"
    BY <2>1, <2>5 DEF Moved
  <2>12. ASSUME NEW u \in Thread, local'[u].at \in {"cooldown", "stamp", "store"}
         PROVE  Cardinality(WindowOf(matched', This(u)', local'[u].chk)) >= Threshold
    <3>1. u # t
      BY <2>11, <2>12
    <3>2. local[u].at \in {"cooldown", "stamp", "store"} /\ This(u)' = This(u) /\ local'[u] = local[u]
      BY <2>10, <2>12, <3>1
    <3>3. Cardinality(InWindow(This(u), local[u].chk)) >= Threshold
      BY <1>0, <3>2 DEF EnoughCounted
    <3>4. Cardinality(WindowOf(matched, This(u), local[u].chk)) >= Threshold
      BY <3>3 DEF InWindow
    <3>5. Cardinality(WindowOf(matched', This(u), local[u].chk)) >= Threshold
      BY <2>2, <2>4, <3>4, WindowGrows
    <3>6. QED
      BY <3>2, <3>5
  <2>13. EnoughCounted'
    BY <1>0, <2>1, <2>9, <2>12 DEF EnoughCounted, InWindow
  <2>14. QED
    BY <2>8, <2>13 DEF CountInv
<1>7. CASE CheckThreshold(t)
  <2> DEFINE l == [local[t] EXCEPT !.at = "cooldown", !.chk = clock]
  <2>1. /\ UNCHANGED <<clock, matched, fired>> /\ local[t].todo # <<>> /\ This(t) \in Rule
        /\ ruleEvents' = [ruleEvents EXCEPT ![This(t)] = Recent(This(t))]
    BY <1>1, <1>7 DEF CheckThreshold, At
  <2>2. \A r \in Rule : ruleEvents'[r] \subseteq ruleEvents[r]
    BY <1>0, <2>1 DEF Recent, TypeOK
  <2>3. l.at = "cooldown" /\ l.ev = local[t].ev /\ l.chk = clock /\ Head(l.todo).name = This(t)
    BY <1>0 DEF Local, This
  <2>4. CASE Moved(t, Advanced(t))
    BY <1>4, <2>1, <2>2, <2>4
  <2>5. CASE Moved(t, l) /\ Cardinality(Recent(This(t))) >= Threshold
    <3>1. Cardinality(InWindow(Head(l.todo).name, l.chk)) >= Threshold
      BY <1>0, <2>1, <2>3, <2>5, RecentInWindow
    <3> HIDE DEF l
    <3>2. QED
      BY <1>0, <2>1, <2>2, <2>3, <2>5, <3>1, MoveCount
  <2>6. QED
    BY <1>0, <1>7, <2>4, <2>5, StepMoves
<1>8. CASE CheckCooldown(t) \/ StampAlert(t)
  <2>1. /\ UNCHANGED <<clock, matched, fired, ruleEvents>> /\ local[t].todo # <<>>
        /\ local[t].at \in {"cooldown", "stamp"}
    BY <1>1, <1>8 DEF CheckCooldown, StampAlert, At
  <2>2. Cardinality(InWindow(This(t), local[t].chk)) >= Threshold
    BY <1>0, <2>1 DEF EnoughCounted
  <2>3. ASSUME NEW l, Moved(t, l), l.todo = local[t].todo, l.ev = local[t].ev,
               l.chk = local[t].chk
        PROVE  CountInv'
    BY <1>0, <2>1, <2>2, <2>3, MoveCount DEF This
  <2>4. CASE CheckCooldown(t)
    <3>1. Staged(t, "stamp").todo = local[t].todo /\ Staged(t, "stamp").ev = local[t].ev
          /\ Staged(t, "stamp").chk = local[t].chk
      BY <1>0 DEF Staged, Local
    <3>2. Moved(t, Staged(t, "stamp")) \/ Moved(t, Advanced(t))
      BY <1>0, <2>4, StepMoves
    <3>3. QED
      BY <1>4, <2>1, <2>3, <3>1, <3>2
  <2>5. CASE StampAlert(t)
    <3> DEFINE l == [local[t] EXCEPT !.at = "store", !.al = clock]
    <3>1. l.todo = local[t].todo /\ l.ev = local[t].ev /\ l.chk = local[t].chk
      BY <1>0 DEF Local
    <3>2. Moved(t, l)
      BY <1>0, <2>5, StepMoves
    <3> HIDE DEF l
    <3>3. QED
      BY <2>3, <3>1, <3>2
  <2>6. QED
    BY <1>8, <2>4, <2>5
<1>9. CASE StoreAlert(t)
  <2> DEFINE l == [local[t] EXCEPT !.at = "callbacks", !.id = nextId]
             f == [time |-> local[t].al, chk |-> local[t].chk]
  <2>1. /\ UNCHANGED <<clock, matched, ruleEvents>> /\ local[t].at = "store" /\ This(t) \in Rule
        /\ fired' = [fired EXCEPT ![This(t)] = Append(@, f)]
    BY <1>1, <1>9 DEF StoreAlert, Store, At
  <2>2. l.at = "callbacks" /\ l.ev = local[t].ev
    BY <1>0 DEF Local
  <2>3. Moved(t, l)
    BY <1>0, <1>9, StepMoves
  <2>4. f \in FiredRecord /\ f.chk = local[t].chk
    BY <1>0, LocalFields DEF FiredRecord
  <2> HIDE DEF l, f
  <2>5. OwnEvents'
    BY <1>0, <2>1, <2>2, <2>3 DEF OwnEvents, Moved
  <2>6. \A r, c : InWindow(r, c)' = InWindow(r, c)
    BY <2>1 DEF InWindow
  <2>7. \A u \in Thread : u # t => local'[u] = local[u] /\ This(u)' = This(u)
    BY <2>3 DEF Moved, This
  <2>8. local'[t].at = "callbacks"
    BY <2>2, <2>3 DEF Moved
  <2>9. Cardinality(InWindow(This(t), f.chk)) >= Threshold
    BY <1>0, <2>1, <2>4 DEF EnoughCounted
  <2>10. ASSUME NEW r \in Rule, NEW i \in DOMAIN fired'[r]
         PROVE  Cardinality(InWindow(r, fired'[r][i].chk)) >= Threshold
    <3>1. fired \in [Rule -> Seq(FiredRecord)]
      BY <1>0, FiredType
    <3>2. CASE r # This(t)
      BY <1>0, <2>1, <2>10, <3>1, <3>2 DEF EnoughCounted
    <3>3. CASE r = This(t)
      <4>1. fired'[r] = Append(fired[r], f) /\ fired[r] \in Seq(FiredRecord)
        BY <2>1, <3>1, <3>3
      <4>2. (i \in DOMAIN fired[r] /\ fired'[r][i] = fired[r][i]) \/ fired'[r][i] = f
        BY <2>4, <4>1, <2>10
      <4>3. QED
        BY <1>0, <2>9, <3>3, <4>2 DEF EnoughCounted
    <3>4. QED
      BY <3>2, <3>3
  <2>11. EnoughCounted'
    BY <1>0, <2>6, <2>7, <2>8, <2>10 DEF EnoughCounted
  <2>12. QED
    BY <2>5, <2>11 DEF CountInv
<1>10. QED
  BY <1>2, <1>3, <1>5, <1>6, <1>7, <1>8, <1>9 DEF ProcessEvent

LEMMA CountStep == BaseInv /\ BaseInv' /\ CountInv /\ [Next]_vars => CountInv'
<1> SUFFICES ASSUME BaseInv, BaseInv', CountInv, [Next]_vars PROVE CountInv'
  OBVIOUS
<1>1. CASE UNCHANGED vars
  BY <1>1 DEF vars, ruleVars, trackVars, alertVars, histVars, boundVars, CountInv, OwnEvents,
              EnoughCounted, InWindow, This
<1>2. QED
  BY <1>1, ManageCount, ProcessCount DEF Next, Quiet

(***************************************************************************)
(* No false alarm, for every set of threads and rules and every threshold, *)
(* window and cooldown: an alert has threshold_count matching events in    *)
(* the window its threshold was checked for, although the check and the    *)
(* alert are separate critical sections (process_event).                   *)
(***************************************************************************)
THEOREM NoFalseAlarm == Spec => []ThresholdJustified
<1>1. CountInv => ThresholdJustified
  BY DEF CountInv, EnoughCounted, InWindow, WindowOf, ThresholdJustified
<1>2. QED
  BY <1>1, BaseInit, BaseStep, CountInit, CountStep, PTL DEF Spec

-----------------------------------------------------------------------------
(* The cooldown of a rule that one thread feeds.                           *)

Sole(t, r) == {u \in Thread : <<u, r>> \in Match} = {t}

\* The firings of r are not later than last_triggered_, nor that than now.
FiredBefore(r) ==
  /\ lastTriggered[r] <= clock
  /\ \A i \in DOMAIN fired[r] : fired[r][i].time <= lastTriggered[r]

\* Thread t may still trigger r in the call it is executing.
Pending(t, r) ==
  \E i \in DOMAIN local[t].todo :
    local[t].todo[i].name = r /\ (i # 1 \/ local[t].at # "callbacks")

\* A rule that was removed under the thread's feet, and for which is_in_cooldown is
\* therefore always false, has not fired since.
RemovedUnfired(t, r) == Pending(t, r) /\ r \notin Known => fired[r] = <<>>

\* Past the cooldown check, the firings of r lie far enough back.
FarEnough(t, r) ==
  local[t].todo # <<>> /\ This(t) = r =>
    /\ local[t].at = "stamp" => \A i \in DOMAIN fired[r] : clock - fired[r][i].time >= Cooldown
    /\ local[t].at = "store" =>
         /\ local[t].al <= clock
         /\ \A i \in DOMAIN fired[r] : local[t].al - fired[r][i].time >= Cooldown

CoolOK(t, r) ==
  ~TooClose(r) /\ FiredBefore(r) /\ RemovedUnfired(t, r) /\ FarEnough(t, r)

CoolInv == \A t \in Thread, r \in Rule : Sole(t, r) => CoolOK(t, r)

LEMMA CoolInit == Init => CoolInv
<1> SUFFICES ASSUME Init, NEW t \in Thread, NEW r \in Rule PROVE CoolOK(t, r)
  BY DEF CoolInv
<1>1. fired[r] = <<>> /\ lastTriggered[r] = -1 /\ clock = 0 /\ local[t].todo = <<>>
  BY DEF Init, NoLocal
<1>2. QED
  BY <1>1 DEF CoolOK, TooClose, FiredBefore, RemovedUnfired, Pending, FarEnough

LEMMA TimesAreNumbers ==
  ASSUME TypeOK, NEW r \in Rule
  PROVE  /\ fired[r] \in Seq(FiredRecord)
         /\ \A i \in DOMAIN fired[r] : fired[r][i].time \in Int /\ fired[r][i].time >= 0
         /\ lastTriggered[r] \in Int /\ clock \in Int /\ clock >= 0
<1>1. fired[r] \in Seq(FiredRecord)
  BY FiredType
<1>2. \A i \in DOMAIN fired[r] : fired[r][i] \in FiredRecord
  BY <1>1
<1>3. \A f \in FiredRecord : f.time \in 0..MaxTime
  BY DEF FiredRecord
<1>4. lastTriggered[r] \in 0..MaxTime \union {-1} /\ clock \in 0..MaxTime /\ MaxTime \in Nat
  BY AlertAssumption DEF TypeOK
<1>5. QED
  BY <1>1, <1>2, <1>3, <1>4

\* The clock, and the management of rules and alerts.
LEMMA ManageCool ==
  ASSUME BaseInv, NEW t \in Thread, NEW r \in Rule, CoolOK(t, r), Tick \/ Manage
  PROVE  CoolOK(t, r)'
<1> USE DEF ruleVars, trackVars, alertVars, histVars, Change
<1>0. TypeOK /\ rules \in Seq(Rule) /\ Distinct(rules)
  BY DEF BaseInv, TypeOK, NamesDistinct
<1>1. UNCHANGED local /\ (clock' = clock \/ clock' = clock + 1)
  BY DEF Tick, Manage, AddRule, RemoveRule, EnableRule, ClearRules, AcknowledgeAlert, ClearAlerts
<1>2. \/ /\ fired'[r] = fired[r] /\ lastTriggered'[r] = lastTriggered[r]
         /\ r \in Known => r \in Known'
      \/ fired'[r] = <<>> /\ lastTriggered'[r] = -1
  <2>1. CASE Tick \/ ClearAlerts \/ \E i \in DOMAIN alerts : AcknowledgeAlert(i)
    BY <2>1 DEF Tick, ClearAlerts, AcknowledgeAlert, Known
  <2>2. CASE \E q \in Rule, on \in BOOLEAN : EnableRule(q, on)
    BY <2>2 DEF EnableRule, Known
  <2>3. ASSUME NEW q \in Rule, AddRule(q)
        PROVE  fired' = fired /\ lastTriggered' = lastTriggered /\ (r \in Known => r \in Known')
    <3>1. rules' = rules \/ rules' = Append(rules, q)
      BY <2>3 DEF AddRule
    <3>2. \A i \in DOMAIN rules : i \in DOMAIN rules' /\ rules'[i] = rules[i]
      BY <1>0, <3>1
    <3>3. QED
      BY <2>3, <3>2 DEF AddRule, Known
  <2>4. ASSUME NEW q \in Rule, RemoveRule(q), q = r
        PROVE  fired'[r] = <<>> /\ lastTriggered'[r] = -1
    BY <1>0, <2>4 DEF RemoveRule, TypeOK
  <2>5. ASSUME NEW q \in Rule, RemoveRule(q), q # r
        PROVE  /\ fired'[r] = fired[r] /\ lastTriggered'[r] = lastTriggered[r]
               /\ r \in Known => r \in Known'
    <3>1. fired'[r] = fired[r] /\ lastTriggered'[r] = lastTriggered[r]
      BY <1>0, <2>5 DEF RemoveRule, TypeOK
    <3>2. rules' = Without(q) /\ Name(Without(q)) = Known \ {q}
      BY <1>0, <2>5, WithoutProperties DEF RemoveRule
    <3>3. Known' = Name(rules')
      BY DEF Known, Name
    <3>4. QED
      BY <2>5, <3>1, <3>2, <3>3
  <2>6. CASE ClearRules
    BY <2>6 DEF ClearRules
  <2>7. QED
    BY <2>1, <2>2, <2>3, <2>4, <2>5, <2>6 DEF Manage
<1>3. /\ \A i \in DOMAIN fired[r] : fired[r][i].time \in Int
      /\ lastTriggered[r] \in Int /\ clock \in Int /\ clock >= 0 /\ Cooldown \in Int
      /\ local[t].al \in Int
  <2>1. local[t].al \in 0..MaxTime
    BY <1>0, LocalFields DEF TypeOK
  <2>2. QED
    BY <1>0, <2>1, TimesAreNumbers, AlertAssumption
<1>4. CASE fired'[r] = <<>> /\ lastTriggered'[r] = -1
  <2>1. DOMAIN fired'[r] = {}
    BY <1>4
  <2>2. -1 <= clock' /\ (local[t].al <= clock => local[t].al <= clock')
    BY <1>1, <1>3
  <2>3. QED
    BY <1>1, <1>4, <2>1, <2>2
       DEF CoolOK, TooClose, FiredBefore, RemovedUnfired, FarEnough, This
<1>5. CASE /\ fired'[r] = fired[r] /\ lastTriggered'[r] = lastTriggered[r]
           /\ r \in Known => r \in Known'
  <2>1. ~TooClose(r)'
    BY <1>5 DEF CoolOK, TooClose
  <2>2. FiredBefore(r)'
    BY <1>1, <1>3, <1>5 DEF CoolOK, FiredBefore
  <2>3. RemovedUnfired(t, r)'
    BY <1>1, <1>5 DEF CoolOK, RemovedUnfired, Pending
  <2>4. FarEnough(t, r)'
    BY <1>1, <1>3, <1>5 DEF CoolOK, FarEnough, This
  <2>5. QED
    BY <2>1, <2>2, <2>3, <2>4 DEF CoolOK
<1>6. QED
  BY <1>2, <1>4, <1>5

\* Another thread does not fire r.
LEMMA OthersCool ==
  ASSUME BaseInv, NEW t \in Thread, NEW r \in Rule, Sole(t, r), CoolOK(t, r),
         NEW u \in Thread, u # t, ProcessEvent(u)
  PROVE  CoolOK(t, r)'
<1> USE DEF ruleVars, trackVars, alertVars, histVars, boundVars
<1>0. TypeOK /\ Handling /\ local \in [Thread -> Local]
  BY DEF BaseInv, TypeOK
<1>1. UNCHANGED <<clock, rules>>
  BY DEF ProcessEvent, Begin, Skip, Count, CheckThreshold, CheckCooldown, StampAlert, StoreAlert,
         Store, RunCallbacks, Return
<1>2. local'[t] = local[t]
  BY <1>0, BeginMoves, StepMoves DEF ProcessEvent, Moved
<1>3. fired'[r] = fired[r] /\ lastTriggered'[r] = lastTriggered[r]
  <2>1. CASE StoreAlert(u)
    <3>1. <<u, This(u)>> \in Match
      BY <1>0, <2>1 DEF StoreAlert, Store, At, Handling
    <3>2. This(u) # r
      BY <3>1 DEF Sole
    <3>3. QED
      BY <1>0, <2>1, <3>2 DEF StoreAlert, Store, TypeOK
  <2>2. CASE ~StoreAlert(u)
    BY <2>2 DEF ProcessEvent, Begin, Skip, Count, CheckThreshold, CheckCooldown, StampAlert,
                RunCallbacks, Return
  <2>3. QED
    BY <2>1, <2>2
<1>4. QED
  BY <1>1, <1>2, <1>3
     DEF CoolOK, TooClose, FiredBefore, RemovedUnfired, Pending, FarEnough, This, Known

\* A step of t that fires nothing and takes it on to l.
LEMMA MoveCool ==
  ASSUME NEW t \in Thread, NEW r \in Rule, CoolOK(t, r), NEW l, Moved(t, l),
         UNCHANGED <<clock, rules, fired, lastTriggered>>,
         Pending(t, r)' /\ r \notin Known => Pending(t, r),
         FarEnough(t, r)'
  PROVE  CoolOK(t, r)'
<1>1. Known' = Known
  BY DEF Known
<1>2. ~TooClose(r)'
  BY DEF CoolOK, TooClose
<1>3. FiredBefore(r)'
  BY DEF CoolOK, FiredBefore
<1>4. RemovedUnfired(t, r)'
  BY <1>1 DEF CoolOK, RemovedUnfired
<1>5. QED
  BY <1>2, <1>3, <1>4 DEF CoolOK

\* The steps of the thread that feeds r.
LEMMA OwnCool ==
  ASSUME BaseInv, NEW t \in Thread, NEW r \in Rule, CoolOK(t, r), ProcessEvent(t)
  PROVE  CoolOK(t, r)'
<1> USE DEF ruleVars, trackVars, alertVars, histVars, boundVars
<1>0. /\ TypeOK /\ Handling /\ NamesDistinct /\ local \in [Thread -> Local] /\ local[t] \in Local
      /\ local[t].todo \in Seq([name : Rule, on : BOOLEAN])
  BY LocalFields DEF BaseInv, TypeOK
<1>1. /\ \A i \in DOMAIN fired[r] : fired[r][i].time \in Int /\ fired[r][i].time >= 0
      /\ fired[r] \in Seq(FiredRecord)
      /\ lastTriggered[r] \in Int /\ clock \in Int /\ clock >= 0 /\ Cooldown \in Nat
  BY <1>0, TimesAreNumbers, AlertAssumption
<1>2. local[t].at \notin {"idle", "rule"} => local[t].todo # <<>>
  BY <1>0 DEF Handling
<1>3. ASSUME Moved(t, Advanced(t)), local[t].todo # <<>>,
             UNCHANGED <<clock, rules, fired, lastTriggered>>
      PROVE  CoolOK(t, r)'
  <2> DEFINE q == local[t].todo
  <2>1. local'[t].at = "rule" /\ local'[t].todo = Tail(q)
    BY <1>0, <1>3, AdvancedFields DEF Moved
  <2>2. DOMAIN Tail(q) = 1..Len(q) - 1
        /\ \A i \in 1..Len(q) - 1 : Tail(q)[i] = q[i + 1] /\ i + 1 \in DOMAIN q /\ i + 1 # 1
    BY <1>0, <1>3
  <2>3. Pending(t, r)' => Pending(t, r)
    BY <2>1, <2>2 DEF Pending
  <2>4. FarEnough(t, r)'
    BY <2>1 DEF FarEnough
  <2>5. QED
    BY <1>3, <2>3, <2>4, MoveCool
<1>4. CASE Begin(t)
  <2>1. Moved(t, Begun) /\ UNCHANGED <<clock, rules, fired, lastTriggered>>
    BY <1>0, <1>4, BeginMoves DEF Begin
  <2>2. Begun.at = "rule" /\ Begun.todo = Copied
    BY NoLocalType DEF Begun, Local
  <2>3. DOMAIN Copied = DOMAIN rules /\ \A i \in DOMAIN rules : Copied[i].name = rules[i]
    BY DEF Copied
  <2>4. local'[t].at = "rule" /\ local'[t].todo = Copied
    BY <2>1, <2>2 DEF Moved
  <2>5. Pending(t, r)' => r \in Known
    BY <2>3, <2>4 DEF Pending, Known
  <2>6. FarEnough(t, r)'
    BY <2>4 DEF FarEnough
  <2>7. QED
    BY <2>1, <2>5, <2>6, MoveCool
<1>5. CASE Return(t)
  <2>1. Moved(t, NoLocal) /\ UNCHANGED <<clock, rules, fired, lastTriggered>>
    BY <1>0, <1>5, StepMoves DEF Return
  <2>2. local'[t].at = "idle" /\ local'[t].todo = <<>>
    BY <2>1 DEF Moved, NoLocal
  <2>3. ~Pending(t, r)' /\ FarEnough(t, r)'
    BY <2>2 DEF Pending, FarEnough
  <2>4. QED
    BY <2>1, <2>3, MoveCool
<1>6. CASE Skip(t) \/ RunCallbacks(t)
  <2>1. Moved(t, Advanced(t)) /\ local[t].todo # <<>>
    BY <1>0, <1>2, <1>6, StepMoves DEF Skip, RunCallbacks, At
  <2>2. UNCHANGED <<clock, rules, fired, lastTriggered>>
    BY <1>6 DEF Skip, RunCallbacks
  <2>3. QED
    BY <1>3, <2>1, <2>2
<1>7. CASE Count(t)
  <2>1. Moved(t, Staged(t, "threshold")) /\ UNCHANGED <<clock, rules, fired, lastTriggered>>
        /\ local[t].at = "rule"
    BY <1>0, <1>7, StepMoves DEF Count, At
  <2>2. local'[t].at = "threshold" /\ local'[t].todo = local[t].todo
    BY <1>0, <2>1, StagedFields DEF Moved
  <2>3. (Pending(t, r)' => Pending(t, r)) /\ FarEnough(t, r)'
    BY <2>1, <2>2 DEF Pending, FarEnough
  <2>4. QED
    BY <2>1, <2>3, MoveCool
<1>8. CASE CheckThreshold(t)
  <2> DEFINE l == [local[t] EXCEPT !.at = "cooldown", !.chk = clock]
  <2>1. UNCHANGED <<clock, rules, fired, lastTriggered>> /\ local[t].at = "threshold"
        /\ local[t].todo # <<>>
    BY <1>2, <1>8 DEF CheckThreshold, At
  <2>2. l.at = "cooldown" /\ l.todo = local[t].todo
    BY <1>0 DEF Local
  <2>3. Moved(t, l) \/ Moved(t, Advanced(t))
    BY <1>0, <1>8, StepMoves
  <2> HIDE DEF l
  <2>4. CASE Moved(t, l)
    <3>1. local'[t].at = "cooldown" /\ local'[t].todo = local[t].todo
      BY <2>2, <2>4 DEF Moved
    <3>2. (Pending(t, r)' => Pending(t, r)) /\ FarEnough(t, r)'
      BY <2>1, <3>1 DEF Pending, FarEnough
    <3>3. QED
      BY <2>1, <2>4, <3>2, MoveCool
  <2>5. QED
    BY <1>3, <2>1, <2>3, <2>4
<1>9. CASE CheckCooldown(t)
  <2>1. UNCHANGED <<clock, rules, fired, lastTriggered>> /\ local[t].at = "cooldown"
        /\ local[t].todo # <<>>
    BY <1>2, <1>9 DEF CheckCooldown, At
  <2>2. CASE Moved(t, Staged(t, "stamp")) /\ ~IsInCooldown(This(t))
    <3>1. local'[t].at = "stamp" /\ local'[t].todo = local[t].todo
      BY <1>0, <2>2, StagedFields DEF Moved
    <3>2. Pending(t, r)' => Pending(t, r)
      BY <2>1, <3>1 DEF Pending
    <3>3. ASSUME This(t) = r, NEW i \in DOMAIN fired[r]
          PROVE  clock - fired[r][i].time >= Cooldown
      <4>1. fired[r][i].time <= lastTriggered[r] /\ lastTriggered[r] # -1
        BY <1>1 DEF CoolOK, FiredBefore
      <4>2. r \in Known
        <5>1. 1 \in DOMAIN local[t].todo /\ local[t].todo[1].name = r
          BY <1>0, <2>1, <3>3, HeadType DEF This
        <5>2. Pending(t, r)
          BY <2>1, <5>1 DEF Pending
        <5>3. fired[r] # <<>>
          BY <1>1
        <5>4. QED
          BY <5>2, <5>3 DEF CoolOK, RemovedUnfired
      <4>3. ~(clock - lastTriggered[r] < Cooldown)
        BY <2>2, <3>3, <4>1, <4>2 DEF IsInCooldown
      <4>4. QED
        BY <1>1, <4>1, <4>3
    <3>4. FarEnough(t, r)'
      BY <2>1, <3>1, <3>3 DEF FarEnough, This
    <3>5. QED
      BY <2>1, <2>2, <3>2, <3>4, MoveCool
  <2>3. QED
    BY <1>0, <1>3, <1>9, <2>1, <2>2, StepMoves
<1>10. CASE StampAlert(t)
  <2> DEFINE l == [local[t] EXCEPT !.at = "store", !.al = clock]
  <2>1. UNCHANGED <<clock, rules, fired, lastTriggered>> /\ local[t].at = "stamp"
    BY <1>10 DEF StampAlert, At
  <2>2. l.at = "store" /\ l.todo = local[t].todo /\ l.al = clock
    BY <1>0 DEF Local
  <2>3. Moved(t, l)
    BY <1>0, <1>10, StepMoves
  <2> HIDE DEF l
  <2>4. local'[t].at = "store" /\ local'[t].todo = local[t].todo /\ local'[t].al = clock
    BY <2>2, <2>3 DEF Moved
  <2>5. Pending(t, r)' => Pending(t, r)
    BY <2>1, <2>4 DEF Pending
  <2>6. FarEnough(t, r)'
    BY <1>1, <2>1, <2>4 DEF CoolOK, FarEnough, This
  <2>7. QED
    BY <2>1, <2>3, <2>5, <2>6, MoveCool
<1>11. CASE StoreAlert(t)
  <2> DEFINE l == [local[t] EXCEPT !.at = "callbacks", !.id = nextId]
             f == [time |-> local[t].al, chk |-> local[t].chk]
             q == local[t].todo
  <2>1. /\ UNCHANGED <<clock, rules>> /\ local[t].at = "store" /\ q # <<>>
        /\ fired' = [fired EXCEPT ![This(t)] = Append(@, f)]
        /\ lastTriggered' = [lastTriggered EXCEPT ![This(t)] = local[t].al]
    BY <1>2, <1>11 DEF StoreAlert, Store, At
  <2>2. l.at = "callbacks" /\ l.todo = q
    BY <1>0 DEF Local
  <2>3. Moved(t, l)
    BY <1>0, <1>11, StepMoves
  <2>4. f \in FiredRecord /\ f.time = local[t].al /\ local[t].al \in Int
    BY <1>0, LocalFields, AlertAssumption DEF FiredRecord
  <2> HIDE DEF l, f
  <2>5. local'[t].at = "callbacks" /\ local'[t].todo = q
    BY <2>2, <2>3 DEF Moved
  <2>6. FarEnough(t, r)' /\ Known' = Known /\ (Pending(t, r)' => Pending(t, r))
    BY <2>1, <2>5 DEF FarEnough, Known, Pending
  <2>7. CASE r # This(t)
    <3>1. fired'[r] = fired[r] /\ lastTriggered'[r] = lastTriggered[r]
      BY <1>0, <2>1, <2>7 DEF TypeOK
    <3>2. QED
      BY <2>1, <2>6, <3>1 DEF CoolOK, TooClose, FiredBefore, RemovedUnfired
  <2>8. CASE r = This(t)
    <3>1. fired'[r] = Append(fired[r], f) /\ lastTriggered'[r] = local[t].al
      BY <1>0, <2>1, <2>8 DEF TypeOK
    <3>2. /\ local[t].al <= clock
          /\ \A i \in DOMAIN fired[r] : local[t].al - fired[r][i].time >= Cooldown
      BY <2>1, <2>8 DEF CoolOK, FarEnough
    <3> DEFINE n == Len(fired[r])
    <3>3. /\ DOMAIN fired[r] = 1..n /\ n \in Nat /\ DOMAIN fired'[r] = 1..n + 1
          /\ \A i \in 1..n : fired'[r][i] = fired[r][i]
          /\ fired'[r][n + 1] = f
      BY <1>1, <2>4, <3>1
    <3> HIDE DEF n
    <3>4. ~TooClose(r)'
      <4> SUFFICES ASSUME NEW i \in 1..n + 1, NEW j \in 1..n + 1, i < j
                   PROVE  ~(fired'[r][j].time - fired'[r][i].time < Cooldown)
        BY <3>3 DEF TooClose
      <4>1. i \in 1..n
        BY <3>3
      <4>2. CASE j \in 1..n
        <5>1. ~(fired[r][j].time - fired[r][i].time < Cooldown)
          BY <3>3, <4>1, <4>2 DEF CoolOK, TooClose
        <5>2. QED
          BY <3>3, <4>1, <4>2, <5>1
      <4>3. CASE j = n + 1
        <5>1. fired'[r][j].time = local[t].al /\ fired'[r][i].time = fired[r][i].time
          BY <2>4, <3>3, <4>1, <4>3
        <5>2. fired[r][i].time \in Int /\ local[t].al - fired[r][i].time >= Cooldown
          BY <1>1, <3>2, <3>3, <4>1
        <5>3. QED
          BY <1>1, <2>4, <5>1, <5>2
      <4>4. QED
        BY <3>3, <4>2, <4>3
    <3>5. FiredBefore(r)'
      <4> SUFFICES ASSUME NEW i \in 1..n + 1 PROVE fired'[r][i].time <= local[t].al
        BY <2>1, <3>1, <3>2, <3>3 DEF FiredBefore
      <4>1. CASE i \in 1..n
        BY <1>1, <2>4, <3>2, <3>3, <4>1, SMTT(30)
      <4>2. CASE i = n + 1
        BY <2>4, <3>3, <4>2
      <4>3. QED
        BY <3>3, <4>1, <4>2
    <3>6. ~Pending(t, r)'
      <4>1. 1 \in DOMAIN q /\ q[1].name = r
        BY <1>0, <2>1, <2>8, HeadType DEF This
      <4>2. \A i \in DOMAIN q : i # 1 => q[i].name # r
        BY <1>0, <4>1 DEF NamesDistinct
      <4>3. QED
        BY <2>5, <4>2 DEF Pending
    <3>7. QED
      BY <2>6, <3>4, <3>5, <3>6 DEF CoolOK, RemovedUnfired
  <2>9. QED
    BY <2>7, <2>8
<1>12. QED
  BY <1>4, <1>5, <1>6, <1>7, <1>8, <1>9, <1>10, <1>11 DEF ProcessEvent

LEMMA CoolStep == BaseInv /\ CoolInv /\ [Next]_vars => CoolInv'
<1> SUFFICES ASSUME BaseInv, [Next]_vars, NEW t \in Thread, NEW r \in Rule, Sole(t, r), CoolOK(t, r)
             PROVE  CoolOK(t, r)'
  BY DEF CoolInv, Sole
<1>1. CASE UNCHANGED vars
  BY <1>1 DEF vars, ruleVars, trackVars, alertVars, histVars, boundVars, CoolOK, TooClose,
              FiredBefore, RemovedUnfired, Pending, FarEnough, This, Known
<1>2. QED
  BY <1>1, ManageCool, OthersCool, OwnCool DEF Next, Quiet

(***************************************************************************)
(* A rule whose events come from one thread keeps its cooldown, however    *)
(* many threads, rules and rule changes there are: the check and the       *)
(* trigger are two critical sections, but only that thread runs them for   *)
(* the rule (is_in_cooldown, trigger_alert).                               *)
(***************************************************************************)
THEOREM SoleSourceKeepsCooldown == Spec => []SoleSourceCooldown
<1>1. CoolInv => SoleSourceCooldown
  <2> SUFFICES ASSUME CoolInv, NEW r \in Rule,
                      Cardinality({t \in Thread : <<t, r>> \in Match}) = 1
               PROVE  ~TooClose(r)
    BY DEF SoleSourceCooldown
  <2> DEFINE F == {t \in Thread : <<t, r>> \in Match}
  <2>1. IsFiniteSet(F)
    BY FS_Subset, AlertAssumption
  <2>2. PICK t : F = {t}
    BY <2>1, FS_Singleton
  <2>3. t \in Thread /\ Sole(t, r)
    BY <2>2 DEF Sole
  <2>4. QED
    BY <2>3 DEF CoolInv, CoolOK
<1>2. QED
  BY <1>1, BaseInit, BaseStep, CoolInit, CoolStep, PTL DEF Spec

-----------------------------------------------------------------------------
(* Every alert is delivered once.                                          *)

\* Thread t has an alert that it has not yet handed to the callbacks.
Holds(t) == local[t].at = "callbacks"

\* The ids handed out are those delivered and those held, each of them once.
IdsAccounted ==
  /\ \A i, j \in DOMAIN delivered : i # j => delivered[i] # delivered[j]
  /\ \A i \in DOMAIN delivered : delivered[i] \in 1..nextId - 1
  /\ \A t \in Thread : Holds(t) =>
       /\ local[t].id \in 1..nextId - 1
       /\ \A i \in DOMAIN delivered : delivered[i] # local[t].id
       /\ \A u \in Thread : u # t /\ Holds(u) => local[u].id # local[t].id
  /\ \A n \in 1..nextId - 1 :
       \/ \E i \in DOMAIN delivered : delivered[i] = n
       \/ \E t \in Thread : Holds(t) /\ local[t].id = n

LEMMA IdsInit == Init => IdsAccounted
<1> SUFFICES ASSUME Init PROVE IdsAccounted
  OBVIOUS
<1>1. delivered = <<>> /\ nextId - 1 = 0 /\ \A t \in Thread : ~Holds(t)
  BY DEF Init, NoLocal, Holds
<1>2. QED
  BY <1>1 DEF IdsAccounted

\* A step that neither takes nor delivers an alert.
LEMMA MoveIds ==
  ASSUME IdsAccounted, NEW t \in Thread, NEW l, Moved(t, l), ~Holds(t), l.at # "callbacks",
         UNCHANGED <<nextId, delivered>>
  PROVE  IdsAccounted'
<1>1. \A u \in Thread : Holds(u)' <=> Holds(u)
  BY DEF Moved, Holds
<1>2. \A u \in Thread : Holds(u) => local'[u] = local[u]
  BY DEF Moved
<1>3. QED
  BY <1>1, <1>2 DEF IdsAccounted

LEMMA ProcessIds ==
  ASSUME BaseInv, IdsAccounted, NEW t \in Thread, ProcessEvent(t)
  PROVE  IdsAccounted'
<1> USE DEF ruleVars, trackVars, alertVars, histVars, boundVars
<1>0. /\ TypeOK /\ Handling /\ local \in [Thread -> Local] /\ local[t] \in Local
      /\ nextId \in Nat /\ nextId > 0 /\ delivered \in Seq(Nat)
  <2>1. nextId \in Nat \ {0} => nextId \in Nat /\ nextId > 0
    OBVIOUS
  <2>2. QED
    BY <2>1 DEF BaseInv, TypeOK
<1>1. CASE Begin(t)
  <2>1. Moved(t, Begun) /\ UNCHANGED <<nextId, delivered>> /\ ~Holds(t)
    BY <1>0, <1>1, BeginMoves DEF Begin, At, Holds
  <2>2. Begun.at # "callbacks"
    BY NoLocalType DEF Begun, Local
  <2>3. QED
    BY <2>1, <2>2, MoveIds
<1>2. CASE Return(t)
  <2>1. Moved(t, NoLocal) /\ UNCHANGED <<nextId, delivered>> /\ ~Holds(t)
    BY <1>0, <1>2, StepMoves DEF Return, At, Holds
  <2>2. NoLocal.at # "callbacks"
    BY DEF NoLocal
  <2>3. QED
    BY <2>1, <2>2, MoveIds
<1>3. CASE Skip(t) \/ Count(t) \/ CheckThreshold(t) \/ CheckCooldown(t) \/ StampAlert(t)
  <2>1. UNCHANGED <<nextId, delivered>> /\ ~Holds(t) /\ (Skip(t) => local[t].todo # <<>>)
    BY <1>3 DEF Skip, Count, CheckThreshold, CheckCooldown, StampAlert, At, Holds
  <2>2. PICK l \in {Advanced(t), Staged(t, "threshold"), Staged(t, "stamp"),
                    [local[t] EXCEPT !.at = "cooldown", !.chk = clock],
                    [local[t] EXCEPT !.at = "store", !.al = clock]} : Moved(t, l)
    BY <1>0, <1>3, StepMoves
  <2>3. l.at # "callbacks"
    BY <1>0, <2>2 DEF Advanced, Staged, Local
  <2>4. QED
    BY <2>1, <2>2, <2>3, MoveIds
<1>4. CASE StoreAlert(t)
  <2> DEFINE l == [local[t] EXCEPT !.at = "callbacks", !.id = nextId]
  <2>1. nextId' = nextId + 1 /\ UNCHANGED delivered /\ ~Holds(t)
    BY <1>4 DEF StoreAlert, Store, At, Holds
  <2>2. Moved(t, l) /\ l.at = "callbacks" /\ l.id = nextId
    BY <1>0, <1>4, StepMoves DEF Local
  <2> HIDE DEF l
  <2>3. /\ Holds(t)' /\ local'[t].id = nextId
        /\ \A u \in Thread : u # t => local'[u] = local[u] /\ (Holds(u)' <=> Holds(u))
    BY <2>2 DEF Moved, Holds
  <2>4. \A n \in 1..nextId' - 1 : n \in 1..nextId - 1 \/ n = nextId
    BY <1>0, <2>1
  <2>5. nextId \in 1..nextId' - 1 /\ \A n \in 1..nextId - 1 : n \in 1..nextId' - 1 /\ n # nextId
    BY <1>0, <2>1
  <2>6. \A n \in 1..nextId' - 1 :
          \/ \E i \in DOMAIN delivered' : delivered'[i] = n
          \/ \E u \in Thread : Holds(u)' /\ local'[u].id = n
    <3> SUFFICES ASSUME NEW n \in 1..nextId' - 1, ~\E i \in DOMAIN delivered : delivered[i] = n
                 PROVE  \E u \in Thread : Holds(u)' /\ local'[u].id = n
      BY <2>1
    <3>1. CASE n = nextId
      BY <2>3, <3>1
    <3>2. CASE n \in 1..nextId - 1
      <4>1. PICK u \in Thread : Holds(u) /\ local[u].id = n
        BY <3>2 DEF IdsAccounted
      <4>2. u # t
        BY <2>1, <4>1
      <4>3. QED
        BY <2>3, <4>1, <4>2
    <3>3. QED
      BY <2>4, <3>1, <3>2
  <2>7. \A u \in Thread : Holds(u)' =>
          /\ local'[u].id \in 1..nextId' - 1
          /\ \A i \in DOMAIN delivered' : delivered'[i] # local'[u].id
          /\ \A v \in Thread : v # u /\ Holds(v)' => local'[v].id # local'[u].id
    <3>1. \A u \in Thread : u # t /\ Holds(u)' =>
            /\ local'[u].id \in 1..nextId - 1
            /\ \A i \in DOMAIN delivered : delivered[i] # local'[u].id
            /\ \A v \in Thread : v # u /\ v # t /\ Holds(v)' => local'[v].id # local'[u].id
      BY <2>3 DEF IdsAccounted
    <3>2. \A i \in DOMAIN delivered : delivered[i] # nextId
      BY <2>5 DEF IdsAccounted
    <3>3. \A u \in Thread : u # t /\ Holds(u)' => local'[u].id # nextId /\ local'[u].id \in 1..nextId' - 1
      BY <2>5, <3>1
    <3>4. QED
      BY <2>1, <2>3, <2>5, <3>1, <3>2, <3>3
  <2>8. QED
    BY <2>1, <2>5, <2>6, <2>7 DEF IdsAccounted
<1>5. CASE RunCallbacks(t)
  <2> DEFINE d == Len(delivered)
  <2>1. /\ nextId' = nextId /\ Holds(t) /\ delivered' = Append(delivered, local[t].id)
        /\ Moved(t, Advanced(t)) /\ local[t].todo # <<>>
    BY <1>0, <1>5, StepMoves DEF RunCallbacks, At, Holds, Handling
  <2>2. /\ ~Holds(t)'
        /\ \A u \in Thread : u # t => local'[u] = local[u] /\ (Holds(u)' <=> Holds(u))
    BY <1>0, <2>1, AdvancedFields DEF Moved, Holds
  <2>3. /\ DOMAIN delivered = 1..d /\ DOMAIN delivered' = 1..d + 1 /\ d \in Nat
        /\ \A i \in 1..d : delivered'[i] = delivered[i]
        /\ delivered'[d + 1] = local[t].id
    BY <1>0, <2>1, LocalFields
  <2> HIDE DEF d
  <2>4. /\ local[t].id \in 1..nextId - 1
        /\ \A i \in 1..d : delivered[i] # local[t].id /\ delivered[i] \in 1..nextId - 1
        /\ \A u \in Thread : u # t /\ Holds(u) => local[u].id # local[t].id
    BY <2>1, <2>3 DEF IdsAccounted
  <2>5. \A i \in 1..d + 1 : i \in 1..d \/ i = d + 1
    BY <2>3
  <2>6. \A i, j \in DOMAIN delivered' : i # j => delivered'[i] # delivered'[j]
    BY <2>3, <2>4, <2>5 DEF IdsAccounted
  <2>7. \A i \in DOMAIN delivered' : delivered'[i] \in 1..nextId' - 1
    BY <2>1, <2>3, <2>4, <2>5
  <2>8. \A u \in Thread : Holds(u)' =>
          /\ local'[u].id \in 1..nextId' - 1
          /\ \A i \in DOMAIN delivered' : delivered'[i] # local'[u].id
          /\ \A v \in Thread : v # u /\ Holds(v)' => local'[v].id # local'[u].id
    <3> SUFFICES ASSUME NEW u \in Thread, Holds(u)'
                 PROVE  /\ local'[u].id \in 1..nextId' - 1
                        /\ \A i \in DOMAIN delivered' : delivered'[i] # local'[u].id
                        /\ \A v \in Thread : v # u /\ Holds(v)' => local'[v].id # local'[u].id
      OBVIOUS
    <3>1. u # t /\ Holds(u) /\ local'[u] = local[u]
      BY <2>2
    <3>2. /\ local[u].id \in 1..nextId - 1
          /\ \A i \in DOMAIN delivered : delivered[i] # local[u].id
          /\ \A v \in Thread : v # u /\ Holds(v) => local[v].id # local[u].id
      BY <3>1 DEF IdsAccounted
    <3>3. local'[u].id \in 1..nextId' - 1
      BY <2>1, <3>1, <3>2
    <3>4. ASSUME NEW i \in DOMAIN delivered' PROVE delivered'[i] # local'[u].id
      <4>1. CASE i \in 1..d
        <5>1. delivered'[i] = delivered[i] /\ i \in DOMAIN delivered
          BY <2>3, <4>1
        <5>2. QED
          BY <3>1, <3>2, <5>1
      <4>2. CASE i = d + 1
        <5>1. delivered'[i] = local[t].id
          BY <2>3, <4>2
        <5>2. QED
          BY <2>4, <3>1, <5>1
      <4>3. QED
        BY <2>3, <2>5, <4>1, <4>2
    <3>5. ASSUME NEW v \in Thread, v # u, Holds(v)' PROVE local'[v].id # local'[u].id
      <4>1. Holds(v) /\ local'[v] = local[v]
        BY <2>2, <3>5
      <4>2. QED
        BY <3>1, <3>2, <3>5, <4>1
    <3>6. QED
      BY <3>3, <3>4, <3>5
  <2>9. \A n \in 1..nextId' - 1 :
          \/ \E i \in DOMAIN delivered' : delivered'[i] = n
          \/ \E u \in Thread : Holds(u)' /\ local'[u].id = n
    <3> SUFFICES ASSUME NEW n \in 1..nextId - 1, ~\E u \in Thread : Holds(u)' /\ local'[u].id = n
                 PROVE  \E i \in DOMAIN delivered' : delivered'[i] = n
      BY <2>1
    <3>1. CASE n = local[t].id
      <4>1. d + 1 \in DOMAIN delivered'
        BY <2>3
      <4>2. QED
        BY <2>3, <3>1, <4>1
    <3>2. CASE n # local[t].id
      <4>1. PICK i \in DOMAIN delivered : delivered[i] = n
        BY <2>2, <3>2 DEF IdsAccounted
      <4>2. i \in DOMAIN delivered' /\ delivered'[i] = n
        BY <2>3, <4>1
      <4>3. QED
        BY <4>2
    <3>3. QED
      BY <3>1, <3>2
  <2>10. QED
    BY <2>6, <2>7, <2>8, <2>9 DEF IdsAccounted
<1>6. QED
  BY <1>1, <1>2, <1>3, <1>4, <1>5 DEF ProcessEvent

LEMMA IdsStep == BaseInv /\ IdsAccounted /\ [Next]_vars => IdsAccounted'
<1> SUFFICES ASSUME BaseInv, IdsAccounted, [Next]_vars PROVE IdsAccounted'
  OBVIOUS
<1>1. CASE Tick \/ Manage \/ UNCHANGED vars
  <2>1. UNCHANGED <<local, nextId, delivered>>
    BY <1>1 DEF Tick, Manage, AddRule, RemoveRule, EnableRule, ClearRules, AcknowledgeAlert,
                ClearAlerts, Change, vars, ruleVars, trackVars, alertVars, histVars
  <2>2. QED
    BY <2>1 DEF IdsAccounted, Holds
<1>2. QED
  BY <1>1, ProcessIds DEF Next, Quiet

(***************************************************************************)
(* For every number of threads: the callbacks get every alert once, under  *)
(* the id it is stored with, and none is outstanding when no thread is     *)
(* inside process_event (trigger_alert).                                   *)
(***************************************************************************)
THEOREM AlertsDeliveredOnce == Spec => []EveryAlertDeliveredOnce
<1>1. BaseInv /\ IdsAccounted => EveryAlertDeliveredOnce
  <2> SUFFICES ASSUME BaseInv, IdsAccounted, \A t \in Thread : At(t, "idle")
               PROVE  Len(delivered) = nextId - 1
    BY DEF IdsAccounted, EveryAlertDeliveredOnce
  <2> DEFINE d == Len(delivered)
             D == 1..d
             T == 1..nextId - 1
  <2>1. delivered \in Seq(Nat) /\ nextId \in Nat /\ nextId > 0
    BY DEF BaseInv, TypeOK
  <2>2. \A t \in Thread : ~Holds(t)
    BY DEF At, Holds
  <2>3. delivered \in [D -> T]
    BY <2>1 DEF IdsAccounted
  <2>4. delivered \in Bijection(D, T)
    <3>1. \A a, b \in D : delivered[a] = delivered[b] => a = b
      BY <2>1 DEF IdsAccounted
    <3>2. \A n \in T : \E a \in D : delivered[a] = n
      BY <2>1, <2>2 DEF IdsAccounted
    <3>3. QED
      BY <2>3, <3>1, <3>2 DEF Bijection, Injection, Surjection, IsInjective
  <2>5. IsFiniteSet(D) /\ Cardinality(D) = d
    <3>1. d \in Nat
      BY <2>1
    <3> HIDE DEF d
    <3>2. QED
      BY <3>1, FS_Interval
  <2>6. Cardinality(T) = nextId - 1
    BY <2>1, FS_Interval
  <2>7. ExistsBijection(D, T)
    BY <2>4 DEF ExistsBijection
  <2>8. QED
    BY <2>5, <2>6, <2>7, FS_Bijection
<1>2. QED
  BY <1>1, BaseInit, BaseStep, IdsInit, IdsStep, PTL DEF Spec

-----------------------------------------------------------------------------
(* The list of alerts implements AlertList.                                *)

\* The list s holds the numbers before n, in order and without a gap.
Numbered(s, n) ==
  /\ Len(s) <= MaxAlerts
  /\ \A i \in DOMAIN s : s[i].id = n - Len(s) + i - 1

NumberInv == Numbered(alerts, nextId) /\ Len(alerts) < nextId

AckedIn(s) == {s[i].id : i \in {j \in DOMAIN s : s[j].ack}}

LEMMA AckedIs ==
  ASSUME NEW s, NEW n
  PROVE  n \in AckedIn(s) <=> \E i \in DOMAIN s : s[i].ack /\ s[i].id = n
BY DEF AckedIn

\* The list s after the alert a was raised.
Raised(s, a) == Cap(Append(s, a))

Grown(s, a, u) ==
  /\ Len(s) < MaxAlerts
  /\ Len(u) = Len(s) + 1
  /\ \A i \in 1..Len(s) : u[i] = s[i]
  /\ u[Len(s) + 1] = a

Shifted(s, a, u) ==
  /\ Len(s) = MaxAlerts
  /\ Len(u) = Len(s)
  /\ \A i \in 1..Len(s) - 1 : u[i] = s[i + 1]
  /\ u[Len(s)] = a

\* One more alert in a list of so many: the list itself, or all but its first.
LEMMA CapShape ==
  ASSUME NEW s \in Seq(AlertRecord), Len(s) <= MaxAlerts, NEW a \in AlertRecord,
         NEW u, u = Raised(s, a)
  PROVE  Grown(s, a, u) \/ Shifted(s, a, u)
<1> DEFINE v == Append(s, a)
<1>0. Len(s) \in Nat /\ MaxAlerts \in Nat /\ MaxAlerts > 0
  BY AlertAssumption
<1>1. /\ v \in Seq(AlertRecord) /\ Len(v) = Len(s) + 1
      /\ \A i \in 1..Len(s) : v[i] = s[i]
      /\ v[Len(s) + 1] = a
  OBVIOUS
<1> HIDE DEF v
<1>2. CASE Len(s) < MaxAlerts
  <2>1. u = v
    BY <1>0, <1>1, <1>2 DEF Raised, Cap, v
  <2> QED
    BY <1>1, <1>2, <2>1 DEF Grown
<1>3. CASE Len(s) = MaxAlerts
  <2>1. u = SubSeq(v, 2, Len(v))
    <3>1. Len(v) > MaxAlerts /\ Len(v) - MaxAlerts + 1 = 2
      BY <1>0, <1>1, <1>3
    <3> QED
      BY <3>1 DEF Raised, Cap, v
  <2>2. Len(u) = Len(s) /\ \A i \in 1..Len(s) : u[i] = v[i + 1]
    BY <1>0, <1>1, <1>3, <2>1
  <2>3. \A i \in 1..Len(s) - 1 : i \in 1..Len(s) /\ i + 1 \in 1..Len(s)
    BY <1>0
  <2>4. Len(s) \in 1..Len(s)
    BY <1>0, <1>3
  <2> QED
    BY <1>1, <1>3, <2>2, <2>3, <2>4 DEF Shifted
<1> QED
  BY <1>0, <1>2, <1>3

RaisedFrom(s, n, u) ==
  /\ Numbered(u, n + 1)
  /\ n + 1 - Len(u) = IF n + 1 - (n - Len(s)) > MaxAlerts
                        THEN n - Len(s) + 1 ELSE n - Len(s)
  /\ Len(u) < n + 1
  /\ AckedIn(u) = AckedIn(s) \ ((n - Len(s)) .. n + 1 - Len(u) - 1)

\* What raising an alert makes of a list of consecutive numbers.
LEMMA RaiseNumbered ==
  ASSUME NEW s \in Seq(AlertRecord), NEW n \in Nat, Numbered(s, n), Len(s) < n,
         NEW a \in AlertRecord, a.id = n, a.ack = FALSE, NEW u, u = Raised(s, a)
  PROVE  RaisedFrom(s, n, u)
<1>0. /\ Len(s) \in Nat /\ MaxAlerts \in Nat /\ MaxAlerts > 0 /\ Len(s) <= MaxAlerts
      /\ DOMAIN s = 1..Len(s)
  BY AlertAssumption DEF Numbered
<1>1. u \in Seq(AlertRecord) /\ DOMAIN u = 1..Len(u) /\ Len(u) \in Nat
  BY AlertsKept DEF Raised
<1>2. \A i \in 1..Len(s) : s[i].id = n - Len(s) + i - 1
  BY <1>0 DEF Numbered
<1>3. CASE Grown(s, a, u)
  <2> USE <1>3 DEF Grown
  <2>0. \A i \in 1..Len(u) : u[i].id = n + 1 - Len(u) + i - 1
    <3> SUFFICES ASSUME NEW i \in 1..Len(u)
                 PROVE  u[i].id = n + 1 - Len(u) + i - 1
      OBVIOUS
    <3>1. CASE i = Len(s) + 1
      BY <1>0, <1>3, <3>1
    <3>2. CASE i # Len(s) + 1
      <4>1. i \in 1..Len(s)
        BY <1>0, <1>3, <3>2
      <4>2. u[i].id = n - Len(s) + i - 1
        BY <1>2, <1>3, <4>1
      <4> QED
        BY <1>0, <1>3, <4>2
    <3> QED
      BY <3>1, <3>2
  <2>1. Numbered(u, n + 1)
    BY <1>0, <1>1, <1>3, <2>0 DEF Numbered
  <2>2. \A m : m \in AckedIn(u) <=> m \in AckedIn(s)
    <3>1. ASSUME NEW m, m \in AckedIn(u)
          PROVE  m \in AckedIn(s)
      <4>1. PICK i \in 1..Len(u) : u[i].ack /\ u[i].id = m
        BY <1>1, <3>1, AckedIs
      <4>2. i \in 1..Len(s)
        BY <1>0, <1>3, <4>1
      <4> QED
        BY <1>0, <1>3, <4>1, <4>2, AckedIs
    <3>2. ASSUME NEW m, m \in AckedIn(s)
          PROVE  m \in AckedIn(u)
      <4>1. PICK i \in 1..Len(s) : s[i].ack /\ s[i].id = m
        BY <1>0, <3>2, AckedIs
      <4>2. i \in 1..Len(u) /\ u[i] = s[i]
        BY <1>0, <1>3, <4>1
      <4> QED
        BY <1>1, <4>1, <4>2, AckedIs
    <3> QED
      BY <3>1, <3>2
  <2>3. (n - Len(s)) .. n + 1 - Len(u) - 1 = {}
    BY <1>0, <1>3
  <2>4. n + 1 - (n - Len(s)) <= MaxAlerts /\ n + 1 - Len(u) = n - Len(s) /\ Len(u) < n + 1
    BY <1>0, <1>3
  <2>5. ~(n + 1 - (n - Len(s)) > MaxAlerts)
    BY <1>0, <2>4
  <2> QED
    BY <2>1, <2>2, <2>3, <2>4, <2>5 DEF RaisedFrom
<1>4. CASE Shifted(s, a, u)
  <2> USE <1>4 DEF Shifted
  <2>0. \A i \in 1..Len(u) : u[i].id = n + 1 - Len(u) + i - 1
    <3> SUFFICES ASSUME NEW i \in 1..Len(u)
                 PROVE  u[i].id = n + 1 - Len(u) + i - 1
      OBVIOUS
    <3>1. CASE i = Len(s)
      BY <1>0, <1>4, <3>1
    <3>2. CASE i # Len(s)
      <4>1. i \in 1..Len(s) - 1 /\ i + 1 \in 1..Len(s)
        BY <1>0, <1>4, <3>2
      <4>2. u[i].id = n - Len(s) + (i + 1) - 1
        BY <1>2, <1>4, <4>1
      <4> QED
        BY <1>0, <1>4, <4>2
    <3> QED
      BY <3>1, <3>2
  <2>1. Numbered(u, n + 1)
    BY <1>0, <1>1, <1>4, <2>0 DEF Numbered
  <2>2. \A m : m \in AckedIn(u) <=> m \in AckedIn(s) /\ m # n - Len(s)
    <3>1. ASSUME NEW m, m \in AckedIn(u)
          PROVE  m \in AckedIn(s) /\ m # n - Len(s)
      <4>1. PICK i \in 1..Len(u) : u[i].ack /\ u[i].id = m
        BY <1>1, <3>1, AckedIs
      <4>2. i \in 1..Len(s) - 1 /\ i + 1 \in 1..Len(s)
        BY <1>0, <1>4, <4>1
      <4>3. s[i + 1].ack /\ s[i + 1].id = m
        BY <1>4, <4>1, <4>2
      <4>4. m = n - Len(s) + (i + 1) - 1
        BY <1>2, <4>2, <4>3
      <4> QED
        BY <1>0, <4>2, <4>3, <4>4, AckedIs
    <3>2. ASSUME NEW m, m \in AckedIn(s), m # n - Len(s)
          PROVE  m \in AckedIn(u)
      <4>1. PICK i \in 1..Len(s) : s[i].ack /\ s[i].id = m
        BY <1>0, <3>2, AckedIs
      <4>2. m = n - Len(s) + i - 1
        BY <1>2, <4>1
      <4>3. i # 1
        BY <1>0, <3>2, <4>2
      <4>4. i - 1 \in 1..Len(s) - 1 /\ (i - 1) + 1 = i /\ i - 1 \in 1..Len(u)
        BY <1>0, <1>4, <4>3
      <4>5. u[i - 1] = s[i]
        BY <1>4, <4>4
      <4> QED
        BY <1>1, <4>1, <4>4, <4>5, AckedIs
    <3> QED
      BY <3>1, <3>2
  <2>3. (n - Len(s)) .. n + 1 - Len(u) - 1 = {n - Len(s)}
    BY <1>0, <1>4
  <2>4. n + 1 - (n - Len(s)) > MaxAlerts /\ n + 1 - Len(u) = n - Len(s) + 1
        /\ Len(u) < n + 1
    BY <1>0, <1>4
  <2> QED
    BY <2>1, <2>2, <2>3, <2>4 DEF RaisedFrom
<1> QED
  BY <1>0, <1>3, <1>4, CapShape

LEMMA ListElsewhere ==
  ASSUME NumberInv, UNCHANGED alertVars
  PROVE  NumberInv' /\ UNCHANGED List!vars
BY DEF alertVars, NumberInv, Numbered, List!vars, Acked

LEMMA ListStep ==
  BaseInv /\ NumberInv /\ [Next]_vars => NumberInv' /\ [List!Next]_(List!vars)
<1> SUFFICES ASSUME BaseInv, NumberInv, [Next]_vars
             PROVE  NumberInv' /\ [List!Next]_(List!vars)
  OBVIOUS
<1>0. /\ alerts \in Seq(AlertRecord) /\ nextId \in Nat
      /\ DOMAIN alerts = 1..Len(alerts) /\ Len(alerts) \in Nat
      /\ \A t \in Thread : local[t] \in Local
  BY DEF BaseInv, TypeOK, AlertRecord
<1>1. ASSUME NEW t \in Thread, StoreAlert(t)
      PROVE  NumberInv' /\ [List!Next]_(List!vars)
  <2> DEFINE a == [id |-> nextId, rule |-> This(t), time |-> local[t].al, ack |-> FALSE]
  <2>1. alerts' = Raised(alerts, a) /\ nextId' = nextId + 1
    BY <1>1 DEF StoreAlert, Store, Raised
  <2>2. a \in AlertRecord /\ a.id = nextId /\ a.ack = FALSE
    <3>1. At(t, "store")
      BY <1>1 DEF StoreAlert, Store
    <3>2. <<t, This(t)>> \in Match
      BY <3>1 DEF BaseInv, Handling, At
    <3>3. This(t) \in Rule
      BY <3>2, AlertAssumption
    <3>4. local[t].al \in Time /\ nextId \in Nat \ {0}
      BY <1>0 DEF Local, BaseInv, TypeOK
    <3> QED
      BY <3>3, <3>4 DEF AlertRecord
  <2> HIDE DEF a
  <2>3. Numbered(alerts, nextId) /\ Len(alerts) < nextId
    BY DEF NumberInv
  <2>4. RaisedFrom(alerts, nextId, alerts')
    BY <1>0, <2>1, <2>2, <2>3, RaiseNumbered
  <2>5. NumberInv'
    BY <2>1, <2>4 DEF NumberInv, RaisedFrom
  <2>6. Acked = AckedIn(alerts) /\ Acked' = AckedIn(alerts')
    BY DEF Acked, AckedIn
  <2>7. List!Raise
    <3> DEFINE o == nextId - Len(alerts)
               p == nextId' - Len(alerts')
    <3>0. nextId' = nextId + 1 /\ nextId \in Nat /\ Len(alerts) \in Nat
      BY <1>0, <2>1
    <3>1. p = IF nextId' - o > MaxAlerts THEN o + 1 ELSE o
      BY <2>4, <3>0 DEF RaisedFrom
    <3>2. Acked' = Acked \ (o .. p - 1)
      BY <2>4, <2>6, <3>0 DEF RaisedFrom
    <3> QED
      BY <2>1, <3>1, <3>2 DEF List!Raise
  <2> QED
    BY <2>5, <2>7 DEF List!Next
<1>2. ASSUME NEW i \in DOMAIN alerts, AcknowledgeAlert(i)
      PROVE  NumberInv' /\ [List!Next]_(List!vars)
  <2>1. alerts' = [alerts EXCEPT ![i].ack = TRUE] /\ nextId' = nextId
    BY <1>2 DEF AcknowledgeAlert
  <2>2. alerts[i] \in AlertRecord /\ \A j \in DOMAIN alerts : alerts[j] \in AlertRecord
    BY <1>0
  <2>3. /\ DOMAIN alerts' = DOMAIN alerts
        /\ \A j \in DOMAIN alerts : j # i => alerts'[j] = alerts[j]
        /\ alerts'[i].ack = TRUE /\ alerts'[i].id = alerts[i].id
    BY <1>0, <2>1, <2>2 DEF AlertRecord
  <2>4. Len(alerts') = Len(alerts)
    BY <1>0, <2>1
  <2>5. \A j \in DOMAIN alerts : alerts'[j].id = alerts[j].id
    BY <2>3
  <2>6. NumberInv'
    BY <2>1, <2>3, <2>4, <2>5 DEF NumberInv, Numbered
  <2>7. \A m : m \in Acked' <=> m \in Acked \/ m = alerts[i].id
    <3>1. Acked = AckedIn(alerts) /\ Acked' = AckedIn(alerts')
      BY DEF Acked, AckedIn
    <3>2. \A m : m \in AckedIn(alerts') <=> \E j \in DOMAIN alerts' : alerts'[j].ack /\ alerts'[j].id = m
      BY AckedIs
    <3>3. \A m : m \in AckedIn(alerts) <=> \E j \in DOMAIN alerts : alerts[j].ack /\ alerts[j].id = m
      BY AckedIs
    <3> QED
      BY <2>3, <3>1, <3>2, <3>3
  <2>8. alerts[i].id \in (nextId - Len(alerts)) .. nextId - 1
    BY <1>0, <1>2 DEF NumberInv, Numbered
  <2>9. Acked' = Acked \union {alerts[i].id}
    BY <2>7
  <2>10. List!Acknowledge
    BY <2>1, <2>4, <2>8, <2>9 DEF List!Acknowledge
  <2> QED
    BY <2>6, <2>10 DEF List!Next
<1>3. CASE ClearAlerts
  <2>1. alerts' = <<>> /\ nextId' = nextId
    BY <1>3 DEF ClearAlerts
  <2>2. Len(alerts') = 0 /\ DOMAIN alerts' = {}
    BY <2>1
  <2>3. Acked' = {}
    BY <2>2 DEF Acked
  <2>4. NumberInv'
    BY <1>0, <2>1, <2>2, AlertAssumption DEF NumberInv, Numbered
  <2>5. nextId' - Len(alerts') = nextId
    BY <1>0, <2>1, <2>2
  <2>6. List!Clear
    BY <2>1, <2>3, <2>5 DEF List!Clear
  <2> QED
    BY <2>4, <2>6 DEF List!Next
<1>4. CASE UNCHANGED alertVars
  BY <1>4, ListElsewhere
<1>5. CASE Tick
  BY <1>5, <1>4 DEF Tick
<1>6. CASE Manage
  BY <1>6, <1>2, <1>3, <1>4 DEF Manage, AddRule, RemoveRule, EnableRule, ClearRules
<1>7. ASSUME NEW t \in Thread, ProcessEvent(t)
      PROVE  NumberInv' /\ [List!Next]_(List!vars)
  BY <1>7, <1>1, <1>4 DEF ProcessEvent, Begin, Skip, Count, CheckThreshold, CheckCooldown,
                          StampAlert, RunCallbacks, Return
<1>8. CASE UNCHANGED vars
  BY <1>8, <1>4 DEF vars
<1> QED
  BY <1>5, <1>6, <1>7, <1>8 DEF Next, Quiet

(***************************************************************************)
(* alerts_ implements the abstract list, for every set of threads and      *)
(* rules and every limit: numbers are handed out and listed in one         *)
(* critical section, so the list is always the latest numbers in order,    *)
(* without a gap, within the limit, and no number comes back after         *)
(* clear_alerts; acknowledge_alert, which looks for a number, finds at     *)
(* most one.                                                               *)
(***************************************************************************)
THEOREM AlertsAreList == Spec => ImplementsList
<1>1. Init => NumberInv /\ List!Init
  <2> SUFFICES ASSUME Init
               PROVE  NumberInv /\ List!Init
    OBVIOUS
  <2>1. alerts = <<>> /\ nextId = 1
    BY DEF Init
  <2>2. Len(alerts) = 0 /\ DOMAIN alerts = {}
    BY <2>1
  <2>3. Acked = {}
    BY <2>2 DEF Acked
  <2> QED
    BY <2>1, <2>2, <2>3, AlertAssumption DEF NumberInv, Numbered, List!Init
<1>2. BaseInv /\ NumberInv /\ [Next]_vars => NumberInv' /\ [List!Next]_(List!vars)
  BY ListStep
<1> QED
  BY <1>1, <1>2, AlertTypes, PTL DEF Spec, ImplementsList, List!Spec
=============================================================================
