-------------------------- MODULE EventPath_proofs --------------------------
(***************************************************************************)
(* Proofs about the way of an event through filter, audit and webhooks,    *)
(* for every set of threads, rules and webhooks, every threshold, window,  *)
(* cooldown and number of attempts, and any number of events:              *)
(*   FilterObeysPriority   HighestPriorityWins                             *)
(*   AuditJustified        FiringsJustified                                *)
(*   WebhooksServed        DeliveryDiscipline                              *)
(***************************************************************************)
EXTENDS EventPath, FiniteSetTheorems, WellFoundedInduction, TLAPS

-----------------------------------------------------------------------------
(* Induction over the natural numbers, by a smallest counterexample: the   *)
(* property is the set of the numbers that have it.                        *)

LEMMA Smallest ==
  ASSUME NEW S, S \subseteq Nat, S # {}
  PROVE  \E m \in S : \A k \in S : m <= k
<1> DEFINE R == {ss \in Nat \X Nat : ss[1] < ss[2]}
<1>1. IsWellFoundedOn(R, Nat)
  BY NatLessThanWellFounded DEF OpToRel
<1> HIDE DEF R
<1>2. PICK m \in S : \A k \in S : ~(<<k, m>> \in R)
  BY <1>1, WFMin
<1>3. ASSUME NEW k \in S PROVE m <= k
  <2>1. k \in Nat /\ m \in Nat
    OBVIOUS
  <2>2. k < m => <<k, m>> \in R
    BY <2>1 DEF R
  <2>3. QED
    BY <1>2, <2>1, <2>2
<1>4. QED
  BY <1>3

LEMMA SetInduction ==
  ASSUME NEW T, 0 \in T, \A n \in Nat : n \in T => n + 1 \in T
  PROVE  Nat \subseteq T
<1> SUFFICES ASSUME Nat \ T # {} PROVE FALSE
  OBVIOUS
<1>1. PICK m \in Nat \ T : \A k \in Nat \ T : m <= k
  BY Smallest
<1>2. m # 0
  OBVIOUS
<1>3. m - 1 \in Nat /\ m - 1 \in T
  BY <1>1, <1>2
<1>4. m - 1 + 1 = m
  OBVIOUS
<1>5. QED
  BY <1>3, <1>4

-----------------------------------------------------------------------------
(* The walk through the filter's rules.                                    *)

Start(e) == [event |-> e, verdict |-> "none", modified |-> 0]

\* What the walk through the first n rules of s is.
IsWalk(f, s, e, n) ==
  f = [i \in 0..n |-> IF i = 0 THEN Start(e) ELSE Consider(f[i - 1], s[i])]

LEMMA WalkExists ==
  ASSUME NEW s, NEW e
  PROVE  \A n \in Nat : \E f : IsWalk(f, s, e, n)
<1> DEFINE T == {n \in Nat : \E f : IsWalk(f, s, e, n)}
<1>1. 0 \in T
  <2> DEFINE f == [i \in 0..0 |-> Start(e)]
  <2>1. f = [i \in 0..0 |-> IF i = 0 THEN Start(e) ELSE Consider(f[i - 1], s[i])]
    OBVIOUS
  <2>2. IsWalk(f, s, e, 0)
    BY <2>1 DEF IsWalk
  <2>3. QED
    BY <2>2
<1>2. ASSUME NEW n \in Nat, n \in T PROVE n + 1 \in T
  <2>1. PICK f : IsWalk(f, s, e, n)
    BY <1>2
  <2> DEFINE g == [i \in 0..n + 1 |-> IF i \in 0..n THEN f[i] ELSE Consider(f[n], s[n + 1])]
  <2>2. ASSUME NEW i \in 0..n + 1
        PROVE  g[i] = IF i = 0 THEN Start(e) ELSE Consider(g[i - 1], s[i])
    <3>1. CASE i = 0
      <4>1. f[0] = Start(e)
        BY <2>1 DEF IsWalk
      <4>2. g[0] = f[0]
        OBVIOUS
      <4>3. QED
        BY <3>1, <4>1, <4>2
    <3>2. CASE i \in 1..n
      <4>1. f[i] = Consider(f[i - 1], s[i])
        BY <2>1, <3>2 DEF IsWalk
      <4>2. g[i] = f[i] /\ g[i - 1] = f[i - 1] /\ i # 0
        BY <3>2
      <4>3. QED
        BY <4>1, <4>2
    <3>3. CASE i = n + 1
      <4>1. g[i] = Consider(f[n], s[n + 1]) /\ g[i - 1] = f[n] /\ i # 0
        BY <3>3
      <4>2. QED
        BY <3>3, <4>1
    <3>4. QED
      BY <3>1, <3>2, <3>3
  <2>3. g = [i \in 0..n + 1 |-> g[i]]
    OBVIOUS
  <2> HIDE DEF g
  <2>4. IsWalk(g, s, e, n + 1)
    BY <2>2, <2>3 DEF IsWalk
  <2>5. QED
    BY <2>4
<1> HIDE DEF T
<1>3. Nat \subseteq T
  BY <1>1, <1>2, SetInduction
<1>4. QED
  BY <1>3 DEF T

LEMMA WalkedIs ==
  ASSUME NEW s, NEW e, Len(s) \in Nat
  PROVE  IsWalk(Walked(s, e), s, e, Len(s))
<1>1. Walked(s, e) = CHOOSE f : IsWalk(f, s, e, Len(s))
  BY DEF Walked, IsWalk, Start
<1>2. \E f : IsWalk(f, s, e, Len(s))
  BY WalkExists
<1>3. QED
  BY <1>1, <1>2, Zenon

Met(r, e) == r.enabled /\ matches_rule(r, e)

\* After n rules none of which modifies e: no rule has matched, or the first
\* one that has is the verdict.
Decided(v, s, e, n) ==
  \/ v = "none" /\ \A k \in 1..n : ~Met(s[k], e)
  \/ \E k \in 1..n : Met(s[k], e) /\ (\A j \in 1..k - 1 : ~Met(s[j], e)) /\ v = s[k].action
Reached(v, e) == [event |-> e, verdict |-> v, modified |-> 0]

LEMMA OneRule ==
  ASSUME NEW e, NEW v, NEW r \in FilterRule, Met(r, e) => r.action # "Modify"
  PROVE  /\ v = "none" /\ Met(r, e) => Consider(Reached(v, e), r) = Reached(r.action, e)
         /\ ~(v = "none" /\ Met(r, e)) => Consider(Reached(v, e), r) = Reached(v, e)
<1>1. Reached(v, e).verdict = v /\ Reached(v, e).event = e
  BY DEF Reached
<1>2. ASSUME v = "none", Met(r, e) PROVE Consider(Reached(v, e), r) = Reached(r.action, e)
  <2>1. [Reached(v, e) EXCEPT !.verdict = r.action] = Reached(r.action, e)
    BY DEF Reached
  <2>2. QED
    BY <1>1, <1>2, <2>1 DEF Consider, Met
<1>3. ASSUME ~(v = "none" /\ Met(r, e)) PROVE Consider(Reached(v, e), r) = Reached(v, e)
  BY <1>1, <1>3 DEF Consider, Met
<1>4. QED
  BY <1>2, <1>3

LEMMA WalkDecides ==
  ASSUME NEW s \in Seq(FilterRule), NEW e,
         \A i \in 1..Len(s) : Met(s[i], e) => s[i].action # "Modify"
  PROVE  \E v : Walked(s, e)[Len(s)] = Reached(v, e) /\ Decided(v, s, e, Len(s))
<1> DEFINE w == Walked(s, e)
           N == Len(s)
           T == {n \in Nat : n <= N => \E v : w[n] = Reached(v, e) /\ Decided(v, s, e, n)}
<1>1. N \in Nat /\ \A i \in 1..N : s[i] \in FilterRule
  OBVIOUS
<1>2. w[0] = Reached("none", e) /\ \A i \in 1..N : w[i] = Consider(w[i - 1], s[i])
  BY <1>1, WalkedIs DEF IsWalk, Start, Reached
<1> HIDE DEF w, N
<1>3. 0 \in T
  BY <1>2 DEF Decided
<1>4. ASSUME NEW n \in Nat, n \in T PROVE n + 1 \in T
  <2> SUFFICES ASSUME n + 1 <= N
               PROVE  \E v : w[n + 1] = Reached(v, e) /\ Decided(v, s, e, n + 1)
    OBVIOUS
  <2>1. n + 1 \in 1..N /\ n <= N /\ n + 1 - 1 = n
    BY <1>1
  <2>2. PICK v : w[n] = Reached(v, e) /\ Decided(v, s, e, n)
    BY <1>4, <2>1
  <2> DEFINE r == s[n + 1]
  <2>3. r \in FilterRule /\ w[n + 1] = Consider(w[n], r) /\ (Met(r, e) => r.action # "Modify")
    BY <1>1, <1>2, <2>1 DEF N
  <2>4. \A k \in 1..n + 1 : k \in 1..n \/ k = n + 1
    OBVIOUS
  <2> HIDE DEF r
  <2>5. CASE v = "none" /\ Met(r, e)
    <3>1. w[n + 1] = Reached(r.action, e)
      BY <2>2, <2>3, <2>5, OneRule
    <3>2. \A k \in 1..n : ~Met(s[k], e)
      <4>1. ASSUME NEW k \in 1..n, v = s[k].action PROVE FALSE
        <5>1. k \in 1..N
          BY <1>1, <2>1
        <5>2. s[k].action \in {"Allow", "Deny", "Modify"}
          BY <1>1, <5>1 DEF FilterRule
        <5>3. QED
          BY <2>5, <4>1, <5>2
      <4>2. QED
        BY <2>2, <4>1 DEF Decided
    <3>3. Decided(r.action, s, e, n + 1)
      BY <2>5, <3>2 DEF Decided, r
    <3>4. QED
      BY <3>1, <3>3
  <2>6. CASE ~(v = "none" /\ Met(r, e))
    <3>1. w[n + 1] = Reached(v, e)
      BY <2>2, <2>3, <2>6, OneRule
    <3>2. CASE v = "none" /\ \A k \in 1..n : ~Met(s[k], e)
      <4>1. \A k \in 1..n + 1 : ~Met(s[k], e)
        BY <2>4, <2>6, <3>2 DEF r
      <4>2. QED
        BY <3>1, <3>2, <4>1 DEF Decided
    <3>3. CASE \E k \in 1..n : /\ Met(s[k], e) /\ \A j \in 1..k - 1 : ~Met(s[j], e)
                               /\ v = s[k].action
      <4>1. PICK k \in 1..n : /\ Met(s[k], e) /\ \A j \in 1..k - 1 : ~Met(s[j], e)
                              /\ v = s[k].action
        BY <3>3
      <4>2. k \in 1..n + 1
        OBVIOUS
      <4>3. Decided(v, s, e, n + 1)
        BY <4>1, <4>2 DEF Decided
      <4>4. QED
        BY <3>1, <4>3
    <3>4. QED
      BY <2>2, <3>2, <3>3 DEF Decided
  <2>7. QED
    BY <2>5, <2>6
<1> HIDE DEF T
<1>5. N \in T
  BY <1>1, <1>3, <1>4, SetInduction
<1>6. QED
  BY <1>1, <1>5 DEF T, w, N

\* The verdict of one look at the rules.
Fate(met, e, verdict) ==
  LET match == {r \in met : r.enabled /\ matches_rule(r, e)}
      top == {r \in match : \A q \in match : q.priority <= r.priority}
  IN  (\A r \in match : r.action # "Modify") =>
        verdict \in IF match = {} THEN {"Allow"} ELSE {r.action : r \in top}

LEMMA WalkFate ==
  ASSUME NEW e, rules \in Seq(FilterRule), InOrder(rules)
  PROVE  Fate(ToSet(rules), e, Walk(e).verdict)
<1> DEFINE s == rules
           N == Len(s)
           match == {r \in ToSet(s) : r.enabled /\ matches_rule(r, e)}
           top == {r \in match : \A q \in match : q.priority <= r.priority}
           end == Walked(s, e)[N]
<1>1. N \in Nat /\ DOMAIN s = 1..N /\ \A i \in 1..N : s[i] \in FilterRule
  OBVIOUS
<1>2. \A r : r \in match <=> \E i \in 1..N : r = s[i] /\ Met(s[i], e)
  BY <1>1 DEF ToSet, Met
<1> SUFFICES ASSUME \A r \in match : r.action # "Modify"
             PROVE  Walk(e).verdict \in IF match = {} THEN {"Allow"} ELSE {r.action : r \in top}
  BY DEF Fate
<1>3. \A i \in 1..N : Met(s[i], e) => s[i].action # "Modify"
  BY <1>2
<1>4. PICK v : end = Reached(v, e) /\ Decided(v, s, e, N)
  BY <1>3, WalkDecides
<1>5. end.verdict = v
  BY <1>4 DEF Reached
<1>6. Walk(e).verdict = IF v = "none" THEN "Allow" ELSE v
  <2>1. [Reached(v, e) EXCEPT !.verdict = "Allow"].verdict = "Allow"
    BY DEF Reached
  <2>2. QED
    BY <1>4, <1>5, <2>1 DEF Walk
<1> HIDE DEF match, top, end
<1>7. CASE v = "none" /\ \A k \in 1..N : ~Met(s[k], e)
  <2>1. match = {}
    BY <1>2, <1>7
  <2>2. QED
    BY <1>6, <1>7, <2>1
<1>8. CASE \E k \in 1..N : Met(s[k], e) /\ (\A j \in 1..k - 1 : ~Met(s[j], e)) /\ v = s[k].action
  <2>1. PICK k \in 1..N : Met(s[k], e) /\ (\A j \in 1..k - 1 : ~Met(s[j], e)) /\ v = s[k].action
    BY <1>8
  <2>2. s[k] \in match /\ match # {}
    BY <1>2, <2>1
  <2>3. v # "none"
    BY <1>1, <2>1 DEF FilterRule
  <2>4. ASSUME NEW q \in match PROVE q.priority <= s[k].priority
    <3>1. PICK j \in 1..N : q = s[j] /\ Met(s[j], e)
      BY <1>2
    <3>2. j \notin 1..k - 1
      BY <2>1, <3>1
    <3>3. j = k \/ k < j
      BY <1>1, <3>2
    <3>4. s[j].priority \in Int /\ s[k].priority \in Int
      BY <1>1 DEF FilterRule
    <3>5. k < j => s[k].priority >= s[j].priority
      BY <1>1 DEF InOrder
    <3>6. QED
      BY <3>1, <3>3, <3>4, <3>5
  <2>5. s[k] \in top
    BY <2>2, <2>4 DEF top
  <2>6. QED
    BY <1>6, <2>1, <2>2, <2>3, <2>5
<1>9. QED
  BY <1>4, <1>7, <1>8 DEF Decided

-----------------------------------------------------------------------------
(* The filter's rules stay sorted, and no name occurs twice.               *)

Distinct(s) == \A i, j \in DOMAIN s : s[i].name = s[j].name => i = j
GoodRules(s) == s \in Seq(FilterRule) /\ InOrder(s) /\ Distinct(s)

LEMMA SortedRules ==
  ASSUME NEW s \in Seq(FilterRule), Distinct(s), NEW q \in Sorted(s)
  PROVE  GoodRules(q)
<1> DEFINE S == ToSet(s)
           n == Cardinality(S)
<1>1. IsFiniteSet(S)
  <2>1. Len(s) \in Nat /\ DOMAIN s = 1..Len(s)
    OBVIOUS
  <2>2. IsFiniteSet(DOMAIN s)
    <3>1. 1 \in Int /\ Len(s) \in Int
      BY <2>1
    <3>2. QED
      BY <2>1, <3>1, FS_Interval
  <2>3. s \in Surjection(DOMAIN s, S)
    BY DEF Surjection, ToSet
  <2>4. QED
    BY <2>2, <2>3, FS_Surjection
<1>2. n \in Nat
  BY <1>1, FS_CardinalityType
<1>3. /\ q \in [1..n -> S] /\ InOrder(q)
      /\ \A i, j \in 1..n : i # j => q[i] # q[j]
  BY DEF Sorted, SetToSeqs
<1>4. S \subseteq FilterRule
  BY DEF ToSet
<1> HIDE DEF n
<1>5. q \in Seq(FilterRule)
  <2> HIDE DEF S
  <2>1. q \in [1..n -> FilterRule]
    BY <1>3, <1>4
  <2>2. QED
    BY <1>2, <2>1
<1>6. ASSUME NEW i \in 1..n, NEW j \in 1..n, q[i].name = q[j].name PROVE i = j
  <2>1. PICK k \in DOMAIN s : q[i] = s[k]
    BY <1>3 DEF ToSet
  <2>2. PICK m \in DOMAIN s : q[j] = s[m]
    BY <1>3 DEF ToSet
  <2>3. k = m
    BY <1>6, <2>1, <2>2 DEF Distinct
  <2>4. QED
    BY <1>3, <2>1, <2>2, <2>3
<1>7. Distinct(q)
  BY <1>3, <1>6 DEF Distinct
<1>8. QED
  BY <1>3, <1>5, <1>7 DEF GoodRules

LEMMA WithRule ==
  ASSUME GoodRules(rules), NEW r \in FilterRule
  PROVE  With(r) \in Seq(FilterRule) /\ Distinct(With(r))
<1> DEFINE n == Len(rules)
<1>1. /\ rules \in Seq(FilterRule) /\ n \in Nat /\ DOMAIN rules = 1..n
      /\ \A i \in 1..n : rules[i] \in FilterRule
  BY DEF GoodRules
<1>2. \A i, j \in 1..n : rules[i].name = rules[j].name => i = j
  BY <1>1 DEF GoodRules, Distinct
<1>3. CASE Known(r.name)
  <2> DEFINE t == [i \in DOMAIN rules |-> IF rules[i].name = r.name THEN r ELSE rules[i]]
  <2>1. With(r) = t
    BY <1>3 DEF With
  <2>2. t \in [1..n -> FilterRule]
    BY <1>1
  <2>3. t \in Seq(FilterRule)
    BY <1>1, <2>2
  <2>4. DOMAIN t = 1..n /\ \A i \in 1..n : t[i].name = rules[i].name
    BY <1>1
  <2> HIDE DEF t
  <2>5. Distinct(t)
    BY <1>2, <2>4 DEF Distinct
  <2>6. QED
    BY <2>1, <2>3, <2>5
<1>4. CASE ~Known(r.name)
  <2> DEFINE t == Append(rules, r)
  <2>1. With(r) = t
    BY <1>4 DEF With
  <2>2. /\ t \in Seq(FilterRule) /\ DOMAIN t = 1..n + 1 /\ t[n + 1] = r
        /\ \A i \in 1..n : t[i] = rules[i]
    BY <1>1
  <2>3. \A i \in 1..n : rules[i].name # r.name
    BY <1>1, <1>4 DEF Known
  <2>4. \A i \in 1..n + 1 : i \in 1..n \/ i = n + 1
    BY <1>1
  <2> HIDE DEF t, n
  <2>5. Distinct(t)
    BY <1>2, <2>2, <2>3, <2>4 DEF Distinct
  <2>6. QED
    BY <2>1, <2>2, <2>5
<1>5. QED
  BY <1>3, <1>4

LEMMA RuleRemoved ==
  ASSUME NEW s, GoodRules(s), NEW i \in DOMAIN s
  PROVE  GoodRules(RemoveAt(s, i))
<1> DEFINE n == Len(s)
           t == RemoveAt(s, i)
           from(j) == IF j < i THEN j ELSE j + 1
<1>1. s \in Seq(FilterRule) /\ n \in Nat /\ DOMAIN s = 1..n /\ i \in 1..n
  BY DEF GoodRules
<1>2. t \in Seq(FilterRule) /\ Len(t) = n - 1
  <2>1. SubSeq(s, 1, i - 1) \in Seq(FilterRule) /\ SubSeq(s, i + 1, n) \in Seq(FilterRule)
    BY <1>1
  <2>2. Len(SubSeq(s, 1, i - 1)) = i - 1 /\ Len(SubSeq(s, i + 1, n)) = n - i
    BY <1>1
  <2>3. QED
    <3>1. Len(SubSeq(s, 1, i - 1) \o SubSeq(s, i + 1, n)) = (i - 1) + (n - i)
      BY <2>1, <2>2, SMTT(30)
    <3>2. (i - 1) + (n - i) = n - 1
      BY <1>1
    <3>3. t = SubSeq(s, 1, i - 1) \o SubSeq(s, i + 1, n)
      BY DEF RemoveAt
    <3>4. SubSeq(s, 1, i - 1) \o SubSeq(s, i + 1, n) \in Seq(FilterRule)
      BY <2>1, SMTT(30)
    <3>5. QED
      BY <3>1, <3>2, <3>3, <3>4, Zenon
<1>3. ASSUME NEW j \in 1..n - 1 PROVE t[j] = s[from(j)]
  <2> DEFINE a == SubSeq(s, 1, i - 1)
             b == SubSeq(s, i + 1, n)
  <2>1. /\ a \in Seq(FilterRule) /\ b \in Seq(FilterRule) /\ Len(a) = i - 1 /\ Len(b) = n - i
        /\ \A k \in 1..i - 1 : a[k] = s[k]
        /\ \A k \in 1..n - i : b[k] = s[i + k]
    BY <1>1, SMTT(40)
  <2>2. t = a \o b
    BY DEF RemoveAt
  <2> HIDE DEF a, b, t
  <2>3. CASE j < i
    <3>1. j \in 1..Len(a) /\ j \in 1..i - 1
      BY <1>1, <2>1, <2>3
    <3>2. (a \o b)[j] = a[j]
      BY <2>1, <3>1
    <3>3. QED
      BY <2>1, <2>2, <2>3, <3>1, <3>2
  <2>4. CASE ~(j < i)
    <3>1. /\ j - (i - 1) \in 1..n - i /\ i + (j - (i - 1)) = j + 1
          /\ j \in 1..Len(a) + Len(b) /\ ~(j <= Len(a)) /\ j - Len(a) = j - (i - 1)
      BY <1>1, <2>1, <2>4, SMTT(30)
    <3>2. (a \o b)[j] = b[j - Len(a)]
      BY <2>1, <3>1, SMTT(30)
    <3>3. b[j - (i - 1)] = s[j + 1]
      BY <2>1, <3>1
    <3>4. QED
      BY <2>2, <2>4, <3>1, <3>2, <3>3
  <2>5. QED
    BY <2>3, <2>4
<1>4. DOMAIN t = 1..n - 1
  BY <1>1, <1>2
<1>5. \A j \in 1..n - 1 : from(j) \in 1..n
  BY <1>1
<1>6. /\ \A j, k \in 1..n - 1 : j < k => from(j) < from(k)
      /\ \A j, k \in 1..n - 1 : from(j) = from(k) => j = k
  BY <1>1
<1> HIDE DEF from, t, n
<1>7. InOrder(t)
  <2>1. ASSUME NEW j \in 1..n - 1, NEW k \in 1..n - 1, j < k PROVE t[j].priority >= t[k].priority
    BY <1>1, <1>3, <1>5, <1>6, <2>1 DEF GoodRules, InOrder
  <2>2. QED
    BY <1>4, <2>1 DEF InOrder
<1>8. Distinct(t)
  <2>1. ASSUME NEW j \in 1..n - 1, NEW k \in 1..n - 1, t[j].name = t[k].name PROVE j = k
    BY <1>1, <1>3, <1>5, <1>6, <2>1 DEF GoodRules, Distinct
  <2>2. QED
    BY <1>4, <2>1 DEF Distinct
<1>9. QED
  BY <1>2, <1>7, <1>8 DEF GoodRules, t

LEMMA RuleEnabled ==
  ASSUME NEW s, GoodRules(s), NEW name, NEW on \in BOOLEAN
  PROVE  GoodRules([i \in DOMAIN s |->
                      IF s[i].name = name THEN [s[i] EXCEPT !.enabled = on] ELSE s[i]])
<1> DEFINE n == Len(s)
           t == [i \in DOMAIN s |->
                   IF s[i].name = name THEN [s[i] EXCEPT !.enabled = on] ELSE s[i]]
<1>1. s \in Seq(FilterRule) /\ n \in Nat /\ DOMAIN s = 1..n
  BY DEF GoodRules
<1>2. ASSUME NEW r \in FilterRule
      PROVE  LET u == [r EXCEPT !.enabled = on]
             IN  u \in FilterRule /\ u.name = r.name /\ u.priority = r.priority
  BY DEF FilterRule
<1>3. ASSUME NEW i \in 1..n
      PROVE  t[i] \in FilterRule /\ t[i].name = s[i].name /\ t[i].priority = s[i].priority
  <2>1. s[i] \in FilterRule
    BY <1>1
  <2>2. t[i] = IF s[i].name = name THEN [s[i] EXCEPT !.enabled = on] ELSE s[i]
    BY <1>1
  <2> HIDE DEF t
  <2>3. QED
    BY <1>2, <2>1, <2>2
<1>4. t \in [1..n -> FilterRule]
  BY <1>1, <1>3
<1>5. t \in Seq(FilterRule) /\ DOMAIN t = 1..n
  BY <1>1, <1>4
<1> HIDE DEF t
<1>6. InOrder(t) /\ Distinct(t)
  BY <1>1, <1>3, <1>5 DEF GoodRules, InOrder, Distinct
<1>7. QED
  BY <1>5, <1>6 DEF GoodRules, t

LEMMA EditedRules ==
  ASSUME GoodRules(rules), EditFilter
  PROVE  GoodRules(rules')
<1>1. ASSUME NEW r \in FilterRules, AddFilterRule(r) PROVE GoodRules(rules')
  <2>1. r \in FilterRule
    BY FilterAssumption
  <2>2. QED
    BY <1>1, <2>1, WithRule, SortedRules DEF AddFilterRule
<1>2. ASSUME NEW name, RemoveFilterRule(name) PROVE GoodRules(rules')
  BY <1>2, RuleRemoved DEF RemoveFilterRule
<1>3. ASSUME NEW name, NEW on \in BOOLEAN, EnableFilterRule(name, on) PROVE GoodRules(rules')
  BY <1>3, RuleEnabled DEF EnableFilterRule
<1>4. ASSUME ClearFilterRules PROVE GoodRules(rules')
  BY <1>4 DEF ClearFilterRules, GoodRules, InOrder, Distinct
<1>5. ASSUME reset_stats PROVE GoodRules(rules')
  BY <1>5 DEF reset_stats
<1>6. QED
  BY <1>1, <1>2, <1>3, <1>4, <1>5 DEF EditFilter

FilterInv ==
  /\ GoodRules(rules)
  /\ DOMAIN judged = Threads
  /\ \A t \in Threads : judged[t] # NotJudged =>
       Fate(judged[t].met, judged[t].given, judged[t].verdict)

LEMMA FilterInvInit == Init => FilterInv
<1> SUFFICES ASSUME Init PROVE FilterInv
  OBVIOUS
<1>1. rules = FirstRules /\ judged = [t \in Threads |-> NotJudged]
  BY DEF Init, FilterInit
<1>2. GoodRules(FirstRules)
  BY FilterAssumption DEF GoodRules, Distinct
<1>3. QED
  BY <1>1, <1>2 DEF FilterInv

LEMMA FilterInvStep ==
  ASSUME FilterInv, [Next]_vars
  PROVE  FilterInv'
<1>1. ASSUME NEW t \in Threads, NEW e \in Inputs[t], Emit(t, e) PROVE FilterInv'
  <2> DEFINE j == [verdict |-> Walk(e).verdict, given |-> e, event |-> Walk(e).event,
                   met |-> ToSet(rules)]
  <2>1. judged' = [judged EXCEPT ![t] = j] /\ rules' = rules
    BY <1>1 DEF Emit, process
  <2>2. j.verdict = Walk(e).verdict /\ j.given = e /\ j.met = ToSet(rules)
    OBVIOUS
  <2>3. Fate(ToSet(rules), e, Walk(e).verdict)
    BY WalkFate DEF FilterInv, GoodRules
  <2> HIDE DEF j
  <2>4. Fate(j.met, j.given, j.verdict)
    BY <2>2, <2>3
  <2>5. DOMAIN judged' = Threads /\ judged'[t] = j /\ \A u \in Threads : u # t => judged'[u] = judged[u]
    BY <2>1 DEF FilterInv
  <2>6. QED
    BY <2>1, <2>4, <2>5 DEF FilterInv
<1>2. ASSUME NEW t \in Threads, Judge(t) PROVE FilterInv'
  <2>1. judged' = [judged EXCEPT ![t] = NotJudged] /\ rules' = rules
    BY <1>2 DEF Judge, filterVars
  <2>2. /\ DOMAIN judged' = Threads /\ judged'[t] = NotJudged
        /\ \A u \in Threads : u # t => judged'[u] = judged[u]
    BY <2>1 DEF FilterInv
  <2>3. QED
    BY <2>1, <2>2 DEF FilterInv
<1>3. ASSUME rules' = rules, judged' = judged PROVE FilterInv'
  BY <1>3 DEF FilterInv
<1>4. ASSUME NEW t \in Threads, Raise(t) \/ Send(t) \/ Returned(t) PROVE FilterInv'
  BY <1>3, <1>4 DEF Raise, Send, Returned, filterVars
<1>5. ASSUME Manage PROVE FilterInv'
  <2>1. judged' = judged
    BY <1>5 DEF Manage
  <2>2. GoodRules(rules')
    <3>1. EditFilter \/ rules' = rules
      BY <1>5 DEF Manage, EditAuditor, EditWebhooks, filterVars
    <3>2. QED
      BY <3>1, EditedRules DEF FilterInv
  <2>3. QED
    BY <2>1, <2>2 DEF FilterInv
<1>6. CASE TimePasses \/ Rest \/ UNCHANGED vars
  BY <1>3, <1>6 DEF TimePasses, Rest, vars, filterVars
<1>7. QED
  BY <1>1, <1>2, <1>4, <1>5, <1>6 DEF Next, Route

(***************************************************************************)
(* For any rules, events and reconfigurations: an event that no Modify     *)
(* rule touches meets the fate that a matching rule of the highest         *)
(* priority gives it, and passes if none matches (add_rule's sort,         *)
(* remove_rule, enable_rule, process's walk).                              *)
(***************************************************************************)
THEOREM FilterObeysPriority == Spec => []HighestPriorityWins
<1>1. FilterInv => HighestPriorityWins
  BY DEF FilterInv, HighestPriorityWins, Fate
<1>2. QED
  BY <1>1, FilterInvInit, FilterInvStep, PTL DEF Spec
-----------------------------------------------------------------------------
(* The auditor's rules.                                                    *)

InForce == UNION {[names -> Definition] : names \in SUBSET Rule}
Report == [type : SecurityEventType, time : Nat, met : InForce]
Firing == [after : Nat, time : Nat, by : Definition]

AuditType ==
  /\ auditRules \in InForce
  /\ clock \in Nat
  /\ reported \in Seq(Report)
  /\ rule_events \in [Rule -> SUBSET Nat]
  /\ last_triggered \in [Rule -> SUBSET Nat]
  /\ fired \in [Rule -> Seq(Firing)]

\* The events remembered for a name have occurred and matched the rule that had
\* it then.
Own(all, r, js) ==
  \A j \in js : j \in 1..Len(all) /\ r \in Matching(all[j].met, all[j].type)

\* The firings of a rule are grounded in what had been reported by then, ...
Grounded(all, r, fs) ==
  \A i \in DOMAIN fs : /\ fs[i].after <= Len(all)
                       /\ Cardinality(Grounds(all, r, fs[i])) >= fs[i].by.count

\* ... they are a cooldown apart, and the last one is remembered.
Apart(fs) ==
  \A i \in 2..Len(fs) : fs[i].time - fs[i - 1].time >= fs[i].by.cooldown
Remembered(fs, last) ==
  /\ fs = <<>> => last = {}
  /\ fs # <<>> => last = {fs[Len(fs)].time}

RuleInv(r) ==
  /\ Own(reported, r, rule_events[r])
  /\ Grounded(reported, r, fired[r])
  /\ Apart(fired[r])
  /\ Remembered(fired[r], last_triggered[r])

AuditInv == AuditType /\ \A r \in Rule : RuleInv(r)

\* The definitions in force at first, and what the operations make of them.
LEMMA FirstInForce == RuleTable \in InForce
<1>1. RuleTable \in [DOMAIN RuleTable -> Definition]
  BY AuditorAssumption
<1>2. QED
  BY <1>1, AuditorAssumption DEF InForce

LEMMA EditedInForce ==
  ASSUME auditRules \in InForce, EditAuditor
  PROVE  auditRules' \in InForce
<1>1. PICK names \in SUBSET Rule : auditRules \in [names -> Definition]
  BY DEF InForce
<1>2. ASSUME NEW r \in Rule, NEW d \in Definitions[r], AddAuditRule(r, d)
      PROVE  auditRules' \in [names \union {r} -> Definition]
  <2>1. d \in Definition
    BY <1>2, AuditorAssumption
  <2>2. DOMAIN auditRules = names /\ \A q \in names : auditRules[q] \in Definition
    BY <1>1
  <2>3. auditRules' = [q \in names \union {r} |-> IF q = r THEN d ELSE auditRules[q]]
    BY <1>2, <2>2 DEF AddAuditRule
  <2>4. QED
    BY <2>1, <2>2, <2>3
<1>3. ASSUME NEW r, RemoveAuditRule(r) PROVE auditRules' \in [names \ {r} -> Definition]
  BY <1>1, <1>3 DEF RemoveAuditRule
<1>4. ASSUME NEW r \in DOMAIN auditRules, NEW on \in BOOLEAN, EnableAuditRule(r, on)
      PROVE  auditRules' \in [names -> Definition]
  <2>1. auditRules' = [auditRules EXCEPT ![r].enabled = on]
    BY <1>4 DEF EnableAuditRule
  <2>2. [auditRules[r] EXCEPT !.enabled = on] \in Definition
    BY <1>1, <1>4 DEF Definition
  <2>3. QED
    BY <1>1, <2>1, <2>2
<1>5. ASSUME clear_rules PROVE auditRules' \in [{} -> Definition]
  BY <1>5 DEF clear_rules
<1>6. ASSUME NEW others \in SUBSET Rule, auditRules' \in [others -> Definition]
      PROVE  auditRules' \in InForce
  BY <1>6 DEF InForce
<1>7. ASSUME NEW r \in Rule, NEW d \in Definitions[r], AddAuditRule(r, d)
      PROVE  auditRules' \in InForce
  <2>1. names \union {r} \in SUBSET Rule
    OBVIOUS
  <2>2. QED
    BY <1>2, <1>6, <1>7, <2>1
<1>8. ASSUME NEW r, RemoveAuditRule(r) PROVE auditRules' \in InForce
  <2>1. names \ {r} \in SUBSET Rule
    OBVIOUS
  <2>2. QED
    BY <1>3, <1>6, <1>8, <2>1
<1>9. ASSUME clear_rules PROVE auditRules' \in InForce
  BY <1>5, <1>6, <1>9
<1>10. QED
  BY <1>4, <1>6, <1>7, <1>8, <1>9 DEF EditAuditor

LEMMA AuditInit == Init => AuditInv
<1> SUFFICES ASSUME Init PROVE AuditInv
  OBVIOUS
<1>1. AuditorInit
  BY DEF Init
<1>2. AuditType
  <2>1. auditRules \in InForce
    BY <1>1, FirstInForce DEF AuditorInit
  <2>2. QED
    BY <1>1, <2>1 DEF AuditorInit, AuditType
<1>3. ASSUME NEW r \in Rule PROVE RuleInv(r)
  BY <1>1 DEF AuditorInit, RuleInv, Own, Grounded, Apart, Remembered
<1>4. QED
  BY <1>2, <1>3 DEF AuditInv

\* The grounds of a firing are finitely many, and later reports leave them alone.
LEMMA GroundsFinite ==
  ASSUME NEW all, NEW r, NEW f \in Firing
  PROVE  IsFiniteSet(Grounds(all, r, f)) /\ Cardinality(Grounds(all, r, f)) \in Nat
<1>1. 1 \in Int /\ f.after \in Int
  BY DEF Firing
<1>2. IsFiniteSet(1..f.after)
  BY <1>1, FS_Interval
<1>3. Grounds(all, r, f) \subseteq 1..f.after
  BY DEF Grounds
<1>4. IsFiniteSet(Grounds(all, r, f))
  BY <1>2, <1>3, FS_Subset
<1>5. QED
  BY <1>4, FS_CardinalityType

LEMMA GroundsKept ==
  ASSUME NEW all \in Seq(Report), NEW x \in Report, NEW r, NEW f \in Firing,
         f.after <= Len(all)
  PROVE  Grounds(Append(all, x), r, f) = Grounds(all, r, f)
<1>1. \A j \in 1..f.after : Append(all, x)[j] = all[j]
  BY DEF Firing
<1>2. QED
  BY <1>1 DEF Grounds

\* Appending one firing to a rule's.
LEMMA OneMoreFiring ==
  ASSUME NEW fs \in Seq(Firing), NEW f \in Firing
  PROVE  /\ Append(fs, f) \in Seq(Firing) /\ Append(fs, f) # <<>>
         /\ Len(Append(fs, f)) = Len(fs) + 1
         /\ DOMAIN Append(fs, f) = 1..Len(fs) + 1
         /\ Append(fs, f)[Len(fs) + 1] = f
         /\ \A i \in 1..Len(fs) : Append(fs, f)[i] = fs[i]
OBVIOUS

\* report_security_event, for one rule.
LEMMA ReportKeepsRule ==
  ASSUME AuditInv, NEW type \in SecurityEventType, report_security_event(type),
         NEW r \in Rule
  PROVE  /\ rule_events'[r] \in SUBSET Nat
         /\ last_triggered'[r] \in SUBSET Nat
         /\ fired'[r] \in Seq(Firing)
         /\ RuleInv(r)'
<1> DEFINE x == [type |-> type, time |-> clock, met |-> auditRules]
           all == Append(reported, x)
           n == Len(reported)
           kept == Kept(r, all)
           d == auditRules[r]
           f == [after |-> n + 1, time |-> clock, by |-> d]
<1>1. /\ x \in Report /\ reported \in Seq(Report) /\ clock \in Nat /\ n \in Nat
      /\ auditRules \in InForce
  BY DEF AuditInv, AuditType, Report
<1>2. reported' = all
  BY DEF report_security_event
<1>3. /\ all \in Seq(Report) /\ Len(all) = n + 1 /\ all[n + 1] = x
      /\ \A j \in 1..n : all[j] = reported[j]
  BY <1>1
<1>4. /\ rule_events'[r] = IF r \in Counting(type) THEN kept ELSE rule_events[r]
      /\ last_triggered'[r] = IF r \in Triggered(type, all) THEN {clock} ELSE last_triggered[r]
      /\ fired'[r] = IF r \in Triggered(type, all) THEN Append(fired[r], f) ELSE fired[r]
  BY <1>2, <1>3 DEF report_security_event, check_rules
<1>5. /\ rule_events[r] \in SUBSET Nat /\ last_triggered[r] \in SUBSET Nat
      /\ fired[r] \in Seq(Firing)
  BY DEF AuditInv, AuditType
<1>6. RuleInv(r)
  BY DEF AuditInv
<1>7. /\ f.after = n + 1 /\ f.time = clock /\ f.by = d
      /\ x.type = type /\ x.time = clock /\ x.met = auditRules
  OBVIOUS
<1> HIDE DEF x, all, f
<1>8. \A j \in rule_events[r] :
        j \in 1..n /\ r \in Matching(reported[j].met, reported[j].type)
  BY <1>6 DEF RuleInv, Own
<1>9. Own(all, r, rule_events[r])
  BY <1>1, <1>3, <1>8 DEF Own
<1>10. r \in Counting(type) => r \in Matching(auditRules, type)
  BY DEF Counting
<1>11. r \in Counting(type) => Own(all, r, kept)
  <2> SUFFICES ASSUME r \in Counting(type), NEW j \in kept
               PROVE  j \in 1..Len(all) /\ r \in Matching(all[j].met, all[j].type)
    BY DEF Own
  <2>1. j \in rule_events[r] \/ j = n + 1
    BY <1>3 DEF Kept
  <2>2. CASE j \in rule_events[r]
    BY <2>2, <1>9 DEF Own
  <2>3. CASE j = n + 1
    BY <2>3, <1>1, <1>3, <1>7, <1>10
  <2>4. QED
    BY <2>1, <2>2, <2>3
<1>12. kept \subseteq Nat
  BY <1>1, <1>3, <1>5 DEF Kept
<1>13. Own(all, r, rule_events'[r]) /\ rule_events'[r] \in SUBSET Nat
  BY <1>4, <1>5, <1>9, <1>11, <1>12
<1>14. Grounded(all, r, fired[r])
  <2> SUFFICES ASSUME NEW i \in DOMAIN fired[r]
               PROVE  /\ fired[r][i].after <= n + 1
                      /\ Cardinality(Grounds(all, r, fired[r][i])) >= fired[r][i].by.count
    BY <1>3 DEF Grounded
  <2>1. /\ fired[r][i].after <= n
        /\ Cardinality(Grounds(reported, r, fired[r][i])) >= fired[r][i].by.count
    BY <1>6 DEF RuleInv, Grounded
  <2>2. fired[r][i] \in Firing
    BY <1>5
  <2>3. Grounds(all, r, fired[r][i]) = Grounds(reported, r, fired[r][i])
    BY <1>1, <2>1, <2>2, GroundsKept DEF all
  <2>4. fired[r][i].after \in Nat
    BY <2>2 DEF Firing
  <2>5. QED
    BY <1>1, <2>1, <2>3, <2>4
<1>15. CASE r \notin Triggered(type, all)
  BY <1>2, <1>4, <1>5, <1>6, <1>13, <1>14, <1>15 DEF RuleInv
<1>16. CASE r \in Triggered(type, all)
  <2> DEFINE fs == fired[r]
             recent == {j \in kept : clock - all[j].time < d.window}
  <2>1. r \in Counting(type) /\ Cardinality(recent) >= d.count
    BY <1>16 DEF Triggered
  <2>0. /\ d \in Definition /\ d.count \in Nat /\ d.cooldown \in Nat
        /\ f \in Firing
    <3>1. r \in DOMAIN auditRules
      BY <1>10, <2>1 DEF Matching
    <3>2. d \in Definition
      BY <1>1, <3>1 DEF InForce
    <3>3. QED
      BY <1>1, <3>2 DEF Definition, Firing, f
  <2>2. /\ fired'[r] = Append(fs, f) /\ last_triggered'[r] = {clock}
    BY <1>4, <1>16
  <2>3. recent \subseteq Grounds(all, r, f)
    <3> SUFFICES ASSUME NEW j \in recent PROVE j \in Grounds(all, r, f)
      OBVIOUS
    <3>1. j \in 1..n + 1 /\ r \in Matching(all[j].met, all[j].type)
      BY <1>3, <1>11, <2>1 DEF Own
    <3>2. clock - all[j].time < d.window
      OBVIOUS
    <3>3. QED
      BY <1>7, <3>1, <3>2 DEF Grounds
  <2>4. IsFiniteSet(Grounds(all, r, f)) /\ Cardinality(Grounds(all, r, f)) \in Nat
    BY <2>0, GroundsFinite
  <2>5. /\ Cardinality(recent) <= Cardinality(Grounds(all, r, f))
        /\ Cardinality(recent) \in Nat
    BY <2>3, <2>4, FS_Subset, FS_CardinalityType
  <2>6. Cardinality(Grounds(all, r, f)) >= d.count
    BY <2>0, <2>1, <2>4, <2>5
  <2> HIDE DEF recent
  <2>7. /\ Append(fs, f) \in Seq(Firing) /\ Append(fs, f) # <<>>
        /\ Len(Append(fs, f)) = Len(fs) + 1
        /\ DOMAIN Append(fs, f) = 1..Len(fs) + 1
        /\ Append(fs, f)[Len(fs) + 1] = f
        /\ \A i \in 1..Len(fs) : Append(fs, f)[i] = fs[i]
        /\ Len(fs) \in Nat /\ DOMAIN fs = 1..Len(fs)
        /\ \A i \in 1..Len(fs) : fs[i] \in Firing
    BY <1>5, <2>0, OneMoreFiring
  <2> DEFINE gs == Append(fs, f)
  <2> HIDE DEF gs
  <2>8. Grounded(all, r, gs)
    <3> SUFFICES ASSUME NEW i \in 1..Len(fs) + 1
                 PROVE  /\ gs[i].after <= n + 1
                        /\ Cardinality(Grounds(all, r, gs[i])) >= gs[i].by.count
      BY <1>3, <2>7 DEF Grounded, gs
    <3>1. CASE i = Len(fs) + 1
      BY <1>1, <1>7, <2>6, <2>7, <3>1 DEF gs
    <3>2. CASE i \in 1..Len(fs)
      BY <1>3, <1>14, <2>7, <3>2 DEF gs, Grounded
    <3>3. QED
      BY <2>7, <3>1, <3>2
  <2>9. Apart(gs)
    <3> SUFFICES ASSUME NEW i \in 2..Len(fs) + 1
                 PROVE  gs[i].time - gs[i - 1].time >= gs[i].by.cooldown
      BY <2>7 DEF Apart, gs
    <3>1. CASE i \in 2..Len(fs)
      <4>1. gs[i] = fs[i] /\ gs[i - 1] = fs[i - 1]
        BY <2>7, <3>1 DEF gs
      <4>2. QED
        BY <1>6, <3>1, <4>1 DEF RuleInv, Apart
    <3>2. CASE i = Len(fs) + 1
      <4>1. Len(fs) \in 1..Len(fs) /\ fs # <<>> /\ i - 1 = Len(fs)
        BY <2>7, <3>2
      <4>2. last_triggered[r] = {fs[Len(fs)].time}
        BY <1>6, <4>1 DEF RuleInv, Remembered
      <4>3. ~is_in_cooldown(r)
        BY <2>1 DEF Counting
      <4>4. ~(clock - fs[Len(fs)].time < d.cooldown)
        BY <4>2, <4>3 DEF is_in_cooldown
      <4>5. fs[Len(fs)].time \in Nat
        BY <2>7, <4>1 DEF Firing
      <4>6. gs[i] = f /\ gs[i - 1] = fs[Len(fs)]
        BY <2>7, <3>2, <4>1 DEF gs
      <4>7. QED
        BY <1>1, <1>7, <2>0, <4>4, <4>5, <4>6, SMTT(40)
    <3>3. QED
      BY <2>7, <3>1, <3>2
  <2>10. Remembered(gs, {clock})
    BY <1>7, <2>7 DEF Remembered, gs
  <2>11. gs \in Seq(Firing) /\ fired'[r] = gs /\ {clock} \in SUBSET Nat
    BY <1>1, <2>2, <2>7 DEF gs
  <2>12. QED
    BY <1>2, <1>13, <2>2, <2>8, <2>9, <2>10, <2>11 DEF RuleInv
<1>17. QED
  BY <1>15, <1>16

LEMMA ReportKeepsInv ==
  ASSUME AuditInv, NEW type \in SecurityEventType, report_security_event(type)
  PROVE  AuditInv'
<1>1. \A r \in Rule : /\ rule_events'[r] \in SUBSET Nat
                      /\ last_triggered'[r] \in SUBSET Nat
                      /\ fired'[r] \in Seq(Firing)
                      /\ RuleInv(r)'
  BY ReportKeepsRule
<1>2. /\ rule_events' = [r \in Rule |-> rule_events'[r]]
      /\ last_triggered' = [r \in Rule |-> last_triggered'[r]]
      /\ fired' = [r \in Rule |-> fired'[r]]
  BY DEF report_security_event, check_rules
<1>3. clock' \in Nat /\ reported' \in Seq(Report) /\ auditRules' \in InForce
  BY DEF report_security_event, AuditInv, AuditType, Report
<1>4. AuditType'
  <2>1. rule_events' \in [Rule -> SUBSET Nat]
    BY <1>1, <1>2
  <2>2. last_triggered' \in [Rule -> SUBSET Nat]
    BY <1>1, <1>2
  <2>3. fired' \in [Rule -> Seq(Firing)]
    BY <1>1, <1>2
  <2>4. QED
    BY <1>3, <2>1, <2>2, <2>3 DEF AuditType
<1>5. QED
  BY <1>1, <1>4 DEF AuditInv

\* What is not a report leaves all this alone, but for the clock and the
\* definitions.
Alone == /\ UNCHANGED <<rule_events, last_triggered, reported, fired>>
         /\ clock' = clock \/ clock' = clock + 1
         /\ EditAuditor \/ auditRules' = auditRules

LEMMA ReportsOnly ==
  ASSUME [Next]_vars
  PROVE  (\E type \in SecurityEventType : report_security_event(type)) \/ Alone
<1>1. ASSUME NEW t \in Threads, NEW e \in Inputs[t], Emit(t, e) PROVE Alone
  BY <1>1 DEF Alone, Emit, auditVars
<1>2. ASSUME NEW t \in Threads, Judge(t) PROVE Alone
  BY <1>2 DEF Alone, Judge, auditVars
<1>3. ASSUME NEW t \in Threads, Raise(t)
      PROVE  Alone \/ \E type \in SecurityEventType : report_security_event(type)
  BY <1>3 DEF Alone, Raise, auditVars
<1>4. ASSUME NEW t \in Threads, Send(t) PROVE Alone
  BY <1>4 DEF Alone, Send, auditVars
<1>5. ASSUME NEW t \in Threads, Returned(t) PROVE Alone
  BY <1>5 DEF Alone, Returned, auditVars
<1>6. CASE Manage
  <2>1. CASE EditAuditor
    BY <2>1 DEF Alone, EditAuditor, AddAuditRule, RemoveAuditRule, EnableAuditRule,
                clear_rules
  <2>2. CASE UNCHANGED auditVars
    BY <2>2 DEF Alone, auditVars
  <2>3. QED
    BY <1>6, <2>1, <2>2 DEF Manage, EditFilter, EditWebhooks
<1>7. CASE TimePasses
  BY <1>7 DEF Alone, TimePasses, AdvanceClock
<1>8. CASE UNCHANGED vars
  BY <1>8 DEF Alone, vars, auditVars
<1>9. CASE Rest
  BY <1>8, <1>9 DEF Rest
<1>10. QED
  BY <1>1, <1>2, <1>3, <1>4, <1>5, <1>6, <1>7, <1>8, <1>9 DEF Next, Route

LEMMA AuditStep == AuditInv /\ [Next]_vars => AuditInv'
<1> SUFFICES ASSUME AuditInv, [Next]_vars PROVE AuditInv'
  OBVIOUS
<1>1. CASE \E type \in SecurityEventType : report_security_event(type)
  BY <1>1, ReportKeepsInv
<1>2. CASE Alone
  <2>1. auditRules' \in InForce
    BY <1>2, EditedInForce DEF Alone, AuditInv, AuditType
  <2>2. AuditType'
    BY <1>2, <2>1 DEF Alone, AuditInv, AuditType
  <2>4. \A r \in Rule : RuleInv(r)'
    BY <1>2 DEF Alone, AuditInv, RuleInv
  <2>3. QED
    BY <2>2, <2>4 DEF AuditInv
<1>3. QED
  BY <1>1, <1>2, ReportsOnly

(***************************************************************************)
(* For every number of threads and all definitions that rules are given    *)
(* while events are routed: a security rule fires only on as many events   *)
(* as its threshold asks for within its window, each of which matched the  *)
(* rule that had its name when it came, and not before its cooldown since  *)
(* the last firing under that name is over (add_rule, check_rules,         *)
(* record_rule_event, is_in_cooldown).                                     *)
(***************************************************************************)
THEOREM AuditJustified == Spec => []FiringsJustified
<1>1. AuditInv => FiringsJustified
  BY DEF AuditInv, RuleInv, Grounded, Apart, FiringsJustified
<1>2. QED
  BY <1>1, AuditInit, AuditStep, PTL DEF Spec

-----------------------------------------------------------------------------
(* The webhooks.                                                           *)

Webhook == [name : Hook, enabled : BOOLEAN]
Outcome == {"success", "failure"}
Place == {"none", "copy", "find", "post", "success", "failure"}
Kind == SecurityEventType \union {"alert", "none"}
CallState ==
  [at : Place, payload : Nat, kind : Kind, queue : Seq(Webhook), attempt : Nat]

HookType ==
  /\ webhooks \in Seq(Webhook)
  /\ call \in [Threads -> CallState]
  /\ posts \in Seq([Hook -> Seq(Outcome)])

\* No name occurs twice in webhooks_ or in a copy of it, and a webhook that
\* nobody has changed is there, enabled.
OnceEach(q) == \A i, j \in DOMAIN q : i # j => q[i].name # q[j].name
Enabled(q, h) == \E i \in DOMAIN q : q[i].name = h /\ q[i].enabled = TRUE
ListOK(q, ed) == OnceEach(q) /\ \A h \in Hook \ ed : Enabled(q, h)

\* A success ends the attempts, and there are at most retry_count of them.
Tidy(tries) ==
  /\ Len(tries) <= RetryCount
  /\ \A i \in 1..Len(tries) - 1 : tries[i] = "failure"

\* How the attempts recorded for the webhook whose turn it is go with the place
\* the thread has reached.
Progress(c, tries) ==
  /\ c.at = "find" => tries = <<>>
  /\ c.at = "post" => /\ Len(tries) = c.attempt /\ c.attempt < RetryCount
                      /\ \A i \in 1..Len(tries) : tries[i] = "failure"
  /\ c.at = "failure" => /\ Len(tries) = c.attempt + 1
                         /\ \A i \in 1..Len(tries) : tries[i] = "failure"
  /\ c.at = "success" => tries # <<>> /\ tries[Len(tries)] = "success"

\* Nothing has been sent to the webhooks further down the list.
CallOK(c, ps) ==
  /\ OnceEach(c.queue)
  /\ c.at \in {"post", "success", "failure"} => c.queue # <<>>
  /\ c.at # "none" =>
       /\ c.payload \in DOMAIN ps
       /\ c.at = "copy" => \A h \in Hook : ps[c.payload][h] = <<>>
       /\ \A i \in 2..Len(c.queue) : ps[c.payload][c.queue[i].name] = <<>>
       /\ c.queue # <<>> => Progress(c, ps[c.payload][c.queue[1].name])

\* Once the list is copied, a webhook that nobody has changed and that wants the
\* payload is still on it or has been dealt with.
Due(c, ps, ed) ==
  c.at \in {"find", "post", "success", "failure"} =>
    \A h \in Hook \ ed :
      Wants(h, c.kind) => Settled(ps[c.payload][h]) \/ Enabled(c.queue, h)

\* No two threads send the same payload.
OwnPayload(cs) ==
  \A t, u \in Threads :
    t # u /\ cs[t].at # "none" /\ cs[u].at # "none" => cs[t].payload # cs[u].payload

SendInv ==
  /\ HookType
  /\ ListOK(webhooks, edited)
  /\ \A p \in DOMAIN posts, h \in Hook : Tidy(posts[p][h])
  /\ \A t \in Threads : CallOK(call[t], posts) /\ Due(call[t], posts, edited)
  /\ OwnPayload(call)

LEMMA NoCallType == NoCall \in CallState
<1>1. <<>> \in Seq(Webhook)
  OBVIOUS
<1>2. QED
  BY <1>1 DEF NoCall, Call, CallState, Place, Kind

LEMMA CallType ==
  ASSUME NEW at \in Place, NEW p \in Nat, NEW k \in Kind, NEW q \in Seq(Webhook), NEW n \in Nat
  PROVE  /\ Call(at, p, k, q, n) \in CallState
         /\ Call(at, p, k, q, n).at = at /\ Call(at, p, k, q, n).payload = p
         /\ Call(at, p, k, q, n).kind = k /\ Call(at, p, k, q, n).queue = q
         /\ Call(at, p, k, q, n).attempt = n
BY DEF Call, CallState

LEMMA CallFields ==
  ASSUME NEW c \in CallState
  PROVE  /\ c.at \in Place /\ c.payload \in Nat /\ c.kind \in Kind
         /\ c.queue \in Seq(Webhook) /\ c.attempt \in Nat
BY DEF CallState

LEMMA WebhookFields ==
  ASSUME NEW q \in Seq(Webhook)
  PROVE  /\ Len(q) \in Nat /\ DOMAIN q = 1..Len(q)
         /\ \A i \in 1..Len(q) : q[i] \in Webhook /\ q[i].name \in Hook
         /\ q # <<>> => /\ Head(q) = q[1] /\ 1 \in DOMAIN q
                        /\ Tail(q) \in Seq(Webhook) /\ Len(Tail(q)) = Len(q) - 1
                        /\ \A i \in 1..Len(q) - 1 : Tail(q)[i] = q[i + 1]
<1>1. /\ Len(q) \in Nat /\ DOMAIN q = 1..Len(q) /\ \A i \in 1..Len(q) : q[i] \in Webhook
  OBVIOUS
<1>2. \A w \in Webhook : w.name \in Hook
  BY DEF Webhook
<1>3. q # <<>> => /\ Head(q) = q[1] /\ 1 \in DOMAIN q
                  /\ Tail(q) \in Seq(Webhook) /\ Len(Tail(q)) = Len(q) - 1
                  /\ \A i \in 1..Len(q) - 1 : Tail(q)[i] = q[i + 1]
  OBVIOUS
<1>4. QED
  BY <1>1, <1>2, <1>3

LEMMA SendInit == Init => SendInv
<1> SUFFICES ASSUME Init PROVE SendInv
  OBVIOUS
<1>1. /\ webhooks = [i \in DOMAIN Hooks |-> [name |-> Hooks[i], enabled |-> TRUE]]
      /\ posts = <<>> /\ edited = {} /\ call = [t \in Threads |-> NoCall]
  BY DEF Init, NotifierInit
<1>2. /\ Hooks \in Seq(Hook) /\ Len(Hooks) \in Nat /\ DOMAIN Hooks = 1..Len(Hooks)
      /\ \A i \in 1..Len(Hooks) : Hooks[i] \in Hook
  BY NotifierAssumption
<1>3. /\ DOMAIN webhooks = 1..Len(Hooks)
      /\ \A i \in 1..Len(Hooks) : /\ webhooks[i] \in Webhook
                                  /\ webhooks[i].name = Hooks[i]
                                  /\ webhooks[i].enabled = TRUE
  BY <1>1, <1>2 DEF Webhook
<1>4. webhooks \in Seq(Webhook)
  <2>1. webhooks \in [1..Len(Hooks) -> Webhook]
    BY <1>1, <1>2 DEF Webhook
  <2>2. QED
    BY <1>2, <2>1
<1>5. HookType
  BY <1>1, <1>4, NoCallType DEF HookType
<1>6. OnceEach(webhooks)
  BY <1>2, <1>3, NotifierAssumption DEF OnceEach
<1>7. \A h \in Hook : Enabled(webhooks, h)
  BY <1>2, <1>3 DEF Enabled, Hook
<1>8. ASSUME NEW t \in Threads PROVE CallOK(call[t], posts) /\ Due(call[t], posts, edited)
  <2>1. call[t].at = "none" /\ call[t].queue = <<>>
    BY <1>1 DEF NoCall, Call
  <2>2. QED
    BY <2>1 DEF CallOK, Due, OnceEach
<1>9. OwnPayload(call)
  BY <1>1 DEF OwnPayload, NoCall, Call
<1>10. QED
  BY <1>1, <1>5, <1>6, <1>7, <1>8, <1>9 DEF SendInv, ListOK

\* A step of one thread that sends no payload of another.
LEMMA ThreadStep ==
  ASSUME SendInv, NEW t \in Threads, NEW c \in CallState,
         NEW ps \in Seq([Hook -> Seq(Outcome)]),
         call' = [call EXCEPT ![t] = c], posts' = ps, UNCHANGED <<webhooks, edited>>,
         \A p \in DOMAIN ps, h \in Hook : Tidy(ps[p][h]),
         DOMAIN posts \subseteq DOMAIN ps,
         \A u \in Threads : u # t /\ call[u].at # "none" =>
           /\ ps[call[u].payload] = posts[call[u].payload]
           /\ c.at # "none" => call[u].payload # c.payload,
         CallOK(c, ps), Due(c, ps, edited)
  PROVE  SendInv'
<1>1. call \in [Threads -> CallState]
  BY DEF SendInv, HookType
<1>2. /\ call' \in [Threads -> CallState] /\ call'[t] = c
      /\ \A u \in Threads : u # t => call'[u] = call[u]
  BY <1>1
<1>3. HookType'
  BY <1>2 DEF SendInv, HookType
<1>4. ListOK(webhooks', edited')
  BY DEF SendInv
<1>5. ASSUME NEW u \in Threads, u # t
      PROVE  CallOK(call[u], ps) /\ Due(call[u], ps, edited)
  <2>1. CallOK(call[u], posts) /\ Due(call[u], posts, edited)
    BY DEF SendInv
  <2>2. CASE call[u].at = "none"
    BY <2>1, <2>2 DEF CallOK, Due
  <2>3. CASE call[u].at # "none"
    <3>1. ps[call[u].payload] = posts[call[u].payload]
      BY <1>5, <2>3
    <3>2. CallOK(call[u], ps)
      BY <2>1, <2>3, <3>1 DEF CallOK
    <3>3. Due(call[u], ps, edited)
      BY <2>1, <3>1 DEF Due
    <3>4. QED
      BY <3>2, <3>3
  <2>4. QED
    BY <2>2, <2>3
<1>6. \A u \in Threads : CallOK(call'[u], posts') /\ Due(call'[u], posts', edited')
  BY <1>2, <1>5
<1>7. OwnPayload(call')
  <2> SUFFICES ASSUME NEW v \in Threads, NEW u \in Threads, v # u,
                      call'[v].at # "none", call'[u].at # "none"
               PROVE  call'[v].payload # call'[u].payload
    BY DEF OwnPayload
  <2>1. CASE v = t
    BY <1>2, <2>1
  <2>2. CASE u = t
    BY <1>2, <2>2
  <2>3. CASE v # t /\ u # t
    BY <1>2, <2>3 DEF SendInv, OwnPayload
  <2>4. QED
    BY <2>1, <2>2, <2>3
<1>8. QED
  BY <1>3, <1>4, <1>6, <1>7 DEF SendInv

\* In particular one within its call that posts nothing.
LEMMA QuietStep ==
  ASSUME SendInv, NEW t \in Threads, NEW at \in Place, NEW q \in Seq(Webhook),
         NEW n \in Nat, call[t].at # "none", Goes(t, at, q, n),
         UNCHANGED <<webhooks, posts, edited>>,
         CallOK(Call(at, call[t].payload, call[t].kind, q, n), posts),
         Due(Call(at, call[t].payload, call[t].kind, q, n), posts, edited)
  PROVE  SendInv'
<1> DEFINE c == Call(at, call[t].payload, call[t].kind, q, n)
<1>1. call[t] \in CallState
  BY DEF SendInv, HookType
<1>2. c \in CallState /\ c.payload = call[t].payload
  BY <1>1, CallFields, CallType
<1>3. call' = [call EXCEPT ![t] = c]
  BY DEF Goes
<1>4. posts \in Seq([Hook -> Seq(Outcome)]) /\ \A p \in DOMAIN posts, h \in Hook : Tidy(posts[p][h])
  BY DEF SendInv, HookType
<1>5. \A u \in Threads : u # t /\ call[u].at # "none" => call[u].payload # call[t].payload
  BY DEF SendInv, OwnPayload
<1> HIDE DEF c
<1>6. CallOK(c, posts) /\ Due(c, posts, edited)
  BY DEF c
<1>7. /\ posts' = posts /\ UNCHANGED <<webhooks, edited>>
      /\ DOMAIN posts \subseteq DOMAIN posts
  OBVIOUS
<1>8. \A u \in Threads : u # t /\ call[u].at # "none" =>
        /\ posts[call[u].payload] = posts[call[u].payload]
        /\ c.at # "none" => call[u].payload # c.payload
  BY <1>2, <1>5
<1>9. QED
  BY <1>2, <1>3, <1>4, <1>6, <1>7, <1>8, ThreadStep

LEMMA CopyListKeeps ==
  ASSUME SendInv, NEW t \in Threads, CopyList(t)
  PROVE  SendInv'
<1> DEFINE c == Call("find", call[t].payload, call[t].kind, webhooks, 0)
<1>1. /\ call[t].at = "copy" /\ Goes(t, "find", webhooks, 0)
      /\ UNCHANGED <<webhooks, posts, edited>>
  BY DEF CopyList
<1>2. call[t] \in CallState /\ webhooks \in Seq(Webhook)
  BY DEF SendInv, HookType
<1>3. /\ c.at = "find" /\ c.payload = call[t].payload /\ c.kind = call[t].kind
      /\ c.queue = webhooks
  BY DEF Call
<1>4. /\ call[t].payload \in DOMAIN posts
      /\ \A h \in Hook : posts[call[t].payload][h] = <<>>
  BY <1>1 DEF SendInv, CallOK
<1>5. OnceEach(webhooks) /\ \A h \in Hook \ edited : Enabled(webhooks, h)
  BY DEF SendInv, ListOK
<1>6. /\ Len(webhooks) \in Nat
      /\ \A i \in 1..Len(webhooks) : webhooks[i].name \in Hook
      /\ webhooks # <<>> => 1 \in 1..Len(webhooks)
  BY <1>2, WebhookFields
<1> HIDE DEF c
<1>7. CallOK(c, posts)
  BY <1>3, <1>4, <1>5, <1>6 DEF CallOK, Progress
<1>8. Due(c, posts, edited)
  BY <1>3, <1>5 DEF Due
<1>9. "find" \in Place /\ 0 \in Nat /\ call[t].at # "none"
  BY <1>1 DEF Place
<1>10. QED
  BY <1>1, <1>2, <1>7, <1>8, <1>9, QuietStep DEF c

\* Going on to the next webhook, when the one whose turn it was is settled or has
\* no claim.
LEMMA MovesOnKeeps ==
  ASSUME SendInv, NEW t \in Threads, call[t].at \in {"find", "success", "failure"},
         call[t].queue # <<>>, MovesOn(t), UNCHANGED <<webhooks, posts, edited>>,
         /\ Turn(t).name \notin edited /\ Wants(Turn(t).name, call[t].kind)
         /\ Turn(t).enabled = TRUE
         => Settled(posts[call[t].payload][Turn(t).name])
  PROVE  SendInv'
<1> DEFINE q == call[t].queue
           p == call[t].payload
           c == Call("find", p, call[t].kind, Tail(q), 0)
<1>1. call[t] \in CallState
  BY DEF SendInv, HookType
<1>2. q \in Seq(Webhook) /\ q # <<>>
  BY <1>1, CallFields
<1>3. /\ Len(q) \in Nat /\ DOMAIN q = 1..Len(q) /\ Turn(t) = q[1]
      /\ Tail(q) \in Seq(Webhook) /\ Len(Tail(q)) = Len(q) - 1
      /\ \A i \in 1..Len(q) - 1 : Tail(q)[i] = q[i + 1]
      /\ DOMAIN Tail(q) = 1..Len(q) - 1
  BY <1>2, WebhookFields DEF Turn
<1>4. /\ OnceEach(q) /\ p \in DOMAIN posts
      /\ \A i \in 2..Len(q) : posts[p][q[i].name] = <<>>
  BY DEF SendInv, CallOK
<1>5. \A h \in Hook \ edited :
        Wants(h, call[t].kind) => Settled(posts[p][h]) \/ Enabled(q, h)
  BY DEF SendInv, Due
<1>6. /\ c.at = "find" /\ c.payload = p /\ c.kind = call[t].kind /\ c.queue = Tail(q)
  BY DEF Call
<1>7. "find" \in Place /\ 0 \in Nat /\ call[t].at # "none" /\ Goes(t, "find", Tail(q), 0)
  BY DEF Place, MovesOn
<1> HIDE DEF c
<1>8. OnceEach(Tail(q))
  <2> SUFFICES ASSUME NEW i \in 1..Len(q) - 1, NEW j \in 1..Len(q) - 1, i # j
               PROVE  Tail(q)[i].name # Tail(q)[j].name
    BY <1>3 DEF OnceEach
  <2>1. i + 1 \in DOMAIN q /\ j + 1 \in DOMAIN q /\ i + 1 # j + 1
    BY <1>3
  <2>2. q[i + 1].name # q[j + 1].name
    BY <1>4, <2>1 DEF OnceEach
  <2>3. QED
    BY <1>3, <2>2
<1>9. \A i \in 1..Len(Tail(q)) : posts[p][Tail(q)[i].name] = <<>>
  BY <1>3, <1>4
<1>10. CallOK(c, posts)
  <2>1. Tail(q) # <<>> => 1 \in 1..Len(Tail(q))
    BY <1>3
  <2>2. \A i \in 2..Len(Tail(q)) : i \in 1..Len(Tail(q))
    BY <1>3
  <2>3. QED
    BY <1>4, <1>6, <1>8, <1>9, <2>1, <2>2 DEF CallOK, Progress
<1>11. Due(c, posts, edited)
  <2> SUFFICES ASSUME NEW h \in Hook \ edited, Wants(h, call[t].kind), ~Settled(posts[p][h])
               PROVE  Enabled(Tail(q), h)
    BY <1>6 DEF Due
  <2>1. PICK i \in DOMAIN q : q[i].name = h /\ q[i].enabled = TRUE
    BY <1>5 DEF Enabled
  <2>2. i # 1
    BY <1>3, <2>1
  <2>3. i - 1 \in 1..Len(q) - 1 /\ Tail(q)[i - 1] = q[i]
    BY <1>3, <2>2
  <2>4. QED
    BY <1>3, <2>1, <2>3 DEF Enabled
<1>12. QED
  BY <1>3, <1>7, <1>10, <1>11, QuietStep DEF c

LEMMA FindKeeps ==
  ASSUME SendInv, NEW t \in Threads, Find(t)
  PROVE  SendInv'
<1> DEFINE q == call[t].queue
           p == call[t].payload
           Sendable == /\ Turn(t).enabled /\ Wants(Turn(t).name, call[t].kind)
                       /\ \E i \in DOMAIN webhooks :
                            webhooks[i].name = Turn(t).name /\ webhooks[i].enabled
                       /\ RetryCount > 0
<1>1. /\ call[t].at = "find" /\ q # <<>> /\ UNCHANGED <<webhooks, posts, edited>>
      /\ IF Sendable THEN Goes(t, "post", q, 0) ELSE MovesOn(t)
  BY DEF Find
<1>2. call[t] \in CallState
  BY DEF SendInv, HookType
<1>3. q \in Seq(Webhook) /\ Turn(t) = q[1] /\ q[1] \in Webhook /\ q[1].name \in Hook
  BY <1>1, <1>2, CallFields, WebhookFields DEF Turn
<1>4. /\ OnceEach(q) /\ p \in DOMAIN posts
      /\ \A i \in 2..Len(q) : posts[p][q[i].name] = <<>>
      /\ posts[p][q[1].name] = <<>>
  BY <1>1 DEF SendInv, CallOK, Progress
<1>5. RetryCount \in Nat
  BY NotifierAssumption
<1>6. CASE Sendable
  <2> DEFINE c == Call("post", p, call[t].kind, q, 0)
  <2>1. /\ c.at = "post" /\ c.payload = p /\ c.kind = call[t].kind /\ c.queue = q
        /\ c.attempt = 0
    BY DEF Call
  <2>2. Goes(t, "post", q, 0) /\ RetryCount > 0
    BY <1>1, <1>6
  <2>3. Due(call[t], posts, edited)
    BY DEF SendInv
  <2>4. "post" \in Place /\ 0 \in Nat /\ call[t].at # "none"
    BY <1>1 DEF Place
  <2> HIDE DEF c
  <2>5. Progress(c, posts[p][q[1].name])
    BY <1>4, <1>5, <2>1, <2>2 DEF Progress
  <2>6. CallOK(c, posts)
    BY <1>1, <1>4, <2>1, <2>5 DEF CallOK
  <2>7. Due(c, posts, edited)
    BY <1>1, <2>1, <2>3 DEF Due
  <2>8. QED
    BY <1>1, <1>3, <2>2, <2>4, <2>6, <2>7, QuietStep DEF c
<1>7. CASE ~Sendable
  <2>1. ASSUME Turn(t).name \notin edited, Wants(Turn(t).name, call[t].kind),
               Turn(t).enabled = TRUE
        PROVE  Settled(posts[p][Turn(t).name])
    <3>1. Enabled(webhooks, q[1].name)
      BY <1>3, <2>1 DEF SendInv, ListOK
    <3>2. \E i \in DOMAIN webhooks : webhooks[i].name = Turn(t).name /\ webhooks[i].enabled
      BY <1>3, <3>1 DEF Enabled
    <3>3. RetryCount = 0
      BY <1>5, <1>7, <2>1, <3>2
    <3>4. QED
      BY <1>3, <1>4, <3>3 DEF Settled
  <2>2. MovesOn(t)
    BY <1>1, <1>7
  <2>3. QED
    BY <1>1, <2>1, <2>2, MovesOnKeeps
<1>8. QED
  BY <1>6, <1>7

\* One more outcome among the attempts for webhook h and payload p.
LEMMA OneMorePost ==
  ASSUME NEW ps \in Seq([Hook -> Seq(Outcome)]), NEW p \in DOMAIN ps, NEW h \in Hook,
         NEW o \in Outcome, NEW qs, qs = [ps EXCEPT ![p][h] = Append(@, o)]
  PROVE  /\ qs \in Seq([Hook -> Seq(Outcome)]) /\ DOMAIN qs = DOMAIN ps
         /\ \A x \in DOMAIN ps : x # p => qs[x] = ps[x]
         /\ \A g \in Hook : g # h => qs[p][g] = ps[p][g]
         /\ qs[p][h] = Append(ps[p][h], o)
<1> DEFINE m == [ps[p] EXCEPT ![h] = Append(@, o)]
<1>1. ps[p] \in [Hook -> Seq(Outcome)] /\ Append(ps[p][h], o) \in Seq(Outcome)
  OBVIOUS
<1>2. /\ m \in [Hook -> Seq(Outcome)] /\ m[h] = Append(ps[p][h], o)
      /\ \A g \in Hook : g # h => m[g] = ps[p][g]
  BY <1>1
<1>3. qs = [ps EXCEPT ![p] = m]
  BY <1>1
<1> HIDE DEF m
<1>4. /\ [ps EXCEPT ![p] = m] \in Seq([Hook -> Seq(Outcome)])
      /\ DOMAIN [ps EXCEPT ![p] = m] = DOMAIN ps /\ [ps EXCEPT ![p] = m][p] = m
      /\ \A x \in DOMAIN ps : x # p => [ps EXCEPT ![p] = m][x] = ps[x]
  BY <1>2
<1>5. QED
  BY <1>2, <1>3, <1>4

\* An attempt after refused ones.
LEMMA OneMoreTry ==
  ASSUME NEW s \in Seq(Outcome), NEW o \in Outcome, NEW n \in Nat, Len(s) = n,
         n < RetryCount, \A i \in 1..Len(s) : s[i] = "failure"
  PROVE  /\ Tidy(Append(s, o)) /\ Append(s, o) # <<>>
         /\ Len(Append(s, o)) = n + 1 /\ Append(s, o)[n + 1] = o
         /\ o = "failure" => \A i \in 1..n + 1 : Append(s, o)[i] = "failure"
<1>1. /\ Len(Append(s, o)) = n + 1 /\ Append(s, o)[n + 1] = o /\ Append(s, o) # <<>>
      /\ \A i \in 1..n : Append(s, o)[i] = "failure"
  OBVIOUS
<1>2. QED
  BY <1>1, NotifierAssumption DEF Tidy

\* A sequence that is not empty has a last element.
LEMMA LastIndex ==
  ASSUME NEW S, NEW s \in Seq(S), s # <<>>
  PROVE  Len(s) \in 1..Len(s)
  OBVIOUS

LEMMA PostKeeps ==
  ASSUME SendInv, NEW t \in Threads, Post(t)
  PROVE  SendInv'
<1> DEFINE q == call[t].queue
           p == call[t].payload
           n == call[t].attempt
           h == q[1].name
<1>1. call[t] \in CallState /\ call[t].at = "post" /\ UNCHANGED <<webhooks, edited>>
  BY DEF SendInv, HookType, Post
<1>2. posts \in Seq([Hook -> Seq(Outcome)])
  BY DEF SendInv, HookType
<1>3. q \in Seq(Webhook) /\ p \in Nat /\ n \in Nat /\ call[t].kind \in Kind
  BY <1>1, CallFields
<1>4. /\ OnceEach(q) /\ q # <<>> /\ p \in DOMAIN posts
      /\ \A i \in 2..Len(q) : posts[p][q[i].name] = <<>>
      /\ Progress(call[t], posts[p][h])
  BY <1>1 DEF SendInv, CallOK
<1>5. /\ Turn(t) = q[1] /\ h \in Hook /\ Len(q) \in Nat /\ DOMAIN q = 1..Len(q)
      /\ 1 \in 1..Len(q) /\ \A i \in 1..Len(q) : q[i].name \in Hook
  BY <1>3, <1>4, WebhookFields DEF Turn
<1>6. PICK o \in Outcome :
        /\ posts' = [posts EXCEPT ![p][h] = Append(@, o)]
        /\ Goes(t, o, q, n)
  BY <1>5 DEF Post, Outcome
<1> DEFINE ps == [posts EXCEPT ![p][h] = Append(@, o)]
           c == Call(o, p, call[t].kind, q, n)
<1>7. /\ ps \in Seq([Hook -> Seq(Outcome)]) /\ DOMAIN ps = DOMAIN posts
      /\ \A x \in DOMAIN posts : x # p => ps[x] = posts[x]
      /\ \A g \in Hook : g # h => ps[p][g] = posts[p][g]
      /\ ps[p][h] = Append(posts[p][h], o)
  <2>1. ps = [posts EXCEPT ![p][h] = Append(@, o)]
    OBVIOUS
  <2> HIDE DEF ps, p, h
  <2>2. QED
    BY <1>2, <1>4, <1>5, <2>1, OneMorePost
<1>8. /\ c \in CallState /\ c.at = o /\ c.payload = p /\ c.kind = call[t].kind
      /\ c.queue = q /\ c.attempt = n
  <2>1. o \in Place
    BY DEF Outcome, Place
  <2>2. QED
    BY <1>3, <2>1, CallType
<1>9. posts' = ps /\ call' = [call EXCEPT ![t] = c]
  BY <1>6 DEF Goes
<1> HIDE DEF ps, c
<1>10. posts[p][h] \in Seq(Outcome)
  BY <1>2, <1>4, <1>5
<1>11. /\ Tidy(ps[p][h]) /\ ps[p][h] # <<>>
       /\ Len(ps[p][h]) = n + 1 /\ ps[p][h][n + 1] = o
       /\ o = "failure" => \A i \in 1..n + 1 : ps[p][h][i] = "failure"
  <2>1. /\ Len(posts[p][h]) = n /\ n < RetryCount
        /\ \A i \in 1..Len(posts[p][h]) : posts[p][h][i] = "failure"
    BY <1>1, <1>4 DEF Progress
  <2> DEFINE s == posts[p][h]
  <2>2. s \in Seq(Outcome) /\ Len(s) = n /\ \A i \in 1..Len(s) : s[i] = "failure"
    BY <1>10, <2>1
  <2>3. ps[p][h] = Append(s, o)
    BY <1>7
  <2> HIDE DEF s, n, p, h
  <2>4. /\ Tidy(Append(s, o)) /\ Append(s, o) # <<>>
        /\ Len(Append(s, o)) = n + 1 /\ Append(s, o)[n + 1] = o
        /\ o = "failure" => \A i \in 1..n + 1 : Append(s, o)[i] = "failure"
    BY <1>3, <2>1, <2>2, OneMoreTry
  <2>5. QED
    BY <2>3, <2>4
<1>12. \A x \in DOMAIN ps, g \in Hook : Tidy(ps[x][g])
  <2> SUFFICES ASSUME NEW x \in DOMAIN ps, NEW g \in Hook PROVE Tidy(ps[x][g])
    OBVIOUS
  <2>1. Tidy(posts[x][g])
    BY <1>7 DEF SendInv
  <2>2. CASE x # p
    BY <1>7, <2>1, <2>2
  <2>3. CASE x = p /\ g # h
    BY <1>7, <2>1, <2>3
  <2>4. CASE x = p /\ g = h
    BY <1>11, <2>4
  <2>5. QED
    BY <2>2, <2>3, <2>4
<1>13. \A i \in 2..Len(q) : ps[p][q[i].name] = <<>>
  <2> SUFFICES ASSUME NEW i \in 2..Len(q) PROVE ps[p][q[i].name] = <<>>
    OBVIOUS
  <2>1. i \in DOMAIN q /\ 1 \in DOMAIN q /\ i # 1
    BY <1>5
  <2>2. q[i].name # h /\ q[i].name \in Hook
    BY <1>4, <1>5, <2>1 DEF OnceEach
  <2>3. QED
    BY <1>4, <1>7, <2>2
<1>14. Progress(c, ps[p][h])
  BY <1>8, <1>11 DEF Progress, Outcome
<1>15. CallOK(c, ps)
  <2>1. c.at \in {"success", "failure"}
    BY <1>8 DEF Outcome
  <2>2. QED
    BY <1>4, <1>7, <1>8, <1>13, <1>14, <2>1 DEF CallOK
<1>16. Due(c, ps, edited)
  <2> SUFFICES ASSUME NEW g \in Hook \ edited, Wants(g, call[t].kind), ~Enabled(q, g)
               PROVE  Settled(ps[p][g])
    BY <1>8 DEF Due
  <2>1. Settled(posts[p][g])
    BY <1>1 DEF SendInv, Due
  <2>2. CASE g # h
    BY <1>7, <2>1, <2>2
  <2>3. CASE g = h
    <3>1. posts[p][h] \in Seq(Outcome) /\ Len(posts[p][h]) = n /\ n < RetryCount
      BY <1>1, <1>4, <1>10 DEF Progress
    <3>2. \A i \in 1..Len(posts[p][h]) : posts[p][h][i] = "failure"
      BY <1>1, <1>4 DEF Progress
    <3>3. ~Settled(posts[p][h])
      <4>1. Len(posts[p][h]) # RetryCount
        BY <1>3, <3>1, NotifierAssumption
      <4>2. posts[p][h] # <<>> => posts[p][h][Len(posts[p][h])] = "failure"
        <5> SUFFICES ASSUME posts[p][h] # <<>>
                     PROVE  posts[p][h][Len(posts[p][h])] = "failure"
          OBVIOUS
        <5>1. Len(posts[p][h]) \in 1..Len(posts[p][h])
          BY <3>1, LastIndex, Zenon
        <5>2. QED
          BY <3>2, <5>1, Zenon
      <4>3. QED
        BY <4>1, <4>2 DEF Settled
    <3>4. QED
      BY <2>1, <2>3, <3>3
  <2>4. QED
    BY <2>2, <2>3
<1>17. \A u \in Threads : u # t /\ call[u].at # "none" =>
         /\ ps[call[u].payload] = posts[call[u].payload]
         /\ c.at # "none" => call[u].payload # c.payload
  <2> SUFFICES ASSUME NEW u \in Threads, u # t, call[u].at # "none"
               PROVE  /\ ps[call[u].payload] = posts[call[u].payload]
                      /\ call[u].payload # c.payload
    OBVIOUS
  <2>1. call[u].payload # p /\ call[u].payload \in DOMAIN posts
    BY <1>1 DEF SendInv, OwnPayload, CallOK
  <2>2. QED
    BY <1>7, <1>8, <2>1
<1>18. DOMAIN posts \subseteq DOMAIN ps
  BY <1>7
<1>19. QED
  BY <1>1, <1>7, <1>8, <1>9, <1>12, <1>15, <1>16, <1>17, <1>18, ThreadStep

LEMMA SucceedKeeps ==
  ASSUME SendInv, NEW t \in Threads, Succeed(t)
  PROVE  SendInv'
<1>1. /\ call[t].at = "success" /\ MovesOn(t) /\ UNCHANGED <<webhooks, posts, edited>>
  BY DEF Succeed, Recorded
<1>2. call[t] \in CallState
  BY DEF SendInv, HookType
<1>3. call[t].queue # <<>> /\ call[t].queue \in Seq(Webhook)
  BY <1>1, <1>2, CallFields DEF SendInv, CallOK
<1>4. Turn(t) = call[t].queue[1]
  BY <1>3, WebhookFields DEF Turn
<1>5. Progress(call[t], posts[call[t].payload][Turn(t).name])
  BY <1>1, <1>3, <1>4 DEF SendInv, CallOK
<1>6. Settled(posts[call[t].payload][Turn(t).name])
  BY <1>1, <1>5 DEF Progress, Settled
<1>7. QED
  BY <1>1, <1>3, <1>6, MovesOnKeeps

LEMMA FailKeeps ==
  ASSUME SendInv, NEW t \in Threads, Fail(t)
  PROVE  SendInv'
<1> DEFINE q == call[t].queue
           p == call[t].payload
           n == call[t].attempt
           tries == posts[p][q[1].name]
<1>1. /\ call[t].at = "failure" /\ UNCHANGED <<webhooks, posts, edited>>
      /\ IF n + 1 < RetryCount THEN Goes(t, "post", q, n + 1) ELSE MovesOn(t)
  BY DEF Fail, Recorded
<1>2. call[t] \in CallState
  BY DEF SendInv, HookType
<1>3. n \in Nat /\ q \in Seq(Webhook)
  BY <1>2, CallFields
<1>4. /\ OnceEach(q) /\ q # <<>> /\ p \in DOMAIN posts
      /\ \A i \in 2..Len(q) : posts[p][q[i].name] = <<>>
      /\ Progress(call[t], tries)
  BY <1>1 DEF SendInv, CallOK
<1>5. Turn(t) = q[1] /\ q[1].name \in Hook
  BY <1>3, <1>4, WebhookFields DEF Turn
<1>6. Len(tries) = n + 1 /\ \A i \in 1..Len(tries) : tries[i] = "failure"
  BY <1>1, <1>4 DEF Progress
<1>7. CASE n + 1 < RetryCount
  <2> DEFINE c == Call("post", p, call[t].kind, q, n + 1)
  <2>1. /\ c.at = "post" /\ c.payload = p /\ c.kind = call[t].kind /\ c.queue = q
        /\ c.attempt = n + 1
    BY DEF Call
  <2>2. Due(call[t], posts, edited)
    BY DEF SendInv
  <2>3. "post" \in Place /\ n + 1 \in Nat /\ call[t].at # "none" /\ Goes(t, "post", q, n + 1)
    BY <1>1, <1>3, <1>7 DEF Place
  <2> HIDE DEF c
  <2>4. Progress(c, tries)
    BY <1>6, <1>7, <2>1 DEF Progress
  <2>5. CallOK(c, posts)
    BY <1>4, <2>1, <2>4 DEF CallOK
  <2>6. Due(c, posts, edited)
    BY <1>1, <2>1, <2>2 DEF Due
  <2>7. QED
    BY <1>1, <1>3, <2>3, <2>5, <2>6, QuietStep DEF c
<1>8. CASE ~(n + 1 < RetryCount)
  <2>1. Len(tries) <= RetryCount
    BY <1>4, <1>5 DEF SendInv, Tidy
  <2>2. Settled(posts[p][Turn(t).name])
    <3>1. Len(tries) = RetryCount
      BY <1>3, <1>6, <1>8, <2>1, NotifierAssumption
    <3>2. QED
      BY <1>5, <3>1, Zenon DEF Settled
  <2>3. MovesOn(t)
    BY <1>1, <1>8
  <2>4. QED
    BY <1>1, <1>4, <2>2, <2>3, MovesOnKeeps
<1>9. QED
  BY <1>7, <1>8

LEMMA CalledKeeps ==
  ASSUME SendInv, NEW t \in Threads, NEW kind \in Kind, Called(t, kind), call[t] = NoCall
  PROVE  SendInv'
<1> DEFINE n == Len(posts)
           none == [h \in Hook |-> <<>>]
           ps == Append(posts, none)
           c == Call("copy", n + 1, kind, <<>>, 0)
<1>1. /\ posts' = ps /\ call' = [call EXCEPT ![t] = c] /\ UNCHANGED <<webhooks, edited>>
  BY DEF Called
<1>2. posts \in Seq([Hook -> Seq(Outcome)]) /\ none \in [Hook -> Seq(Outcome)]
  BY DEF SendInv, HookType
<1>3. n \in Nat /\ DOMAIN posts = 1..n
  BY <1>2
<1>4. /\ ps \in Seq([Hook -> Seq(Outcome)]) /\ DOMAIN ps = 1..n + 1
      /\ ps[n + 1] = none /\ \A x \in 1..n : ps[x] = posts[x]
  BY <1>2, <1>3
<1>5. \A h \in Hook : ps[n + 1][h] = <<>>
  BY <1>4
<1>6. /\ c \in CallState /\ c.at = "copy" /\ c.payload = n + 1 /\ c.queue = <<>>
  <2>1. "copy" \in Place /\ 0 \in Nat /\ <<>> \in Seq(Webhook) /\ n + 1 \in Nat
    BY <1>3 DEF Place
  <2> HIDE DEF n
  <2>2. c.at = "copy" /\ c.payload = n + 1 /\ c.queue = <<>>
    BY DEF Call
  <2>3. c \in CallState
    BY <2>1 DEF Call, CallState
  <2>4. QED
    BY <2>2, <2>3
<1> HIDE DEF ps, c, none
<1>7. \A x \in DOMAIN ps, h \in Hook : Tidy(ps[x][h])
  <2> SUFFICES ASSUME NEW x \in 1..n + 1, NEW h \in Hook PROVE Tidy(ps[x][h])
    BY <1>4
  <2>1. CASE x = n + 1
    BY <1>5, <2>1, NotifierAssumption DEF Tidy
  <2>2. CASE x \in 1..n
    BY <1>3, <1>4, <2>2 DEF SendInv
  <2>3. QED
    BY <1>3, <2>1, <2>2
<1>8. DOMAIN posts \subseteq DOMAIN ps
  BY <1>3, <1>4
<1>9. \A u \in Threads : u # t /\ call[u].at # "none" =>
        /\ ps[call[u].payload] = posts[call[u].payload]
        /\ c.at # "none" => call[u].payload # c.payload
  <2> SUFFICES ASSUME NEW u \in Threads, call[u].at # "none"
               PROVE  /\ ps[call[u].payload] = posts[call[u].payload]
                      /\ call[u].payload # c.payload
    OBVIOUS
  <2>1. call[u].payload \in 1..n
    BY <1>3 DEF SendInv, CallOK
  <2>2. QED
    BY <1>3, <1>4, <1>6, <2>1
<1>10. CallOK(c, ps)
  <2>1. n + 1 \in DOMAIN ps /\ Len(c.queue) = 0
    BY <1>3, <1>4, <1>6
  <2>2. QED
    BY <1>5, <1>6, <2>1 DEF CallOK, OnceEach
<1>11. Due(c, ps, edited)
  BY <1>6 DEF Due
<1>12. QED
  BY <1>1, <1>4, <1>6, <1>7, <1>8, <1>9, <1>10, <1>11, ThreadStep

LEMMA ReturnKeeps ==
  ASSUME SendInv, NEW t \in Threads, call' = [call EXCEPT ![t] = NoCall],
         UNCHANGED <<webhooks, posts, edited>>
  PROVE  SendInv'
<1>1. NoCall.at = "none" /\ NoCall.queue = <<>> /\ NoCall \in CallState
  BY NoCallType DEF NoCall, Call
<1>2. CallOK(NoCall, posts) /\ Due(NoCall, posts, edited)
  BY <1>1 DEF CallOK, Due, OnceEach
<1>3. posts \in Seq([Hook -> Seq(Outcome)]) /\ \A p \in DOMAIN posts, h \in Hook : Tidy(posts[p][h])
  BY DEF SendInv, HookType
<1>4. /\ posts' = posts /\ UNCHANGED <<webhooks, edited>>
      /\ DOMAIN posts \subseteq DOMAIN posts
  OBVIOUS
<1>5. \A u \in Threads : u # t /\ call[u].at # "none" =>
        /\ posts[call[u].payload] = posts[call[u].payload]
        /\ NoCall.at # "none" => call[u].payload # NoCall.payload
  BY <1>1
<1>6. QED
  BY <1>1, <1>2, <1>3, <1>4, <1>5, ThreadStep

\* The list of webhooks is changed, and who was changed is noted.
LEMMA EditStep ==
  ASSUME SendInv, webhooks' \in Seq(Webhook), edited \subseteq edited',
         ListOK(webhooks', edited'), UNCHANGED <<call, posts>>
  PROVE  SendInv'
<1>1. HookType'
  BY DEF SendInv, HookType
<1>2. ASSUME NEW t \in Threads
      PROVE  CallOK(call[t], posts) /\ Due(call[t], posts, edited')
  <2>1. CallOK(call[t], posts) /\ Due(call[t], posts, edited)
    BY DEF SendInv
  <2>2. Due(call[t], posts, edited')
    BY <2>1 DEF Due
  <2>3. QED
    BY <2>1, <2>2
<1>3. QED
  BY <1>1, <1>2 DEF SendInv

LEMMA Joined ==
  ASSUME NEW S, NEW a \in Seq(S), NEW b \in Seq(S)
  PROVE  a \o b \in Seq(S) /\ Len(a \o b) = Len(a) + Len(b)
OBVIOUS

LEMMA WithoutKeeps ==
  ASSUME webhooks \in Seq(Webhook), OnceEach(webhooks), NEW h
  PROVE  /\ Without(h) \in Seq(Webhook) /\ OnceEach(Without(h))
         /\ \A i \in DOMAIN Without(h) : Without(h)[i].name # h
         /\ \A g : g # h /\ Enabled(webhooks, g) => Enabled(Without(h), g)
<1> DEFINE q == webhooks
           n == Len(q)
<1>1. n \in Nat /\ DOMAIN q = 1..n
  OBVIOUS
<1>2. CASE ~\E i \in DOMAIN q : q[i].name = h
  <2>1. Without(h) = q
    BY <1>2 DEF Without
  <2>2. QED
    BY <1>2, <2>1
<1>3. CASE \E i \in DOMAIN q : q[i].name = h
  <2>1. PICK k \in DOMAIN q : /\ q[k].name = h
                              /\ Without(h) = SubSeq(q, 1, k - 1) \o SubSeq(q, k + 1, n)
    <3> DEFINE i == CHOOSE i \in DOMAIN q : q[i].name = h
    <3>1. i \in DOMAIN q /\ q[i].name = h
      BY <1>3
    <3>2. Without(h) = SubSeq(q, 1, i - 1) \o SubSeq(q, i + 1, n)
      BY <1>3 DEF Without
    <3>3. QED
      BY <3>1, <3>2
  <2> DEFINE a == SubSeq(q, 1, k - 1)
             b == SubSeq(q, k + 1, n)
             at(j) == IF j < k THEN j ELSE j + 1
  <2>2. /\ a \in Seq(Webhook) /\ Len(a) = k - 1 /\ \A j \in 1..k - 1 : a[j] = q[j]
    BY <1>1
  <2>3. /\ b \in Seq(Webhook) /\ Len(b) = n - k /\ \A j \in 1..n - k : b[j] = q[j + k]
    BY <1>1
  <2> HIDE DEF a, b
  <2>4. /\ Without(h) \in Seq(Webhook) /\ DOMAIN Without(h) = 1..n - 1
        /\ \A j \in 1..n - 1 : Without(h)[j] = q[at(j)]
    <3>1. Without(h) = a \o b
      BY <2>1 DEF a, b
    <3>2. a \o b \in Seq(Webhook) /\ Len(a \o b) = n - 1
      <4>1. a \o b \in Seq(Webhook) /\ Len(a \o b) = Len(a) + Len(b)
        BY <2>2, <2>3, Joined
      <4>2. k \in Int /\ n \in Int
        BY <1>1
      <4> HIDE DEF n
      <4>3. Len(a) + Len(b) = n - 1
        BY <2>2, <2>3, <4>2
      <4>4. QED
        BY <4>1, <4>3
    <3>3. \A j \in 1..n - 1 : (a \o b)[j] = q[at(j)]
      <4> SUFFICES ASSUME NEW j \in 1..n - 1 PROVE (a \o b)[j] = q[at(j)]
        OBVIOUS
      <4>1. CASE j < k
        BY <1>1, <2>2, <2>3, <4>1
      <4>2. CASE ~(j < k)
        <5>1. j - (k - 1) \in 1..n - k /\ ~(j <= Len(a)) /\ j \in 1..Len(a) + Len(b)
          BY <1>1, <2>2, <2>3, <4>2
        <5>2. (a \o b)[j] = b[j - (k - 1)]
          BY <2>2, <2>3, <5>1, SMTT(40)
        <5>3. b[j - (k - 1)] = q[j - (k - 1) + k] /\ j - (k - 1) + k = j + 1
          BY <1>1, <2>3, <5>1
        <5>4. QED
          BY <4>2, <5>2, <5>3
      <4>3. QED
        BY <4>1, <4>2
    <3>4. QED
      BY <3>1, <3>2, <3>3
  <2>5. \A j \in 1..n - 1 : at(j) \in DOMAIN q /\ at(j) # k
    BY <1>1
  <2>6. \A i, j \in 1..n - 1 : i # j => at(i) # at(j)
    BY <1>1
  <2>7. \A i \in DOMAIN q : i # k => \E j \in 1..n - 1 : at(j) = i
    <3> SUFFICES ASSUME NEW i \in 1..n, i # k PROVE \E j \in 1..n - 1 : at(j) = i
      BY <1>1
    <3>1. CASE i < k
      BY <1>1, <3>1
    <3>2. CASE i > k
      <4>1. i - 1 \in 1..n - 1 /\ at(i - 1) = i
        BY <1>1, <3>2
      <4>2. QED
        BY <4>1
    <3>3. QED
      BY <1>1, <3>1, <3>2
  <2> HIDE DEF at
  <2>8. OnceEach(Without(h))
    BY <2>4, <2>5, <2>6 DEF OnceEach
  <2>9. ASSUME NEW i \in DOMAIN Without(h) PROVE Without(h)[i].name # h
    <3>1. Without(h)[i] = q[at(i)] /\ at(i) \in DOMAIN q /\ at(i) # k
      BY <2>4, <2>5
    <3>2. q[at(i)].name # q[k].name
      BY <3>1 DEF OnceEach
    <3>3. QED
      BY <2>1, <3>1, <3>2
  <2>10. ASSUME NEW g, g # h, Enabled(q, g) PROVE Enabled(Without(h), g)
    <3>1. PICK i \in DOMAIN q : q[i].name = g /\ q[i].enabled = TRUE
      BY <2>10 DEF Enabled
    <3>2. PICK j \in 1..n - 1 : at(j) = i
      BY <2>1, <2>7, <2>10, <3>1
    <3>3. QED
      BY <2>4, <3>1, <3>2 DEF Enabled
  <2>11. QED
    BY <2>4, <2>8, <2>9, <2>10
<1>4. QED
  BY <1>2, <1>3

LEMMA EditWebhooksKeeps ==
  ASSUME SendInv, EditWebhooks
  PROVE  SendInv'
<1>1. /\ webhooks \in Seq(Webhook) /\ OnceEach(webhooks)
      /\ \A g \in Hook \ edited : Enabled(webhooks, g)
  BY DEF SendInv, HookType, ListOK
<1>2. ASSUME NEW h \in Hook, add_webhook(h) PROVE SendInv'
  <2> DEFINE q == Without(h)
             w == [name |-> h, enabled |-> TRUE]
  <2>1. /\ q \in Seq(Webhook) /\ OnceEach(q)
        /\ \A i \in DOMAIN q : q[i].name # h
        /\ \A g : g # h /\ Enabled(webhooks, g) => Enabled(q, g)
    BY <1>1, WithoutKeeps
  <2>2. /\ webhooks' = Append(q, w) /\ edited' = edited \union {h} /\ UNCHANGED <<call, posts>>
    BY <1>2 DEF add_webhook, Edits
  <2>3. w \in Webhook /\ w.name = h
    BY DEF Webhook
  <2> HIDE DEF q, w
  <2>4. /\ Len(q) \in Nat /\ DOMAIN q = 1..Len(q)
        /\ Append(q, w) \in Seq(Webhook) /\ DOMAIN Append(q, w) = 1..Len(q) + 1
        /\ Append(q, w)[Len(q) + 1] = w /\ \A i \in 1..Len(q) : Append(q, w)[i] = q[i]
    BY <2>1, <2>3
  <2> DEFINE v == Append(q, w)
  <2> HIDE DEF v
  <2>5. /\ DOMAIN v = 1..Len(q) + 1 /\ v[Len(q) + 1].name = h
        /\ \A i \in 1..Len(q) : v[i] = q[i] /\ v[i].name # h
    BY <2>1, <2>3, <2>4 DEF v
  <2>6. OnceEach(v)
    <3> SUFFICES ASSUME NEW i \in 1..Len(q) + 1, NEW j \in 1..Len(q) + 1, i # j
                 PROVE  v[i].name # v[j].name
      BY <2>5 DEF OnceEach
    <3>1. CASE i \in 1..Len(q) /\ j \in 1..Len(q)
      BY <2>1, <2>4, <2>5, <3>1 DEF OnceEach
    <3>2. CASE i = Len(q) + 1 /\ j \in 1..Len(q)
      BY <2>5, <3>2
    <3>3. CASE j = Len(q) + 1 /\ i \in 1..Len(q)
      BY <2>5, <3>3
    <3>4. QED
      BY <2>4, <3>1, <3>2, <3>3
  <2>7. ASSUME NEW g \in Hook \ edited' PROVE Enabled(v, g)
    <3>1. g # h /\ Enabled(q, g)
      BY <1>1, <2>1, <2>2
    <3>2. PICK i \in DOMAIN q : q[i].name = g /\ q[i].enabled = TRUE
      BY <3>1 DEF Enabled
    <3>3. i \in DOMAIN v /\ v[i] = q[i]
      BY <2>4, <2>5
    <3>4. QED
      BY <3>2, <3>3 DEF Enabled
  <2>8. webhooks' = v /\ v \in Seq(Webhook) /\ edited \subseteq edited' /\ ListOK(v, edited')
    BY <2>2, <2>4, <2>6, <2>7 DEF v, ListOK
  <2>9. QED
    BY <2>2, <2>8, EditStep
<1>3. ASSUME NEW h \in Hook, remove_webhook(h) PROVE SendInv'
  <2>1. /\ Without(h) \in Seq(Webhook) /\ OnceEach(Without(h))
        /\ \A g : g # h /\ Enabled(webhooks, g) => Enabled(Without(h), g)
    BY <1>1, WithoutKeeps
  <2>2. /\ webhooks' = Without(h) /\ edited' = edited \union {h} /\ UNCHANGED <<call, posts>>
    BY <1>3 DEF remove_webhook, Edits
  <2>3. ListOK(webhooks', edited') /\ edited \subseteq edited'
    BY <1>1, <2>1, <2>2 DEF ListOK
  <2>4. QED
    BY <2>1, <2>2, <2>3, EditStep
<1>4. ASSUME NEW h \in Hook, NEW on \in BOOLEAN, enable_webhook(h, on) PROVE SendInv'
  <2> DEFINE w(i) == IF webhooks[i].name = h THEN [webhooks[i] EXCEPT !.enabled = on]
                     ELSE webhooks[i]
             v == [i \in DOMAIN webhooks |-> w(i)]
  <2>1. /\ webhooks' = v /\ edited' = edited \union {h} /\ UNCHANGED <<call, posts>>
    BY <1>4 DEF enable_webhook, Edits
  <2>2. Len(webhooks) \in Nat /\ DOMAIN webhooks = 1..Len(webhooks)
    BY <1>1
  <2>3. \A i \in DOMAIN webhooks : /\ w(i) \in Webhook /\ w(i).name = webhooks[i].name
                                   /\ webhooks[i].name # h => w(i) = webhooks[i]
    <3>1. \A x \in Webhook : /\ [x EXCEPT !.enabled = on] \in Webhook
                             /\ [x EXCEPT !.enabled = on].name = x.name
      BY DEF Webhook
    <3>2. \A i \in DOMAIN webhooks : webhooks[i] \in Webhook
      BY <1>1
    <3>3. QED
      BY <3>1, <3>2
  <2> HIDE DEF w
  <2>4. v \in Seq(Webhook) /\ DOMAIN v = DOMAIN webhooks
    <3>1. v \in [1..Len(webhooks) -> Webhook]
      BY <2>2, <2>3
    <3>2. QED
      BY <2>2, <3>1
  <2>5. \A i \in DOMAIN webhooks : /\ v[i].name = webhooks[i].name
                                   /\ webhooks[i].name # h => v[i] = webhooks[i]
    BY <2>3
  <2> HIDE DEF v
  <2>6. OnceEach(v)
    BY <1>1, <2>4, <2>5 DEF OnceEach
  <2>7. ASSUME NEW g \in Hook \ edited' PROVE Enabled(v, g)
    <3>1. g # h /\ g \in Hook \ edited
      BY <2>1
    <3>2. PICK i \in DOMAIN webhooks : webhooks[i].name = g /\ webhooks[i].enabled = TRUE
      BY <1>1, <3>1 DEF Enabled
    <3>3. QED
      BY <2>4, <2>5, <3>1, <3>2 DEF Enabled
  <2>8. webhooks' \in Seq(Webhook) /\ ListOK(webhooks', edited') /\ edited \subseteq edited'
    BY <2>1, <2>4, <2>6, <2>7 DEF ListOK
  <2>9. QED
    BY <2>1, <2>8, EditStep
<1>5. CASE clear_webhooks
  <2>1. /\ webhooks' = <<>> /\ edited' = edited \union Hook /\ UNCHANGED <<call, posts>>
    BY <1>5 DEF clear_webhooks, Edits
  <2>2. webhooks' \in Seq(Webhook) /\ ListOK(webhooks', edited') /\ edited \subseteq edited'
    BY <2>1 DEF ListOK, OnceEach
  <2>3. QED
    BY <2>1, <2>2, EditStep
<1>6. QED
  BY <1>2, <1>3, <1>4, <1>5 DEF EditWebhooks

\* What the threads and the others do to the notifier.
HookStep(t) ==
  \/ call[t] = NoCall /\ \E kind \in Kind : Called(t, kind)
  \/ CopyList(t) \/ Find(t) \/ Post(t) \/ Succeed(t) \/ Fail(t)
  \/ /\ AllSent(t) /\ call' = [call EXCEPT ![t] = NoCall]
     /\ UNCHANGED <<webhooks, results, totals, posts, edited>>

LEMMA HookSteps ==
  ASSUME [Next]_vars
  PROVE  (\E t \in Threads : HookStep(t)) \/ EditWebhooks \/ UNCHANGED hookVars
<1>1. ASSUME NEW t \in Threads, NEW e \in Inputs[t], Emit(t, e) PROVE UNCHANGED hookVars
  BY <1>1 DEF Emit
<1>2. ASSUME NEW t \in Threads, Judge(t) PROVE UNCHANGED hookVars
  BY <1>2 DEF Judge
<1>3. ASSUME NEW t \in Threads, Raise(t) PROVE HookStep(t)
  <2>1. call[t] = NoCall
    BY <1>3 DEF Raise
  <2>2. \E kind \in SecurityEventType \union {"alert", "none"} : Called(t, kind)
    BY <1>3 DEF Raise
  <2>3. QED
    BY <2>1, <2>2 DEF HookStep, Kind
<1>4. ASSUME NEW t \in Threads, Send(t) PROVE HookStep(t)
  BY <1>4 DEF Send, HookStep
<1>5. ASSUME NEW t \in Threads, Returned(t) PROVE HookStep(t)
  BY <1>5 DEF Returned, HookStep
<1>6. CASE Manage
  BY <1>6 DEF Manage, EditFilter, EditAuditor
<1>7. CASE TimePasses
  BY <1>7 DEF TimePasses
<1>8. CASE UNCHANGED vars
  BY <1>8 DEF vars
<1>9. CASE Rest
  BY <1>8, <1>9 DEF Rest
<1>10. QED
  BY <1>1, <1>2, <1>3, <1>4, <1>5, <1>6, <1>7, <1>8, <1>9 DEF Next, Route

LEMMA SendStep == SendInv /\ [Next]_vars => SendInv'
<1> SUFFICES ASSUME SendInv, [Next]_vars PROVE SendInv'
  OBVIOUS
<1>1. ASSUME NEW t \in Threads, HookStep(t) PROVE SendInv'
  <2>1. CASE call[t] = NoCall /\ \E kind \in Kind : Called(t, kind)
    BY <2>1, CalledKeeps
  <2>2. CASE CopyList(t)
    BY <2>2, CopyListKeeps
  <2>3. CASE Find(t)
    BY <2>3, FindKeeps
  <2>4. CASE Post(t)
    BY <2>4, PostKeeps
  <2>5. CASE Succeed(t)
    BY <2>5, SucceedKeeps
  <2>6. CASE Fail(t)
    BY <2>6, FailKeeps
  <2>7. CASE /\ AllSent(t) /\ call' = [call EXCEPT ![t] = NoCall]
             /\ UNCHANGED <<webhooks, results, totals, posts, edited>>
    BY <2>7, ReturnKeeps
  <2>8. QED
    BY <1>1, <2>1, <2>2, <2>3, <2>4, <2>5, <2>6, <2>7 DEF HookStep
<1>2. CASE UNCHANGED hookVars
  BY <1>2 DEF hookVars, SendInv, HookType
<1>3. QED
  BY <1>1, <1>2, HookSteps, EditWebhooksKeeps

-----------------------------------------------------------------------------
(* The totals.                                                             *)

At(cs, o) == {t \in Threads : cs[t].at = o}

CountInv ==
  /\ totals.success \in Nat /\ totals.sent \in Nat
  /\ IsFiniteSet(Made(posts))
  /\ totals.success + Cardinality(At(call, "success")) = Cardinality(Accepted(posts))
  /\ totals.sent + Cardinality(At(call, "success")) + Cardinality(At(call, "failure"))
       = Cardinality(Made(posts))

LEMMA AtFinite ==
  ASSUME NEW cs, NEW o
  PROVE  IsFiniteSet(At(cs, o)) /\ Cardinality(At(cs, o)) \in Nat
<1>1. At(cs, o) \subseteq Threads
  BY DEF At
<1>2. IsFiniteSet(At(cs, o))
  BY <1>1, NotifierAssumption, FS_Subset
<1>3. QED
  BY <1>2, FS_CardinalityType

\* One thread arrives at a place, leaves it, or does neither.
LEMMA AtCount ==
  ASSUME NEW cs, NEW ds, NEW o, NEW t \in Threads,
         \A u \in Threads : u # t => ds[u] = cs[u]
  PROVE  /\ (cs[t].at = o <=> ds[t].at = o) => Cardinality(At(ds, o)) = Cardinality(At(cs, o))
         /\ cs[t].at # o /\ ds[t].at = o =>
              Cardinality(At(ds, o)) = Cardinality(At(cs, o)) + 1
         /\ cs[t].at = o /\ ds[t].at # o =>
              Cardinality(At(cs, o)) = Cardinality(At(ds, o)) + 1
<1>1. IsFiniteSet(At(cs, o)) /\ IsFiniteSet(At(ds, o))
  BY AtFinite
<1>2. (cs[t].at = o <=> ds[t].at = o) => At(ds, o) = At(cs, o)
  BY DEF At
<1>3. cs[t].at # o /\ ds[t].at = o => At(ds, o) = At(cs, o) \union {t} /\ t \notin At(cs, o)
  BY DEF At
<1>4. cs[t].at = o /\ ds[t].at # o => At(cs, o) = At(ds, o) \union {t} /\ t \notin At(ds, o)
  BY DEF At
<1>5. cs[t].at # o /\ ds[t].at = o => Cardinality(At(ds, o)) = Cardinality(At(cs, o)) + 1
  BY <1>1, <1>3, FS_AddElement
<1>6. cs[t].at = o /\ ds[t].at # o => Cardinality(At(cs, o)) = Cardinality(At(ds, o)) + 1
  BY <1>1, <1>4, FS_AddElement
<1>7. QED
  BY <1>2, <1>5, <1>6

LEMMA MadeMember ==
  ASSUME NEW ps, NEW m
  PROVE  /\ m \in Made(ps) <=>
              \E p \in DOMAIN ps, h \in Hook : \E i \in DOMAIN ps[p][h] : m = <<p, h, i>>
         /\ m \in Accepted(ps) <=>
              \E p \in DOMAIN ps, h \in Hook : \E i \in DOMAIN ps[p][h] :
                m = <<p, h, i>> /\ ps[p][h][i] = "success"
<1>1. m \in Made(ps) <=>
        \E p \in DOMAIN ps, h \in Hook : \E i \in DOMAIN ps[p][h] : m = <<p, h, i>>
  <2>1. m \in Made(ps) <=> \E p \in DOMAIN ps : m \in MadeFor(ps, p)
    BY DEF Made
  <2>2. \A p : m \in MadeFor(ps, p) <=> \E h \in Hook : \E i \in DOMAIN ps[p][h] : m = <<p, h, i>>
    BY DEF MadeFor
  <2>3. QED
    BY <2>1, <2>2
<1>2. QED
  BY <1>1 DEF Accepted

LEMMA AcceptedFinite ==
  ASSUME NEW ps, IsFiniteSet(Made(ps))
  PROVE  /\ IsFiniteSet(Accepted(ps)) /\ Cardinality(Accepted(ps)) \in Nat
         /\ Cardinality(Made(ps)) \in Nat
<1>1. Accepted(ps) \subseteq Made(ps)
  BY DEF Accepted
<1>2. QED
  BY <1>1, FS_Subset, FS_CardinalityType

\* A payload that is new has not been posted.
LEMMA NewPayload ==
  ASSUME NEW ps \in Seq([Hook -> Seq(Outcome)])
  PROVE  LET qs == Append(ps, [h \in Hook |-> <<>>])
         IN  Made(qs) = Made(ps) /\ Accepted(qs) = Accepted(ps)
<1> DEFINE none == [h \in Hook |-> <<>>]
           qs == Append(ps, none)
           n == Len(ps)
<1>1. n \in Nat /\ DOMAIN ps = 1..n /\ none \in [Hook -> Seq(Outcome)]
  OBVIOUS
<1>2. /\ DOMAIN qs = 1..n + 1 /\ qs[n + 1] = none /\ \A x \in 1..n : qs[x] = ps[x]
  BY <1>1
<1>3. \A h \in Hook : DOMAIN none[h] = {}
  OBVIOUS
<1> HIDE DEF none, qs
<1>4. \A p \in DOMAIN qs, h \in Hook : \A i \in DOMAIN qs[p][h] : p \in 1..n
  BY <1>1, <1>2, <1>3
<1>5. \A m : m \in Made(qs) <=> m \in Made(ps)
  <2> SUFFICES ASSUME NEW m PROVE m \in Made(qs) <=> m \in Made(ps)
    OBVIOUS
  <2>1. ASSUME m \in Made(qs) PROVE m \in Made(ps)
    <3>1. PICK p \in DOMAIN qs, h \in Hook : \E i \in DOMAIN qs[p][h] : m = <<p, h, i>>
      BY <2>1, MadeMember
    <3>2. p \in DOMAIN ps /\ qs[p] = ps[p]
      BY <1>1, <1>2, <1>4, <3>1
    <3>3. QED
      BY <3>1, <3>2, MadeMember
  <2>2. ASSUME m \in Made(ps) PROVE m \in Made(qs)
    <3>1. PICK p \in DOMAIN ps, h \in Hook : \E i \in DOMAIN ps[p][h] : m = <<p, h, i>>
      BY <2>2, MadeMember
    <3>2. p \in DOMAIN qs /\ qs[p] = ps[p]
      BY <1>1, <1>2
    <3>3. QED
      BY <3>1, <3>2, MadeMember
  <2>3. QED
    BY <2>1, <2>2
<1>6. \A m \in Made(ps) : qs[m[1]] = ps[m[1]]
  <2> SUFFICES ASSUME NEW m \in Made(ps) PROVE qs[m[1]] = ps[m[1]]
    OBVIOUS
  <2>1. m[1] \in DOMAIN ps
    BY MadeMember
  <2>2. QED
    BY <1>1, <1>2, <2>1
<1>7. Made(qs) = Made(ps)
  BY <1>5
<1>8. Accepted(qs) = Accepted(ps)
  BY <1>6, <1>7 DEF Accepted
<1>9. QED
  BY <1>7, <1>8 DEF qs, none

\* qs is ps with outcome o for one more post of payload p to webhook h.
OneMore(ps, qs, p, h, o) ==
  /\ DOMAIN qs = DOMAIN ps
  /\ \A x \in DOMAIN ps : x # p => qs[x] = ps[x]
  /\ \A g \in Hook : g # h => qs[p][g] = ps[p][g]
  /\ qs[p][h] = Append(ps[p][h], o)

\* A post is one more, and accepted or not.
LEMMA PostCounted ==
  ASSUME NEW ps \in Seq([Hook -> Seq(Outcome)]), NEW p \in DOMAIN ps, NEW h \in Hook,
         NEW o \in Outcome, IsFiniteSet(Made(ps)),
         NEW qs, OneMore(ps, qs, p, h, o)
  PROVE  /\ IsFiniteSet(Made(qs)) /\ Cardinality(Made(qs)) = Cardinality(Made(ps)) + 1
         /\ o = "success" => Cardinality(Accepted(qs)) = Cardinality(Accepted(ps)) + 1
         /\ o # "success" => Cardinality(Accepted(qs)) = Cardinality(Accepted(ps))
<1> DEFINE s == ps[p][h]
           n == Len(s)
           x == <<p, h, n + 1>>
<1>1. /\ DOMAIN qs = DOMAIN ps
      /\ \A y \in DOMAIN ps : y # p => qs[y] = ps[y]
      /\ \A g \in Hook : g # h => qs[p][g] = ps[p][g]
      /\ qs[p][h] = Append(s, o)
  BY DEF OneMore
<1>2. s \in Seq(Outcome)
  OBVIOUS
<1> HIDE DEF s
<1>3. n \in Nat /\ DOMAIN s = 1..n
  BY <1>2
<1>4. /\ DOMAIN Append(s, o) = 1..n + 1 /\ Append(s, o)[n + 1] = o
      /\ \A i \in 1..n : Append(s, o)[i] = s[i]
  BY <1>2, <1>3
<1> HIDE DEF n
<1>5. \A y \in DOMAIN ps, g \in Hook :
        /\ <<y, g>> # <<p, h>> => qs[y][g] = ps[y][g]
        /\ \A i \in DOMAIN ps[y][g] : i \in DOMAIN qs[y][g] /\ qs[y][g][i] = ps[y][g][i]
  <2> SUFFICES ASSUME NEW y \in DOMAIN ps, NEW g \in Hook
               PROVE  /\ <<y, g>> # <<p, h>> => qs[y][g] = ps[y][g]
                      /\ \A i \in DOMAIN ps[y][g] :
                           i \in DOMAIN qs[y][g] /\ qs[y][g][i] = ps[y][g][i]
    OBVIOUS
  <2>1. CASE y # p
    BY <1>1, <2>1
  <2>2. CASE y = p /\ g # h
    BY <1>1, <2>2
  <2>3. CASE y = p /\ g = h
    <3>1. ps[y][g] = s /\ qs[y][g] = Append(s, o)
      BY <1>1, <2>3 DEF s
    <3>2. \A i \in 1..n : i \in 1..n + 1
      BY <1>3
    <3>3. QED
      BY <1>3, <1>4, <2>3, <3>1, <3>2
  <2>4. QED
    BY <2>1, <2>2, <2>3
<1>6. \A m : m \in Made(qs) <=> m \in Made(ps) \/ m = x
  <2> SUFFICES ASSUME NEW m PROVE m \in Made(qs) <=> m \in Made(ps) \/ m = x
    OBVIOUS
  <2>1. ASSUME m \in Made(qs) PROVE m \in Made(ps) \/ m = x
    <3> \E y \in DOMAIN qs, g \in Hook : \E i \in DOMAIN qs[y][g] : m = <<y, g, i>>
      BY <2>1, MadeMember
    <3>1. PICK y \in DOMAIN ps, g \in Hook : \E i \in DOMAIN qs[y][g] : m = <<y, g, i>>
      BY <1>1
    <3>2. PICK i \in DOMAIN qs[y][g] : m = <<y, g, i>>
      BY <3>1
    <3>3. CASE <<y, g>> # <<p, h>>
      BY <1>5, <3>2, <3>3, MadeMember
    <3>4. CASE y = p /\ g = h
      <4>1. i \in 1..n + 1
        BY <1>1, <1>4, <3>2, <3>4
      <4>2. CASE i = n + 1
        BY <3>2, <3>4, <4>2
      <4>3. CASE i \in 1..n
        <5>1. i \in DOMAIN ps[y][g]
          BY <1>3, <3>4, <4>3 DEF s
        <5>2. QED
          BY <3>2, <5>1, MadeMember
      <4>4. i = n + 1 \/ i \in 1..n
        BY <1>3, <4>1
      <4>5. QED
        BY <4>2, <4>3, <4>4
    <3>5. QED
      BY <3>3, <3>4
  <2>2. ASSUME m \in Made(ps) PROVE m \in Made(qs)
    <3>1. PICK y \in DOMAIN ps, g \in Hook : \E i \in DOMAIN ps[y][g] : m = <<y, g, i>>
      BY <2>2, MadeMember
    <3>2. PICK i \in DOMAIN ps[y][g] : m = <<y, g, i>>
      BY <3>1
    <3>3. i \in DOMAIN qs[y][g] /\ y \in DOMAIN qs
      BY <1>1, <1>5
    <3>4. QED
      BY <3>2, <3>3, MadeMember
  <2>3. ASSUME m = x PROVE m \in Made(qs)
    <3>1. n + 1 \in DOMAIN qs[p][h] /\ p \in DOMAIN qs
      BY <1>1, <1>3, <1>4
    <3>2. QED
      BY <2>3, <3>1, MadeMember
  <2>4. QED
    BY <2>1, <2>2, <2>3
<1>7. x \notin Made(ps)
  <2> SUFFICES ASSUME x \in Made(ps) PROVE FALSE
    OBVIOUS
  <2>1. PICK y \in DOMAIN ps, g \in Hook : \E i \in DOMAIN ps[y][g] : x = <<y, g, i>>
    BY MadeMember
  <2>2. n + 1 \in DOMAIN s
    BY <2>1 DEF s
  <2>3. QED
    BY <1>3, <2>2
<1>8. Made(qs) = Made(ps) \union {x}
  BY <1>6
<1>9. \A m \in Made(ps) : qs[m[1]][m[2]][m[3]] = ps[m[1]][m[2]][m[3]]
  <2> SUFFICES ASSUME NEW m \in Made(ps)
               PROVE  qs[m[1]][m[2]][m[3]] = ps[m[1]][m[2]][m[3]]
    OBVIOUS
  <2>1. PICK y \in DOMAIN ps, g \in Hook : \E i \in DOMAIN ps[y][g] : m = <<y, g, i>>
    BY MadeMember
  <2>2. PICK i \in DOMAIN ps[y][g] : m = <<y, g, i>>
    BY <2>1
  <2>3. qs[y][g][i] = ps[y][g][i]
    BY <1>5
  <2>4. m[1] = y /\ m[2] = g /\ m[3] = i
    BY <2>2
  <2>5. QED
    BY <2>3, <2>4
<1>10. qs[x[1]][x[2]][x[3]] = o
  BY <1>1, <1>4
<1>11. Accepted(ps) \subseteq Made(ps)
  BY DEF Accepted
<1>12. IsFiniteSet(Accepted(ps)) /\ x \notin Accepted(ps)
  BY <1>7, <1>11, FS_Subset
<1>13. IsFiniteSet(Made(qs)) /\ Cardinality(Made(qs)) = Cardinality(Made(ps)) + 1
  BY <1>7, <1>8, FS_AddElement
<1> HIDE DEF x
<1>14. Accepted(qs) = IF o = "success" THEN Accepted(ps) \union {x} ELSE Accepted(ps)
  BY <1>8, <1>9, <1>10 DEF Accepted
<1>15. o = "success" => Cardinality(Accepted(qs)) = Cardinality(Accepted(ps)) + 1
  BY <1>12, <1>14, FS_AddElement
<1>16. QED
  BY <1>13, <1>14, <1>15

LEMMA CountInit == Init => CountInv
<1> SUFFICES ASSUME Init PROVE CountInv
  OBVIOUS
<1>1. /\ posts = <<>> /\ totals = [sent |-> 0, success |-> 0, failed |-> 0]
      /\ call = [t \in Threads |-> NoCall]
  BY DEF Init, NotifierInit
<1>2. \A m : m \notin Made(posts)
  BY <1>1, MadeMember
<1>3. Made(posts) = {} /\ Accepted(posts) = {}
  BY <1>2 DEF Accepted
<1>4. At(call, "success") = {} /\ At(call, "failure") = {}
  BY <1>1 DEF At, NoCall, Call
<1>5. IsFiniteSet({}) /\ Cardinality({}) = 0
  BY FS_EmptySet
<1>6. totals.success = 0 /\ totals.sent = 0
  BY <1>1
<1>7. QED
  BY <1>3, <1>4, <1>5, <1>6 DEF CountInv

\* Only http_post makes posts, and only the recording of them counts.
LEMMA CountKept ==
  ASSUME CountInv, NEW t \in Threads, Made(posts') = Made(posts),
         Accepted(posts') = Accepted(posts), UNCHANGED totals,
         \A u \in Threads : u # t => call'[u] = call[u],
         call[t].at \notin Outcome, call'[t].at \notin Outcome
  PROVE  CountInv'
<1>1. /\ Cardinality(At(call', "success")) = Cardinality(At(call, "success"))
      /\ Cardinality(At(call', "failure")) = Cardinality(At(call, "failure"))
  BY AtCount DEF Outcome
<1>2. QED
  BY <1>1 DEF CountInv

LEMMA GoesAt ==
  ASSUME SendInv, NEW t \in Threads, NEW at, NEW q, NEW n, Goes(t, at, q, n)
  PROVE  call'[t].at = at /\ \A u \in Threads : u # t => call'[u] = call[u]
BY DEF SendInv, HookType, Goes, Call

LEMMA PostCounts ==
  ASSUME SendInv, CountInv, NEW t \in Threads, Post(t)
  PROVE  CountInv'
<1> DEFINE p == call[t].payload
           h == Turn(t).name
<1>1. PICK o \in Outcome : /\ posts' = [posts EXCEPT ![p][h] = Append(@, o)]
                           /\ Goes(t, o, call[t].queue, call[t].attempt)
  BY DEF Post, Outcome
<1>2. call[t].at = "post" /\ UNCHANGED totals
  BY DEF Post
<1>3. posts \in Seq([Hook -> Seq(Outcome)]) /\ call[t] \in CallState
  BY DEF SendInv, HookType
<1>4. p \in DOMAIN posts /\ call[t].queue # <<>> /\ call[t].queue \in Seq(Webhook)
  BY <1>2, <1>3, CallFields DEF SendInv, CallOK
<1>5. h \in Hook
  BY <1>4, WebhookFields DEF Turn
<1>6. IsFiniteSet(Made(posts))
  BY DEF CountInv
<1> HIDE DEF p, h
<1>7. /\ IsFiniteSet(Made(posts')) /\ Cardinality(Made(posts')) = Cardinality(Made(posts)) + 1
      /\ o = "success" => Cardinality(Accepted(posts')) = Cardinality(Accepted(posts)) + 1
      /\ o # "success" => Cardinality(Accepted(posts')) = Cardinality(Accepted(posts))
  <2>1. OneMore(posts, posts', p, h, o)
    BY <1>1, <1>3, <1>4, <1>5, OneMorePost DEF OneMore
  <2>2. QED
    BY <1>3, <1>4, <1>5, <1>6, <2>1, PostCounted
<1>8. call'[t].at = o /\ \A u \in Threads : u # t => call'[u] = call[u]
  BY <1>1, GoesAt
<1>9. /\ Cardinality(At(call, "success")) \in Nat /\ Cardinality(At(call, "failure")) \in Nat
      /\ Cardinality(Made(posts)) \in Nat /\ Cardinality(Accepted(posts)) \in Nat
  BY <1>6, AtFinite, AcceptedFinite
<1>10. CASE o = "success"
  <2>1. /\ Cardinality(At(call', "success")) = Cardinality(At(call, "success")) + 1
        /\ Cardinality(At(call', "failure")) = Cardinality(At(call, "failure"))
    <3>1. call[t].at # "success" /\ call'[t].at = "success"
      BY <1>2, <1>8, <1>10
    <3>2. call[t].at = "failure" <=> call'[t].at = "failure"
      BY <1>2, <1>8, <1>10
    <3>3. QED
      BY <1>8, <3>1, <3>2, AtCount, Zenon
  <2>2. QED
    BY <1>2, <1>7, <1>9, <1>10, <2>1 DEF CountInv
<1>11. CASE o = "failure"
  <2>1. /\ Cardinality(At(call', "success")) = Cardinality(At(call, "success"))
        /\ Cardinality(At(call', "failure")) = Cardinality(At(call, "failure")) + 1
    <3>1. call[t].at # "failure" /\ call'[t].at = "failure"
      BY <1>2, <1>8, <1>11
    <3>2. call[t].at = "success" <=> call'[t].at = "success"
      BY <1>2, <1>8, <1>11
    <3>3. QED
      BY <1>8, <3>1, <3>2, AtCount, ZenonT(40)
  <2>2. QED
    BY <1>2, <1>7, <1>9, <1>11, <2>1 DEF CountInv
<1>12. QED
  BY <1>10, <1>11 DEF Outcome

LEMMA RecordCounts ==
  ASSUME SendInv, CountInv, NEW t \in Threads, Succeed(t) \/ Fail(t)
  PROVE  CountInv'
<1>1. \E at, q, n : at \notin Outcome /\ Goes(t, at, q, n)
  BY DEF Succeed, Fail, MovesOn, Outcome
<1>2. call'[t].at \notin Outcome /\ \A u \in Threads : u # t => call'[u] = call[u]
  BY <1>1, GoesAt
<1>3. posts' = posts
  BY DEF Succeed, Fail, Recorded
<1>4. /\ Cardinality(At(call, "success")) \in Nat /\ Cardinality(At(call, "failure")) \in Nat
      /\ Cardinality(At(call', "success")) \in Nat /\ Cardinality(At(call', "failure")) \in Nat
  BY AtFinite
<1>5. CASE Succeed(t)
  <2>1. /\ call[t].at = "success" /\ totals'.sent = totals.sent + 1
        /\ totals'.success = totals.success + 1
    BY <1>5 DEF Succeed, Recorded
  <2>2. /\ Cardinality(At(call, "success")) = Cardinality(At(call', "success")) + 1
        /\ Cardinality(At(call', "failure")) = Cardinality(At(call, "failure"))
    BY <1>2, <2>1, AtCount DEF Outcome
  <2>3. QED
    BY <1>3, <1>4, <2>1, <2>2 DEF CountInv
<1>6. CASE Fail(t)
  <2>1. /\ call[t].at = "failure" /\ totals'.sent = totals.sent + 1
        /\ totals'.success = totals.success
    BY <1>6 DEF Fail, Recorded, CountInv
  <2>2. /\ Cardinality(At(call', "success")) = Cardinality(At(call, "success"))
        /\ Cardinality(At(call, "failure")) = Cardinality(At(call', "failure")) + 1
    <3>1. call[t].at = "failure" /\ call'[t].at # "failure"
      BY <1>2, <2>1 DEF Outcome
    <3>2. call[t].at = "success" <=> call'[t].at = "success"
      BY <1>2, <2>1 DEF Outcome
    <3>3. QED
      BY <1>2, <3>1, <3>2, AtCount, ZenonT(40)
  <2>3. /\ totals.success \in Nat /\ totals.sent \in Nat
        /\ totals.success + Cardinality(At(call, "success")) = Cardinality(Accepted(posts))
        /\ totals.sent + Cardinality(At(call, "success")) + Cardinality(At(call, "failure"))
             = Cardinality(Made(posts))
    BY DEF CountInv
  <2>4. /\ totals'.success + Cardinality(At(call', "success")) = Cardinality(Accepted(posts'))
        /\ totals'.sent \in Nat
    BY <1>3, <2>1, <2>2, <2>3
  <2>5. totals'.sent + Cardinality(At(call', "success")) + Cardinality(At(call', "failure"))
          = Cardinality(Made(posts'))
    BY <1>3, <1>4, <2>1, <2>2, <2>3
  <2>6. IsFiniteSet(Made(posts')) /\ totals'.success \in Nat
    BY <1>3, <2>1, <2>3 DEF CountInv
  <2>7. QED
    BY <2>4, <2>5, <2>6 DEF CountInv
<1>7. QED
  BY <1>5, <1>6

LEMMA CountStep == SendInv /\ CountInv /\ [Next]_vars => CountInv'
<1> SUFFICES ASSUME SendInv, CountInv, [Next]_vars PROVE CountInv'
  OBVIOUS
<1>1. posts \in Seq([Hook -> Seq(Outcome)]) /\ call \in [Threads -> CallState]
  BY DEF SendInv, HookType
<1>2. ASSUME NEW t \in Threads, HookStep(t) PROVE CountInv'
  <2>1. ASSUME call[t] = NoCall, NEW kind \in Kind, Called(t, kind) PROVE CountInv'
    <3>1. /\ posts' = Append(posts, [h \in Hook |-> <<>>]) /\ UNCHANGED totals
          /\ call' = [call EXCEPT ![t] = Call("copy", Len(posts) + 1, kind, <<>>, 0)]
      BY <2>1 DEF Called
    <3>2. Made(posts') = Made(posts) /\ Accepted(posts') = Accepted(posts)
      BY <1>1, <3>1, NewPayload
    <3>3. /\ call[t].at \notin Outcome /\ call'[t].at \notin Outcome
          /\ \A u \in Threads : u # t => call'[u] = call[u]
      BY <1>1, <2>1, <3>1 DEF NoCall, Call, Outcome
    <3>4. QED
      BY <3>1, <3>2, <3>3, CountKept
  <2>2. CASE CopyList(t) \/ Find(t)
    <3>1. call[t].at \notin Outcome /\ UNCHANGED <<posts, totals>>
      BY <2>2 DEF CopyList, Find, Outcome
    <3>2. \E at, q, n : at \notin Outcome /\ Goes(t, at, q, n)
      BY <2>2 DEF CopyList, Find, MovesOn, Outcome
    <3>3. call'[t].at \notin Outcome /\ \A u \in Threads : u # t => call'[u] = call[u]
      BY <3>2, GoesAt
    <3>4. QED
      BY <3>1, <3>3, CountKept
  <2>3. CASE Post(t)
    BY <2>3, PostCounts
  <2>4. CASE Succeed(t) \/ Fail(t)
    BY <2>4, RecordCounts
  <2>5. CASE /\ AllSent(t) /\ call' = [call EXCEPT ![t] = NoCall]
             /\ UNCHANGED <<webhooks, results, totals, posts, edited>>
    <3>1. /\ call[t].at \notin Outcome /\ call'[t].at \notin Outcome
          /\ \A u \in Threads : u # t => call'[u] = call[u]
      BY <1>1, <2>5 DEF AllSent, NoCall, Call, Outcome
    <3>2. QED
      BY <2>5, <3>1, CountKept
  <2>6. QED
    BY <1>2, <2>1, <2>2, <2>3, <2>4, <2>5 DEF HookStep
<1>3. CASE EditWebhooks \/ UNCHANGED hookVars
  <2>1. UNCHANGED <<totals, call, posts>>
    BY <1>3 DEF EditWebhooks, add_webhook, remove_webhook, enable_webhook, clear_webhooks,
                Edits, hookVars
  <2>2. QED
    BY <2>1 DEF CountInv, At
<1>4. QED
  BY <1>2, <1>3, HookSteps

(***************************************************************************)
(* For every number of threads, webhooks and attempts: a payload goes to a *)
(* webhook at most retry_count times and never after it was accepted; when *)
(* the callback returns, each webhook that was left alone and wants the    *)
(* payload has been dealt with; and the totals are exact (on_alert,        *)
(* on_security_event, send_webhook).                                       *)
(***************************************************************************)
THEOREM WebhooksServed == Spec => []DeliveryDiscipline
<1>1. SendInv /\ CountInv => DeliveryDiscipline
  <2> SUFFICES ASSUME SendInv, CountInv PROVE DeliveryDiscipline
    OBVIOUS
  <2>1. \A p \in DOMAIN posts, h \in Hook : Tidy(posts[p][h])
    BY DEF SendInv
  <2>2. ASSUME NEW t \in Threads, AllSent(t), NEW h \in Hook \ edited,
               Wants(h, call[t].kind)
        PROVE  Settled(posts[call[t].payload][h])
    <3>1. call[t].at = "find" /\ call[t].queue = <<>>
      BY <2>2 DEF AllSent
    <3>2. ~Enabled(call[t].queue, h)
      BY <3>1 DEF Enabled
    <3>3. QED
      BY <2>2, <3>1, <3>2 DEF SendInv, Due
  <2>3. At(call, "success") = Recording("success") /\ At(call, "failure") = Recording("failure")
    BY DEF At, Recording
  <2>4. /\ totals.success + Cardinality(Recording("success")) = Cardinality(Accepted(posts))
        /\ totals.sent + Cardinality(Recording("success")) + Cardinality(Recording("failure"))
             = Cardinality(Made(posts))
    BY <2>3 DEF CountInv
  <2>5. QED
    BY <2>1, <2>2, <2>4 DEF DeliveryDiscipline, Tidy
<1>2. SendInv /\ CountInv /\ [Next]_vars => (SendInv /\ CountInv)'
  BY SendStep, CountStep
<1>3. Init => SendInv /\ CountInv
  BY SendInit, CountInit
<1>4. QED
  BY <1>1, <1>2, <1>3, PTL DEF Spec
=============================================================================
