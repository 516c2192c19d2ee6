---------------------------- MODULE Program_proofs ---------------------------
(***************************************************************************)
(* Proofs about a start of the program, for every value of the constants:  *)
(*                                                                         *)
(*   the text form    of an event is read back as that event just when its *)
(*                    fields hold no separator, and a damaged line leaves  *)
(*                    the others alone;                                    *)
(*   the query        shows page after page every match stored when it     *)
(*                    began, whatever is appended between the pages;       *)
(*   the comparison   of two snapshots exits with 0 just when they look    *)
(*                    the same, and does for a host that has not changed;  *)
(*   the validator    passes only files that the store then honours;       *)
(*   the PID file     names the one daemon that is up, for any number of   *)
(*                    starts of which no two overlap;                      *)
(*   the updater      offers an update just when there is a greater        *)
(*                    version, and tells the truth about git;              *)
(*   the statistics   count every event once in each counter, whatever     *)
(*                    the interleaving of the monitors' threads;           *)
(*   the tail         prints each monitor's events in order, and at most   *)
(*                    one of them twice.                                   *)
(*                                                                         *)
(* A section per component states its invariant and proves it of the       *)
(* component's own steps; the theorems about ProgramSpec are at the end.   *)
(***************************************************************************)
EXTENDS Program, FiniteSetTheorems, WellFoundedInduction, TLAPS

-----------------------------------------------------------------------------
(* Induction over the natural numbers, by a smallest counterexample: the   *)
(* property is the set of the numbers that have it.                        *)

\* A set of numbers that is not empty has a smallest.
LEMMA Smallest ==
  ASSUME NEW S, S \subseteq Nat, S # {}
  PROVE  \E m \in S : \A k \in S : m <= k
<1> DEFINE R == {ss \in Nat \X Nat : ss[1] < ss[2]}
<1>1. IsWellFoundedOn(R, Nat)
  BY NatLessThanWellFounded DEF OpToRel
<1> HIDE DEF R
<1>2. PICK m \in S : \A k \in S : ~(<<k, m>> \in R)
  BY <1>1, WFMin
<1>3. ASSUME NEW k \in S PROVE m <= k
  <2>1. k \in Nat /\ m \in Nat
    OBVIOUS
  <2>2. k < m => <<k, m>> \in R
    BY <2>1 DEF R
  <2>3. QED
    BY <1>2, <2>1, <2>2
<1>4. QED
  BY <1>3

\* What holds of 0, and of n + 1 when of n, holds of every number.
LEMMA SetInduction ==
  ASSUME NEW T, 0 \in T, \A n \in Nat : n \in T => n + 1 \in T
  PROVE  Nat \subseteq T
<1> SUFFICES ASSUME Nat \ T # {} PROVE FALSE
  OBVIOUS
<1>1. PICK m \in Nat \ T : \A k \in Nat \ T : m <= k
  BY Smallest
<1>2. m # 0
  OBVIOUS
<1>3. m - 1 \in Nat /\ m - 1 \in T
  BY <1>1, <1>2
<1>4. m - 1 + 1 = m
  OBVIOUS
<1>5. QED
  BY <1>3, <1>4

\* The loop over s from state b with step st, a function of state and element.
IsLoop(f, b, st, s, n) == f[0] = b /\ \A i \in 1..n : f[i] = st[<<f[i - 1], s[i]>>]

\* A loop that stays within X and reads elements of C.
LEMMA LoopExists ==
  ASSUME NEW X, NEW C, NEW b \in X, NEW st \in [X \X C -> X], NEW s \in Seq(C)
  PROVE  \E f \in [0..Len(s) -> X] : IsLoop(f, b, st, s, Len(s))
<1> DEFINE T == {n \in Nat : n <= Len(s) => \E f \in [0..n -> X] : IsLoop(f, b, st, s, n)}
<1>1. 0 \in T
  <2> DEFINE f == [i \in 0..0 |-> b]
  <2>1. f \in [0..0 -> X] /\ IsLoop(f, b, st, s, 0)
    BY DEF IsLoop
  <2>2. QED
    BY <2>1
<1>2. ASSUME NEW n \in Nat, n \in T PROVE n + 1 \in T
  <2> SUFFICES ASSUME n + 1 <= Len(s)
               PROVE  \E g \in [0..n + 1 -> X] : IsLoop(g, b, st, s, n + 1)
    OBVIOUS
  <2>1. PICK f \in [0..n -> X] : IsLoop(f, b, st, s, n)
    BY <1>2
  <2>2. f[n] \in X /\ s[n + 1] \in C
    OBVIOUS
  <2>3. st[<<f[n], s[n + 1]>>] \in X
    BY <2>2
  <2> DEFINE g == [i \in 0..n + 1 |-> IF i \in 0..n THEN f[i] ELSE st[<<f[n], s[n + 1]>>]]
  <2>4. g \in [0..n + 1 -> X]
    BY <2>3
  <2>5. g[0] = b
    BY <2>1 DEF IsLoop
  <2>6. ASSUME NEW i \in 1..n + 1 PROVE g[i] = st[<<g[i - 1], s[i]>>]
    <3>1. CASE i \in 1..n
      <4>1. f[i] = st[<<f[i - 1], s[i]>>]
        BY <2>1, <3>1 DEF IsLoop
      <4>2. g[i] = f[i] /\ g[i - 1] = f[i - 1]
        BY <3>1
      <4>3. QED
        BY <4>1, <4>2
    <3>2. CASE i = n + 1
      <4>1. g[n + 1] = st[<<f[n], s[n + 1]>>] /\ g[n] = f[n] /\ n + 1 - 1 = n
        OBVIOUS
      <4> HIDE DEF g
      <4>2. i - 1 = n
        BY <3>2
      <4>3. QED
        BY <3>2, <4>1, <4>2
    <3>3. QED
      BY <3>1, <3>2
  <2> HIDE DEF g
  <2>7. IsLoop(g, b, st, s, n + 1)
    BY <2>5, <2>6 DEF IsLoop
  <2>8. QED
    BY <2>4, <2>7
<1> HIDE DEF T
<1>3. Nat \subseteq T
  BY <1>1, <1>2, SetInduction
<1>4. Len(s) \in T
  BY <1>3
<1>5. QED
  BY <1>4 DEF T

\* Two loops that start alike and go on alike are alike.
GoOnAlike(f, g, n) == f[0] = g[0] /\ \A i \in 1..n : f[i - 1] = g[i - 1] => f[i] = g[i]

\* The same, as a fact to cite.
LEMMA LoopsAgree ==
  ASSUME NEW f, NEW g, NEW n \in Nat, GoOnAlike(f, g, n)
  PROVE  \A i \in 0..n : f[i] = g[i]
<1> USE DEF GoOnAlike
<1> DEFINE T == {i \in Nat : i <= n => f[i] = g[i]}
<1>1. 0 \in T
  OBVIOUS
<1>2. ASSUME NEW i \in Nat, i \in T PROVE i + 1 \in T
  <2> SUFFICES ASSUME i + 1 <= n PROVE f[i + 1] = g[i + 1]
    OBVIOUS
  <2>1. f[i] = g[i] /\ i + 1 \in 1..n /\ i + 1 - 1 = i
    BY <1>2
  <2>2. QED
    BY <2>1
<1> HIDE DEF T
<1>3. Nat \subseteq T
  BY <1>1, <1>2, SetInduction
<1>4. ASSUME NEW i \in 0..n PROVE f[i] = g[i]
  <2>1. i \in T /\ i <= n
    BY <1>3
  <2>2. QED
    BY <2>1 DEF T
<1>5. QED
  BY <1>4

-----------------------------------------------------------------------------
(* A line cut into its tokens.                                             *)

\* Appending, on both sides of a concatenation.
LEMMA JoinAppend ==
  ASSUME NEW S, NEW s \in Seq(S), NEW t \in Seq(S), NEW x \in S
  PROVE  s \o Append(t, x) = Append(s \o t, x) /\ Append(t, x) \in Seq(S)
OBVIOUS

\* Sequences with the same elements are the same.
LEMMA SameElements ==
  ASSUME NEW C, NEW s \in Seq(C), NEW t \in Seq(C), Len(s) = Len(t),
         \A j \in 1..Len(t) : s[j] = t[j]
  PROVE  s = t
OBVIOUS

\* Two elements, one after the other.
LEMMA AppendTwo ==
  ASSUME NEW C, NEW a \in C, NEW b \in C
  PROVE  Append(<<a>>, b) = <<a, b>>
<1> DEFINE s == Append(<<a>>, b)
           t == <<a, b>>
<1>1. s \in Seq(C) /\ Len(s) = 2 /\ s[1] = a /\ s[2] = b
  OBVIOUS
<1>2. t \in Seq(C) /\ Len(t) = 2 /\ t[1] = a /\ t[2] = b
  OBVIOUS
<1> HIDE DEF s, t
<1>3. s = t
  BY <1>1, <1>2
<1>4. QED
  BY <1>3 DEF s, t

\* Concatenation is associative.
LEMMA JoinAssoc ==
  ASSUME NEW C, NEW a \in Seq(C), NEW b \in Seq(C), NEW c \in Seq(C)
  PROVE  (a \o b) \o c = a \o (b \o c)
OBVIOUS

\* Two texts of one symbol.
LEMMA JoinTwo ==
  ASSUME NEW C, NEW a \in C, NEW b \in C
  PROVE  <<a>> \o <<b>> = <<a, b>>
<1> DEFINE s == <<a>> \o <<b>>
           t == <<a, b>>
<1>1. s \in Seq(C) /\ Len(s) = 2 /\ s[1] = a /\ s[2] = b
  OBVIOUS
<1>2. t \in Seq(C) /\ Len(t) = 2 /\ t[1] = a /\ t[2] = b
  OBVIOUS
<1> HIDE DEF s, t
<1>3. s = t
  BY <1>1, <1>2
<1>4. QED
  BY <1>3 DEF s, t

\* Two and two symbols are four.
LEMMA JoinFour ==
  ASSUME NEW C, NEW w \in Seq(C), NEW a, NEW b, NEW c, NEW d
  PROVE  <<a, b>> \o (<<c, d>> \o w) = <<a, b, c, d>> \o w
OBVIOUS

\* A token holds no tab.
CutState(C) == [tokens : Seq(Seq(C \ {TAB})), token : Seq(C \ {TAB})]
NoCut == [tokens |-> <<>>, token |-> <<>>]

\* The loop of Split.
IsCut(f, text) ==
  f = [n \in 0..Len(text) |-> IF n = 0 THEN NoCut ELSE CutOne(f[n - 1], text[n])]
CutLoop(text) == CHOOSE f : IsCut(f, text)

LEMMA SplitLoop ==
  ASSUME NEW text
  PROVE  Split(text) = Append(CutLoop(text)[Len(text)].tokens, CutLoop(text)[Len(text)].token)
BY DEF Split, CutLoop, IsCut, NoCut

\* A symbol taken leaves a state of the loop.
LEMMA CutOneType ==
  ASSUME NEW C, NEW s \in CutState(C), NEW c \in C
  PROVE  CutOne(s, c) \in CutState(C)
<1>1. s.tokens \in Seq(Seq(C \ {TAB})) /\ s.token \in Seq(C \ {TAB})
  BY DEF CutState
<1>2. CASE c = TAB
  <2>1. Append(s.tokens, s.token) \in Seq(Seq(C \ {TAB})) /\ <<>> \in Seq(C \ {TAB})
    BY <1>1
  <2>2. QED
    BY <1>2, <2>1 DEF CutOne, CutState
<1>3. CASE c # TAB
  <2>1. Append(s.token, c) \in Seq(C \ {TAB})
    BY <1>1, <1>3
  <2>2. QED
    BY <1>1, <1>3, <2>1 DEF CutOne, CutState
<1>4. QED
  BY <1>2, <1>3

\* Split's loop is the loop it is written as.
LEMMA CutLoopIs ==
  ASSUME NEW C, NEW text \in Seq(C)
  PROVE  /\ CutLoop(text) \in [0..Len(text) -> CutState(C)]
         /\ CutLoop(text)[0] = NoCut
         /\ \A i \in 1..Len(text) : CutLoop(text)[i] = CutOne(CutLoop(text)[i - 1], text[i])
<1> DEFINE n == Len(text)
           st == [x \in CutState(C) \X C |-> CutOne(x[1], x[2])]
<1>0. n \in Nat
  OBVIOUS
<1>1. st \in [CutState(C) \X C -> CutState(C)]
  BY CutOneType
<1>2. NoCut \in CutState(C)
  BY DEF NoCut, CutState
<1>3. PICK f \in [0..n -> CutState(C)] : IsLoop(f, NoCut, st, text, n)
  <2> HIDE DEF st
  <2>1. QED
    BY <1>1, <1>2, LoopExists
<1>4. ASSUME NEW i \in 1..n PROVE f[i] = CutOne(f[i - 1], text[i])
  <2>1. f[i - 1] \in CutState(C) /\ text[i] \in C
    BY <1>0, <1>3
  <2>2. f[i] = st[<<f[i - 1], text[i]>>]
    BY <1>3 DEF IsLoop
  <2>3. QED
    BY <2>1, <2>2
<1>5. f[0] = NoCut
  BY <1>3 DEF IsLoop
<1> HIDE DEF st
<1>6. IsCut(f, text)
  <2>1. \A i \in 0..n : f[i] = IF i = 0 THEN NoCut ELSE CutOne(f[i - 1], text[i])
    BY <1>0, <1>4, <1>5
  <2>2. QED
    BY <1>3, <2>1 DEF IsCut
<1> DEFINE g == CutLoop(text)
<1>7. IsCut(g, text)
  BY <1>6, Zenon DEF CutLoop
<1> HIDE DEF g
<1>8. /\ g = [i \in 0..n |-> IF i = 0 THEN NoCut ELSE CutOne(g[i - 1], text[i])]
  BY <1>7 DEF IsCut
<1>9. /\ g[0] = NoCut
      /\ \A i \in 1..n : g[i] = CutOne(g[i - 1], text[i])
  BY <1>0, <1>8
<1>10. \A i \in 0..n : g[i] = f[i]
  <2>1. GoOnAlike(g, f, n)
    <3>1. \A i \in 1..n : g[i - 1] = f[i - 1] => g[i] = f[i]
      BY <1>4, <1>9
    <3>2. QED
      BY <1>5, <1>9, <3>1 DEF GoOnAlike
  <2> HIDE DEF n
  <2>2. QED
    BY <1>0, <2>1, LoopsAgree
<1>11. g \in [0..n -> CutState(C)]
  <2>1. g = [i \in 0..n |-> g[i]]
    BY <1>8
  <2>2. QED
    BY <1>3, <1>10, <2>1
<1>12. QED
  BY <1>9, <1>11 DEF g

\* The tokens hold no tab, and only symbols of the line.
LEMMA SplitType ==
  ASSUME NEW C, NEW text \in Seq(C)
  PROVE  Split(text) \in Seq(Seq(C \ {TAB}))
<1>1. Len(text) \in 0..Len(text)
  OBVIOUS
<1>2. CutLoop(text)[Len(text)] \in CutState(C)
  BY <1>1, CutLoopIs
<1> DEFINE S == Seq(C \ {TAB})
           x == CutLoop(text)[Len(text)]
<1>3. x.tokens \in Seq(S) /\ x.token \in S
  BY <1>2 DEF CutState
<1>4. Split(text) = Append(x.tokens, x.token)
  BY SplitLoop
<1> HIDE DEF S, x
<1>5. Split(text) \in Seq(S)
  BY <1>3, <1>4
<1>6. QED
  BY <1>5 DEF S

\* As long as there is no tab, the token grows.
LEMMA CutPlain ==
  ASSUME NEW C, NEW text \in Seq(C), NEW n \in 0..Len(text), \A i \in 1..n : text[i] # TAB
  PROVE  CutLoop(text)[n] = [tokens |-> <<>>, token |-> SubSeq(text, 1, n)]
<1> DEFINE g == CutLoop(text)
           h == [i \in 0..n |-> [tokens |-> <<>>, token |-> SubSeq(text, 1, i)]]
<1>0. n \in Nat /\ Len(text) \in Nat /\ n <= Len(text)
  OBVIOUS
<1>1. /\ g[0] = NoCut
      /\ \A i \in 1..Len(text) : g[i] = CutOne(g[i - 1], text[i])
  BY CutLoopIs
<1> HIDE DEF g
<1>2. h[0] = NoCut
  <2>1. SubSeq(text, 1, 0) \in Seq(C) /\ Len(SubSeq(text, 1, 0)) = 0
    OBVIOUS
  <2>2. SubSeq(text, 1, 0) = <<>>
    BY <2>1
  <2>3. QED
    BY <1>0, <2>2 DEF NoCut
<1>3. ASSUME NEW i \in 1..n PROVE g[i - 1] = h[i - 1] => g[i] = h[i]
  <2>1. i - 1 \in 0..n /\ i \in 0..n /\ i \in 1..Len(text)
    BY <1>0
  <2>2. h[i - 1] = [tokens |-> <<>>, token |-> SubSeq(text, 1, i - 1)]
    BY <2>1
  <2>3. CutOne(h[i - 1], text[i]) = [tokens |-> <<>>, token |-> Append(SubSeq(text, 1, i - 1), text[i])]
    <3>1. text[i] # TAB
      OBVIOUS
    <3> HIDE DEF h
    <3>2. h[i - 1].tokens = <<>> /\ h[i - 1].token = SubSeq(text, 1, i - 1)
      BY <2>2
    <3>3. QED
      BY <3>1, <3>2, Zenon DEF CutOne
  <2>4. SubSeq(text, 1, i) = Append(SubSeq(text, 1, i - 1), text[i])
    BY <1>0, <2>1
  <2>5. CutOne(h[i - 1], text[i]) = h[i]
    BY <2>1, <2>3, <2>4
  <2> HIDE DEF h
  <2>6. QED
    BY <1>1, <2>1, <2>5
<1>4. h[n] = [tokens |-> <<>>, token |-> SubSeq(text, 1, n)]
  BY <1>0
<1> HIDE DEF h
<1>5. GoOnAlike(g, h, n)
  BY <1>1, <1>2, <1>3 DEF GoOnAlike
<1>6. g[n] = h[n]
  BY <1>0, <1>5, LoopsAgree
<1>7. QED
  BY <1>4, <1>6 DEF g

\* A line without a tab is one token.
LEMMA SplitPlain ==
  ASSUME NEW C, NEW a \in Seq(C), ~Contains(a, TAB)
  PROVE  Split(a) = <<a>>
<1>1. CutLoop(a)[Len(a)] = [tokens |-> <<>>, token |-> SubSeq(a, 1, Len(a))]
  <2>1. Len(a) \in 0..Len(a) /\ \A i \in 1..Len(a) : a[i] # TAB
    BY DEF Contains
  <2>2. QED
    BY <2>1, CutPlain
<1>2. SubSeq(a, 1, Len(a)) = a
  OBVIOUS
<1>3. Split(a) = Append(<<>>, a)
  <2> DEFINE x == CutLoop(a)[Len(a)]
  <2>1. x.tokens = <<>> /\ x.token = a
    BY <1>1, <1>2
  <2>2. Split(a) = Append(x.tokens, x.token)
    BY SplitLoop, Zenon
  <2> HIDE DEF x
  <2>3. QED
    BY <2>1, <2>2
<1>4. QED
  BY <1>3

\* What stands before the first tab is the first token.
LEMMA SplitOff ==
  ASSUME NEW C, NEW a \in Seq(C), NEW b \in Seq(C), TAB \in C, ~Contains(a, TAB)
  PROVE  Split(a \o <<TAB>> \o b) = <<a>> \o Split(b)
<1> DEFINE t == a \o <<TAB>> \o b
           m == Len(a) + 1
           n == Len(b)
           g == CutLoop(t)
           k == CutLoop(b)
           f == [i \in 0..n |-> g[m + i]]
           h == [i \in 0..n |-> [tokens |-> <<a>> \o k[i].tokens, token |-> k[i].token]]
<1>0. /\ m \in Nat /\ n \in Nat /\ Len(a) \in Nat /\ t \in Seq(C) /\ Len(t) = m + n
      /\ t[m] = TAB
  OBVIOUS
<1>1. \A i \in 1..Len(a) : t[i] = a[i] /\ a[i] # TAB
  BY DEF Contains
<1>2. \A i \in 1..n : t[m + i] = b[i]
  OBVIOUS
<1>3. /\ g[0] = NoCut
      /\ \A i \in 1..Len(t) : g[i] = CutOne(g[i - 1], t[i])
  BY <1>0, CutLoopIs
<1>4. /\ k \in [0..n -> CutState(C)] /\ k[0] = NoCut
      /\ \A i \in 1..n : k[i] = CutOne(k[i - 1], b[i])
  BY CutLoopIs
<1>17. <<a>> \in Seq(Seq(C))
  OBVIOUS
<1>5. g[Len(a)] = [tokens |-> <<>>, token |-> a]
  <2>1. Len(a) \in 0..Len(t) /\ \A i \in 1..Len(a) : t[i] # TAB
    BY <1>0, <1>1
  <2>2. SubSeq(t, 1, Len(a)) = a
    <3> HIDE DEF t
    <3>1. SubSeq(t, 1, Len(a)) \in Seq(C) /\ Len(SubSeq(t, 1, Len(a))) = Len(a)
      BY <1>0
    <3>2. \A i \in 1..Len(a) : SubSeq(t, 1, Len(a))[i] = a[i]
      BY <1>0, <1>1
    <3>3. QED
      BY <3>1, <3>2
  <2> HIDE DEF t
  <2>3. QED
    BY <1>0, <2>1, <2>2, CutPlain
<1> HIDE DEF t, g, k
<1>6. g[m] = [tokens |-> <<a>>, token |-> <<>>]
  <2>1. m \in 1..Len(t) /\ m - 1 = Len(a)
    BY <1>0
  <2>2. g[m] = CutOne(g[Len(a)], TAB)
    BY <1>0, <1>3, <2>1
  <2>3. QED
    BY <1>5, <2>2 DEF CutOne
<1>7. f[0] = h[0]
  <2>1. m + 0 = m /\ 0 \in 0..n
    BY <1>0
  <2>2. <<a>> \o <<>> = <<a>>
    OBVIOUS
  <2>3. h[0] = [tokens |-> <<a>>, token |-> <<>>]
    <3>1. k[0].tokens = <<>> /\ k[0].token = <<>>
      BY <1>4 DEF NoCut
    <3>2. h[0] = [tokens |-> <<a>> \o k[0].tokens, token |-> k[0].token]
      BY <2>1
    <3>3. QED
      BY <2>2, <3>1, <3>2, Zenon
  <2>4. QED
    BY <1>6, <2>1, <2>3
<1>8. ASSUME NEW i \in 1..n PROVE f[i - 1] = h[i - 1] => f[i] = h[i]
  <2>1. /\ i - 1 \in 0..n /\ i \in 0..n /\ m + i \in 1..Len(t) /\ m + i - 1 = m + (i - 1)
    BY <1>0
  <2>2. f[i] = CutOne(f[i - 1], b[i])
    BY <1>2, <1>3, <2>1
  <2>3. k[i] = CutOne(k[i - 1], b[i]) /\ k[i - 1] \in CutState(C)
    BY <1>4, <2>1
  <2> DEFINE x == k[i - 1]
             c == b[i]
  <2>4. /\ h[i - 1] = [tokens |-> <<a>> \o x.tokens, token |-> x.token]
        /\ h[i] = [tokens |-> <<a>> \o CutOne(x, c).tokens, token |-> CutOne(x, c).token]
    BY <2>1, <2>3
  <2>5. x.tokens \in Seq(Seq(C)) /\ x.token \in Seq(C)
    BY <2>3 DEF CutState
  <2> HIDE DEF x, c, f, h
  <2>6. CutOne(h[i - 1], c) = h[i]
    <3>1. CASE c = TAB
      <4>1. <<a>> \o Append(x.tokens, x.token) = Append(<<a>> \o x.tokens, x.token)
        BY <2>5, <1>17, JoinAppend, SMTT(30)
      <4>2. CutOne(x, c) = [tokens |-> Append(x.tokens, x.token), token |-> <<>>]
        BY <3>1, Zenon DEF CutOne
      <4>3. CutOne(h[i - 1], c) = [tokens |-> Append(<<a>> \o x.tokens, x.token), token |-> <<>>]
        BY <2>4, <3>1 DEF CutOne
      <4>4. QED
        <5>1. CutOne(x, c).tokens = Append(x.tokens, x.token) /\ CutOne(x, c).token = <<>>
          BY <4>2
        <5>2. h[i] = [tokens |-> Append(<<a>> \o x.tokens, x.token), token |-> <<>>]
          BY <2>4, <4>1, <5>1
        <5>3. QED
          BY <4>3, <5>2
    <3>2. CASE c # TAB
      BY <2>4, <3>2 DEF CutOne
    <3>3. QED
      BY <3>1, <3>2
  <2>7. QED
    BY <2>2, <2>6 DEF c
<1>9. f[n] = g[Len(t)] /\ h[n] = [tokens |-> <<a>> \o k[n].tokens, token |-> k[n].token]
  BY <1>0
<1>10. k[n].tokens \in Seq(Seq(C)) /\ k[n].token \in Seq(C)
  <2>1. k[n] \in CutState(C)
    BY <1>0, <1>4, SMTT(30)
  <2>2. QED
    BY <2>1 DEF CutState
<1> HIDE DEF f, h, n, m
<1>11. GoOnAlike(f, h, n)
  BY <1>7, <1>8 DEF GoOnAlike
<1>12. f[n] = h[n]
  BY <1>0, <1>11, LoopsAgree
<1>13. Split(t) = Append(<<a>> \o k[n].tokens, k[n].token)
  <2>1. g[Len(t)].tokens = <<a>> \o k[n].tokens /\ g[Len(t)].token = k[n].token
    BY <1>9, <1>12
  <2>2. Split(t) = Append(g[Len(t)].tokens, g[Len(t)].token)
    BY SplitLoop, Zenon DEF g
  <2>3. QED
    BY <2>1, <2>2
<1>14. Split(b) = Append(k[n].tokens, k[n].token)
  BY SplitLoop, Zenon DEF k, n
<1>15. <<a>> \o Append(k[n].tokens, k[n].token) = Append(<<a>> \o k[n].tokens, k[n].token)
  BY <1>10, <1>17, JoinAppend, SMTT(30)
<1>16. QED
  BY <1>13, <1>14, <1>15 DEF t

-----------------------------------------------------------------------------
(* The attributes read from their text.                                    *)

\* The maps from texts to texts without two bars in a row are those of the
\* states of the loop; so is what is being read.
NoBars(v) == \A j \in 1..Len(v) - 1 : ~(v[j] = "|" /\ v[j + 1] = "|")
EndsInBar(v) == Len(v) > 0 /\ v[Len(v)] = "|"
Maps(C) == UNION {[D -> Seq(C)] : D \in SUBSET Seq(C)}
Reading(C) == [map : Maps(C), key : Seq(C), cur : Seq(C), next : Nat]
NothingRead == [map |-> <<>>, key |-> <<>>, cur |-> <<>>, next |-> 1]

\* The loop of ParseAttributes.
IsRead(f, text) ==
  f = [i \in 0..Len(text) |-> IF i = 0 THEN NothingRead ELSE AttributeOne(f[i - 1], text, i)]
ReadLoop(text) == CHOOSE f : IsRead(f, text)

LEMMA ParseLoop ==
  ASSUME NEW text
  PROVE  ParseAttributes(text) =
           LET end == ReadLoop(text)[Len(text)]
           IN  IF end.key = <<>> THEN end.map ELSE Put(end.map, end.key, end.cur)
BY DEF ParseAttributes, ReadLoop, IsRead, NothingRead

\* An attribute more leaves a map.
LEMMA PutType ==
  ASSUME NEW C, NEW map \in Maps(C), NEW key \in Seq(C), NEW v \in Seq(C)
  PROVE  Put(map, key, v) \in Maps(C)
<1>1. PICK D \in SUBSET Seq(C) : map \in [D -> Seq(C)]
  BY DEF Maps
<1>2. Put(map, key, v) \in [D \cup {key} -> Seq(C)] /\ D \cup {key} \in SUBSET Seq(C)
  BY <1>1 DEF Put
<1>3. QED
  BY <1>2 DEF Maps

\* A turn of the loop leaves a state of the loop.
LEMMA AttributeOneType ==
  ASSUME NEW C, NEW text \in Seq(C), NEW s \in Reading(C), NEW i \in 1..Len(text)
  PROVE  AttributeOne(s, text, i) \in Reading(C)
<1>1. /\ s.map \in Maps(C) /\ s.key \in Seq(C) /\ s.cur \in Seq(C) /\ s.next \in Nat
      /\ text[i] \in C /\ i \in Nat
  BY DEF Reading
<1>2. Put(s.map, s.key, s.cur) \in Maps(C)
  BY <1>1, PutType
<1>3. <<>> \in Seq(C) /\ Append(s.cur, text[i]) \in Seq(C) /\ i + 2 \in Nat
  BY <1>1
<1> HIDE DEF Maps
<1>4. QED
  BY <1>1, <1>2, <1>3 DEF AttributeOne, Reading

\* ParseAttributes' loop is the loop it is written as.
LEMMA ReadLoopIs ==
  ASSUME NEW C, NEW text \in Seq(C)
  PROVE  /\ ReadLoop(text) \in [0..Len(text) -> Reading(C)]
         /\ ReadLoop(text)[0] = NothingRead
         /\ \A i \in 1..Len(text) :
              ReadLoop(text)[i] = AttributeOne(ReadLoop(text)[i - 1], text, i)
<1> DEFINE n == Len(text)
           I == 1..n
           ids == [i \in 1..n |-> i]
           st == [x \in Reading(C) \X I |-> AttributeOne(x[1], text, x[2])]
<1>0. n \in Nat /\ ids \in Seq(I) /\ Len(ids) = n
  OBVIOUS
<1>1. st \in [Reading(C) \X I -> Reading(C)]
  BY AttributeOneType
<1>2. NothingRead \in Reading(C)
  <2>1. <<>> \in Maps(C)
    <3>1. <<>> \in [{} -> Seq(C)] /\ {} \in SUBSET Seq(C)
      OBVIOUS
    <3>2. QED
      BY <3>1 DEF Maps
  <2> HIDE DEF Maps
  <2>2. QED
    BY <2>1 DEF NothingRead, Reading
<1>3. PICK f \in [0..n -> Reading(C)] : IsLoop(f, NothingRead, st, ids, n)
  <2> HIDE DEF st, ids, I, n
  <2>1. QED
    BY <1>0, <1>1, <1>2, LoopExists
<1>4. ASSUME NEW i \in 1..n PROVE f[i] = AttributeOne(f[i - 1], text, i)
  <2>1. f[i - 1] \in Reading(C) /\ ids[i] = i
    BY <1>0, <1>3, SMTT(30)
  <2>2. f[i] = st[<<f[i - 1], ids[i]>>]
    BY <1>3 DEF IsLoop
  <2> HIDE DEF ids
  <2>3. QED
    BY <2>1, <2>2
<1>5. f[0] = NothingRead
  BY <1>3 DEF IsLoop
<1> HIDE DEF st, ids, I
<1>6. IsRead(f, text)
  <2>1. \A i \in 0..n : f[i] = IF i = 0 THEN NothingRead ELSE AttributeOne(f[i - 1], text, i)
    BY <1>0, <1>4, <1>5
  <2>2. QED
    BY <1>3, <2>1 DEF IsRead
<1> DEFINE g == ReadLoop(text)
<1>7. IsRead(g, text)
  BY <1>6, Zenon DEF ReadLoop
<1> HIDE DEF g
<1>8. g = [i \in 0..n |-> IF i = 0 THEN NothingRead ELSE AttributeOne(g[i - 1], text, i)]
  BY <1>7 DEF IsRead
<1>9. /\ g[0] = NothingRead
      /\ \A i \in 1..n : g[i] = AttributeOne(g[i - 1], text, i)
  BY <1>0, <1>8, SMTT(30)
<1>10. \A i \in 0..n : g[i] = f[i]
  <2>1. GoOnAlike(g, f, n)
    <3>1. \A i \in 1..n : g[i - 1] = f[i - 1] => g[i] = f[i]
      BY <1>4, <1>9
    <3>2. QED
      BY <1>5, <1>9, <3>1 DEF GoOnAlike
  <2> HIDE DEF n
  <2>2. QED
    BY <1>0, <2>1, LoopsAgree
<1>11. g \in [0..n -> Reading(C)]
  <2>1. g = [i \in 0..n |-> g[i]]
    BY <1>8
  <2>2. QED
    BY <1>3, <1>10, <2>1
<1>12. QED
  BY <1>9, <1>11 DEF g

\* What is read so far, and what has been, has no two bars in a row: a bar is
\* taken only if none follows.
LEMMA OneBar ==
  ASSUME NEW C, NEW v \in Seq(C), NEW c \in C, NoBars(v), c = "|" => ~EndsInBar(v)
  PROVE  NoBars(Append(v, c)) /\ (EndsInBar(Append(v, c)) => c = "|")
<1>1. /\ Len(v) \in Nat /\ Len(Append(v, c)) = Len(v) + 1
      /\ \A j \in 1..Len(v) : Append(v, c)[j] = v[j]
      /\ Append(v, c)[Len(v) + 1] = c
  OBVIOUS
<1>2. ASSUME NEW j \in 1..Len(v) PROVE ~(Append(v, c)[j] = "|" /\ Append(v, c)[j + 1] = "|")
  <2>1. CASE j < Len(v)
    <3>1. j \in 1..Len(v) - 1 /\ j + 1 \in 1..Len(v)
      BY <1>1, <2>1
    <3>2. QED
      BY <1>1, <3>1 DEF NoBars
  <2>2. CASE j = Len(v)
    BY <1>1, <2>2 DEF EndsInBar
  <2>3. QED
    BY <1>1, <2>1, <2>2
<1>3. QED
  BY <1>1, <1>2 DEF NoBars, EndsInBar

\* The state at place i, and that no attribute is ended from there on up to j.
ReadAt(text, i, map, key, cur, next) ==
  ReadLoop(text)[i] = [map |-> map, key |-> key, cur |-> cur, next |-> next]
NoPairs(text, i, j) == \A p \in i..j : ~PairAt(text, p)

\* The turn of the loop at one place, in each of its cases.
LEMMA OneTurn ==
  ASSUME NEW C, NEW text \in Seq(C), NEW i \in 0..Len(text) - 1,
         NEW map, NEW key, NEW cur, NEW next \in Nat, ReadAt(text, i, map, key, cur, next)
  PROVE  /\ i + 1 < next => ReadAt(text, i + 1, map, key, cur, next)
         /\ i + 1 >= next /\ PairAt(text, i + 1) /\ key # <<>> =>
              ReadAt(text, i + 1, Put(map, key, cur), <<>>, <<>>, i + 3)
         /\ i + 1 >= next /\ ~PairAt(text, i + 1) /\ key = <<>> /\ text[i + 1] = "=" =>
              ReadAt(text, i + 1, map, cur, <<>>, next)
         /\ i + 1 >= next /\ ~PairAt(text, i + 1) /\ (key # <<>> \/ text[i + 1] # "=") =>
              ReadAt(text, i + 1, map, key, Append(cur, text[i + 1]), next)
<1> DEFINE s == [map |-> map, key |-> key, cur |-> cur, next |-> next]
<1>1. i + 1 \in 1..Len(text) /\ i + 1 - 1 = i /\ i + 1 + 2 = i + 3
  OBVIOUS
<1>2. ReadLoop(text)[i + 1] = AttributeOne(s, text, i + 1)
  BY <1>1, ReadLoopIs DEF ReadAt
<1>3. s.map = map /\ s.key = key /\ s.cur = cur /\ s.next = next
  OBVIOUS
<1> HIDE DEF s
<1>4. i + 1 < next => AttributeOne(s, text, i + 1) = s
  BY <1>3 DEF AttributeOne
<1>5. i + 1 >= next /\ PairAt(text, i + 1) /\ key # <<>> =>
        AttributeOne(s, text, i + 1) =
          [map |-> Put(map, key, cur), key |-> <<>>, cur |-> <<>>, next |-> i + 3]
  BY <1>1, <1>3 DEF AttributeOne
<1>6. i + 1 >= next /\ ~PairAt(text, i + 1) /\ key = <<>> /\ text[i + 1] = "=" =>
        AttributeOne(s, text, i + 1) = [map |-> map, key |-> cur, cur |-> <<>>, next |-> next]
  BY <1>1, <1>3 DEF AttributeOne
<1>7. i + 1 >= next /\ ~PairAt(text, i + 1) /\ (key # <<>> \/ text[i + 1] # "=") =>
        AttributeOne(s, text, i + 1) =
          [map |-> map, key |-> key, cur |-> Append(cur, text[i + 1]), next |-> next]
  BY <1>1, <1>3 DEF AttributeOne
<1>8. QED
  BY <1>2, <1>4, <1>5, <1>6, <1>7 DEF ReadAt, s

\* Behind a key, what is no pair of bars is taken as it is.
LEMMA ValueTaken ==
  ASSUME NEW C, NEW text \in Seq(C), NEW m \in Nat, NEW l \in Nat, m + l <= Len(text),
         NEW map, NEW key, key # <<>>, NEW next \in Nat, next <= m + 1,
         ReadAt(text, m, map, key, <<>>, next), NoPairs(text, m + 1, m + l)
  PROVE  ReadAt(text, m + l, map, key, SubSeq(text, m + 1, m + l), next)
<1> DEFINE T == {d \in Nat : d <= l => ReadAt(text, m + d, map, key, SubSeq(text, m + 1, m + d), next)}
<1>1. 0 \in T
  <2>1. SubSeq(text, m + 1, m + 0) = <<>> /\ m + 0 = m
    OBVIOUS
  <2>2. QED
    BY <2>1
<1>2. ASSUME NEW d \in Nat, d \in T PROVE d + 1 \in T
  <2> SUFFICES ASSUME d + 1 <= l
               PROVE  ReadAt(text, m + (d + 1), map, key, SubSeq(text, m + 1, m + (d + 1)), next)
    OBVIOUS
  <2>1. ReadAt(text, m + d, map, key, SubSeq(text, m + 1, m + d), next)
    BY <1>2
  <2>2. m + d \in 0..Len(text) - 1 /\ m + d + 1 >= next /\ m + d + 1 = m + (d + 1)
    OBVIOUS
  <2>3. ~PairAt(text, m + d + 1)
    <3>1. m + d + 1 \in m + 1..m + l
      OBVIOUS
    <3>2. QED
      BY <3>1 DEF NoPairs
  <2>4. ReadAt(text, m + d + 1, map, key, Append(SubSeq(text, m + 1, m + d), text[m + d + 1]), next)
    BY <2>1, <2>2, <2>3, OneTurn
  <2>5. SubSeq(text, m + 1, m + (d + 1)) = Append(SubSeq(text, m + 1, m + d), text[m + d + 1])
    BY <2>2
  <2>6. QED
    BY <2>2, <2>4, <2>5
<1> HIDE DEF T
<1>3. Nat \subseteq T
  BY <1>1, <1>2, SetInduction
<1>4. QED
  BY <1>3 DEF T

\* A key, "=" and a value.
LEMMA AttributeTaken ==
  ASSUME NEW C, NEW text \in Seq(C), NEW m \in Nat, NEW l \in Nat, m + 2 + l <= Len(text),
         NEW map, NEW next \in Nat, next <= m + 1, ReadAt(text, m, map, <<>>, <<>>, next),
         NEW word \in C, word # "|", word # "=", text[m + 1] = word, text[m + 2] = "=",
         NoPairs(text, m + 3, m + 2 + l)
  PROVE  ReadAt(text, m + 2 + l, map, <<word>>, SubSeq(text, m + 3, m + 2 + l), next)
<1>1. /\ m \in 0..Len(text) - 1 /\ m + 1 \in 0..Len(text) - 1 /\ m + 1 + 1 = m + 2
      /\ m + 1 >= next /\ m + 1 + 1 >= next /\ m + 2 + 1 = m + 3 /\ m + 2 \in Nat /\ next <= m + 3
  OBVIOUS
<1>2. ~PairAt(text, m + 1) /\ ~PairAt(text, m + 2)
  <2>1. "=" # "|"
    OBVIOUS
  <2>2. QED
    BY <2>1 DEF PairAt
<1>3. ReadAt(text, m + 1, map, <<>>, <<word>>, next)
  <2>1. Append(<<>>, word) = <<word>>
    OBVIOUS
  <2>2. ReadAt(text, m + 1, map, <<>>, Append(<<>>, text[m + 1]), next)
    BY <1>1, <1>2, OneTurn
  <2>3. QED
    BY <2>1, <2>2
<1>4. ReadAt(text, m + 2, map, <<word>>, <<>>, next)
  BY <1>1, <1>2, <1>3, OneTurn
<1>5. <<word>> # <<>>
  OBVIOUS
<1>6. NoPairs(text, m + 2 + 1, m + 2 + l)
  BY <1>1
<1>7. ReadAt(text, m + 2 + l, map, <<word>>, SubSeq(text, m + 2 + 1, m + 2 + l), next)
  BY <1>1, <1>4, <1>5, <1>6, ValueTaken
<1>8. QED
  BY <1>1, <1>7

\* What it means that one attribute, or two, are read as they are.
OneRead(word, v) == ParseAttributes(<<word, "=">> \o v) = [k \in {<<word>>} |-> v]
Two(p, v, q, w) == (<<p, "=">> \o v) \o (<<"|", "|", q, "=">> \o w)
TwoRead(p, v, q, w) ==
  ParseAttributes(Two(p, v, q, w)) = [k \in {<<p>>, <<q>>} |-> IF k = <<q>> THEN w ELSE v]

\* The text of one attribute is read as that attribute.
LEMMA OneAttribute ==
  ASSUME NEW C, NEW word \in C, word # "|", word # "=", "=" \in C, NEW v \in Seq(C), NoBars(v)
  PROVE  OneRead(word, v)
<1> DEFINE t == <<word, "=">> \o v
           l == Len(v)
<1>1. /\ t \in Seq(C) /\ l \in Nat /\ Len(t) = 2 + l /\ t[1] = word /\ t[2] = "="
      /\ \A j \in 1..l : t[2 + j] = v[j]
  OBVIOUS
<1>2. SubSeq(t, 3, 2 + l) = v
  <2> HIDE DEF t
  <2>1. SubSeq(t, 3, 2 + l) \in Seq(C) /\ Len(SubSeq(t, 3, 2 + l)) = l
    BY <1>1
  <2>2. \A j \in 1..l : SubSeq(t, 3, 2 + l)[j] = v[j]
    BY <1>1
  <2>3. QED
    BY <2>1, <2>2
<1> HIDE DEF t
<1>3. NoPairs(t, 3, 2 + l)
  <2> SUFFICES ASSUME NEW p \in 3..2 + l, PairAt(t, p) PROVE FALSE
    BY DEF NoPairs
  <2>1. t[p] = "|" /\ p < 2 + l /\ t[p + 1] = "|"
    BY <1>1 DEF PairAt
  <2> DEFINE j == p - 2
  <2>2. j \in 1..l - 1 /\ j + 1 \in 1..l /\ j \in 1..l /\ 2 + j = p /\ 2 + (j + 1) = p + 1
    BY <1>1, <2>1
  <2> HIDE DEF j
  <2>3. v[j] = "|" /\ v[j + 1] = "|"
    BY <1>1, <2>1, <2>2
  <2>4. QED
    BY <2>2, <2>3 DEF NoBars
<1>4. ReadAt(t, 0, <<>>, <<>>, <<>>, 1)
  BY <1>1, ReadLoopIs DEF ReadAt, NothingRead
<1>5. ReadAt(t, 2 + l, <<>>, <<word>>, v, 1)
  <2>1. /\ 0 + 2 + l = 2 + l /\ 0 + 3 = 3 /\ 0 + 2 = 2 /\ 0 + 1 = 1 /\ 1 <= 0 + 1
        /\ 0 + 2 + l <= Len(t)
    BY <1>1
  <2>2. ReadAt(t, 0 + 2 + l, <<>>, <<word>>, SubSeq(t, 0 + 3, 0 + 2 + l), 1)
    BY <1>1, <1>3, <1>4, <2>1, AttributeTaken
  <2>3. QED
    BY <1>2, <2>1, <2>2
<1>6. ParseAttributes(t) = Put(<<>>, <<word>>, v)
  <2> DEFINE end == ReadLoop(t)[Len(t)]
  <2>1. end.map = <<>> /\ end.key = <<word>> /\ end.cur = v
    BY <1>1, <1>5 DEF ReadAt
  <2>2. ParseAttributes(t) = IF end.key = <<>> THEN end.map ELSE Put(end.map, end.key, end.cur)
    BY ParseLoop, Zenon
  <2>3. <<word>> # <<>>
    OBVIOUS
  <2> HIDE DEF end
  <2>4. QED
    BY <2>1, <2>2, <2>3
<1>7. Put(<<>>, <<word>>, v) = [k \in {<<word>>} |-> v]
  BY DEF Put
<1>8. QED
  BY <1>6, <1>7 DEF OneRead, t

\* The symbols of two attributes, by their places.
IsTwo(t, C, p, v, q, w) ==
  LET l == Len(v)
  IN  /\ t \in Seq(C) /\ l \in Nat /\ Len(w) \in Nat /\ Len(t) = l + 6 + Len(w)
      /\ t[1] = p /\ t[2] = "=" /\ \A j \in 1..l : t[2 + j] = v[j]
      /\ t[l + 3] = "|" /\ t[l + 4] = "|" /\ t[l + 5] = q /\ t[l + 6] = "="
      /\ \A j \in 1..Len(w) : t[l + 6 + j] = w[j]

LEMMA TwoIs ==
  ASSUME NEW C, NEW p \in C, NEW q \in C, "=" \in C, "|" \in C, NEW v \in Seq(C), NEW w \in Seq(C)
  PROVE  IsTwo(Two(p, v, q, w), C, p, v, q, w)
<1> DEFINE a == <<p, "=">> \o v
           b == <<"|", "|", q, "=">> \o w
           t == a \o b
           l == Len(v)
<1>1. /\ a \in Seq(C) /\ Len(a) = l + 2 /\ l \in Nat /\ a[1] = p /\ a[2] = "="
      /\ \A j \in 1..l : a[2 + j] = v[j]
  OBVIOUS
<1>2. /\ b \in Seq(C) /\ Len(b) = 4 + Len(w) /\ Len(w) \in Nat
      /\ b[1] = "|" /\ b[2] = "|" /\ b[3] = q /\ b[4] = "="
      /\ \A j \in 1..Len(w) : b[4 + j] = w[j]
  OBVIOUS
<1> HIDE DEF a, b
<1>3. /\ t \in Seq(C) /\ Len(t) = l + 6 + Len(w)
      /\ \A j \in 1..l + 2 : t[j] = a[j]
      /\ \A j \in 1..4 + Len(w) : t[l + 2 + j] = b[j]
  <2>0. a \in Seq(C) /\ b \in Seq(C)
    BY <1>1, <1>2
  <2>1. /\ t \in Seq(C) /\ Len(t) = Len(a) + Len(b)
        /\ \A j \in 1..Len(a) : t[j] = a[j]
        /\ \A j \in 1..Len(b) : t[Len(a) + j] = b[j]
    BY <2>0
  <2> HIDE DEF t
  <2>2. QED
    BY <1>1, <1>2, <2>1
<1> HIDE DEF t
<1>4. t[1] = p /\ t[2] = "=" /\ \A j \in 1..l : t[2 + j] = v[j]
  BY <1>1, <1>3
<1>5. /\ l + 2 + 1 = l + 3 /\ l + 2 + 2 = l + 4 /\ l + 2 + 3 = l + 5 /\ l + 2 + 4 = l + 6
      /\ \A j \in 1..4 : j \in 1..4 + Len(w)
  BY <1>1, <1>2
<1>6. t[l + 3] = "|" /\ t[l + 4] = "|" /\ t[l + 5] = q /\ t[l + 6] = "="
  BY <1>2, <1>3, <1>5
<1>7. ASSUME NEW j \in 1..Len(w) PROVE t[l + 6 + j] = w[j]
  <2>1. 4 + j \in 1..4 + Len(w) /\ l + 2 + (4 + j) = l + 6 + j
    BY <1>1, <1>2
  <2>2. t[l + 2 + (4 + j)] = b[4 + j]
    BY <1>3, <2>1
  <2>3. QED
    BY <1>2, <2>1, <2>2
<1>8. QED
  BY <1>1, <1>2, <1>3, <1>4, <1>6, <1>7 DEF Two, IsTwo, t, a, b

\* No attribute ends inside a value without two bars in a row, up to its last
\* symbol, which must not be a bar before the bars that end it.
LEMMA InsideValue ==
  ASSUME NEW C, NEW t \in Seq(C), NEW m \in Nat, NEW v \in Seq(C), NoBars(v),
         m + Len(v) <= Len(t), \A j \in 1..Len(v) : t[m + j] = v[j]
  PROVE  /\ NoPairs(t, m + 1, m + Len(v) - 1)
         /\ ~EndsInBar(v) \/ m + Len(v) = Len(t) => NoPairs(t, m + 1, m + Len(v))
<1> DEFINE l == Len(v)
<1>0. l \in Nat /\ Len(t) \in Nat
  OBVIOUS
<1>1. ASSUME NEW p \in m + 1..m + l - 1 PROVE ~PairAt(t, p)
  <2> DEFINE j == p - m
  <2>1. j \in 1..l - 1 /\ j \in 1..l /\ j + 1 \in 1..l /\ m + j = p /\ m + (j + 1) = p + 1
    BY <1>0
  <2> HIDE DEF j
  <2>2. t[p] = v[j] /\ t[p + 1] = v[j + 1]
    BY <2>1
  <2>3. QED
    BY <2>1, <2>2 DEF NoBars, PairAt
<1>2. ASSUME ~EndsInBar(v) \/ m + l = Len(t), NEW p \in m + 1..m + l PROVE ~PairAt(t, p)
  <2>1. CASE p = m + l
    <3>1. l \in 1..l /\ l > 0
      BY <1>0, <2>1
    <3>2. t[p] = v[l]
      BY <2>1, <3>1
    <3>3. QED
      BY <1>0, <1>2, <2>1, <3>1, <3>2 DEF EndsInBar, PairAt
  <2>2. CASE p # m + l
    <3>1. p \in m + 1..m + l - 1
      BY <1>0, <2>2
    <3>2. QED
      BY <1>1, <3>1
  <2>3. QED
    BY <2>1, <2>2
<1>3. QED
  BY <1>1, <1>2 DEF NoPairs

\* The text of two attributes is read as those two, if the first value does
\* not end in a bar.
LEMMA TwoAttributes ==
  ASSUME NEW C, NEW p \in C, NEW q \in C, "=" \in C, "|" \in C, NEW v \in Seq(C), NEW w \in Seq(C),
         p \notin {"|", "="}, q \notin {"|", "="}, p # q, NoBars(v), NoBars(w), ~EndsInBar(v)
  PROVE  TwoRead(p, v, q, w)
<1> DEFINE t == Two(p, v, q, w)
           l == Len(v)
           r == Len(w)
           one == Put(<<>>, <<p>>, v)
<1>1. /\ t \in Seq(C) /\ l \in Nat /\ r \in Nat /\ Len(t) = l + 6 + r
      /\ t[1] = p /\ t[2] = "=" /\ \A j \in 1..l : t[2 + j] = v[j]
      /\ t[l + 3] = "|" /\ t[l + 4] = "|" /\ t[l + 5] = q /\ t[l + 6] = "="
      /\ \A j \in 1..r : t[l + 6 + j] = w[j]
  <2>1. IsTwo(t, C, p, v, q, w)
    BY TwoIs
  <2> HIDE DEF t
  <2>2. QED
    BY <2>1 DEF IsTwo
<1> HIDE DEF t, one
<1>2. ReadAt(t, 0, <<>>, <<>>, <<>>, 1)
  BY <1>1, ReadLoopIs DEF ReadAt, NothingRead
<1>3. SubSeq(t, 3, 2 + l) = v
  <2>1. SubSeq(t, 3, 2 + l) \in Seq(C) /\ Len(SubSeq(t, 3, 2 + l)) = l
    BY <1>1
  <2>2. \A j \in 1..l : SubSeq(t, 3, 2 + l)[j] = v[j]
    BY <1>1
  <2>3. QED
    BY <2>1, <2>2, SameElements
<1>4. SubSeq(t, l + 7, l + 6 + r) = w
  <2>1. SubSeq(t, l + 7, l + 6 + r) \in Seq(C) /\ Len(SubSeq(t, l + 7, l + 6 + r)) = r
    BY <1>1
  <2>2. \A j \in 1..r : SubSeq(t, l + 7, l + 6 + r)[j] = w[j]
    BY <1>1
  <2>3. QED
    BY <2>1, <2>2, SameElements
<1>5. ReadAt(t, 2 + l, <<>>, <<p>>, v, 1)
  <2>1. /\ 0 + 2 + l = 2 + l /\ 0 + 3 = 3 /\ 0 + 2 = 2 /\ 0 + 1 = 1 /\ 1 <= 0 + 1
        /\ 0 + 2 + l <= Len(t) /\ 2 + 1 = 3 /\ 2 + l <= Len(t)
    BY <1>1
  <2>2. NoPairs(t, 3, 2 + l)
    BY <1>1, <2>1, InsideValue
  <2>3. ReadAt(t, 0 + 2 + l, <<>>, <<p>>, SubSeq(t, 0 + 3, 0 + 2 + l), 1)
    BY <1>1, <1>2, <2>1, <2>2, AttributeTaken
  <2>4. QED
    BY <1>3, <2>1, <2>3
<1>6. ReadAt(t, l + 4, one, <<>>, <<>>, l + 5)
  <2>1. /\ 2 + l \in 0..Len(t) - 1 /\ 2 + l + 1 >= 1 /\ 2 + l + 1 = l + 3 /\ 2 + l + 3 = l + 5
        /\ l + 3 \in 0..Len(t) - 1 /\ l + 3 + 1 < l + 5 /\ l + 3 + 1 = l + 4 /\ l + 5 \in Nat
        /\ l + 3 < Len(t)
    BY <1>1
  <2>2. PairAt(t, 2 + l + 1) /\ <<p>> # <<>>
    BY <1>1, <2>1 DEF PairAt
  <2>3. ReadAt(t, 2 + l + 1, Put(<<>>, <<p>>, v), <<>>, <<>>, 2 + l + 3)
    BY <1>1, <1>5, <2>1, <2>2, OneTurn
  <2>4. ReadAt(t, l + 3, one, <<>>, <<>>, l + 5)
    BY <2>1, <2>3 DEF one
  <2>5. ReadAt(t, l + 3 + 1, one, <<>>, <<>>, l + 5)
    BY <1>1, <2>1, <2>4, OneTurn
  <2>6. QED
    BY <2>1, <2>5
<1>7. ReadAt(t, l + 6 + r, one, <<q>>, w, l + 5)
  <2>1. /\ l + 4 \in Nat /\ l + 4 + 2 + r <= Len(t) /\ l + 5 \in Nat /\ l + 5 <= l + 4 + 1
        /\ l + 4 + 1 = l + 5 /\ l + 4 + 2 = l + 6 /\ l + 4 + 3 = l + 7 /\ l + 4 + 2 + r = l + 6 + r
        /\ l + 6 + 1 = l + 7 /\ l + 6 \in Nat /\ l + 6 + r = Len(t)
    BY <1>1
  <2>2. NoPairs(t, l + 7, l + 6 + r)
    BY <1>1, <2>1, InsideValue
  <2>3. ReadAt(t, l + 4 + 2 + r, one, <<q>>, SubSeq(t, l + 4 + 3, l + 4 + 2 + r), l + 5)
    BY <1>1, <1>6, <2>1, <2>2, AttributeTaken, ZenonT(30)
  <2>4. QED
    BY <1>4, <2>1, <2>3
<1>8. ParseAttributes(t) = Put(one, <<q>>, w)
  <2> DEFINE end == ReadLoop(t)[Len(t)]
  <2>1. end.map = one /\ end.key = <<q>> /\ end.cur = w
    BY <1>1, <1>7 DEF ReadAt
  <2>2. ParseAttributes(t) = IF end.key = <<>> THEN end.map ELSE Put(end.map, end.key, end.cur)
    BY ParseLoop, Zenon
  <2>3. <<q>> # <<>>
    OBVIOUS
  <2> HIDE DEF end
  <2>4. QED
    BY <2>1, <2>2, <2>3
<1>9. one = [k \in {<<p>>} |-> v]
  BY DEF Put, one
<1>10. Put(one, <<q>>, w) = [k \in {<<p>>, <<q>>} |-> IF k = <<q>> THEN w ELSE v]
  BY <1>9 DEF Put
<1>11. QED
  BY <1>8, <1>10 DEF TwoRead, t

\* What the loop keeps to: no value has two bars in a row, and what is being
\* read ends in a bar only if the next symbol is none.
BarInv(s, text, i) ==
  /\ NoBars(s.cur) /\ \A k \in DOMAIN s.map : NoBars(s.map[k])
  /\ EndsInBar(s.cur) => s.next <= i + 1 /\ ~(i < Len(text) /\ text[i + 1] = "|")

\* A turn of the loop keeps it.
LEMMA BarStep ==
  ASSUME NEW C, NEW text \in Seq(C), NEW s \in Reading(C), NEW i \in 0..Len(text) - 1,
         BarInv(s, text, i)
  PROVE  BarInv(AttributeOne(s, text, i + 1), text, i + 1)
<1> DEFINE c == text[i + 1]
           a == AttributeOne(s, text, i + 1)
<1>1. s.cur \in Seq(C) /\ s.next \in Nat /\ c \in C /\ Len(text) \in Nat /\ i \in Nat
  BY DEF Reading
<1>2. NoBars(<<>>) /\ ~EndsInBar(<<>>)
  BY DEF NoBars, EndsInBar
<1>3. CASE i + 1 < s.next
  <2>1. a = s
    BY <1>3 DEF AttributeOne
  <2>2. ~EndsInBar(s.cur)
    BY <1>1, <1>3 DEF BarInv
  <2> HIDE DEF a
  <2>3. QED
    BY <2>1, <2>2 DEF BarInv, a
<1>4. CASE ~(i + 1 < s.next) /\ PairAt(text, i + 1)
  <2>1. CASE s.key = <<>>
    <3>1. a.map = s.map /\ a.cur = s.cur
      BY <1>4, <2>1 DEF AttributeOne
    <3>2. ~EndsInBar(s.cur)
      BY <1>1, <1>4 DEF BarInv, PairAt
    <3> HIDE DEF a
    <3>3. QED
      BY <3>1, <3>2 DEF BarInv, a
  <2>2. CASE s.key # <<>>
    <3>1. a.map = Put(s.map, s.key, s.cur) /\ a.cur = <<>>
      BY <1>4, <2>2 DEF AttributeOne
    <3>2. \A k \in DOMAIN Put(s.map, s.key, s.cur) : NoBars(Put(s.map, s.key, s.cur)[k])
      BY DEF Put, BarInv
    <3> HIDE DEF a
    <3>3. QED
      BY <1>2, <3>1, <3>2 DEF BarInv, a
  <2>3. QED
    BY <2>1, <2>2
<1>5. CASE ~(i + 1 < s.next) /\ ~PairAt(text, i + 1) /\ s.key = <<>> /\ c = "="
  <2>1. a.map = s.map /\ a.cur = <<>>
    BY <1>5 DEF AttributeOne
  <2> HIDE DEF a
  <2>2. QED
    BY <1>2, <2>1 DEF BarInv, a
<1>6. CASE ~(i + 1 < s.next) /\ ~PairAt(text, i + 1) /\ ~(s.key = <<>> /\ c = "=")
  <2>1. a.map = s.map /\ a.cur = Append(s.cur, c) /\ a.next = s.next
    BY <1>6 DEF AttributeOne
  <2>2. c = "|" => ~EndsInBar(s.cur)
    BY <1>1 DEF BarInv
  <2>3. NoBars(s.cur)
    BY DEF BarInv
  <2>4. NoBars(Append(s.cur, c)) /\ (EndsInBar(Append(s.cur, c)) => c = "|")
    BY <1>1, <2>2, <2>3, OneBar
  <2>5. c = "|" => ~(i + 1 < Len(text) /\ text[i + 1 + 1] = "|")
    BY <1>6 DEF PairAt
  <2>6. s.next <= i + 1 + 1
    BY <1>1, <1>6
  <2> HIDE DEF a, c
  <2>7. QED
    BY <2>1, <2>4, <2>5, <2>6 DEF BarInv, a
<1>7. QED
  BY <1>3, <1>4, <1>5, <1>6

\* The values read are texts of the same symbols without two bars in a row.
LEMMA ValuesRead ==
  ASSUME NEW C, NEW text \in Seq(C)
  PROVE  /\ ParseAttributes(text) \in Maps(C)
         /\ \A k \in DOMAIN ParseAttributes(text) : NoBars(ParseAttributes(text)[k])
<1> DEFINE n == Len(text)
           g == ReadLoop(text)
           T == {i \in Nat : i <= n => BarInv(g[i], text, i)}
           end == g[n]
<1>0. n \in Nat
  OBVIOUS
<1>1. /\ g \in [0..n -> Reading(C)] /\ g[0] = NothingRead
      /\ \A i \in 1..n : g[i] = AttributeOne(g[i - 1], text, i)
  BY ReadLoopIs
<1> HIDE DEF g
<1>2. 0 \in T
  <2>1. BarInv(NothingRead, text, 0)
    BY DEF BarInv, NothingRead, NoBars, EndsInBar
  <2>2. QED
    BY <1>1, <2>1
<1>3. ASSUME NEW i \in Nat, i \in T PROVE i + 1 \in T
  <2> SUFFICES ASSUME i + 1 <= n PROVE BarInv(g[i + 1], text, i + 1)
    OBVIOUS
  <2>1. i \in 0..n - 1 /\ i + 1 \in 1..n /\ i + 1 - 1 = i /\ i \in 0..n
    BY <1>0
  <2>2. BarInv(g[i], text, i) /\ g[i] \in Reading(C)
    BY <1>1, <1>3, <2>1
  <2>3. g[i + 1] = AttributeOne(g[i], text, i + 1)
    BY <1>1, <2>1
  <2>4. QED
    BY <2>1, <2>2, <2>3, BarStep
<1> HIDE DEF T
<1>4. Nat \subseteq T
  BY <1>2, <1>3, SetInduction
<1>5. BarInv(end, text, n)
  BY <1>0, <1>4 DEF T
<1>6. end \in Reading(C)
  BY <1>0, <1>1
<1>7. ParseAttributes(text) = IF end.key = <<>> THEN end.map ELSE Put(end.map, end.key, end.cur)
  BY ParseLoop, Zenon DEF g
<1> HIDE DEF end, n
<1>8. end.map \in Maps(C) /\ end.key \in Seq(C) /\ end.cur \in Seq(C)
  BY <1>6 DEF Reading
<1>9. /\ NoBars(end.cur) /\ \A k \in DOMAIN end.map : NoBars(end.map[k])
  BY <1>5 DEF BarInv
<1>10. \A k \in DOMAIN Put(end.map, end.key, end.cur) : NoBars(Put(end.map, end.key, end.cur)[k])
  BY <1>9 DEF Put
<1>11. Put(end.map, end.key, end.cur) \in Maps(C)
  BY <1>8, PutType
<1>12. QED
  BY <1>7, <1>8, <1>9, <1>10, <1>11

\* A key once read stays, until the end and in what is made of it.
LEMMA KeyStays ==
  ASSUME NEW C, NEW text \in Seq(C), NEW m \in 0..Len(text), NEW key, key # <<>>,
         ReadLoop(text)[m].key = key
  PROVE  key \in DOMAIN ParseAttributes(text)
<1> DEFINE n == Len(text)
           g == ReadLoop(text)
           Known(s) == s.key = key \/ key \in DOMAIN s.map
           T == {d \in Nat : m + d <= n => Known(g[m + d])}
           end == g[n]
<1>0. n \in Nat /\ m \in Nat /\ m <= n
  OBVIOUS
<1>1. /\ g \in [0..n -> Reading(C)]
      /\ \A i \in 1..n : g[i] = AttributeOne(g[i - 1], text, i)
  BY ReadLoopIs
<1>2. Known(g[m])
  OBVIOUS
<1> HIDE DEF g
<1>3. 0 \in T
  <2>1. m + 0 = m
    BY <1>0
  <2>2. QED
    BY <1>2, <2>1
<1>4. ASSUME NEW s, NEW i, Known(s) PROVE Known(AttributeOne(s, text, i))
  <2>1. DOMAIN Put(s.map, s.key, s.cur) = DOMAIN s.map \cup {s.key}
    BY DEF Put
  <2> DEFINE a == AttributeOne(s, text, i)
  <2>2. \/ a = s
        \/ a.map = s.map /\ a.key = s.key
        \/ a.map = Put(s.map, s.key, s.cur)
        \/ s.key = <<>> /\ a.map = s.map
    BY DEF AttributeOne
  <2> HIDE DEF a
  <2>3. QED
    BY <1>4, <2>1, <2>2 DEF a
<1>5. ASSUME NEW d \in Nat, d \in T PROVE d + 1 \in T
  <2> SUFFICES ASSUME m + (d + 1) <= n PROVE Known(g[m + (d + 1)])
    OBVIOUS
  <2>1. m + (d + 1) \in 1..n /\ m + (d + 1) - 1 = m + d /\ m + d <= n
    BY <1>0
  <2>2. Known(g[m + d])
    BY <1>5, <2>1
  <2>3. g[m + (d + 1)] = AttributeOne(g[m + d], text, m + (d + 1))
    BY <1>1, <2>1
  <2> HIDE DEF Known
  <2>4. QED
    BY <1>4, <2>2, <2>3
<1> HIDE DEF T
<1>6. Nat \subseteq T
  BY <1>3, <1>5, SetInduction
<1>7. n - m \in Nat /\ m + (n - m) = n
  BY <1>0
<1>8. Known(end)
  BY <1>6, <1>7 DEF T
<1>9. ParseAttributes(text) = IF end.key = <<>> THEN end.map ELSE Put(end.map, end.key, end.cur)
  BY ParseLoop, Zenon DEF g
<1> HIDE DEF end
<1>10. DOMAIN Put(end.map, end.key, end.cur) = DOMAIN end.map \cup {end.key}
  BY DEF Put
<1>11. QED
  BY <1>8, <1>9, <1>10

\* A first value that ends in a bar takes a bar of the separator with it: the
\* other bar is read as part of the second key.
LEMMA BarKey ==
  ASSUME NEW C, NEW p \in C, NEW q \in C, "=" \in C, "|" \in C, NEW v \in Seq(C), NEW w \in Seq(C),
         p \notin {"|", "="}, q \notin {"|", "="}, NoBars(v), EndsInBar(v)
  PROVE  <<"|", q>> \in DOMAIN ParseAttributes(Two(p, v, q, w))
<1> DEFINE t == Two(p, v, q, w)
           l == Len(v)
           r == Len(w)
<1>1. /\ t \in Seq(C) /\ l \in Nat /\ r \in Nat /\ Len(t) = l + 6 + r
      /\ t[1] = p /\ t[2] = "=" /\ \A j \in 1..l : t[2 + j] = v[j]
      /\ t[l + 3] = "|" /\ t[l + 4] = "|" /\ t[l + 5] = q /\ t[l + 6] = "="
  <2>1. IsTwo(t, C, p, v, q, w)
    BY TwoIs
  <2> HIDE DEF t
  <2>2. QED
    BY <2>1 DEF IsTwo
<1> HIDE DEF t
<1>2. l - 1 \in Nat /\ v[l] = "|" /\ l \in 1..l
  BY <1>1 DEF EndsInBar
<1>3. ReadAt(t, 0, <<>>, <<>>, <<>>, 1)
  BY <1>1, ReadLoopIs DEF ReadAt, NothingRead
<1>4. PICK u : ReadAt(t, l + 1, <<>>, <<p>>, u, 1)
  <2>1. /\ 0 + 2 + (l - 1) = l + 1 /\ 0 + 3 = 3 /\ 0 + 2 = 2 /\ 0 + 1 = 1 /\ 1 <= 0 + 1
        /\ 0 + 2 + (l - 1) <= Len(t) /\ 2 + 1 = 3 /\ 2 + l <= Len(t) /\ 2 + l - 1 = l + 1
    BY <1>1
  <2>2. NoPairs(t, 3, l + 1)
    <3>1. NoPairs(t, 2 + 1, 2 + l - 1)
      BY <1>1, <2>1, InsideValue
    <3>2. QED
      BY <2>1, <3>1
  <2>3. ReadAt(t, 0 + 2 + (l - 1), <<>>, <<p>>, SubSeq(t, 0 + 3, 0 + 2 + (l - 1)), 1)
    BY <1>1, <1>2, <1>3, <2>1, <2>2, AttributeTaken
  <2>4. QED
    BY <2>1, <2>3
<1> DEFINE one == Put(<<>>, <<p>>, u)
<1>5. ReadAt(t, l + 2, one, <<>>, <<>>, l + 4)
  <2>1. /\ l + 1 \in 0..Len(t) - 1 /\ l + 1 + 1 = l + 2 /\ l + 1 + 3 = l + 4 /\ l + 1 + 1 >= 1
        /\ l + 2 < Len(t) /\ l + 2 + 1 = l + 3 /\ 2 + l = l + 2
    BY <1>1
  <2>2. PairAt(t, l + 2)
    BY <1>1, <1>2, <2>1 DEF PairAt
  <2>3. <<p>> # <<>>
    OBVIOUS
  <2>4. QED
    BY <1>1, <1>4, <2>1, <2>2, <2>3, OneTurn
<1> HIDE DEF one
<1>6. ReadAt(t, l + 3, one, <<>>, <<>>, l + 4)
  <2>1. l + 2 \in 0..Len(t) - 1 /\ l + 2 + 1 = l + 3 /\ l + 2 + 1 < l + 4 /\ l + 4 \in Nat
    BY <1>1
  <2>2. QED
    BY <1>1, <1>5, <2>1, OneTurn
<1>7. ReadAt(t, l + 4, one, <<>>, <<"|">>, l + 4)
  <2>1. /\ l + 3 \in 0..Len(t) - 1 /\ l + 3 + 1 = l + 4 /\ l + 3 + 1 >= l + 4 /\ l + 4 \in Nat
        /\ l + 4 + 1 = l + 5
    BY <1>1
  <2>2. ~PairAt(t, l + 4) /\ t[l + 4] # "="
    BY <1>1, <2>1 DEF PairAt
  <2>3. ReadAt(t, l + 4, one, <<>>, Append(<<>>, t[l + 4]), l + 4)
    BY <1>1, <1>6, <2>1, <2>2, OneTurn
  <2>4. Append(<<>>, t[l + 4]) = <<"|">>
    BY <1>1
  <2>5. QED
    BY <2>3, <2>4
<1>8. ReadAt(t, l + 5, one, <<>>, <<"|", q>>, l + 4)
  <2>1. /\ l + 4 \in 0..Len(t) - 1 /\ l + 4 + 1 = l + 5 /\ l + 4 + 1 >= l + 4 /\ l + 4 \in Nat
    BY <1>1
  <2>2. ~PairAt(t, l + 5) /\ t[l + 5] # "="
    BY <1>1 DEF PairAt
  <2>3. ReadAt(t, l + 5, one, <<>>, Append(<<"|">>, t[l + 5]), l + 4)
    BY <1>1, <1>7, <2>1, <2>2, OneTurn
  <2>4. Append(<<"|">>, q) = <<"|", q>>
    BY AppendTwo
  <2>5. QED
    BY <1>1, <2>3, <2>4
<1>9. ReadAt(t, l + 6, one, <<"|", q>>, <<>>, l + 4)
  <2>1. /\ l + 5 \in 0..Len(t) - 1 /\ l + 5 + 1 = l + 6 /\ l + 5 + 1 >= l + 4 /\ l + 4 \in Nat
    BY <1>1
  <2>2. ~PairAt(t, l + 6)
    BY <1>1 DEF PairAt
  <2>3. QED
    BY <1>1, <1>8, <2>1, <2>2, OneTurn
<1>10. /\ l + 6 \in 0..Len(t) /\ <<"|", q>> # <<>>
       /\ ReadLoop(t)[l + 6].key = <<"|", q>>
  BY <1>1, <1>9 DEF ReadAt
<1>11. <<"|", q>> \in DOMAIN ParseAttributes(t)
  BY <1>1, <1>10, KeyStays
<1>12. QED
  BY <1>11 DEF t

-----------------------------------------------------------------------------
(* An event written and read back.                                         *)

\* What stands for a line break.
Space == " "

\* Line breaks made spaces, symbol by symbol.
LEMMA OneLineIs ==
  ASSUME NEW C, NEW t \in Seq(C)
  PROVE  /\ Len(OneLine(t)) = Len(t) /\ DOMAIN OneLine(t) = 1..Len(t)
         /\ \A i \in 1..Len(t) : OneLine(t)[i] = IF t[i] = NL THEN Space ELSE t[i]
<1>1. OneLine(t) = [i \in 1..Len(t) |-> IF t[i] = NL THEN Space ELSE t[i]]
  BY Zenon DEF OneLine, ReplaceAll, Space
<1>2. Len(t) \in Nat
  OBVIOUS
<1>3. QED
  BY <1>1, <1>2

\* A flattened text holds no line break, and has tabs and bars where it had.
LEMMA OneLineKeeps ==
  ASSUME NEW C, NEW t \in Seq(C), Space \in C
  PROVE  /\ OneLine(t) \in Seq(C \ {NL})
         /\ Contains(OneLine(t), TAB) <=> Contains(t, TAB)
         /\ NoBars(OneLine(t)) <=> NoBars(t)
         /\ EndsInBar(OneLine(t)) <=> EndsInBar(t)
<1> DEFINE o == OneLine(t)
<1>1. /\ Len(o) = Len(t) /\ DOMAIN o = 1..Len(t) /\ Len(t) \in Nat
      /\ \A i \in 1..Len(t) : o[i] = IF t[i] = NL THEN Space ELSE t[i]
  BY OneLineIs
<1>2. Space # TAB /\ Space # "|" /\ Space # NL /\ NL # TAB /\ NL # "|" /\ TAB # "|"
  BY Zenon DEF TAB, NL, Space
<1>3. \A i \in 1..Len(t) : o[i] \in C \ {NL} /\ (o[i] = TAB <=> t[i] = TAB) /\ (o[i] = "|" <=> t[i] = "|")
  BY <1>1, <1>2
<1>4. o = [i \in 1..Len(t) |-> o[i]]
  BY Zenon DEF OneLine, ReplaceAll
<1> HIDE DEF o
<1>5. o \in Seq(C \ {NL})
  BY <1>1, <1>3, <1>4
<1>6. Contains(o, TAB) <=> Contains(t, TAB)
  BY <1>1, <1>3 DEF Contains
<1>7. NoBars(o) <=> NoBars(t)
  <2>1. \A j \in 1..Len(t) - 1 : j \in 1..Len(t) /\ j + 1 \in 1..Len(t)
    BY <1>1
  <2>2. QED
    BY <1>1, <1>3, <2>1 DEF NoBars
<1>8. EndsInBar(o) <=> EndsInBar(t)
  BY <1>1, <1>3 DEF EndsInBar
<1>9. QED
  BY <1>5, <1>6, <1>7, <1>8 DEF o

\* Parts are flattened one by one.
LEMMA OneLineJoin ==
  ASSUME NEW C, NEW a \in Seq(C), NEW b \in Seq(C), Space \in C
  PROVE  OneLine(a \o b) = OneLine(a) \o OneLine(b)
<1> DEFINE t == a \o b
           m == Len(a)
           n == Len(b)
           o == OneLine(t)
           x == OneLine(a)
           y == OneLine(b)
<1>1. /\ t \in Seq(C) /\ Len(t) = m + n /\ m \in Nat /\ n \in Nat
      /\ \A i \in 1..m : t[i] = a[i]
      /\ \A i \in 1..n : t[m + i] = b[i]
  OBVIOUS
<1> HIDE DEF t
<1>2. o \in Seq(C) /\ x \in Seq(C) /\ y \in Seq(C)
  <2>1. o \in Seq(C \ {NL}) /\ x \in Seq(C \ {NL}) /\ y \in Seq(C \ {NL})
    BY <1>1, OneLineKeeps
  <2> HIDE DEF o, x, y
  <2>2. QED
    BY <2>1
<1>3. /\ Len(o) = m + n /\ Len(x) = m /\ Len(y) = n
      /\ \A i \in 1..m + n : o[i] = IF t[i] = NL THEN Space ELSE t[i]
      /\ \A i \in 1..m : x[i] = IF a[i] = NL THEN Space ELSE a[i]
      /\ \A i \in 1..n : y[i] = IF b[i] = NL THEN Space ELSE b[i]
  BY <1>1, OneLineIs
<1> HIDE DEF o, x, y, m, n
<1> DEFINE z == x \o y
<1>4. /\ z \in Seq(C) /\ Len(z) = m + n
      /\ \A i \in 1..m : z[i] = x[i]
      /\ \A i \in 1..n : z[m + i] = y[i]
  <2>1. /\ z \in Seq(C) /\ Len(z) = Len(x) + Len(y)
        /\ \A i \in 1..Len(x) : z[i] = x[i]
        /\ \A i \in 1..Len(y) : z[Len(x) + i] = y[i]
    BY <1>2
  <2> HIDE DEF z
  <2>2. QED
    BY <1>3, <2>1
<1> HIDE DEF z
<1>5. ASSUME NEW i \in 1..m + n PROVE o[i] = z[i]
  <2>1. CASE i \in 1..m
    <3>1. t[i] = a[i] /\ z[i] = x[i]
      BY <1>1, <1>4, <2>1, Zenon
    <3>2. QED
      BY <1>3, <2>1, <3>1, Zenon
  <2>2. CASE i \notin 1..m
    <3> DEFINE j == i - m
    <3>1. j \in 1..n /\ m + j = i
      BY <1>1, <2>2
    <3> HIDE DEF j
    <3>2. t[i] = b[j] /\ z[i] = y[j]
      BY <1>1, <1>4, <3>1
    <3>3. QED
      BY <1>3, <3>1, <3>2
  <2>3. QED
    BY <2>1, <2>2
<1>6. o = z
  BY <1>2, <1>3, <1>4, <1>5, SameElements
<1>7. QED
  BY <1>6 DEF o, x, y, z, t

\* The names of categories and types are read as what they are the names of.
LEMMA CategoryBack ==
  ASSUME NEW c \in Category
  PROVE  category_from_name(<<category_name[c]>>) = c
<1> DEFINE x == category_name[c]
<1>1. Len(<<x>>) = 1 /\ <<x>>[1] = x
  OBVIOUS
<1>2. category_from_name(<<x>>) = IF x \in DOMAIN CategoryByName THEN CategoryByName[x] ELSE "Unknown"
  BY <1>1 DEF category_from_name, Lookup
<1>3. (IF x \in DOMAIN CategoryByName THEN CategoryByName[x] ELSE "Unknown") = c
  BY DEF Category, category_name, CategoryByName
<1>4. QED
  BY <1>2, <1>3

LEMMA TypeBack ==
  ASSUME NEW t \in Type
  PROVE  type_from_name(<<type_name[t]>>) = t
<1> DEFINE x == type_name[t]
<1>1. Len(<<x>>) = 1 /\ <<x>>[1] = x
  OBVIOUS
<1>2. type_from_name(<<x>>) = IF x \in DOMAIN TypeByName THEN TypeByName[x] ELSE "Unknown"
  BY <1>1 DEF type_from_name, Lookup
<1>3. (IF x \in DOMAIN TypeByName THEN TypeByName[x] ELSE "Unknown") = t
  BY DEF Type, type_name, TypeByName
<1>4. QED
  BY <1>2, <1>3

\* So is a time stamp.
LEMMA TimeBack ==
  ASSUME NEW t \in Timestamp
  PROVE  TimeOf(<<Digits[t]>>) = t
<1> DEFINE f == <<Digits[t]>>
<1>1. f # <<>> /\ f[1] = Digits[t]
  OBVIOUS
<1>2. \A u \in Timestamp : Digits[u] = Digits[t] => u = t
  BY DEF Timestamp, Digits
<1>3. TimeOf(f) = CHOOSE u \in Timestamp : f[1] = Digits[u]
  BY <1>1 DEF TimeOf
<1> HIDE DEF f
<1>4. TimeOf(f) \in Timestamp /\ f[1] = Digits[TimeOf(f)]
  BY <1>1, <1>3, Zenon
<1>5. QED
  BY <1>1, <1>2, <1>4 DEF f

\* Two bars in a row, in the words of Clean.
LEMMA BarsAre ==
  ASSUME NEW C, NEW v \in Seq(C)
  PROVE  /\ ~Has(v, <<"|", "|">>) <=> NoBars(v)
         /\ v # <<>> /\ Last(v) = "|" <=> EndsInBar(v)
<1> DEFINE n == Len(v)
           bars == <<"|", "|">>
<1>0. n \in Nat /\ Len(bars) = 2 /\ bars[1] = "|" /\ bars[2] = "|"
  OBVIOUS
<1>1. ASSUME NEW i \in 0..n - 2
      PROVE  SubSeq(v, i + 1, i + 2) = bars <=> v[i + 1] = "|" /\ v[i + 2] = "|"
  <2> DEFINE s == SubSeq(v, i + 1, i + 2)
  <2>1. s \in Seq(C) /\ Len(s) = 2 /\ s[1] = v[i + 1] /\ s[2] = v[i + 2]
    BY <1>0
  <2> HIDE DEF s
  <2>2. s[1] = "|" /\ s[2] = "|" => s = bars
    BY <2>1
  <2>3. QED
    BY <1>0, <2>1, <2>2 DEF s
<1>2. Has(v, bars) <=> \E i \in 0..n - 2 : SubSeq(v, i + 1, i + 2) = bars
  BY <1>0 DEF Has
<1> HIDE DEF bars
<1>3. NoBars(v) <=> ~\E i \in 0..n - 2 : v[i + 1] = "|" /\ v[i + 2] = "|"
  <2>1. ASSUME NEW i \in 0..n - 2 PROVE i + 1 \in 1..n - 1 /\ i + 1 + 1 = i + 2
    BY <1>0
  <2>2. ASSUME NEW j \in 1..n - 1 PROVE j - 1 \in 0..n - 2 /\ j - 1 + 1 = j /\ j - 1 + 2 = j + 1
    BY <1>0
  <2>3. ASSUME NoBars(v), NEW i \in 0..n - 2, v[i + 1] = "|", v[i + 2] = "|" PROVE FALSE
    BY <2>1, <2>3 DEF NoBars
  <2>4. ASSUME ~NoBars(v) PROVE \E i \in 0..n - 2 : v[i + 1] = "|" /\ v[i + 2] = "|"
    <3>1. PICK j \in 1..n - 1 : v[j] = "|" /\ v[j + 1] = "|"
      BY <2>4 DEF NoBars
    <3>2. QED
      BY <2>2, <3>1
  <2>5. QED
    BY <2>3, <2>4
<1>4. ~Has(v, bars) <=> NoBars(v)
  BY <1>1, <1>2, <1>3
<1>5. v # <<>> /\ Last(v) = "|" <=> EndsInBar(v)
  <2>1. v # <<>> <=> n > 0
    BY <1>0
  <2>2. QED
    BY <2>1 DEF Last, EndsInBar
<1>6. QED
  BY <1>4, <1>5 DEF bars

\* The symbols the attributes' text is written with.
Words == {Space, "=", "|", "new_value", "old_value"}
NewKey == <<"new_value">>
OldKey == <<"old_value">>

\* Texts with no line break are left alone.
LEMMA OneLinePlain ==
  ASSUME NEW C, NEW t \in Seq(C), Space \in C, \A i \in 1..Len(t) : t[i] # NL
  PROVE  OneLine(t) = t
<1>1. OneLine(t) \in Seq(C)
  <2>1. OneLine(t) \in Seq(C \ {NL})
    BY OneLineKeeps
  <2>2. QED
    BY <2>1
<1>2. Len(OneLine(t)) = Len(t) /\ \A i \in 1..Len(t) : OneLine(t)[i] = t[i]
  BY OneLineIs
<1>3. QED
  BY <1>1, <1>2, SameElements

\* One attribute flattened.
LEMMA OneLinePair ==
  ASSUME NEW C, Words \subseteq C, NEW word \in {"new_value", "old_value"}, NEW v \in Seq(C)
  PROVE  /\ <<word>> \o <<"=">> \o v \in Seq(C)
         /\ OneLine(<<word>> \o <<"=">> \o v) = <<word, "=">> \o OneLine(v)
<1>1. word \in C /\ "=" \in C /\ Space \in C
  BY Zenon DEF Words
<1>2. <<word>> \o <<"=">> = <<word, "=">>
  BY <1>1, JoinTwo
<1>3. <<word, "=">> \in Seq(C)
  BY <1>1
<1>4. word # NL /\ "=" # NL
  BY DEF NL
<1>5. OneLine(<<word, "=">>) = <<word, "=">>
  <2> DEFINE t == <<word, "=">>
  <2>1. \A i \in 1..Len(t) : t[i] # NL
    BY <1>4
  <2> HIDE DEF t
  <2>2. OneLine(t) = t
    BY <1>1, <1>3, <2>1, OneLinePlain DEF t
  <2>3. QED
    BY <2>2 DEF t
<1>6. OneLine(<<word, "=">> \o v) = <<word, "=">> \o OneLine(v)
  BY <1>1, <1>3, <1>5, OneLineJoin
<1> DEFINE head == <<word, "=">>
<1>7. head \o v \in Seq(C)
  <2> HIDE DEF head
  <2>1. QED
    BY <1>3 DEF head
<1>8. QED
  BY <1>2, <1>6, <1>7

\* The attributes are functions of the keys.
Attributes(C) == UNION {[D -> Seq(C)] : D \in SUBSET {NewKey, OldKey}}

\* The text of the attributes, flattened, for each set of keys.
LEMMA AttributesText ==
  ASSUME NEW C, Words \subseteq C, NEW at \in Attributes(C)
  PROVE  LET t == OneLine(AttributesLine(at))
         IN  /\ AttributesLine(at) \in Seq(C)
             /\ NewKey \in DOMAIN at /\ OldKey \in DOMAIN at =>
                  t = Two("new_value", OneLine(at[NewKey]), "old_value", OneLine(at[OldKey]))
             /\ NewKey \in DOMAIN at /\ OldKey \notin DOMAIN at =>
                  t = <<"new_value", "=">> \o OneLine(at[NewKey])
             /\ NewKey \notin DOMAIN at /\ OldKey \in DOMAIN at =>
                  t = <<"old_value", "=">> \o OneLine(at[OldKey])
             /\ NewKey \notin DOMAIN at /\ OldKey \notin DOMAIN at => t = <<>>
<1> DEFINE D == DOMAIN at
           Pair(k) == IF k \in D THEN k \o <<"=">> \o at[k] ELSE <<>>
           bar == IF NewKey \in D /\ OldKey \in D THEN <<"|", "|">> ELSE <<>>
           p == Pair(NewKey)
           q == Pair(OldKey)
<1>1. D \subseteq {NewKey, OldKey} /\ \A k \in D : at[k] \in Seq(C)
  BY DEF Attributes
<1>2. AttributesLine(at) = p \o bar \o q
  <2>1. Keys[1] = NewKey /\ Keys[2] = OldKey
    BY DEF Keys, NewKey, OldKey
  <2>2. ToSet(Keys) \subseteq D <=> NewKey \in D /\ OldKey \in D
    <3>1. ToSet(Keys) = {NewKey, OldKey}
      BY DEF ToSet, Keys, NewKey, OldKey
    <3>2. QED
      BY <3>1
  <2> HIDE DEF D
  <2>3. QED
    BY <2>1, <2>2, Zenon DEF AttributesLine, D
<1>3. Space \in C /\ "|" \in C
  BY Zenon DEF Words
<1>4. /\ NewKey \in D => p \in Seq(C) /\ OneLine(p) = <<"new_value", "=">> \o OneLine(at[NewKey])
      /\ OldKey \in D => q \in Seq(C) /\ OneLine(q) = <<"old_value", "=">> \o OneLine(at[OldKey])
  <2>1. NewKey \in D => p = <<"new_value">> \o <<"=">> \o at[NewKey]
    BY DEF NewKey
  <2>2. OldKey \in D => q = <<"old_value">> \o <<"=">> \o at[OldKey]
    BY DEF OldKey
  <2> HIDE DEF p, q, D
  <2>3. QED
    BY <1>1, <2>1, <2>2, OneLinePair
<1>5. NewKey \notin D => p = <<>>
  OBVIOUS
<1>6. OldKey \notin D => q = <<>>
  OBVIOUS
<1>7. /\ <<"|", "|">> \in Seq(C) /\ OneLine(<<"|", "|">>) = <<"|", "|">>
      /\ <<>> \in Seq(C) /\ OneLine(<<>>) = <<>>
  <2>1. "|" # NL
    BY DEF NL
  <2> DEFINE s == <<"|", "|">>
  <2>2. s \in Seq(C) /\ \A i \in 1..Len(s) : s[i] # NL
    BY <1>3, <2>1
  <2> HIDE DEF s
  <2>3. OneLine(s) = s
    BY <1>3, <2>2, OneLinePlain
  <2>4. <<>> \in Seq(C) /\ \A i \in 1..Len(<<>>) : <<>>[i] # NL
    OBVIOUS
  <2>5. OneLine(<<>>) = <<>>
    BY <1>3, <2>4, OneLinePlain
  <2>6. QED
    BY <2>2, <2>3, <2>4, <2>5 DEF s
<1>8. p \in Seq(C) /\ q \in Seq(C) /\ bar \in Seq(C)
  <2> HIDE DEF p, q
  <2>1. QED
    BY <1>4, <1>5, <1>6, <1>7
<1>9. bar = IF NewKey \in D /\ OldKey \in D THEN <<"|", "|">> ELSE <<>>
  OBVIOUS
<1> HIDE DEF p, q, bar
<1>10. AttributesLine(at) \in Seq(C)
  BY <1>2, <1>8
<1>11. OneLine(AttributesLine(at)) = OneLine(p) \o OneLine(bar) \o OneLine(q)
  <2>1. p \o bar \in Seq(C)
    BY <1>8
  <2>2. OneLine(p \o bar \o q) = OneLine(p \o bar) \o OneLine(q)
    BY <1>3, <1>8, <2>1, OneLineJoin
  <2>3. OneLine(p \o bar) = OneLine(p) \o OneLine(bar)
    BY <1>3, <1>8, OneLineJoin
  <2>4. QED
    BY <1>2, <2>2, <2>3
<1>12. \A k \in D : OneLine(at[k]) \in Seq(C)
  <2> SUFFICES ASSUME NEW k \in D PROVE OneLine(at[k]) \in Seq(C)
    OBVIOUS
  <2>1. OneLine(at[k]) \in Seq(C \ {NL})
    BY <1>1, <1>3, OneLineKeeps
  <2>2. QED
    BY <2>1
<1> DEFINE t == OneLine(AttributesLine(at))
           v == OneLine(at[NewKey])
           w == OneLine(at[OldKey])
<1>13. ASSUME NewKey \in D, OldKey \in D
       PROVE  t = Two("new_value", v, "old_value", w)
  <2>1. v \in Seq(C) /\ w \in Seq(C)
    BY <1>12, <1>13
  <2>2. t = (<<"new_value", "=">> \o v) \o <<"|", "|">> \o (<<"old_value", "=">> \o w)
    BY <1>4, <1>7, <1>9, <1>11, <1>13
  <2> HIDE DEF t, v, w
  <2>3. <<"|", "|">> \o (<<"old_value", "=">> \o w) = <<"|", "|", "old_value", "=">> \o w
    BY <2>1, <1>3, JoinFour
  <2>4. <<"new_value", "=">> \o v \in Seq(C) /\ <<"old_value", "=">> \o w \in Seq(C)
    <3>1. {"new_value", "=", "old_value"} \subseteq C
      BY Zenon DEF Words
    <3>2. QED
      BY <2>1, <3>1
  <2>5. t = (<<"new_value", "=">> \o v) \o (<<"|", "|">> \o (<<"old_value", "=">> \o w))
    BY <1>7, <2>2, <2>4, JoinAssoc
  <2>6. QED
    BY <2>3, <2>5 DEF Two
<1>14. ASSUME NewKey \in D, OldKey \notin D
       PROVE  t = <<"new_value", "=">> \o v
  <2>1. v \in Seq(C) /\ <<"new_value", "=">> \o v \in Seq(C)
    <3>1. {"new_value", "="} \subseteq C
      BY Zenon DEF Words
    <3>2. v \in Seq(C)
      BY <1>12, <1>14
    <3> HIDE DEF v
    <3>3. QED
      BY <3>1, <3>2
  <2>2. t = (<<"new_value", "=">> \o v) \o <<>> \o <<>>
    BY <1>4, <1>6, <1>7, <1>9, <1>11, <1>14
  <2> HIDE DEF t, v
  <2>3. QED
    BY <2>1, <2>2
<1>15. ASSUME NewKey \notin D, OldKey \in D
       PROVE  t = <<"old_value", "=">> \o w
  <2>1. w \in Seq(C) /\ <<"old_value", "=">> \o w \in Seq(C)
    <3>1. {"old_value", "="} \subseteq C
      BY Zenon DEF Words
    <3>2. w \in Seq(C)
      BY <1>12, <1>15
    <3> HIDE DEF w
    <3>3. QED
      BY <3>1, <3>2
  <2>2. t = <<>> \o <<>> \o (<<"old_value", "=">> \o w)
    BY <1>4, <1>5, <1>7, <1>9, <1>11, <1>15
  <2> HIDE DEF t, w
  <2>3. QED
    BY <2>1, <2>2
<1>16. ASSUME NewKey \notin D, OldKey \notin D
       PROVE  t = <<>>
  <2>1. t = <<>> \o <<>> \o <<>>
    BY <1>5, <1>6, <1>7, <1>9, <1>11, <1>16
  <2>2. QED
    BY <2>1
<1>17. QED
  BY <1>10, <1>13, <1>14, <1>15, <1>16

\* The attributes whose values hold no two bars in a row, and none that ends
\* in a bar before another.
CleanValues(at) ==
  /\ \A k \in DOMAIN at : NoBars(at[k])
  /\ NewKey \in DOMAIN at /\ OldKey \in DOMAIN at => ~EndsInBar(at[NewKey])

\* Just these are read back, with their line breaks made spaces.
LEMMA AttributesBack ==
  ASSUME NEW C, Words \subseteq C, NEW at \in Attributes(C)
  PROVE  ParseAttributes(OneLine(AttributesLine(at))) = [k \in DOMAIN at |-> OneLine(at[k])]
           <=> CleanValues(at)
<1> DEFINE D == DOMAIN at
           t == OneLine(AttributesLine(at))
           flat == [k \in D |-> OneLine(at[k])]
           v == OneLine(at[NewKey])
           w == OneLine(at[OldKey])
<1>1. D \subseteq {NewKey, OldKey} /\ \A k \in D : at[k] \in Seq(C)
  BY DEF Attributes
<1>2. /\ AttributesLine(at) \in Seq(C)
      /\ NewKey \in D /\ OldKey \in D => t = Two("new_value", v, "old_value", w)
      /\ NewKey \in D /\ OldKey \notin D => t = <<"new_value", "=">> \o v
      /\ NewKey \notin D /\ OldKey \in D => t = <<"old_value", "=">> \o w
      /\ NewKey \notin D /\ OldKey \notin D => t = <<>>
  BY AttributesText, Zenon
<1>3. Space \in C /\ "|" \in C /\ "=" \in C /\ "new_value" \in C /\ "old_value" \in C
  BY Zenon DEF Words
<1>4. \A k \in D : /\ OneLine(at[k]) \in Seq(C)
                   /\ NoBars(OneLine(at[k])) <=> NoBars(at[k])
                   /\ EndsInBar(OneLine(at[k])) <=> EndsInBar(at[k])
  <2> SUFFICES ASSUME NEW k \in D
               PROVE  /\ OneLine(at[k]) \in Seq(C)
                      /\ NoBars(OneLine(at[k])) <=> NoBars(at[k])
                      /\ EndsInBar(OneLine(at[k])) <=> EndsInBar(at[k])
    OBVIOUS
  <2>1. /\ OneLine(at[k]) \in Seq(C \ {NL})
        /\ NoBars(OneLine(at[k])) <=> NoBars(at[k])
        /\ EndsInBar(OneLine(at[k])) <=> EndsInBar(at[k])
    BY <1>1, <1>3, OneLineKeeps
  <2>2. OneLine(at[k]) \in Seq(C)
    BY <2>1
  <2>3. QED
    BY <2>1, <2>2
<1>5. NewKey # OldKey /\ NewKey = <<"new_value">> /\ OldKey = <<"old_value">>
  BY DEF NewKey, OldKey
<1>6. /\ "new_value" \notin {"|", "="} /\ "old_value" \notin {"|", "="} /\ "new_value" # "old_value"
      /\ "new_value" # "|" /\ "new_value" # "=" /\ "old_value" # "|" /\ "old_value" # "="
  OBVIOUS
<1>7. t \in Seq(C)
  <2>1. t \in Seq(C \ {NL})
    BY <1>2, <1>3, OneLineKeeps
  <2> HIDE DEF t
  <2>2. QED
    BY <2>1
<1>8. flat[NewKey] = v \/ NewKey \notin D
  OBVIOUS
<1> HIDE DEF t, v, w
<1>9. ASSUME CleanValues(at) PROVE ParseAttributes(t) = flat
  <2>1. CASE NewKey \in D /\ OldKey \in D
    <3>1. v \in Seq(C) /\ w \in Seq(C) /\ NoBars(v) /\ NoBars(w) /\ ~EndsInBar(v)
      BY <1>4, <1>9, <2>1 DEF CleanValues, v, w
    <3>2. ParseAttributes(Two("new_value", v, "old_value", w)) =
            [k \in {NewKey, OldKey} |-> IF k = OldKey THEN w ELSE v]
      <4>1. TwoRead("new_value", v, "old_value", w)
        BY <1>3, <1>6, <3>1, TwoAttributes
      <4>2. QED
        BY <4>1, Zenon DEF TwoRead, NewKey, OldKey
    <3>3. D = {NewKey, OldKey}
      BY <1>1, <2>1
    <3>4. flat = [k \in {NewKey, OldKey} |-> IF k = OldKey THEN w ELSE v]
      BY <1>5, <3>3 DEF v, w
    <3>5. QED
      BY <1>2, <2>1, <3>2, <3>4
  <2>2. CASE NewKey \in D /\ OldKey \notin D
    <3>1. v \in Seq(C) /\ NoBars(v)
      BY <1>4, <1>9, <2>2 DEF CleanValues, v
    <3>2. ParseAttributes(<<"new_value", "=">> \o v) = [k \in {NewKey} |-> v]
      <4>1. OneRead("new_value", v)
        BY <1>3, <1>6, <3>1, OneAttribute
      <4>2. QED
        BY <4>1, Zenon DEF OneRead, NewKey
    <3>3. D = {NewKey}
      BY <1>1, <2>2
    <3>4. flat = [k \in {NewKey} |-> v]
      BY <3>3 DEF v
    <3>5. QED
      BY <1>2, <2>2, <3>2, <3>4
  <2>3. CASE NewKey \notin D /\ OldKey \in D
    <3>1. w \in Seq(C) /\ NoBars(w)
      BY <1>4, <1>9, <2>3 DEF CleanValues, w
    <3>2. ParseAttributes(<<"old_value", "=">> \o w) = [k \in {OldKey} |-> w]
      <4>1. OneRead("old_value", w)
        BY <1>3, <1>6, <3>1, OneAttribute
      <4>2. QED
        BY <4>1, Zenon DEF OneRead, OldKey
    <3>3. D = {OldKey}
      BY <1>1, <2>3
    <3>4. flat = [k \in {OldKey} |-> w]
      BY <3>3 DEF w
    <3>5. QED
      BY <1>2, <2>3, <3>2, <3>4
  <2>4. CASE NewKey \notin D /\ OldKey \notin D
    <3>1. t = <<>> /\ D = {}
      BY <1>1, <1>2, <2>4
    <3> DEFINE end == ReadLoop(t)[Len(t)]
    <3>2. end = NothingRead
      <4>1. ReadLoop(t)[0] = NothingRead
        BY <1>7, ReadLoopIs
      <4>2. Len(t) = 0
        BY <3>1
      <4>3. QED
        BY <4>1, <4>2
    <3>3. ParseAttributes(t) = IF end.key = <<>> THEN end.map ELSE Put(end.map, end.key, end.cur)
      BY ParseLoop, Zenon
    <3>4. end.key = <<>> /\ end.map = <<>>
      BY <3>2 DEF NothingRead
    <3>5. ParseAttributes(t) = <<>>
      BY <3>3, <3>4, Zenon
    <3>6. flat = <<>>
      BY <3>1
    <3>7. QED
      BY <3>5, <3>6
  <2>5. QED
    BY <2>1, <2>2, <2>3, <2>4
<1>10. ASSUME ParseAttributes(t) = flat PROVE CleanValues(at)
  <2>1. \A k \in D : NoBars(flat[k])
    <3>1. \A k \in DOMAIN flat : NoBars(flat[k])
      BY <1>7, <1>10, ValuesRead
    <3>2. QED
      BY <3>1
  <2>2. \A k \in D : NoBars(at[k])
    BY <1>4, <2>1
  <2>3. ASSUME NewKey \in D, OldKey \in D, EndsInBar(at[NewKey]) PROVE FALSE
    <3>1. v \in Seq(C) /\ w \in Seq(C) /\ NoBars(v) /\ EndsInBar(v)
      BY <1>4, <2>2, <2>3 DEF v, w
    <3>2. <<"|", "old_value">> \in DOMAIN ParseAttributes(Two("new_value", v, "old_value", w))
      BY <1>3, <1>6, <3>1, BarKey
    <3>3. <<"|", "old_value">> \in D
      BY <1>2, <1>10, <2>3, <3>2
    <3>4. <<"|", "old_value">> \in {NewKey, OldKey}
      BY <1>1, <3>3
    <3>5. Len(<<"|", "old_value">>) = 2 /\ Len(NewKey) = 1 /\ Len(OldKey) = 1
      BY DEF NewKey, OldKey
    <3>6. QED
      BY <3>4, <3>5
  <2>4. QED
    BY <2>2, <2>3 DEF CleanValues
<1>11. QED
  BY <1>9, <1>10 DEF t

\* One text after another.
Glue(a, b) == a \o b

\* It is a text, and it does not matter which two are put together first.
LEMMA GlueIs ==
  ASSUME NEW C
  PROVE  /\ \A a, b \in Seq(C) : Glue(a, b) \in Seq(C)
         /\ \A a, b, c \in Seq(C) : Glue(Glue(a, b), c) = Glue(a, Glue(b, c))
<1>1. ASSUME NEW a \in Seq(C), NEW b \in Seq(C) PROVE a \o b \in Seq(C)
  OBVIOUS
<1>2. ASSUME NEW a \in Seq(C), NEW b \in Seq(C), NEW c \in Seq(C)
      PROVE  (a \o b) \o c = a \o (b \o c)
  OBVIOUS
<1>3. QED
  BY <1>1, <1>2, Zenon DEF Glue

\* A field and its tab, before the rest of the line.
Tab == <<TAB>>
Field(f, rest) == Glue(Glue(f, Tab), rest)

\* A field is a text, and cut off again.
LEMMA FieldCut ==
  ASSUME NEW C, TAB \in C, NEW f \in Seq(C), NEW rest \in Seq(C)
  PROVE  /\ Field(f, rest) \in Seq(C)
         /\ ~Contains(f, TAB) => Split(Field(f, rest)) = <<f>> \o Split(rest)
<1>1. Tab \in Seq(C)
  BY DEF Tab
<1>2. Field(f, rest) \in Seq(C)
  BY <1>1, GlueIs DEF Field
<1>3. Field(f, rest) = f \o <<TAB>> \o rest
  BY Zenon DEF Field, Glue, Tab
<1>4. ASSUME ~Contains(f, TAB) PROVE Split(f \o <<TAB>> \o rest) = <<f>> \o Split(rest)
  BY <1>4, SplitOff
<1>5. QED
  BY <1>2, <1>3, <1>4, Zenon

\* Fields behind a text.
LEMMA FieldBehind ==
  ASSUME NEW C, TAB \in C, NEW w \in Seq(C), NEW f \in Seq(C), NEW r \in Seq(C)
  PROVE  Glue(Glue(Glue(w, f), Tab), r) = Glue(w, Field(f, r))
<1>1. Tab \in Seq(C)
  BY DEF Tab
<1>2. Glue(Glue(w, f), Tab) = Glue(w, Glue(f, Tab)) /\ Glue(f, Tab) \in Seq(C)
  BY <1>1, GlueIs
<1>3. Glue(Glue(w, Glue(f, Tab)), r) = Glue(w, Glue(Glue(f, Tab), r))
  BY <1>2, GlueIs
<1>4. QED
  BY <1>2, <1>3, Zenon DEF Field

\* A symbol and a tab.
LEMMA GlueTab ==
  ASSUME NEW C, TAB \in C, NEW a \in C
  PROVE  <<a, TAB>> = Glue(<<a>>, Tab)
BY JoinTwo DEF Glue, Tab

\* The line as serialize_event writes it, and as nine fields.
OneText(a, b, c, s, t, h, p, v, m) ==
  <<a, TAB, b, TAB, c, TAB>> \o s \o <<TAB>> \o t \o <<TAB, h, TAB, p, TAB>> \o v \o <<TAB>> \o m
NineFields(a, b, c, s, t, h, p, v, m) ==
  Field(a, Field(b, Field(c, Field(s, Field(t, Field(h, Field(p, Field(v, m))))))))
SameLine(a, b, c, s, t, h, p, v, m) ==
  OneText(a, b, c, s, t, h, p, v, m) = NineFields(<<a>>, <<b>>, <<c>>, s, t, <<h>>, <<p>>, v, m)

\* They are the same.
LEMMA LineFields ==
  ASSUME NEW C, TAB \in C, NEW a \in C, NEW b \in C, NEW c \in C, NEW h \in C, NEW p \in C,
         NEW s \in Seq(C), NEW t \in Seq(C), NEW v \in Seq(C), NEW m \in Seq(C)
  PROVE  SameLine(a, b, c, s, t, h, p, v, m)
<1> DEFINE one == <<a, TAB, b, TAB, c, TAB>>
           two == <<TAB, h, TAB, p, TAB>>
           aa == <<a>>
           bb == <<b>>
           cc == <<c>>
           hh == <<h>>
           pp == <<p>>
<1>1. one \in Seq(C) /\ two \in Seq(C) /\ Tab \in Seq(C)
  BY DEF Tab
<1>2. aa \in Seq(C) /\ bb \in Seq(C) /\ cc \in Seq(C) /\ hh \in Seq(C) /\ pp \in Seq(C)
  OBVIOUS
<1>3. one = Glue(Glue(aa, Tab), Glue(Glue(bb, Tab), Glue(cc, Tab)))
  <2>1. one = <<a, TAB>> \o (<<b, TAB>> \o <<c, TAB>>)
    OBVIOUS
  <2>2. one = Glue(<<a, TAB>>, Glue(<<b, TAB>>, <<c, TAB>>))
    BY <2>1, Zenon DEF Glue
  <2>3. <<a, TAB>> = Glue(<<a>>, Tab) /\ <<b, TAB>> = Glue(<<b>>, Tab) /\ <<c, TAB>> = Glue(<<c>>, Tab)
    BY GlueTab
  <2>4. QED
    BY <2>2, <2>3, Zenon
<1>4. two = Glue(Tab, Glue(Glue(hh, Tab), Glue(pp, Tab)))
  <2>1. two = <<TAB>> \o (<<h, TAB>> \o <<p, TAB>>)
    OBVIOUS
  <2>2. two = Glue(Tab, Glue(<<h, TAB>>, <<p, TAB>>))
    BY <2>1, Zenon DEF Glue, Tab
  <2>3. <<h, TAB>> = Glue(<<h>>, Tab) /\ <<p, TAB>> = Glue(<<p>>, Tab)
    BY GlueTab
  <2>4. QED
    BY <2>2, <2>3, Zenon
<1> DEFINE w == Glue(Glue(Glue(one, s), Tab), t)
<1>5. one \o s \o <<TAB>> \o t \o two \o v \o <<TAB>> \o m = Glue(Glue(Glue(Glue(w, two), v), Tab), m)
  BY Zenon DEF Glue, Tab
<1> HIDE DEF one, two, aa, bb, cc, hh, pp, w
<1>6. w \in Seq(C) /\ Glue(w, two) \in Seq(C) /\ Glue(w, Tab) \in Seq(C)
  BY <1>1, GlueIs DEF w
<1> DEFINE last == Field(v, m)
           back == Field(hh, Field(pp, last))
           mid == Field(s, Field(t, back))
<1>7. /\ last \in Seq(C) /\ Field(pp, last) \in Seq(C) /\ back \in Seq(C)
      /\ Field(t, back) \in Seq(C) /\ mid \in Seq(C)
  BY <1>2, FieldCut
<1>8. Glue(Glue(Glue(Glue(w, two), v), Tab), m) = Glue(Glue(w, two), last)
  BY <1>6, FieldBehind
<1> HIDE DEF last
<1>9. Glue(Glue(w, two), last) = Glue(Glue(w, Tab), back)
  <2> DEFINE x == Glue(hh, Tab)
             y == Glue(pp, Tab)
  <2>1. /\ x \in Seq(C) /\ y \in Seq(C) /\ Glue(x, y) \in Seq(C)
        /\ Glue(y, last) \in Seq(C) /\ Glue(x, Glue(y, last)) \in Seq(C)
    BY <1>1, <1>2, <1>7, GlueIs
  <2>2. back = Glue(x, Glue(y, last))
    BY Zenon DEF Field
  <2> HIDE DEF x, y, back
  <2>3. Glue(w, two) = Glue(Glue(w, Tab), Glue(x, y))
    BY <1>1, <1>4, <1>6, <2>1, GlueIs DEF x, y
  <2>4. Glue(Glue(Glue(w, Tab), Glue(x, y)), last) = Glue(Glue(w, Tab), Glue(Glue(x, y), last))
    BY <1>6, <1>7, <2>1, GlueIs, SMTT(30)
  <2>5. Glue(Glue(x, y), last) = Glue(x, Glue(y, last))
    BY <1>7, <2>1, GlueIs
  <2>6. QED
    BY <2>2, <2>3, <2>4, <2>5, Zenon
<1> HIDE DEF back
<1>10. Glue(Glue(w, Tab), back) = Glue(one, mid)
  <2> DEFINE x == Glue(Glue(one, s), Tab)
  <2>1. x \in Seq(C)
    BY <1>1, GlueIs
  <2>2. w = Glue(x, t)
    BY Zenon DEF w
  <2> HIDE DEF x
  <2>3. Glue(Glue(Glue(x, t), Tab), back) = Glue(x, Field(t, back))
    BY <1>7, <2>1, FieldBehind
  <2>4. Glue(x, Field(t, back)) = Glue(one, mid)
    BY <1>1, <1>7, FieldBehind DEF x
  <2>5. QED
    BY <2>2, <2>3, <2>4, Zenon
<1> HIDE DEF mid
<1>11. Glue(one, mid) = Field(aa, Field(bb, Field(cc, mid)))
  <2> DEFINE x == Glue(aa, Tab)
             y == Glue(bb, Tab)
             z == Glue(cc, Tab)
  <2>1. x \in Seq(C) /\ y \in Seq(C) /\ z \in Seq(C) /\ Glue(y, z) \in Seq(C)
    BY <1>1, <1>2, GlueIs
  <2>2. Field(aa, Field(bb, Field(cc, mid))) = Glue(x, Glue(y, Glue(z, mid)))
    BY Zenon DEF Field
  <2>3. one = Glue(x, Glue(y, z))
    BY <1>3, Zenon
  <2> HIDE DEF x, y, z
  <2>4. Glue(Glue(x, Glue(y, z)), mid) = Glue(x, Glue(Glue(y, z), mid))
    BY <1>7, <2>1, GlueIs
  <2>5. Glue(Glue(y, z), mid) = Glue(y, Glue(z, mid))
    BY <1>7, <2>1, GlueIs
  <2>6. QED
    BY <2>2, <2>3, <2>4, <2>5, Zenon
<1>12. QED
  BY <1>5, <1>8, <1>9, <1>10, <1>11, Zenon
  DEF SameLine, OneText, NineFields, one, two, aa, bb, cc, hh, pp, mid, back, last

\* Attributes are read from a text with its symbols.
LEMMA ParseType ==
  ASSUME NEW C, NEW text \in Seq(C)
  PROVE  ParseAttributes(text) \in Maps(C)
<1> DEFINE x == ReadLoop(text)[Len(text)]
<1>1. Len(text) \in 0..Len(text)
  OBVIOUS
<1>2. x \in Reading(C)
  BY <1>1, ReadLoopIs
<1> HIDE DEF x
<1>3. x.map \in Maps(C) /\ x.key \in Seq(C) /\ x.cur \in Seq(C)
  BY <1>2 DEF Reading
<1>4. Put(x.map, x.key, x.cur) \in Maps(C)
  BY <1>3, PutType
<1>5. ParseAttributes(text) = IF x.key = <<>> THEN x.map ELSE Put(x.map, x.key, x.cur)
  BY ParseLoop, Zenon DEF x
<1>6. QED
  BY <1>3, <1>4, <1>5, Zenon

\* What a text without a symbol is made of.
LEMMA TextWithout ==
  ASSUME NEW C, NEW t \in Seq(C), NEW x
  PROVE  ~Contains(t, x) <=> t \in Seq(C \ {x})
<1>1. ASSUME ~Contains(t, x) PROVE t \in Seq(C \ {x})
  <2>1. \A i \in 1..Len(t) : t[i] \in C \ {x}
    BY <1>1 DEF Contains
  <2>2. QED
    BY <2>1
<1>2. ASSUME t \in Seq(C \ {x}) PROVE ~Contains(t, x)
  <2>1. \A i \in 1..Len(t) : t[i] \in C \ {x}
    BY <1>2
  <2>2. QED
    BY <2>1 DEF Contains
<1>3. QED
  BY <1>1, <1>2

\* One token before the others.
TokenBefore(f, r, t) ==
  /\ Len(r) \in Nat /\ Len(t) = Len(r) + 1 /\ t[1] = f
  /\ \A j \in 1..Len(r) : t[j + 1] = r[j]

\* A field's token stands before those of the rest.
LEMMA FieldTokens ==
  ASSUME NEW C, TAB \in C, NEW f \in Seq(C \ {TAB}), NEW rest \in Seq(C)
  PROVE  /\ Field(f, rest) \in Seq(C)
         /\ TokenBefore(f, Split(rest), Split(Field(f, rest)))
<1>1. f \in Seq(C)
  OBVIOUS
<1>2. ~Contains(f, TAB)
  BY <1>1, TextWithout
<1> DEFINE S == Seq(C \ {TAB})
           r == Split(rest)
           t == Split(Field(f, rest))
<1>3. r \in Seq(S)
  BY SplitType
<1>4. t = <<f>> \o r /\ Field(f, rest) \in Seq(C)
  BY <1>1, <1>2, FieldCut
<1>5. f \in S
  OBVIOUS
<1> HIDE DEF S, r, t
<1>6. TokenBefore(f, r, t)
  BY <1>3, <1>4, <1>5 DEF TokenBefore
<1>7. QED
  BY <1>4, <1>6 DEF r, t

\* Nine texts of the same symbols.
Fit(C, a, b, c, s, t, h, p, v, m) ==
  /\ a \in Seq(C) /\ b \in Seq(C) /\ c \in Seq(C) /\ s \in Seq(C) /\ t \in Seq(C)
  /\ h \in Seq(C) /\ p \in Seq(C) /\ v \in Seq(C) /\ m \in Seq(C)

\* The tokens that parse_event takes from nine fields.
NineRead(tokens, a, b, c, s, t, v, m) ==
  /\ Len(tokens) = 9 /\ tokens[1] = a /\ tokens[2] = b /\ tokens[3] = c /\ tokens[4] = s
  /\ tokens[5] = t /\ tokens[8] = v /\ tokens[9] = m

\* Nine fields are cut into nine tokens.
LEMMA NineTokens ==
  ASSUME NEW C, TAB \in C, NEW a, NEW b, NEW c, NEW s, NEW t, NEW h, NEW p, NEW v, NEW m,
         Fit(C \ {TAB}, a, b, c, s, t, h, p, v, m)
  PROVE  NineRead(Split(NineFields(a, b, c, s, t, h, p, v, m)), a, b, c, s, t, v, m)
<1> DEFINE tokens == Split(NineFields(a, b, c, s, t, h, p, v, m))
<1>0. /\ a \in Seq(C \ {TAB}) /\ b \in Seq(C \ {TAB}) /\ c \in Seq(C \ {TAB})
      /\ s \in Seq(C \ {TAB}) /\ t \in Seq(C \ {TAB}) /\ h \in Seq(C \ {TAB})
      /\ p \in Seq(C \ {TAB}) /\ v \in Seq(C \ {TAB}) /\ m \in Seq(C \ {TAB})
  BY DEF Fit
<1> DEFINE r2 == Field(v, m)
           r3 == Field(p, r2)
           r4 == Field(h, r3)
           r5 == Field(t, r4)
           r6 == Field(s, r5)
           r7 == Field(c, r6)
           r8 == Field(b, r7)
           r9 == Field(a, r8)
           x1 == Split(m)
           x2 == Split(r2)
           x3 == Split(r3)
           x4 == Split(r4)
           x5 == Split(r5)
           x6 == Split(r6)
           x7 == Split(r7)
           x8 == Split(r8)
<1>1. m \in Seq(C)
  BY <1>0
<1>2. Split(m) = <<m>>
  BY <1>0, <1>1, TextWithout, SplitPlain
<1>3. Len(x1) = 1 /\ x1[1] = m
  BY <1>2
<1>4. tokens = Split(r9)
  BY Zenon DEF NineFields
<1> HIDE DEF tokens
<1>5. r2 \in Seq(C) /\ TokenBefore(v, x1, x2)
  BY <1>0, <1>1, FieldTokens
<1> HIDE DEF r2
<1>6. r3 \in Seq(C) /\ TokenBefore(p, x2, x3)
  BY <1>0, <1>5, FieldTokens
<1> HIDE DEF r3
<1>7. r4 \in Seq(C) /\ TokenBefore(h, x3, x4)
  BY <1>0, <1>6, FieldTokens
<1> HIDE DEF r4
<1>8. r5 \in Seq(C) /\ TokenBefore(t, x4, x5)
  BY <1>0, <1>7, FieldTokens
<1> HIDE DEF r5
<1>9. r6 \in Seq(C) /\ TokenBefore(s, x5, x6)
  BY <1>0, <1>8, FieldTokens
<1> HIDE DEF r6
<1>10. r7 \in Seq(C) /\ TokenBefore(c, x6, x7)
  BY <1>0, <1>9, FieldTokens
<1> HIDE DEF r7
<1>11. r8 \in Seq(C) /\ TokenBefore(b, x7, x8)
  BY <1>0, <1>10, FieldTokens
<1> HIDE DEF r8
<1>12. TokenBefore(a, x8, tokens)
  BY <1>0, <1>4, <1>11, FieldTokens
<1> HIDE DEF x1, x2, x3, x4, x5, x6, x7, x8
<1>13. Len(x2) = 2 /\ x2[1] = v /\ x2[2] = m
  BY <1>3, <1>5 DEF TokenBefore
<1>14. Len(x3) = 3 /\ x3[2] = v /\ x3[3] = m
  BY <1>6, <1>13 DEF TokenBefore
<1>15. Len(x4) = 4 /\ x4[3] = v /\ x4[4] = m
  BY <1>7, <1>14 DEF TokenBefore
<1>16. Len(x5) = 5 /\ x5[1] = t /\ x5[4] = v /\ x5[5] = m
  BY <1>8, <1>15 DEF TokenBefore
<1>17. Len(x6) = 6 /\ x6[1] = s /\ x6[2] = t /\ x6[5] = v /\ x6[6] = m
  BY <1>9, <1>16 DEF TokenBefore
<1>18. Len(x7) = 7 /\ x7[1] = c /\ x7[2] = s /\ x7[3] = t /\ x7[6] = v /\ x7[7] = m
  BY <1>10, <1>17 DEF TokenBefore
<1>19. Len(x8) = 8 /\ x8[1] = b /\ x8[2] = c /\ x8[3] = s /\ x8[4] = t /\ x8[7] = v /\ x8[8] = m
  BY <1>11, <1>18 DEF TokenBefore
<1>20. QED
  BY <1>12, <1>19 DEF TokenBefore, NineRead, tokens

\* The words the code itself writes.
Names == {Digits[t] : t \in Timestamp} \cup {category_name[c] : c \in Category}
         \cup {type_name[t] : t \in Type} \cup {"host", "platform"}

\* None of them is a separator.
LEMMA NamesPlain == TAB \notin Names /\ NL \notin Names
<1>1. ASSUME NEW t \in Timestamp PROVE Digits[t] # TAB /\ Digits[t] # NL
  BY DEF Timestamp, Digits, TAB, NL
<1>2. ASSUME NEW c \in Category PROVE category_name[c] # TAB /\ category_name[c] # NL
  BY DEF Category, category_name, TAB, NL
<1>3. ASSUME NEW t \in Type PROVE type_name[t] # TAB /\ type_name[t] # NL
  BY DEF Type, type_name, TAB, NL
<1>4. "host" # TAB /\ "platform" # TAB /\ "host" # NL /\ "platform" # NL
  BY Zenon DEF TAB, NL
<1>5. QED
  BY <1>1, <1>2, <1>3, <1>4, Zenon DEF Names

\* The symbols of a file include what the code writes.
Alphabet(C) == Words \cup Names \cup {TAB, NL} \subseteq C

\* An event with texts of these symbols.
Written(e, C) ==
  /\ e = [timestamp |-> e.timestamp, category |-> e.category, type |-> e.type,
          source |-> e.source, target |-> e.target, attributes |-> e.attributes,
          summary |-> e.summary]
  /\ e.timestamp \in Timestamp /\ e.category \in Category /\ e.type \in Type
  /\ e.source \in Seq(C) /\ e.target \in Seq(C) /\ e.summary \in Seq(C)
  /\ e.attributes \in Attributes(C)

\* What is read from a line whose fields hold no tab.
ReadBack(e) ==
  [timestamp |-> e.timestamp, category |-> e.category, type |-> e.type,
   source |-> e.source, target |-> e.target,
   attributes |-> ParseAttributes(OneLine(AttributesLine(e.attributes))),
   summary |-> OneLine(e.summary)]

\* The separators and what stands for one are different symbols.
LEMMA SeparatorsDiffer ==
  Space # TAB /\ Space # NL /\ TAB # NL /\ TAB \notin Words /\ NL \notin Words
BY Zenon DEF Space, TAB, NL, Words

\* The line of an event: nine fields with the line breaks of the flattened
\* ones gone.
LEMMA LineIs ==
  ASSUME NEW C, Alphabet(C), NEW e, Written(e, C)
  PROVE  /\ serialize_event(e) =
              NineFields(<<Digits[e.timestamp]>>, <<category_name[e.category]>>,
                <<type_name[e.type]>>, e.source, e.target, <<"host">>, <<"platform">>,
                OneLine(AttributesLine(e.attributes)), OneLine(e.summary))
         /\ OneLine(AttributesLine(e.attributes)) \in Seq(C \ {NL})
         /\ OneLine(e.summary) \in Seq(C \ {NL})
<1> DEFINE a == Digits[e.timestamp]
           b == category_name[e.category]
           c == type_name[e.type]
           v == OneLine(AttributesLine(e.attributes))
           m == OneLine(e.summary)
           h == "host"
           p == "platform"
<1>1. a \in C /\ b \in C /\ c \in C /\ h \in C /\ p \in C /\ TAB \in C
  BY Zenon DEF Alphabet, Names, Written
<1>2. Words \subseteq C /\ Space \in C
  BY Zenon DEF Alphabet, Words
<1>3. /\ e.source \in Seq(C) /\ e.target \in Seq(C) /\ e.summary \in Seq(C)
      /\ e.attributes \in Attributes(C)
  BY DEF Written
<1>4. AttributesLine(e.attributes) \in Seq(C)
  BY <1>2, <1>3, AttributesText, Zenon
<1>5. v \in Seq(C \ {NL}) /\ m \in Seq(C \ {NL})
  BY <1>2, <1>3, <1>4, OneLineKeeps
<1>6. v \in Seq(C) /\ m \in Seq(C)
  <2> HIDE DEF v, m
  <2>1. QED
    BY <1>5
<1>7. serialize_event(e) = OneText(a, b, c, e.source, e.target, h, p, v, m)
  BY Zenon DEF serialize_event, HeadFields, OneText
<1> HIDE DEF a, b, c, v, m, h, p
<1>8. SameLine(a, b, c, e.source, e.target, h, p, v, m)
  BY <1>1, <1>3, <1>6, LineFields
<1>9. QED
  BY <1>5, <1>7, <1>8, Zenon DEF SameLine, a, b, c, v, m, h, p

\* A text with a field before it is not empty.
LEMMA JoinFull ==
  ASSUME NEW C, NEW a \in Seq(C), NEW x \in C, NEW r \in Seq(C)
  PROVE  a \o <<x>> \o r # <<>>
<1>1. a \o <<x>> \in Seq(C) /\ Len(a \o <<x>>) = Len(a) + 1 /\ Len(a) \in Nat
  OBVIOUS
<1> DEFINE y == a \o <<x>>
<1> HIDE DEF y
<1>2. y \in Seq(C) /\ Len(y) > 0
  BY <1>1 DEF y
<1>3. Len(y \o r) = Len(y) + Len(r) /\ Len(r) \in Nat
  BY <1>2
<1>4. y \o r # <<>>
  BY <1>2, <1>3
<1>5. QED
  BY <1>4 DEF y

\* Nine fields are a text.
LEMMA NineType ==
  ASSUME NEW C, TAB \in C, NEW a, NEW b, NEW c, NEW s, NEW t, NEW h, NEW p, NEW v, NEW m,
         Fit(C, a, b, c, s, t, h, p, v, m)
  PROVE  NineFields(a, b, c, s, t, h, p, v, m) \in Seq(C) /\ NineFields(a, b, c, s, t, h, p, v, m) # <<>>
<1>0. /\ a \in Seq(C) /\ b \in Seq(C) /\ c \in Seq(C) /\ s \in Seq(C) /\ t \in Seq(C)
      /\ h \in Seq(C) /\ p \in Seq(C) /\ v \in Seq(C) /\ m \in Seq(C)
  BY DEF Fit
<1>1. Field(v, m) \in Seq(C)
  BY <1>0, FieldCut
<1> DEFINE r == Field(b, Field(c, Field(s, Field(t, Field(h, Field(p, Field(v, m)))))))
<1>2. r \in Seq(C)
  BY <1>0, <1>1, FieldCut
<1>3. /\ NineFields(a, b, c, s, t, h, p, v, m) = a \o <<TAB>> \o r
      /\ NineFields(a, b, c, s, t, h, p, v, m) = Field(a, r)
  BY Zenon DEF NineFields, Field, Glue, Tab
<1> HIDE DEF r
<1>4. a \o <<TAB>> \o r # <<>>
  BY <1>0, <1>2, JoinFull
<1>5. Field(a, r) \in Seq(C)
  BY <1>0, <1>2, FieldCut
<1>6. QED
  BY <1>3, <1>4, <1>5, Zenon

\* The line of an event is a text, of one line when source and target are.
LEMMA SerializedType ==
  ASSUME NEW C, Alphabet(C), NEW e, Written(e, C)
  PROVE  /\ serialize_event(e) \in Seq(C) /\ serialize_event(e) # <<>>
         /\ e.source \in Seq(C \ {NL}) /\ e.target \in Seq(C \ {NL}) =>
              serialize_event(e) \in Seq(C \ {NL})
<1> DEFINE a == <<Digits[e.timestamp]>>
           b == <<category_name[e.category]>>
           c == <<type_name[e.type]>>
           h == <<"host">>
           p == <<"platform">>
           v == OneLine(AttributesLine(e.attributes))
           m == OneLine(e.summary)
<1>1. /\ serialize_event(e) = NineFields(a, b, c, e.source, e.target, h, p, v, m)
      /\ v \in Seq(C \ {NL}) /\ m \in Seq(C \ {NL})
  BY LineIs
<1>2. /\ Digits[e.timestamp] \in C \ {NL} /\ category_name[e.category] \in C \ {NL}
      /\ type_name[e.type] \in C \ {NL} /\ "host" \in C \ {NL} /\ "platform" \in C \ {NL}
  <2>1. /\ Digits[e.timestamp] \in Names /\ category_name[e.category] \in Names
        /\ type_name[e.type] \in Names /\ "host" \in Names /\ "platform" \in Names
    BY Zenon DEF Names, Written
  <2>2. Names \subseteq C \ {NL}
    BY NamesPlain, Zenon DEF Alphabet
  <2>3. QED
    BY <2>1, <2>2, Zenon
<1>3. TAB \in C \ {NL}
  BY SeparatorsDiffer, Zenon DEF Alphabet
<1>4. /\ a \in Seq(C \ {NL}) /\ b \in Seq(C \ {NL}) /\ c \in Seq(C \ {NL})
      /\ h \in Seq(C \ {NL}) /\ p \in Seq(C \ {NL})
  BY <1>2
<1> HIDE DEF a, b, c, h, p, v, m
<1>5. \A x \in Seq(C \ {NL}) : x \in Seq(C)
  OBVIOUS
<1>6. serialize_event(e) \in Seq(C) /\ serialize_event(e) # <<>>
  <2>1. /\ a \in Seq(C) /\ b \in Seq(C) /\ c \in Seq(C) /\ h \in Seq(C) /\ p \in Seq(C)
        /\ v \in Seq(C) /\ m \in Seq(C) /\ TAB \in C
    BY <1>1, <1>3, <1>4, <1>5
  <2>2. e.source \in Seq(C) /\ e.target \in Seq(C)
    BY DEF Written
  <2>3. Fit(C, a, b, c, e.source, e.target, h, p, v, m)
    BY <2>1, <2>2, Zenon DEF Fit
  <2>4. QED
    BY <1>1, <2>1, <2>3, NineType
<1>7. ASSUME e.source \in Seq(C \ {NL}), e.target \in Seq(C \ {NL})
      PROVE  serialize_event(e) \in Seq(C \ {NL})
  <2>1. Fit(C \ {NL}, a, b, c, e.source, e.target, h, p, v, m)
    BY <1>1, <1>4, <1>7, Zenon DEF Fit
  <2>2. QED
    BY <1>1, <1>3, <2>1, NineType
<1>8. QED
  BY <1>6, <1>7

\* Attributes without a tab are written without one.
LEMMA AttributesPlain ==
  ASSUME NEW C, Alphabet(C), NEW at \in Attributes(C), \A k \in DOMAIN at : ~Contains(at[k], TAB)
  PROVE  OneLine(AttributesLine(at)) \in Seq(C \ {TAB})
<1> DEFINE D == C \ {TAB}
<1>1. at \in [DOMAIN at -> Seq(D)] /\ DOMAIN at \in SUBSET {NewKey, OldKey}
  <2>1. PICK S \in SUBSET {NewKey, OldKey} : at \in [S -> Seq(C)]
    BY DEF Attributes
  <2>2. \A k \in S : at[k] \in Seq(C)
    BY <2>1
  <2>3. \A k \in S : at[k] \in Seq(D)
    BY <2>1, <2>2, TextWithout
  <2> HIDE DEF D
  <2>4. QED
    BY <2>1, <2>3
<1>2. Words \subseteq D /\ Space \in D
  BY SeparatorsDiffer, Zenon DEF Alphabet, Words
<1> HIDE DEF D
<1>3. at \in Attributes(D)
  BY <1>1, Zenon DEF Attributes
<1>4. AttributesLine(at) \in Seq(D)
  BY <1>2, <1>3, AttributesText, Zenon
<1>5. OneLine(AttributesLine(at)) \in Seq(D \ {NL})
  BY <1>2, <1>4, OneLineKeeps
<1>6. \A x \in Seq(D \ {NL}) : x \in Seq(D)
  OBVIOUS
<1>7. QED
  BY <1>5, <1>6 DEF D

\* Fields without a tab are read as they were written.
LEMMA ParseLine ==
  ASSUME NEW C, Alphabet(C), NEW e, Written(e, C),
         ~Contains(e.source, TAB), ~Contains(e.target, TAB), ~Contains(e.summary, TAB),
         \A k \in DOMAIN e.attributes : ~Contains(e.attributes[k], TAB)
  PROVE  parse_event(serialize_event(e)) = ReadBack(e)
<1> DEFINE a == <<Digits[e.timestamp]>>
           b == <<category_name[e.category]>>
           c == <<type_name[e.type]>>
           h == <<"host">>
           p == <<"platform">>
           v == OneLine(AttributesLine(e.attributes))
           m == OneLine(e.summary)
           tokens == Split(serialize_event(e))
<1>1. /\ serialize_event(e) = NineFields(a, b, c, e.source, e.target, h, p, v, m)
      /\ m \in Seq(C \ {NL})
  BY LineIs
<1>2. /\ Digits[e.timestamp] \in C \ {TAB} /\ category_name[e.category] \in C \ {TAB}
      /\ type_name[e.type] \in C \ {TAB} /\ "host" \in C \ {TAB} /\ "platform" \in C \ {TAB}
  <2>1. /\ Digits[e.timestamp] \in Names /\ category_name[e.category] \in Names
        /\ type_name[e.type] \in Names /\ "host" \in Names /\ "platform" \in Names
    BY Zenon DEF Names, Written
  <2>2. Names \subseteq C \ {TAB}
    BY NamesPlain, Zenon DEF Alphabet
  <2>3. QED
    BY <2>1, <2>2, Zenon
<1>3. /\ a \in Seq(C \ {TAB}) /\ b \in Seq(C \ {TAB}) /\ c \in Seq(C \ {TAB})
      /\ h \in Seq(C \ {TAB}) /\ p \in Seq(C \ {TAB})
  BY <1>2
<1>4. /\ e.source \in Seq(C) /\ e.target \in Seq(C) /\ e.summary \in Seq(C)
      /\ e.attributes \in Attributes(C)
  BY DEF Written
<1>5. e.source \in Seq(C \ {TAB}) /\ e.target \in Seq(C \ {TAB})
  BY <1>4, TextWithout
<1>6. v \in Seq(C \ {TAB})
  BY <1>4, AttributesPlain
<1>7. m \in Seq(C \ {TAB})
  <2>1. Space \in C
    BY Zenon DEF Alphabet, Words
  <2>2. ~Contains(m, TAB)
    BY <1>4, <2>1, OneLineKeeps
  <2> HIDE DEF m
  <2>3. m \in Seq(C)
    BY <1>1
  <2>4. QED
    BY <2>2, <2>3, TextWithout
<1>8. TAB \in C
  BY Zenon DEF Alphabet
<1> HIDE DEF v, m, h, p
<1>9. NineRead(tokens, a, b, c, e.source, e.target, v, m)
  <2> HIDE DEF a, b, c
  <2>1. Fit(C \ {TAB}, a, b, c, e.source, e.target, h, p, v, m)
    BY <1>3, <1>5, <1>6, <1>7, Zenon DEF Fit
  <2>2. QED
    BY <1>1, <1>8, <2>1, NineTokens
<1>10. TimeOf(a) = e.timestamp /\ category_from_name(b) = e.category /\ type_from_name(c) = e.type
  BY TimeBack, CategoryBack, TypeBack, Zenon DEF Written
<1> HIDE DEF a, b, c, tokens
<1>11. ~(Len(tokens) < 9)
  BY <1>9 DEF NineRead
<1>12. parse_event(serialize_event(e)) =
         [timestamp |-> TimeOf(tokens[1]), category |-> category_from_name(tokens[2]),
          type |-> type_from_name(tokens[3]), source |-> tokens[4], target |-> tokens[5],
          attributes |-> ParseAttributes(tokens[8]), summary |-> tokens[9]]
  BY <1>11, Zenon DEF parse_event, tokens
<1>13. QED
  BY <1>9, <1>10, <1>12, Zenon DEF NineRead, ReadBack, v, m

\* Fields that hold no tab.
NoTabs(e) ==
  /\ ~Contains(e.source, TAB) /\ ~Contains(e.target, TAB) /\ ~Contains(e.summary, TAB)
  /\ \A k \in DOMAIN e.attributes : ~Contains(e.attributes[k], TAB)

\* The clean events in these words.
LEMMA CleanIs ==
  ASSUME NEW C, Alphabet(C), NEW e, Written(e, C)
  PROVE  Clean(e) <=> /\ NoTabs(e) /\ CleanValues(e.attributes)
                      /\ ~Contains(e.source, NL) /\ ~Contains(e.target, NL)
<1> DEFINE at == e.attributes
           ValueOk(k) == /\ ~Contains(at[k], TAB) /\ ~Has(at[k], <<"|", "|">>)
                         /\ at[k] # <<>> /\ Last(at[k]) = "|" => k = Keys[2] \/ Keys[2] \notin DOMAIN at
<1>1. Clean(e) <=> /\ ~Contains(e.source, TAB) /\ ~Contains(e.source, NL)
                   /\ ~Contains(e.target, TAB) /\ ~Contains(e.target, NL)
                   /\ ~Contains(e.summary, TAB) /\ \A k \in DOMAIN at : ValueOk(k)
  BY Zenon DEF Clean
<1>2. DOMAIN at \subseteq {NewKey, OldKey} /\ \A k \in DOMAIN at : at[k] \in Seq(C)
  BY DEF Written, Attributes
<1>3. Keys[2] = OldKey /\ NewKey # OldKey
  <2>1. Keys[2] = OldKey
    BY DEF Keys, OldKey
  <2>2. NewKey[1] = "new_value" /\ OldKey[1] = "old_value"
    BY DEF NewKey, OldKey
  <2>3. QED
    BY <2>1, <2>2
<1>4. ASSUME NEW k \in DOMAIN at
      PROVE  ValueOk(k) <=> /\ ~Contains(at[k], TAB) /\ NoBars(at[k])
                            /\ EndsInBar(at[k]) => k = OldKey \/ OldKey \notin DOMAIN at
  <2>1. /\ ~Has(at[k], <<"|", "|">>) <=> NoBars(at[k])
        /\ at[k] # <<>> /\ Last(at[k]) = "|" <=> EndsInBar(at[k])
    BY <1>2, BarsAre
  <2>2. QED
    BY <1>3, <2>1, Zenon
<1> HIDE DEF ValueOk, at
<1>5. (\A k \in DOMAIN at : ValueOk(k))
        <=> (\A k \in DOMAIN at : ~Contains(at[k], TAB)) /\ CleanValues(at)
  <2>1. ASSUME \A k \in DOMAIN at : ValueOk(k)
        PROVE  (\A k \in DOMAIN at : ~Contains(at[k], TAB)) /\ CleanValues(at)
    BY <1>2, <1>3, <1>4, <2>1 DEF CleanValues
  <2>2. ASSUME \A k \in DOMAIN at : ~Contains(at[k], TAB), CleanValues(at)
        PROVE  \A k \in DOMAIN at : ValueOk(k)
    BY <1>2, <1>4, <2>2 DEF CleanValues
  <2>3. QED
    BY <2>1, <2>2
<1>6. QED
  BY <1>1, <1>5, Zenon DEF NoTabs, at

\* What storing may change, field by field.
LEMMA FlattenedIs ==
  ASSUME NEW C, NEW e, Written(e, C)
  PROVE  Flattened(e) =
           [timestamp |-> e.timestamp, category |-> e.category, type |-> e.type,
            source |-> e.source, target |-> e.target,
            attributes |-> [k \in DOMAIN e.attributes |-> OneLine(e.attributes[k])],
            summary |-> OneLine(e.summary)]
<1> DEFINE at == [k \in DOMAIN e.attributes |-> OneLine(e.attributes[k])]
           su == OneLine(e.summary)
           F == {"timestamp", "category", "type", "source", "target", "attributes", "summary"}
           r == [timestamp |-> e.timestamp, category |-> e.category, type |-> e.type,
                 source |-> e.source, target |-> e.target, attributes |-> e.attributes,
                 summary |-> e.summary]
           f == [e EXCEPT !.summary = su, !.attributes = at]
           g == [timestamp |-> e.timestamp, category |-> e.category, type |-> e.type,
                 source |-> e.source, target |-> e.target, attributes |-> at, summary |-> su]
<1>1. Flattened(e) = f
  BY Zenon DEF Flattened
<1> HIDE DEF at, su
<1>2. DOMAIN e = F /\ e = [k \in F |-> e[k]]
  <2>1. e = r
    BY Zenon DEF Written
  <2>2. DOMAIN r = F /\ r = [k \in F |-> r[k]]
    OBVIOUS
  <2> HIDE DEF r
  <2>3. QED
    BY <2>1, <2>2
<1>3. /\ DOMAIN f = F /\ f = [k \in F |-> f[k]]
      /\ f.timestamp = e.timestamp /\ f.category = e.category /\ f.type = e.type
      /\ f.source = e.source /\ f.target = e.target /\ f.attributes = at /\ f.summary = su
  BY <1>2
<1>4. /\ DOMAIN g = F /\ g = [k \in F |-> g[k]]
      /\ g.timestamp = e.timestamp /\ g.category = e.category /\ g.type = e.type
      /\ g.source = e.source /\ g.target = e.target /\ g.attributes = at /\ g.summary = su
  OBVIOUS
<1> HIDE DEF f, g
<1>5. \A k \in F : f[k] = g[k]
  BY <1>3, <1>4
<1>6. f = g
  BY <1>3, <1>4, <1>5
<1>7. QED
  BY <1>1, <1>6, Zenon DEF g, at, su

\* The fields of a parsed event hold no tab, and no line break if its line
\* holds none.
LEMMA ParsedFields ==
  ASSUME NEW C, NEW l \in Seq(C), parse_event(l).timestamp \in Timestamp
  PROVE  /\ parse_event(l).source \in Seq(C \ {TAB}) /\ parse_event(l).target \in Seq(C \ {TAB})
         /\ parse_event(l).summary \in Seq(C \ {TAB})
         /\ parse_event(l).attributes \in Maps(C \ {TAB})
<1> DEFINE tokens == Split(l)
           S == Seq(C \ {TAB})
<1>1. tokens \in Seq(S)
  BY SplitType
<1>2. Now \notin Timestamp
  BY DEF Now, Timestamp, Digits
<1>3. ~(Len(tokens) < 9)
  <2>1. SUFFICES ASSUME Len(tokens) < 9 PROVE FALSE
    OBVIOUS
  <2>2. parse_event(l) = DefaultEvent
    BY <2>1, Zenon DEF parse_event
  <2>3. DefaultEvent.timestamp = Now
    BY DEF DefaultEvent
  <2>4. QED
    BY <1>2, <2>2, <2>3
<1>4. /\ parse_event(l).source = tokens[4] /\ parse_event(l).target = tokens[5]
      /\ parse_event(l).summary = tokens[9]
      /\ parse_event(l).attributes = ParseAttributes(tokens[8])
  <2>1. parse_event(l) =
         [timestamp |-> TimeOf(tokens[1]), category |-> category_from_name(tokens[2]),
          type |-> type_from_name(tokens[3]), source |-> tokens[4], target |-> tokens[5],
          attributes |-> ParseAttributes(tokens[8]), summary |-> tokens[9]]
    BY <1>3, Zenon DEF parse_event
  <2> HIDE DEF tokens
  <2>2. QED
    BY <2>1
<1> HIDE DEF tokens, S
<1>5. tokens[4] \in S /\ tokens[5] \in S /\ tokens[8] \in S /\ tokens[9] \in S
  BY <1>1, <1>3
<1>6. ParseAttributes(tokens[8]) \in Maps(C \ {TAB})
  BY <1>5, ParseType DEF S
<1>7. QED
  BY <1>4, <1>5, <1>6 DEF S

\* A clean event comes back from its line as itself.
LEMMA CleanBack ==
  ASSUME NEW C, Alphabet(C), NEW e, Written(e, C), NoTabs(e)
  PROVE  parse_event(serialize_event(e)) = Flattened(e) <=> CleanValues(e.attributes)
<1> DEFINE flat == [k \in DOMAIN e.attributes |-> OneLine(e.attributes[k])]
           at == ParseAttributes(OneLine(AttributesLine(e.attributes)))
<1>1. parse_event(serialize_event(e)) = ReadBack(e)
  BY ParseLine DEF NoTabs
<1>2. at = flat <=> CleanValues(e.attributes)
  <2>1. e.attributes \in Attributes(C) /\ Words \subseteq C
    BY Zenon DEF Written, Alphabet
  <2>2. QED
    BY <2>1, AttributesBack
<1>3. Flattened(e) =
        [timestamp |-> e.timestamp, category |-> e.category, type |-> e.type,
         source |-> e.source, target |-> e.target, attributes |-> flat, summary |-> OneLine(e.summary)]
  BY FlattenedIs, Zenon
<1>4. ReadBack(e) =
        [timestamp |-> e.timestamp, category |-> e.category, type |-> e.type,
         source |-> e.source, target |-> e.target, attributes |-> at, summary |-> OneLine(e.summary)]
  BY Zenon DEF ReadBack
<1> HIDE DEF flat, at
<1>5. ReadBack(e) = Flattened(e) <=> at = flat
  BY <1>3, <1>4
<1>6. QED
  BY <1>1, <1>2, <1>5

\* Only an event without tabs, and without line breaks in source or target, is
\* read from a line.
LEMMA OnlyClean ==
  ASSUME NEW C, Alphabet(C), NEW e, Written(e, C), NEW l \in Seq(C \ {NL}),
         parse_event(l) = Flattened(e)
  PROVE  NoTabs(e) /\ ~Contains(e.source, NL) /\ ~Contains(e.target, NL)
<1> DEFINE flat == [k \in DOMAIN e.attributes |-> OneLine(e.attributes[k])]
           x == parse_event(l)
           D == C \ {NL}
<1>1. /\ x.timestamp = e.timestamp /\ x.source = e.source /\ x.target = e.target
      /\ x.summary = OneLine(e.summary) /\ x.attributes = flat
  <2>1. x = [timestamp |-> e.timestamp, category |-> e.category, type |-> e.type,
             source |-> e.source, target |-> e.target, attributes |-> flat,
             summary |-> OneLine(e.summary)]
    BY FlattenedIs, Zenon
  <2> HIDE DEF x, flat
  <2>2. QED
    BY <2>1
<1>2. /\ x.source \in Seq(D \ {TAB}) /\ x.target \in Seq(D \ {TAB}) /\ x.summary \in Seq(D \ {TAB})
      /\ x.attributes \in Maps(D \ {TAB})
  <2>1. x.timestamp \in Timestamp
    BY <1>1 DEF Written
  <2>2. QED
    BY <2>1, ParsedFields
<1>3. /\ e.source \in Seq(C) /\ e.target \in Seq(C) /\ e.summary \in Seq(C)
      /\ \A k \in DOMAIN e.attributes : e.attributes[k] \in Seq(C)
  BY DEF Written, Attributes
<1>4. Space \in C
  BY Zenon DEF Alphabet, Words
<1>5. ASSUME NEW t \in Seq(D \ {TAB}) PROVE t \in Seq(C \ {TAB}) /\ t \in Seq(C \ {NL})
  OBVIOUS
<1>6. ~Contains(e.source, TAB) /\ ~Contains(e.source, NL)
  BY <1>1, <1>2, <1>3, <1>5, TextWithout
<1>7. ~Contains(e.target, TAB) /\ ~Contains(e.target, NL)
  BY <1>1, <1>2, <1>3, <1>5, TextWithout
<1>8. ASSUME NEW t \in Seq(C), OneLine(t) \in Seq(D \ {TAB}) PROVE ~Contains(t, TAB)
  <2>1. OneLine(t) \in Seq(C \ {TAB})
    BY <1>5, <1>8
  <2> DEFINE o == OneLine(t)
  <2> HIDE DEF o
  <2>2. o \in Seq(C)
    BY <2>1 DEF o
  <2>3. ~Contains(o, TAB)
    BY <2>1, <2>2, TextWithout DEF o
  <2>4. QED
    BY <1>4, <2>3, OneLineKeeps DEF o
<1>9. ~Contains(e.summary, TAB)
  BY <1>1, <1>2, <1>3, <1>8
<1>10. ASSUME NEW k \in DOMAIN e.attributes PROVE ~Contains(e.attributes[k], TAB)
  <2>1. flat[k] \in Seq(D \ {TAB})
    <3>1. k \in DOMAIN flat /\ flat \in Maps(D \ {TAB})
      BY <1>1, <1>2
    <3> HIDE DEF flat
    <3>2. QED
      BY <3>1 DEF Maps
  <2>2. flat[k] = OneLine(e.attributes[k])
    OBVIOUS
  <2>3. QED
    BY <1>3, <1>8, <2>1, <2>2
<1>11. QED
  BY <1>6, <1>7, <1>9, <1>10 DEF NoTabs

-----------------------------------------------------------------------------
(* The file read line by line.                                             *)

\* The symbols of the files there can be.
Symbol ==
  Words \cup Names \cup {TAB, NL}
  \cup UNION {UNION {ToSet(t) : t \in {e.source, e.target, e.summary} \cup Range(e.attributes)} :
                e \in UNION Pools}
Text == Seq(Symbol)

\* A line is a text without line breaks.
LineText == Seq(Symbol \ {NL})

Parses == {parse_event(l) : l \in LineText}
Reader == [line : LineText, events : Seq(Parses)]
Blank == [line |-> <<>>, events |-> <<>>]
ReadOne(r, c) ==
  IF c = NL THEN [line |-> <<>>, events |-> Handed(r)] ELSE [r EXCEPT !.line = Append(@, c)]

\* Handing over a line gives a reader state.
LEMMA HandedType ==
  ASSUME NEW r \in Reader
  PROVE  Handed(r) \in Seq(Parses)
<1>1. r.line \in LineText /\ r.events \in Seq(Parses)
  BY DEF Reader
<1>2. parse_event(r.line) \in Parses
  BY <1>1 DEF Parses
<1> HIDE DEF Parses
<1>3. Append(r.events, parse_event(r.line)) \in Seq(Parses)
  BY <1>1, <1>2
<1>4. QED
  BY <1>1, <1>3, Zenon DEF Handed

\* A line break hands the line over, another character goes on the line.
LEMMA ReadOneIs ==
  ASSUME NEW r \in Reader, NEW c
  PROVE  /\ c = NL => ReadOne(r, c) = [line |-> <<>>, events |-> Handed(r)]
         /\ c # NL => ReadOne(r, c) = [line |-> Append(r.line, c), events |-> r.events]
<1>1. c = NL => ReadOne(r, c) = [line |-> <<>>, events |-> Handed(r)]
  BY DEF ReadOne
<1>2. c # NL => ReadOne(r, c) = [line |-> Append(r.line, c), events |-> r.events]
  BY DEF ReadOne, Reader
<1>3. QED
  BY <1>1, <1>2

\* Either gives a reader state.
LEMMA ReadOneType ==
  ASSUME NEW r \in Reader, NEW c \in Symbol
  PROVE  ReadOne(r, c) \in Reader
<1>1. r.line \in Seq(Symbol \ {NL}) /\ r.events \in Seq(Parses)
  BY DEF Reader, LineText
<1>2. CASE c = NL
  <2>1. ReadOne(r, c) = [line |-> <<>>, events |-> Handed(r)]
    BY <1>2, ReadOneIs
  <2>2. Handed(r) \in Seq(Parses) /\ <<>> \in LineText
    BY HandedType DEF LineText
  <2>3. QED
    BY <2>1, <2>2 DEF Reader
<1>3. CASE c # NL
  <2>1. Append(r.line, c) \in LineText
    BY <1>1, <1>3 DEF LineText
  <2>2. ReadOne(r, c) = [line |-> Append(r.line, c), events |-> r.events]
    BY <1>3, ReadOneIs
  <2>3. QED
    BY <1>1, <2>1, <2>2 DEF Reader
<1>4. QED
  BY <1>2, <1>3

\* Scanned is the loop it is written as.
LEMMA ScannedIs ==
  ASSUME NEW text \in Text
  PROVE  /\ Scanned(text) \in [0..Len(text) -> Reader]
         /\ Scanned(text)[0] = Blank
         /\ \A i \in 1..Len(text) : Scanned(text)[i] = ReadOne(Scanned(text)[i - 1], text[i])
<1> DEFINE n == Len(text)
           st == [x \in Reader \X Symbol |-> ReadOne(x[1], x[2])]
           Is(f) == f = [i \in 0..n |-> IF i = 0 THEN Blank ELSE ReadOne(f[i - 1], text[i])]
<1>0. text \in Seq(Symbol) /\ n \in Nat
  BY DEF Text
<1>1. st \in [Reader \X Symbol -> Reader]
  BY ReadOneType
<1>2. Blank \in Reader
  BY DEF Blank, Reader, LineText
<1>3. PICK f \in [0..n -> Reader] : IsLoop(f, Blank, st, text, n)
  <2> HIDE DEF st
  <2>1. QED
    BY <1>0, <1>1, <1>2, LoopExists
<1>4. \A i \in 1..n : f[i] = ReadOne(f[i - 1], text[i])
  <2> SUFFICES ASSUME NEW i \in 1..n PROVE f[i] = ReadOne(f[i - 1], text[i])
    OBVIOUS
  <2>1. f[i - 1] \in Reader /\ text[i] \in Symbol
    BY <1>0, <1>3
  <2>2. f[i] = st[<<f[i - 1], text[i]>>]
    BY <1>3 DEF IsLoop
  <2>3. QED
    BY <2>1, <2>2
<1>5. f[0] = Blank
  BY <1>3 DEF IsLoop
<1> HIDE DEF st
<1>6. Is(f)
  <2>1. \A i \in 0..n : f[i] = IF i = 0 THEN Blank ELSE ReadOne(f[i - 1], text[i])
    BY <1>0, <1>4, <1>5
  <2>2. QED
    BY <1>3, <2>1
<1>7. Scanned(text) = CHOOSE g : Is(g)
  BY DEF Scanned, Blank, ReadOne
<1>8. Is(Scanned(text))
  <2> HIDE DEF Is
  <2>1. QED
    BY <1>6, <1>7, Zenon
<1>9. /\ Scanned(text)[0] = Blank
      /\ \A i \in 1..n : Scanned(text)[i] = ReadOne(Scanned(text)[i - 1], text[i])
  BY <1>0, <1>8
<1>10. \A i \in 0..n : Scanned(text)[i] = f[i]
  <2> DEFINE g == Scanned(text)
  <2>1. g[0] = f[0]
    BY <1>5, <1>9
  <2>2. \A i \in 1..n : g[i - 1] = f[i - 1] => g[i] = f[i]
    BY <1>4, <1>9
  <2> HIDE DEF g, n
  <2>3. GoOnAlike(g, f, n)
    BY <2>1, <2>2 DEF GoOnAlike
  <2>4. \A i \in 0..n : g[i] = f[i]
    BY <1>0, <2>3, LoopsAgree
  <2>5. QED
    BY <2>4 DEF g
<1>11. Scanned(text) \in [0..n -> Reader]
  <2>1. Scanned(text) = [i \in 0..n |-> Scanned(text)[i]]
    BY <1>8
  <2>2. QED
    BY <1>3, <1>10, <2>1
<1>12. QED
  BY <1>9, <1>11

\* The file is empty or ends with a line break.
Whole(text) == text \in Text /\ (text = <<>> \/ text[Len(text)] = NL)

\* At the end of a whole file no line is left to hand over.
LEMMA WholeRead ==
  ASSUME NEW text, Whole(text)
  PROVE  Scanned(text)[Len(text)].line = <<>>
<1> DEFINE n == Len(text)
           f == Scanned(text)
<1>1. text \in Text /\ n \in Nat
  BY DEF Whole, Text
<1>2. /\ f \in [0..n -> Reader] /\ f[0] = Blank
      /\ \A i \in 1..n : f[i] = ReadOne(f[i - 1], text[i])
  BY <1>1, ScannedIs
<1> HIDE DEF f
<1>3. CASE text = <<>>
  BY <1>2, <1>3 DEF Blank, f
<1>4. CASE text # <<>>
  <2>1. n \in 1..n /\ text[n] = NL
    BY <1>1, <1>4 DEF Whole, Text
  <2>2. f[n] = ReadOne(f[n - 1], NL)
    BY <1>2, <2>1
  <2>3. QED
    BY <2>2 DEF ReadOne, f
<1>5. QED
  BY <1>3, <1>4

\* Reading goes over the beginning of a file as if it were all.
LEMMA SameStart ==
  ASSUME NEW a \in Text, NEW b \in Text
  PROVE  \A i \in 0..Len(a) : Scanned(a \o b)[i] = Scanned(a)[i]
<1> DEFINE n == Len(a)
           f == Scanned(a \o b)
           g == Scanned(a)
<1>1. /\ a \in Seq(Symbol) /\ b \in Seq(Symbol) /\ a \o b \in Seq(Symbol) /\ n \in Nat
      /\ Len(a \o b) = n + Len(b) /\ Len(b) \in Nat
      /\ \A i \in 1..n : (a \o b)[i] = a[i]
  BY DEF Text
<1>2. /\ f[0] = Blank
      /\ \A i \in 1..Len(a \o b) : f[i] = ReadOne(f[i - 1], (a \o b)[i])
  BY <1>1, ScannedIs DEF Text
<1>3. /\ g[0] = Blank
      /\ \A i \in 1..n : g[i] = ReadOne(g[i - 1], a[i])
  BY ScannedIs
<1> HIDE DEF f, g
<1>4. \A i \in 1..n : f[i - 1] = g[i - 1] => f[i] = g[i]
  BY <1>1, <1>2, <1>3
<1> HIDE DEF n
<1>5. f[0] = g[0] /\ n \in Nat
  BY <1>1, <1>2, <1>3
<1>6. \A i \in 0..n : f[i] = g[i]
  <2>1. GoOnAlike(f, g, n)
    BY <1>4, <1>5 DEF GoOnAlike
  <2>2. QED
    BY <1>5, <2>1, LoopsAgree
<1>7. QED
  BY <1>6 DEF f, g, n

\* Events handed over before do not matter to how the reading goes on.
Behind(s, r) == [line |-> r.line, events |-> s \o r.events]

LEMMA HandedBehind ==
  ASSUME NEW s \in Seq(Parses), NEW r \in Reader
  PROVE  Handed(Behind(s, r)) = s \o Handed(r) /\ Behind(s, r) \in Reader
<1>1. r.line \in LineText /\ r.events \in Seq(Parses)
  BY DEF Reader
<1>2. Behind(s, r).line = r.line /\ Behind(s, r).events = s \o r.events
  BY DEF Behind
<1>3. parse_event(r.line) \in Parses
  BY <1>1 DEF Parses
<1> HIDE DEF Parses
<1>4. s \o r.events \in Seq(Parses)
  BY <1>1
<1>5. Behind(s, r) \in Reader
  BY <1>1, <1>4 DEF Behind, Reader
<1>6. s \o Append(r.events, parse_event(r.line)) = Append(s \o r.events, parse_event(r.line))
  BY <1>1, <1>3, JoinAppend
<1>7. Handed(Behind(s, r)) = s \o Handed(r)
  BY <1>2, <1>6, Zenon DEF Handed
<1>8. QED
  BY <1>5, <1>7

LEMMA ReadBehind ==
  ASSUME NEW s \in Seq(Parses), NEW r \in Reader, NEW c \in Symbol
  PROVE  ReadOne(Behind(s, r), c) = Behind(s, ReadOne(r, c))
<1>1. Handed(Behind(s, r)) = s \o Handed(r) /\ Behind(s, r) \in Reader
  BY HandedBehind
<1>2. Behind(s, r).line = r.line /\ Behind(s, r).events = s \o r.events
  BY DEF Behind
<1> DEFINE b == Behind(s, r)
<1> HIDE DEF b
<1>3. CASE c = NL
  <2>1. ReadOne(b, c) = [line |-> <<>>, events |-> Handed(b)]
    BY <1>1, <1>3, ReadOneIs DEF b
  <2>2. ReadOne(r, c) = [line |-> <<>>, events |-> Handed(r)]
    BY <1>3, ReadOneIs
  <2> DEFINE x == ReadOne(r, c)
  <2>3. x.line = <<>> /\ x.events = Handed(r)
    BY <2>2
  <2> HIDE DEF x
  <2>4. Behind(s, x) = [line |-> <<>>, events |-> s \o Handed(r)]
    BY <2>3, Zenon DEF Behind
  <2>5. QED
    BY <1>1, <2>1, <2>4, Zenon DEF b, x
<1>4. CASE c # NL
  <2>1. ReadOne(b, c) = [line |-> Append(b.line, c), events |-> b.events]
    BY <1>1, <1>4, ReadOneIs DEF b
  <2>2. ReadOne(r, c) = [line |-> Append(r.line, c), events |-> r.events]
    BY <1>4, ReadOneIs
  <2> DEFINE x == ReadOne(r, c)
  <2>3. x.line = Append(r.line, c) /\ x.events = r.events
    BY <2>2
  <2> HIDE DEF x
  <2>4. Behind(s, x) = [line |-> Append(r.line, c), events |-> s \o r.events]
    BY <2>3, Zenon DEF Behind
  <2>5. QED
    BY <1>2, <2>1, <2>4, Zenon DEF b, x
<1>5. QED
  BY <1>3, <1>4

\* A whole file and more: the events of the one, then those of the other.
LEMMA IteratedJoin ==
  ASSUME NEW a, Whole(a), NEW b \in Text
  PROVE  /\ Iterated(a) \in Seq(Parses) /\ Iterated(b) \in Seq(Parses)
         /\ Iterated(a \o b) = Iterated(a) \o Iterated(b)
<1> DEFINE t == a \o b
           n == Len(a)
           m == Len(b)
           f == Scanned(t)
           g == Scanned(b)
           s == Scanned(a)[n].events
<1>1. a \in Seq(Symbol) /\ b \in Seq(Symbol)
  BY DEF Whole, Text
<1>2. /\ t \in Seq(Symbol) /\ Len(t) = n + m /\ n \in Nat /\ m \in Nat
      /\ \A i \in 1..m : t[n + i] = b[i]
  <2> HIDE DEF Symbol
  <2>1. t \in Seq(Symbol) /\ Len(t) = n + m
    BY <1>1
  <2>2. n \in Nat /\ m \in Nat
    BY <1>1
  <2>3. ASSUME NEW i \in 1..m PROVE t[n + i] = b[i]
    BY <1>1, <2>2
  <2>4. QED
    BY <2>1, <2>2, <2>3
<1> HIDE DEF t
<1>3. f \in [0..Len(t) -> Reader] /\ \A i \in 1..Len(t) : f[i] = ReadOne(f[i - 1], t[i])
  BY <1>2, ScannedIs DEF Text
<1>4. g \in [0..m -> Reader] /\ g[0] = Blank /\ \A i \in 1..m : g[i] = ReadOne(g[i - 1], b[i])
  BY ScannedIs
<1>5. f[n] = Scanned(a)[n] /\ Scanned(a)[n] \in Reader
  <2>1. a \in Text /\ n \in 0..n
    BY <1>1, <1>2 DEF Text
  <2>2. Scanned(a) \in [0..n -> Reader]
    BY <2>1, ScannedIs
  <2>3. QED
    BY <2>1, <2>2, SameStart DEF t
<1>6. Scanned(a)[n].line = <<>>
  BY WholeRead
<1>7. s \in Seq(Parses)
  BY <1>5 DEF Reader
<1>8. Iterated(a) = s
  BY <1>6 DEF Iterated, Handed
<1>9. f[n] = [line |-> <<>>, events |-> s]
  BY <1>5, <1>6 DEF Reader
<1> HIDE DEF f, g, s, m, n
<1> DEFINE x == [i \in 0..m |-> f[n + i]]
           y == [i \in 0..m |-> Behind(s, g[i])]
<1>10. x[0] = y[0]
  <2>1. Behind(s, Blank) = [line |-> <<>>, events |-> s]
    <3>1. s \o <<>> = s
      BY <1>7
    <3>2. Blank.line = <<>> /\ Blank.events = <<>>
      BY DEF Blank
    <3>3. QED
      BY <3>1, <3>2, Zenon DEF Behind
  <2>2. 0 \in 0..m /\ n + 0 = n
    BY <1>2
  <2>3. x[0] = f[n] /\ y[0] = Behind(s, Blank)
    BY <1>4, <2>2
  <2>4. QED
    BY <1>9, <2>1, <2>3, Zenon
<1>11. ASSUME NEW i \in 1..m, x[i - 1] = y[i - 1] PROVE x[i] = y[i]
  <2>1. /\ i - 1 \in 0..m /\ i \in 0..m /\ n + i \in 1..Len(t) /\ n + i - 1 = n + (i - 1)
    BY <1>2
  <2>2. g[i - 1] \in Reader /\ b[i] \in Symbol
    <3>1. b[i] \in Symbol
      BY <1>1 DEF m
    <3>2. QED
      BY <1>4, <2>1, <3>1
  <2>3. f[n + i] = ReadOne(f[n + (i - 1)], b[i])
    BY <1>2, <1>3, <2>1
  <2>4. f[n + (i - 1)] = Behind(s, g[i - 1])
    BY <1>11, <2>1
  <2>5. g[i] = ReadOne(g[i - 1], b[i])
    BY <1>4
  <2>6. ReadOne(Behind(s, g[i - 1]), b[i]) = Behind(s, ReadOne(g[i - 1], b[i]))
    BY <1>7, <2>2, ReadBehind
  <2>7. f[n + i] = Behind(s, g[i])
    BY <2>3, <2>4, <2>5, <2>6, Zenon
  <2>8. QED
    BY <2>1, <2>7
<1> HIDE DEF x, y
<1>12. \A i \in 0..m : x[i] = y[i]
  <2>1. GoOnAlike(x, y, m)
    BY <1>10, <1>11 DEF GoOnAlike
  <2>2. QED
    BY <1>2, <2>1, LoopsAgree
<1>13. f[n + m] = Behind(s, g[m])
  <2>1. m \in 0..m
    BY <1>2
  <2>2. x[m] = y[m]
    BY <1>12, <2>1
  <2>3. QED
    BY <2>1, <2>2 DEF x, y
<1>14. g[m] \in Reader
  BY <1>2, <1>4
<1>15. Iterated(b) = Handed(g[m]) /\ Iterated(t) = Handed(f[n + m])
  BY <1>2, Zenon DEF Iterated, f, g, m
<1>16. Handed(g[m]) \in Seq(Parses) /\ Handed(Behind(s, g[m])) = s \o Handed(g[m])
  BY <1>7, <1>14, HandedType, HandedBehind
<1>17. Iterated(t) = Iterated(a) \o Iterated(b)
  BY <1>8, <1>13, <1>15, <1>16, Zenon
<1>18. QED
  BY <1>7, <1>8, <1>15, <1>16, <1>17, Zenon DEF t

Begins(s, t) == Len(s) <= Len(t) /\ \A i \in 1..Len(s) : s[i] = t[i]

\* A reader of a longer file finds first what it would have found before.
LEMMA IteratedBegins ==
  ASSUME NEW a, Whole(a), NEW b \in Text
  PROVE  /\ Iterated(a) \in Seq(Parses) /\ Iterated(a \o b) \in Seq(Parses)
         /\ Begins(Iterated(a), Iterated(a \o b))
<1> DEFINE x == Iterated(a)
           y == Iterated(b)
           z == Iterated(a \o b)
<1>1. x \in Seq(Parses) /\ y \in Seq(Parses) /\ z = x \o y
  BY IteratedJoin
<1> HIDE DEF x, y, z, Parses
<1>2. z \in Seq(Parses) /\ Begins(x, z)
  BY <1>1 DEF Begins
<1>3. QED
  BY <1>1, <1>2 DEF x, z

\* A line alone in the file is the one event that is read.
LEMMA LineAlone ==
  ASSUME NEW l \in LineText, l # <<>>, NL \in Symbol
  PROVE  Iterated(Append(l, NL)) = <<parse_event(l)>>
<1> DEFINE t == Append(l, NL)
           n == Len(l)
           f == Scanned(t)
           T == {i \in Nat : i <= n => f[i] = [line |-> SubSeq(l, 1, i), events |-> <<>>]}
<1>1. /\ l \in Seq(Symbol \ {NL}) /\ t \in Seq(Symbol) /\ n \in Nat /\ n > 0 /\ Len(t) = n + 1
      /\ t[n + 1] = NL /\ \A i \in 1..n : t[i] = l[i] /\ t[i] # NL
  BY DEF LineText
<1> HIDE DEF t
<1>2. /\ f \in [0..Len(t) -> Reader] /\ f[0] = Blank
      /\ \A i \in 1..Len(t) : f[i] = ReadOne(f[i - 1], t[i])
  BY <1>1, ScannedIs DEF Text
<1> HIDE DEF f
<1>3. 0 \in T
  <2>1. SubSeq(l, 1, 0) = <<>>
    BY <1>1
  <2>2. QED
    BY <1>2, <2>1 DEF Blank
<1>4. ASSUME NEW i \in Nat, i \in T PROVE i + 1 \in T
  <2> SUFFICES ASSUME i + 1 <= n PROVE f[i + 1] = [line |-> SubSeq(l, 1, i + 1), events |-> <<>>]
    OBVIOUS
  <2>1. i + 1 \in 1..n /\ i + 1 \in 1..Len(t) /\ i + 1 - 1 = i /\ i <= n /\ i \in 0..Len(t)
    BY <1>1
  <2>2. f[i] = [line |-> SubSeq(l, 1, i), events |-> <<>>]
    BY <1>4, <2>1
  <2>3. f[i].line = SubSeq(l, 1, i) /\ f[i].events = <<>> /\ f[i] \in Reader
    BY <1>2, <2>1, <2>2, SMTT(30)
  <2>4. f[i + 1] = ReadOne(f[i], l[i + 1]) /\ l[i + 1] # NL
    BY <1>1, <1>2, <2>1
  <2>5. ReadOne(f[i], l[i + 1]) = [line |-> Append(f[i].line, l[i + 1]), events |-> f[i].events]
    BY <2>3, <2>4, ReadOneIs
  <2>6. Append(SubSeq(l, 1, i), l[i + 1]) = SubSeq(l, 1, i + 1)
    BY <1>1, <2>1
  <2>7. QED
    BY <2>3, <2>4, <2>5, <2>6, Zenon
<1> HIDE DEF T
<1>5. Nat \subseteq T
  BY <1>3, <1>4, SetInduction
<1>6. f[n] = [line |-> l, events |-> <<>>]
  <2>1. SubSeq(l, 1, n) = l
    BY <1>1
  <2>2. QED
    BY <1>1, <1>5, <2>1 DEF T
<1>7. f[n] \in Reader /\ f[n].line = l /\ f[n].events = <<>>
  BY <1>1, <1>2, <1>6
<1>8. f[n + 1] = ReadOne(f[n], NL)
  <2>1. n + 1 \in 1..Len(t) /\ n + 1 - 1 = n
    BY <1>1
  <2>2. QED
    BY <1>1, <1>2, <2>1
<1>9. f[n + 1] = [line |-> <<>>, events |-> Handed(f[n])]
  BY <1>7, <1>8, ReadOneIs
<1>10. Handed(f[n]) = Append(<<>>, parse_event(l))
  BY <1>7, Zenon DEF Handed
<1>11. f[n + 1].line = <<>> /\ f[n + 1].events = Append(<<>>, parse_event(l))
  BY <1>9, <1>10
<1>12. Iterated(t) = Handed(f[n + 1])
  BY <1>1, Zenon DEF Iterated, f
<1>13. Handed(f[n + 1]) = Append(<<>>, parse_event(l))
  BY <1>11, Zenon DEF Handed
<1>14. Append(<<>>, parse_event(l)) = <<parse_event(l)>>
  OBVIOUS
<1>15. QED
  BY <1>12, <1>13, <1>14, Zenon DEF t

\* The code's own words are symbols of the file.
LEMMA SymbolAlphabet == Alphabet(Symbol) /\ NL \in Symbol
BY Zenon DEF Alphabet, Symbol

\* The events that can be stored are written with symbols of the file.
LEMMA PoolWritten ==
  ASSUME NEW e \in UNION Pools
  PROVE  Written(e, Symbol)
<1> DEFINE fields == {e.source, e.target, e.summary} \cup Range(e.attributes)
<1>0. IsEvent(e)
  BY QueryAssumption
<1>1. \A t \in fields : t \in Text
  <2> SUFFICES ASSUME NEW t \in fields PROVE t \in Text
    OBVIOUS
  <2>1. t \in Seq(ToSet(t))
    BY <1>0, Zenon DEF IsEvent
  <2>2. ToSet(t) \subseteq UNION {ToSet(u) : u \in fields}
    BY Zenon
  <2> HIDE DEF fields
  <2>3. ToSet(t) \subseteq Symbol
    BY <2>2, Zenon DEF Symbol, fields
  <2> HIDE DEF Symbol
  <2>4. QED
    BY <2>1, <2>3 DEF Text
<1>2. e.attributes \in Attributes(Symbol)
  <2> DEFINE at == e.attributes
             D == DOMAIN at
  <2>1. ToSet(Keys) = {NewKey, OldKey}
    <3>1. DOMAIN Keys = {1, 2} /\ Keys[1] = NewKey /\ Keys[2] = OldKey
      BY DEF Keys, NewKey, OldKey
    <3>2. QED
      BY <3>1, Zenon DEF ToSet
  <2>2. D \subseteq {NewKey, OldKey} /\ at = [k \in D |-> at[k]]
    BY <1>0, <2>1, Zenon DEF IsEvent
  <2>3. \A k \in D : at[k] \in Seq(Symbol)
    BY <1>1, Zenon DEF Range, Text
  <2> HIDE DEF at, D
  <2>4. at \in [D -> Seq(Symbol)]
    BY <2>2, <2>3
  <2>5. QED
    BY <2>2, <2>4, Zenon DEF Attributes, at
<1>3. e.source \in Text /\ e.target \in Text /\ e.summary \in Text
  BY <1>1, Zenon
<1>4. QED
  BY <1>0, <1>2, <1>3, Zenon DEF IsEvent, Written, Text

\* An event is written as one text that ends with a line break.
LEMMA LineType ==
  ASSUME NEW e \in UNION Pools
  PROVE  Line(e) \in Text /\ Line(e) # <<>> /\ Line(e)[Len(Line(e))] = NL
<1>1. serialize_event(e) \in Seq(Symbol)
  BY PoolWritten, SymbolAlphabet, SerializedType
<1>2. NL \in Symbol
  BY SymbolAlphabet
<1>3. QED
  BY <1>1, <1>2 DEF Line, Text

\* The file with one event in it is read as that event, line breaks of the
\* attributes and of the summary apart, just when it is clean.
LEMMA AloneIfClean ==
  ASSUME NEW e \in UNION Pools
  PROVE  Iterated(Line(e)) = <<Flattened(e)>> <=> Clean(e)
<1> DEFINE l == serialize_event(e)
<1>1. Written(e, Symbol) /\ Alphabet(Symbol) /\ NL \in Symbol
  BY PoolWritten, SymbolAlphabet
<1>2. /\ l \in Seq(Symbol) /\ l # <<>>
      /\ e.source \in Seq(Symbol \ {NL}) /\ e.target \in Seq(Symbol \ {NL}) => l \in Seq(Symbol \ {NL})
  BY <1>1, SerializedType
<1>3. e.source \in Seq(Symbol) /\ e.target \in Seq(Symbol)
  BY <1>1 DEF Written
<1>4. Clean(e) <=> /\ NoTabs(e) /\ CleanValues(e.attributes)
                   /\ ~Contains(e.source, NL) /\ ~Contains(e.target, NL)
  BY <1>1, CleanIs
<1>5. ASSUME ~Contains(e.source, NL), ~Contains(e.target, NL)
      PROVE  Iterated(Line(e)) = <<parse_event(l)>>
  <2>1. e.source \in Seq(Symbol \ {NL}) /\ e.target \in Seq(Symbol \ {NL})
    BY <1>3, <1>5, TextWithout
  <2>2. l \in LineText
    BY <1>2, <2>1 DEF LineText
  <2> HIDE DEF l
  <2>3. Iterated(Append(l, NL)) = <<parse_event(l)>>
    BY <1>1, <1>2, <2>2, LineAlone
  <2>4. QED
    BY <2>3, Zenon DEF Line, l
<1>6. ASSUME Iterated(Line(e)) = <<Flattened(e)>>
      PROVE  NoTabs(e) /\ ~Contains(e.source, NL) /\ ~Contains(e.target, NL)
  <2>1. Iterated(Line(e)) \in Seq(Parses)
    <3>1. Line(e) \in Text /\ <<>> \in Text /\ Whole(<<>>)
      BY LineType DEF Whole, Text
    <3>2. QED
      BY <3>1, IteratedJoin
  <2> DEFINE x == Flattened(e)
  <2>2. x \in Parses
    <3> HIDE DEF x, Parses
    <3>1. <<x>> \in Seq(Parses) /\ Len(<<x>>) = 1 /\ <<x>>[1] = x
      BY <1>6, <2>1 DEF x
    <3>2. QED
      BY <3>1
  <2>3. PICK k \in LineText : parse_event(k) = x
    BY <2>2 DEF Parses
  <2>4. QED
    BY <1>1, <2>3, OnlyClean DEF LineText
<1>7. NoTabs(e) => (parse_event(l) = Flattened(e) <=> CleanValues(e.attributes))
  BY <1>1, CleanBack
<1>8. \A x, y : <<x>> = <<y>> <=> x = y
  OBVIOUS
<1> HIDE DEF l
<1>9. ASSUME Clean(e) PROVE Iterated(Line(e)) = <<Flattened(e)>>
  BY <1>4, <1>5, <1>7, <1>9, Zenon
<1>10. ASSUME Iterated(Line(e)) = <<Flattened(e)>> PROVE Clean(e)
  <2>1. <<parse_event(l)>> = <<Flattened(e)>>
    BY <1>5, <1>6, <1>10, Zenon
  <2>2. parse_event(l) = Flattened(e)
    BY <1>8, <2>1, Zenon
  <2>3. QED
    BY <1>4, <1>6, <1>7, <1>10, <2>2, Zenon
<1>11. QED
  BY <1>9, <1>10

\* The sequences joined one after the other.
JoinLoop(f, ss) ==
  /\ f[0] = <<>>
  /\ \A i \in 1..Len(ss) : f[i] = f[i - 1] \o ss[i]

\* FlattenSeq is the loop it is written as.
LEMMA FlattenIs ==
  ASSUME NEW S, NEW ss \in Seq(Seq(S))
  PROVE  \E f \in [0..Len(ss) -> Seq(S)] : JoinLoop(f, ss) /\ FlattenSeq(ss) = f[Len(ss)]
<1> DEFINE n == Len(ss)
           R == Seq(S)
           st == [x \in R \X R |-> x[1] \o x[2]]
           Is(g) == g = [i \in 1..n |-> IF i = 1 THEN ss[i] ELSE g[i - 1] \o ss[i]]
<1>1. n \in Nat /\ <<>> \in R /\ ss \in Seq(R)
  OBVIOUS
<1>2. st \in [R \X R -> R]
  <2>1. ASSUME NEW x \in R \X R PROVE x[1] \o x[2] \in R
    OBVIOUS
  <2> HIDE DEF R
  <2>2. QED
    BY <2>1
<1>3. PICK f \in [0..n -> R] : IsLoop(f, <<>>, st, ss, n)
  <2> HIDE DEF st, R
  <2>1. QED
    BY <1>1, <1>2, LoopExists
<1>4. f[0] = <<>>
  BY <1>3 DEF IsLoop
<1>5. ASSUME NEW i \in 1..n PROVE f[i] = f[i - 1] \o ss[i] /\ f[i - 1] \in R /\ ss[i] \in R
  <2>1. f[i - 1] \in R /\ ss[i] \in R
    <3>1. i - 1 \in 0..n
      BY <1>1
    <3>2. f[i - 1] \in R
      BY <3>1
    <3>3. ss[i] \in R
      <4> HIDE DEF R
      <4>1. QED
        BY <1>1
    <3>4. QED
      BY <3>2, <3>3
  <2>2. f[i] = st[<<f[i - 1], ss[i]>>]
    BY <1>3 DEF IsLoop
  <2> HIDE DEF R
  <2>3. QED
    BY <2>1, <2>2
<1>6. JoinLoop(f, ss)
  BY <1>4, <1>5 DEF JoinLoop
<1> HIDE DEF st
<1>7. CASE n = 0
  <2>1. FlattenSeq(ss) = ss /\ ss = <<>>
    BY <1>1, <1>7 DEF FlattenSeq
  <2>2. QED
    BY <1>4, <1>6, <1>7, <2>1
<1>8. CASE n # 0
  <2> DEFINE g == [i \in 1..n |-> f[i]]
             h == CHOOSE k : Is(k)
  <2>1. ASSUME NEW i \in 1..n PROVE g[i] = IF i = 1 THEN ss[i] ELSE g[i - 1] \o ss[i]
    <3>1. CASE i = 1
      <4>1. <<>> \o ss[1] = ss[1]
        BY <1>5, <3>1
      <4>0. 1 - 1 = 0
        OBVIOUS
      <4>2. f[1] = f[0] \o ss[1]
        BY <1>5, <3>1, <4>0, Zenon
      <4>3. QED
        BY <1>4, <3>1, <4>1, <4>2
    <3>2. CASE i # 1
      <4>1. i - 1 \in 1..n
        BY <1>1, <3>2
      <4>2. QED
        BY <1>5, <3>2, <4>1
    <3>3. QED
      BY <3>1, <3>2
  <2>2. Is(g)
    BY <2>1
  <2>3. Is(h)
    <3> HIDE DEF Is, g
    <3>1. QED
      BY <2>2, Zenon
  <2>4. FlattenSeq(ss) = h[n]
    BY <1>8 DEF FlattenSeq
  <2> HIDE DEF h
  <2>5. \A i \in 1..n : h[i] = IF i = 1 THEN ss[i] ELSE h[i - 1] \o ss[i]
    BY <2>3
  <2> DEFINE x == [i \in 0..n |-> IF i = 0 THEN <<>> ELSE h[i]]
  <2>6. x[0] = f[0]
    BY <1>1, <1>4
  <2>7. ASSUME NEW i \in 1..n, x[i - 1] = f[i - 1] PROVE x[i] = f[i]
    <3>1. i \in 0..n /\ i - 1 \in 0..n /\ (i # 1 => i - 1 # 0)
      BY <1>1
    <3>2. x[i] = h[i]
      BY <3>1
    <3>3. CASE i = 1
      <4>1. <<>> \o ss[1] = ss[1]
        BY <1>5, <3>3
      <4>0. 1 - 1 = 0
        OBVIOUS
      <4>2. f[1] = f[0] \o ss[1] /\ h[1] = ss[1]
        BY <1>5, <2>5, <3>3, <4>0, Zenon
      <4>3. QED
        BY <1>4, <3>2, <3>3, <4>1, <4>2
    <3>4. CASE i # 1
      <4>1. x[i - 1] = h[i - 1]
        BY <3>1, <3>4
      <4>2. h[i] = h[i - 1] \o ss[i]
        BY <2>5, <3>4
      <4> HIDE DEF x
      <4>3. QED
        BY <1>5, <2>7, <3>2, <4>1, <4>2
    <3>5. QED
      BY <3>3, <3>4
  <2>8. x[n] = h[n]
    BY <1>1, <1>8
  <2> HIDE DEF x
  <2>9. x[n] = f[n]
    <3>1. GoOnAlike(x, f, n)
      BY <2>6, <2>7 DEF GoOnAlike
    <3>2. \A i \in 0..n : x[i] = f[i]
      BY <1>1, <3>1, LoopsAgree
    <3>3. QED
      BY <1>1, <3>2
  <2>10. QED
    BY <1>6, <2>4, <2>8, <2>9
<1>9. QED
  BY <1>7, <1>8

\* One sequence more goes behind the others.
LEMMA FlattenAppend ==
  ASSUME NEW S, NEW ss \in Seq(Seq(S)), NEW s \in Seq(S)
  PROVE  FlattenSeq(Append(ss, s)) = FlattenSeq(ss) \o s
<1> DEFINE n == Len(ss)
           R == Seq(S)
           tt == Append(ss, s)
<1>1. /\ n \in Nat /\ tt \in Seq(R) /\ Len(tt) = n + 1 /\ tt[n + 1] = s
      /\ \A i \in 1..n : tt[i] = ss[i]
  <2>1. ss \in Seq(R) /\ s \in R
    OBVIOUS
  <2> HIDE DEF R
  <2>2. QED
    BY <2>1
<1> HIDE DEF tt, n
<1>2. PICK f \in [0..n -> R] : JoinLoop(f, ss) /\ FlattenSeq(ss) = f[n]
  BY FlattenIs DEF n
<1>3. PICK g \in [0..n + 1 -> R] : JoinLoop(g, tt) /\ FlattenSeq(tt) = g[n + 1]
  BY <1>1, FlattenIs
<1>4. f[0] = g[0]
  BY <1>2, <1>3 DEF JoinLoop
<1>5. ASSUME NEW i \in 1..n, f[i - 1] = g[i - 1] PROVE f[i] = g[i]
  <2>1. i \in 1..n + 1
    BY <1>1
  <2>2. f[i] = f[i - 1] \o ss[i]
    BY <1>2, Zenon DEF JoinLoop, n
  <2>3. g[i] = g[i - 1] \o tt[i]
    BY <1>1, <1>3, <2>1, Zenon DEF JoinLoop
  <2>4. QED
    BY <1>1, <1>5, <2>2, <2>3, Zenon
<1>6. f[n] = g[n]
  <2>1. GoOnAlike(f, g, n)
    BY <1>4, <1>5 DEF GoOnAlike
  <2>2. \A i \in 0..n : f[i] = g[i]
    BY <1>1, <2>1, LoopsAgree
  <2>3. n \in 0..n
    BY <1>1
  <2>4. QED
    BY <2>2, <2>3, Zenon
<1>7. g[n + 1] = g[n] \o s
  <2> DEFINE m == n + 1
  <2>1. m \in 1..m /\ m - 1 = n
    BY <1>1
  <2>2. Len(tt) = m /\ tt[m] = s
    BY <1>1
  <2> HIDE DEF m
  <2>3. g[m] = g[m - 1] \o tt[m]
    BY <1>3, <2>1, <2>2, Zenon DEF JoinLoop
  <2>4. QED
    BY <2>1, <2>2, <2>3, Zenon DEF m
<1>8. QED
  BY <1>2, <1>3, <1>6, <1>7, Zenon DEF tt

-----------------------------------------------------------------------------
(* Sorted arrangements: the place of an element whose value no other has   *)
(* is the number of the greater ones, plus one.                            *)

Descending(s, v) == \A i \in 1..Len(s) - 1 : v[s[i]] >= v[s[i + 1]]

\* The numbers up to n are finite, and n of them.
LEMMA UpTo ==
  ASSUME NEW n \in Nat
  PROVE  IsFiniteSet(1..n) /\ Cardinality(1..n) = n
<1>1. 1 \in Int /\ n \in Int
  OBVIOUS
<1>2. IsFiniteSet(1..n) /\ Cardinality(1..n) = IF 1 > n THEN 0 ELSE n - 1 + 1
  BY <1>1, FS_Interval
<1>3. QED
  BY <1>2

\* A set arranged in a sequence: each element has one place.
LEMMA Arrangement ==
  ASSUME NEW M, IsFiniteSet(M), NEW s \in SetToSeqs(M)
  PROVE  /\ s \in Seq(M) /\ Len(s) = Cardinality(M)
         /\ \A i, j \in 1..Len(s) : i # j => s[i] # s[j]
         /\ \A x \in M : \E k \in 1..Len(s) : s[k] = x
<1> DEFINE n == Cardinality(M)
<1>1. n \in Nat
  BY FS_CardinalityType
<1>2. s \in [1..n -> M] /\ \A i, j \in 1..n : i # j => s[i] # s[j]
  BY Zenon DEF SetToSeqs
<1>3. s \in Seq(M) /\ Len(s) = n
  <2> HIDE DEF n
  <2>1. QED
    BY <1>1, <1>2
<1>4. IsFiniteSet(1..n) /\ Cardinality(1..n) = n
  BY <1>1, UpTo
<1>5. s \in Injection(1..n, M)
  BY <1>2 DEF Injection, IsInjective
<1>6. s \in Surjection(1..n, M)
  BY <1>4, <1>5, FS_Injection
<1>7. QED
  BY <1>2, <1>3, <1>6 DEF Surjection

\* What descends from neighbour to neighbour descends over any distance.
LEMMA DescendingFar ==
  ASSUME NEW M, NEW v \in [M -> Int], NEW s \in Seq(M), Descending(s, v),
         NEW i \in 1..Len(s), NEW j \in 1..Len(s), i <= j
  PROVE  v[s[i]] >= v[s[j]]
<1> DEFINE T == {d \in Nat : i + d <= Len(s) => v[s[i]] >= v[s[i + d]]}
<1>0. \A k \in 1..Len(s) : v[s[k]] \in Int
  OBVIOUS
<1>1. 0 \in T
  <2>1. i + 0 = i
    OBVIOUS
  <2>2. QED
    BY <1>0, <2>1
<1>2. ASSUME NEW d \in Nat, d \in T PROVE d + 1 \in T
  <2> SUFFICES ASSUME i + (d + 1) <= Len(s) PROVE v[s[i]] >= v[s[i + (d + 1)]]
    OBVIOUS
  <2>1. i + d \in 1..Len(s) - 1 /\ i + (d + 1) = i + d + 1 /\ i + d + 1 \in 1..Len(s)
    OBVIOUS
  <2>2. v[s[i]] >= v[s[i + d]]
    BY <1>2, <2>1
  <2>3. v[s[i + d]] >= v[s[i + d + 1]]
    BY <2>1 DEF Descending
  <2>4. QED
    BY <1>0, <2>1, <2>2, <2>3
<1> HIDE DEF T
<1>3. Nat \subseteq T
  BY <1>1, <1>2, SetInduction
<1>4. j - i \in T /\ i + (j - i) = j
  BY <1>3
<1>5. QED
  BY <1>4 DEF T

\* The place of an element is one more than the number of the greater ones.
LEMMA PlaceCounts ==
  ASSUME NEW M, IsFiniteSet(M), NEW v \in [M -> Int], NEW s \in SetToSeqs(M), Descending(s, v),
         NEW k \in 1..Len(s), \A y \in M \ {s[k]} : v[y] # v[s[k]]
  PROVE  Cardinality({y \in M : v[y] > v[s[k]]}) = k - 1
<1> DEFINE n == Len(s)
           x == s[k]
           G == {y \in M : v[y] > v[x]}
           f == [i \in 1..k - 1 |-> s[i]]
<1>1. /\ s \in Seq(M) /\ n \in Nat
      /\ \A i, j \in 1..n : i # j => s[i] # s[j]
      /\ \A y \in M : \E i \in 1..n : s[i] = y
  BY Arrangement
<1>2. \A i, j \in 1..n : i <= j => v[s[i]] >= v[s[j]]
  <2> SUFFICES ASSUME NEW i \in 1..n, NEW j \in 1..n, i <= j PROVE v[s[i]] >= v[s[j]]
    OBVIOUS
  <2>1. QED
    BY <1>1, DescendingFar
<1>3. \A i \in 1..n : s[i] \in M /\ v[s[i]] \in Int
  <2>1. \A i \in 1..n : s[i] \in M
    BY <1>1
  <2>2. QED
    BY <2>1
<1>4. ASSUME NEW i \in 1..k - 1 PROVE s[i] \in G
  <2>1. i \in 1..n /\ i <= k /\ i # k
    OBVIOUS
  <2>2. v[s[i]] >= v[x] /\ s[i] # x /\ s[i] \in M
    BY <1>1, <1>2, <1>3, <2>1
  <2>3. v[s[i]] # v[x]
    BY <2>2
  <2>4. QED
    BY <1>3, <2>1, <2>2, <2>3
<1>5. ASSUME NEW y \in G PROVE \E i \in 1..k - 1 : s[i] = y
  <2>1. PICK i \in 1..n : s[i] = y
    BY <1>1
  <2>2. ~(k <= i)
    BY <1>2, <1>3, <2>1
  <2>3. QED
    BY <2>1, <2>2
<1> HIDE DEF G
<1>6. f \in Bijection(1..k - 1, G)
  <2>1. f \in [1..k - 1 -> G]
    BY <1>4
  <2>2. \A i, j \in 1..k - 1 : f[i] = f[j] => i = j
    <3>1. 1..k - 1 \subseteq 1..n
      BY <1>1
    <3>2. QED
      BY <1>1, <3>1
  <2>3. \A y \in G : \E i \in 1..k - 1 : f[i] = y
    BY <1>5
  <2>4. QED
    BY <2>1, <2>2, <2>3 DEF Bijection, Injection, IsInjective, Surjection
<1>7. IsFiniteSet(1..k - 1) /\ Cardinality(1..k - 1) = k - 1
  <2>1. k - 1 \in Nat
    OBVIOUS
  <2>2. QED
    BY <2>1, UpTo
<1>8. Cardinality(G) = k - 1
  BY <1>6, <1>7, FS_Bijection DEF ExistsBijection
<1>9. QED
  BY <1>8 DEF G

-----------------------------------------------------------------------------
(* The pages of a query.                                                   *)

NewerMatches(i) == {j \in Matching(options) : stored[j].timestamp > stored[i].timestamp}

\* A match that was there when the reader began, has a time of its own, and
\* was not printed has at least as many newer matches as the reader skips.
StillToCome ==
  \A i \in Matching(options) :
    i <= base /\ Alone(i) /\ i \notin ToSet(printed) =>
      reading # "done" /\ offset <= Cardinality(NewerMatches(i))

\* What each event written is read back as when it is alone in the file.
ReadAlone(w) == [i \in DOMAIN w |-> Iterated(Line(w[i]))]

QueryInv ==
  /\ \E p \in Pools : pool \subseteq p
  /\ written \in Seq(UNION Pools)
  /\ Whole(file) /\ stored = Iterated(file) /\ stored = FlattenSeq(ReadAlone(written))
  /\ options \in Options
  /\ base \in 0..Len(stored)
  /\ printed \in Seq(DOMAIN stored) /\ offset = Len(printed)
  /\ reading \in {"no", "yes", "done"} /\ (reading = "no" => offset = 0 /\ base = 0)
  /\ StillToCome

\* A parsed event has a timestamp that can be compared.
LEMMA ParsedTime ==
  ASSUME NEW x \in Parses
  PROVE  x.timestamp \in Int
<1>1. PICK l : x = parse_event(l)
  BY DEF Parses
<1>2. Timestamp \subseteq Int /\ Now \in Int
  BY DEF Timestamp, Now, Digits
<1>3. ASSUME NEW f PROVE TimeOf(f) \in Int
  <2>1. CASE f # <<>> /\ \E t \in Timestamp : f[1] = Digits[t]
    <3>1. TimeOf(f) = CHOOSE t \in Timestamp : f[1] = Digits[t]
      BY <2>1 DEF TimeOf
    <3>2. TimeOf(f) \in Timestamp
      BY <2>1, <3>1, Zenon
    <3>3. QED
      BY <1>2, <3>2
  <2>2. CASE ~(f # <<>> /\ \E t \in Timestamp : f[1] = Digits[t])
    <3>1. TimeOf(f) = Now
      BY <2>2 DEF TimeOf
    <3>2. QED
      BY <1>2, <3>1
  <2>3. QED
    BY <2>1, <2>2
<1>4. x.timestamp = Now \/ \E f : x.timestamp = TimeOf(f)
  <2> DEFINE tokens == Split(l)
  <2>1. CASE Len(tokens) < 9
    BY <1>1, <2>1 DEF parse_event, DefaultEvent
  <2>2. CASE ~(Len(tokens) < 9)
    <3>1. x.timestamp = TimeOf(tokens[1])
      BY <1>1, <2>2 DEF parse_event
    <3>2. QED
      BY <3>1, Zenon
  <2>3. QED
    BY <2>1, <2>2
<1>5. QED
  BY <1>2, <1>3, <1>4

\* What iterate hands over are parsed lines.
LEMMA IteratedType ==
  ASSUME NEW text, Whole(text)
  PROVE  Iterated(text) \in Seq(Parses)
<1>1. <<>> \in Text
  BY DEF Text
<1>2. QED
  BY <1>1, IteratedBegins

\* The places of the stored events are finitely many.
LEMMA PlacesFinite ==
  ASSUME NEW S, NEW s \in Seq(S), NEW M, M \subseteq DOMAIN s
  PROVE  IsFiniteSet(M)
<1>1. Len(s) \in Nat /\ DOMAIN s = 1..Len(s)
  OBVIOUS
<1>2. IsFiniteSet(1..Len(s))
  BY <1>1, UpTo
<1>3. QED
  BY <1>1, <1>2, FS_Subset

\* Initially the file is empty and nothing has been read.
LEMMA QueryInvInit == Init => QueryInv
<1> SUFFICES ASSUME Init PROVE QueryInv
  OBVIOUS
<1>1. /\ pool \in Pools /\ file = <<>> /\ stored = <<>> /\ written = <<>>
      /\ options = (CHOOSE o \in Options : TRUE)
      /\ offset = 0 /\ printed = <<>> /\ base = 0 /\ reading = "no"
  BY DEF Init
<1>2. options \in Options
  BY <1>1, QueryAssumption
<1>3. Whole(file)
  BY <1>1 DEF Whole, Text
<1>4. stored = Iterated(file)
  <2>1. Scanned(<<>>)[0] = Blank
    BY <1>1, <1>3, ScannedIs DEF Whole
  <2>2. Handed(Blank) = <<>>
    BY DEF Handed, Blank
  <2>3. QED
    BY <1>1, <2>1, <2>2 DEF Iterated
<1>5. StillToCome
  BY <1>1 DEF StillToCome, Matching
<1>6. FlattenSeq(ReadAlone(written)) = <<>>
  <2>1. ReadAlone(<<>>) = <<>> /\ Len(<<>>) = 0
    BY DEF ReadAlone
  <2>2. QED
    BY <1>1, <2>1, Zenon DEF FlattenSeq
<1>7. QED
  BY <1>1, <1>2, <1>3, <1>4, <1>5, <1>6 DEF QueryInv

\* Another event is read behind the others.
LEMMA ReadAppend ==
  ASSUME NEW w \in Seq(UNION Pools), NEW e \in UNION Pools
  PROVE  FlattenSeq(ReadAlone(Append(w, e))) = FlattenSeq(ReadAlone(w)) \o Iterated(Line(e))
<1> DEFINE R(d) == Iterated(Line(d))
           ss == ReadAlone(w)
           tt == ReadAlone(Append(w, e))
           n == Len(w)
           v == Append(w, e)
           S == Seq(Parses)
<1>1. \A d \in UNION Pools : R(d) \in S
  <2> SUFFICES ASSUME NEW d \in UNION Pools PROVE R(d) \in S
    OBVIOUS
  <2>1. Line(d) \in Text /\ Whole(<<>>)
    BY LineType DEF Whole, Text
  <2>2. QED
    BY <2>1, IteratedJoin
<1>2. /\ n \in Nat /\ DOMAIN w = 1..n /\ \A i \in 1..n : w[i] \in UNION Pools
      /\ DOMAIN v = 1..n + 1 /\ v[n + 1] = e /\ \A i \in 1..n : v[i] = w[i]
  OBVIOUS
<1>3. ss = [i \in 1..n |-> R(w[i])] /\ tt = [i \in 1..n + 1 |-> R(v[i])]
  BY <1>2, Zenon DEF ReadAlone
<1> HIDE DEF R, S, ss, tt, v
<1>4. ss \in Seq(S) /\ Len(ss) = n /\ \A i \in 1..n : ss[i] = R(w[i])
  BY <1>1, <1>2, <1>3
<1>5. tt \in Seq(S) /\ Len(tt) = n + 1 /\ tt[n + 1] = R(e) /\ \A i \in 1..n : tt[i] = R(w[i])
  <2>1. \A i \in 1..n + 1 : v[i] \in UNION Pools
    BY <1>2
  <2>2. QED
    BY <1>1, <1>2, <1>3, <2>1
<1>6. tt = Append(ss, R(e))
  <2> DEFINE uu == Append(ss, R(e))
  <2>1. R(e) \in S
    BY <1>1
  <2>2. uu \in Seq(S) /\ Len(uu) = n + 1 /\ uu[n + 1] = R(e) /\ \A i \in 1..n : uu[i] = ss[i]
    BY <1>4, <2>1
  <2> HIDE DEF uu
  <2>3. \A i \in 1..n + 1 : tt[i] = uu[i]
    <3>1. \A i \in 1..n + 1 : i \in 1..n \/ i = n + 1
      BY <1>2
    <3>2. QED
      BY <1>4, <1>5, <2>2, <3>1
  <2>4. tt = uu
    BY <1>5, <2>2, <2>3, SameElements
  <2>5. QED
    BY <2>4 DEF uu
<1>7. FlattenSeq(Append(ss, R(e))) = FlattenSeq(ss) \o R(e)
  BY <1>1, <1>4, FlattenAppend DEF S
<1>8. QED
  BY <1>6, <1>7, Zenon DEF ss, tt, v, R

\* append_event keeps the invariant: the earlier lines stay as they were.
LEMMA InsertKeeps ==
  ASSUME QueryInv, NEW e \in pool, Insert(e)
  PROVE  QueryInv'
<1>1. /\ pool' = pool \ {e} /\ file' = file \o Line(e) /\ stored' = Iterated(file')
      /\ written' = Append(written, e) /\ UNCHANGED <<options, offset, printed, base, reading>>
  BY DEF Insert, readerVars
<1>2. /\ written \in Seq(UNION Pools) /\ Whole(file) /\ stored = Iterated(file)
      /\ stored = FlattenSeq(ReadAlone(written))
      /\ base \in 0..Len(stored) /\ printed \in Seq(DOMAIN stored) /\ StillToCome
  BY DEF QueryInv
<1>3. PICK p \in Pools : pool \subseteq p
  BY DEF QueryInv
<1>4. e \in UNION Pools /\ pool' \subseteq p
  BY <1>1, <1>3
<1>5. Line(e) \in Text /\ Line(e) # <<>> /\ Line(e)[Len(Line(e))] = NL
  BY <1>4, LineType
<1>6. Whole(file')
  <2>1. file \in Seq(Symbol) /\ Line(e) \in Seq(Symbol)
    BY <1>2, <1>5 DEF Whole, Text
  <2>2. file' \in Seq(Symbol) /\ Len(file') = Len(file) + Len(Line(e)) /\ Len(Line(e)) > 0
    BY <1>1, <1>5, <2>1
  <2>3. file'[Len(file')] = Line(e)[Len(Line(e))]
    BY <1>1, <2>1, <2>2
  <2>4. QED
    BY <1>5, <2>2, <2>3 DEF Whole, Text
<1>7. stored \in Seq(Parses) /\ stored' \in Seq(Parses) /\ Begins(stored, stored')
  BY <1>1, <1>2, <1>5, IteratedBegins
<1>8. /\ DOMAIN stored = 1..Len(stored) /\ DOMAIN stored' = 1..Len(stored')
      /\ Len(stored) \in Nat /\ Len(stored') \in Nat /\ Len(stored) <= Len(stored')
      /\ \A i \in DOMAIN stored : i \in DOMAIN stored' /\ stored'[i] = stored[i]
  BY <1>7 DEF Begins
<1>9. Matching(options) \subseteq Matching(options)'
  BY <1>1, <1>8 DEF Matching
<1>10. StillToCome'
  <2> SUFFICES ASSUME NEW i \in Matching(options)', i <= base, Alone(i)', i \notin ToSet(printed)
               PROVE  reading # "done" /\ offset <= Cardinality(NewerMatches(i)')
    BY <1>1 DEF StillToCome
  <2>1. i \in DOMAIN stored' /\ Matches(stored'[i], options)
    BY <1>1 DEF Matching
  <2>2. i \in DOMAIN stored
    BY <1>2, <1>8, <2>1
  <2>3. i \in Matching(options) /\ stored'[i] = stored[i]
    BY <1>8, <2>1, <2>2 DEF Matching
  <2>4. \A j \in Matching(options) : j \in DOMAIN stored /\ stored'[j] = stored[j]
    BY <1>8 DEF Matching
  <2>5. Alone(i)
    BY <1>1, <1>9, <2>3, <2>4 DEF Alone
  <2>6. reading # "done" /\ offset <= Cardinality(NewerMatches(i))
    BY <1>2, <2>3, <2>5 DEF StillToCome
  <2>7. NewerMatches(i) \subseteq NewerMatches(i)'
    BY <1>1, <1>9, <2>3, <2>4 DEF NewerMatches
  <2>8. IsFiniteSet(NewerMatches(i)') /\ IsFiniteSet(NewerMatches(i))
    <3>1. IsFiniteSet(Matching(options)) /\ IsFiniteSet(Matching(options)')
      <4>1. Matching(options) \subseteq DOMAIN stored /\ Matching(options)' \subseteq DOMAIN stored'
        BY DEF Matching
      <4>2. QED
        BY <1>7, <4>1, PlacesFinite
    <3>2. /\ NewerMatches(i) \subseteq Matching(options)
          /\ NewerMatches(i)' \subseteq Matching(options)'
      BY <1>1 DEF NewerMatches
    <3>3. QED
      BY <3>1, <3>2, FS_Subset
  <2>9. Cardinality(NewerMatches(i)) <= Cardinality(NewerMatches(i)')
    BY <2>7, <2>8, FS_Subset
  <2>10. /\ Cardinality(NewerMatches(i)) \in Nat /\ Cardinality(NewerMatches(i)') \in Nat
         /\ offset \in Nat
    BY <1>2, <2>8, FS_CardinalityType DEF QueryInv
  <2>11. QED
    BY <2>6, <2>9, <2>10
<1>11. printed \in Seq(DOMAIN stored') /\ base \in 0..Len(stored')
  BY <1>2, <1>8
<1>12. written' \in Seq(UNION Pools)
  BY <1>1, <1>2, <1>4
<1>13. stored' = FlattenSeq(ReadAlone(written'))
  <2>1. Iterated(file \o Line(e)) = Iterated(file) \o Iterated(Line(e))
    BY <1>2, <1>5, IteratedJoin
  <2>2. FlattenSeq(ReadAlone(Append(written, e))) = FlattenSeq(ReadAlone(written)) \o Iterated(Line(e))
    BY <1>2, <1>4, ReadAppend
  <2>3. QED
    BY <1>1, <1>2, <2>1, <2>2, Zenon
<1>14. QED
  BY <1>1, <1>4, <1>6, <1>10, <1>11, <1>12, <1>13 DEF QueryInv

\* The start of a query keeps it: everything is still to come.
LEMMA BeginReadingKeeps ==
  ASSUME QueryInv, BeginReading
  PROVE  QueryInv'
<1>1. /\ reading = "no" /\ reading' = "yes" /\ options' \in Options /\ base' = Len(stored)
      /\ UNCHANGED <<pool, file, stored, written, offset, printed>>
  BY DEF BeginReading
<1>2. offset = 0 /\ stored \in Seq(Parses)
  BY <1>1, IteratedType DEF QueryInv
<1>3. StillToCome'
  <2> SUFFICES ASSUME NEW i PROVE 0 <= Cardinality(NewerMatches(i)')
    BY <1>1, <1>2 DEF StillToCome
  <2>1. NewerMatches(i)' \subseteq DOMAIN stored
    BY <1>1 DEF NewerMatches, Matching
  <2>2. IsFiniteSet(NewerMatches(i)')
    BY <1>2, <2>1, PlacesFinite
  <2>3. Cardinality(NewerMatches(i)') \in Nat
    BY <2>2, FS_CardinalityType
  <2>4. QED
    BY <2>3
<1>4. base' \in 0..Len(stored)
  BY <1>1, <1>2
<1>5. QED
  BY <1>1, <1>3, <1>4 DEF QueryInv

\* The elements of two sequences joined.
LEMMA ToSetJoin ==
  ASSUME NEW S, NEW s \in Seq(S), NEW t \in Seq(S)
  PROVE  ToSet(s \o t) = ToSet(s) \cup ToSet(t)
<1>1. /\ DOMAIN s = 1..Len(s) /\ DOMAIN t = 1..Len(t) /\ DOMAIN (s \o t) = 1..Len(s) + Len(t)
      /\ Len(s) \in Nat /\ Len(t) \in Nat
      /\ \A i \in 1..Len(s) : (s \o t)[i] = s[i]
      /\ \A i \in 1..Len(t) : (s \o t)[Len(s) + i] = t[i]
  OBVIOUS
<1>2. ASSUME NEW i \in DOMAIN (s \o t)
      PROVE  (s \o t)[i] \in ToSet(s) \cup ToSet(t)
  <2>1. CASE i <= Len(s)
    BY <1>1, <2>1 DEF ToSet
  <2>2. CASE ~(i <= Len(s))
    <3>1. i - Len(s) \in 1..Len(t) /\ Len(s) + (i - Len(s)) = i
      BY <1>1, <2>2
    <3>2. (s \o t)[i] = t[i - Len(s)]
      BY <1>1, <3>1
    <3>3. QED
      BY <1>1, <3>1, <3>2 DEF ToSet
  <2>3. QED
    BY <2>1, <2>2
<1>3. ASSUME NEW i \in 1..Len(s) PROVE s[i] \in ToSet(s \o t)
  <2>1. i \in DOMAIN (s \o t) /\ (s \o t)[i] = s[i]
    BY <1>1
  <2>2. QED
    BY <2>1, Zenon DEF ToSet
<1>4. ASSUME NEW i \in 1..Len(t) PROVE t[i] \in ToSet(s \o t)
  <2>1. Len(s) + i \in DOMAIN (s \o t) /\ (s \o t)[Len(s) + i] = t[i]
    BY <1>1
  <2>2. QED
    BY <2>1, Zenon DEF ToSet
<1>5. ToSet(s \o t) \subseteq ToSet(s) \cup ToSet(t)
  BY <1>2, Zenon DEF ToSet
<1>6. ToSet(s) \subseteq ToSet(s \o t) /\ ToSet(t) \subseteq ToSet(s \o t)
  <2>1. \A y \in ToSet(s) : \E i \in 1..Len(s) : y = s[i]
    BY <1>1 DEF ToSet
  <2>2. \A y \in ToSet(t) : \E i \in 1..Len(t) : y = t[i]
    BY <1>1 DEF ToSet
  <2>3. QED
    BY <1>3, <1>4, <2>1, <2>2, Zenon
<1>7. QED
  BY <1>5, <1>6, Zenon

\* A page is the stretch of the arrangement from offset on, and it is empty
\* only if nothing is left.
LEMMA PageIs ==
  ASSUME NEW S, NEW s \in Seq(S), NEW skip \in Nat, NEW limit \in Int
  PROVE  LET page == Page(s, skip, limit)
         IN  /\ page \in Seq(S)
             /\ \A i \in 1..Len(page) : skip + i \in 1..Len(s) /\ page[i] = s[skip + i]
             /\ page = <<>> => Len(s) <= skip
<1> DEFINE page == Page(s, skip, limit)
           n == Len(s)
           end == PageEnd(skip, limit, n)
<1>1. n \in Nat
  OBVIOUS
<1>2. CASE skip >= n
  <2>1. page = <<>>
    BY <1>2 DEF Page
  <2>2. QED
    BY <1>1, <1>2, <2>1
<1>3. CASE ~(skip >= n)
  <2>1. page = SubSeq(s, skip + 1, end)
    BY <1>3 DEF Page
  <2>2. end \in skip + 1..n
    BY <1>1, <1>3 DEF PageEnd
  <2> HIDE DEF end
  <2>3. /\ page \in Seq(S) /\ Len(page) = end - skip
        /\ \A i \in 1..end - skip : page[i] = s[skip + i]
    <3>1. skip + 1 \in 1..n /\ end \in 1..n /\ skip + 1 <= end
      BY <1>1, <2>2
    <3>2. Len(page) = end - (skip + 1) + 1 /\ page \in Seq(S)
      BY <2>1, <3>1
    <3>3. \A i \in 1..end - skip : page[i] = s[skip + 1 + i - 1]
      BY <2>1, <3>1
    <3>4. QED
      BY <3>1, <3>2, <3>3
  <2>4. QED
    BY <1>1, <2>2, <2>3
<1>4. QED
  BY <1>1, <1>2, <1>3

\* A page keeps it: what it leaves out is older than what it has.
LEMMA NextPageKeeps ==
  ASSUME QueryInv, NextPage
  PROVE  QueryInv'
<1> DEFINE M == Matching(options)
           page(s) == Page(s, offset, options.limit)
<1>1. PICK s \in Sorted(M) : /\ printed' = printed \o page(s) /\ offset' = offset + Len(page(s))
                             /\ reading' = IF page(s) = <<>> THEN "done" ELSE "yes"
  BY DEF NextPage
<1>2. reading = "yes" /\ UNCHANGED <<pool, file, stored, written, options, base>>
  BY DEF NextPage
<1>3. stored \in Seq(Parses) /\ M \subseteq DOMAIN stored
  BY IteratedType DEF QueryInv, Matching
<1>4. IsFiniteSet(M)
  BY <1>3, PlacesFinite
<1>5. /\ s \in SetToSeqs(M)
      /\ \A i \in 1..Len(s) - 1 : stored[s[i]].timestamp >= stored[s[i + 1]].timestamp
  BY DEF Sorted
<1>6. /\ s \in Seq(M) /\ Len(s) \in Nat
      /\ \A x \in M : \E k \in 1..Len(s) : s[k] = x
  BY <1>4, <1>5, Arrangement
<1>7. offset \in Nat /\ options.limit \in Int /\ printed \in Seq(DOMAIN stored)
  BY QueryAssumption DEF QueryInv
<1> HIDE DEF M
<1>8. /\ page(s) \in Seq(M)
      /\ \A i \in 1..Len(page(s)) : offset + i \in 1..Len(s) /\ page(s)[i] = s[offset + i]
      /\ page(s) = <<>> => Len(s) <= offset
  BY <1>6, <1>7, PageIs
<1> HIDE DEF page
<1>9. /\ printed' \in Seq(DOMAIN stored) /\ Len(printed') = Len(printed) + Len(page(s))
      /\ ToSet(printed') = ToSet(printed) \cup ToSet(page(s))
  <2>1. page(s) \in Seq(DOMAIN stored)
    BY <1>3, <1>8
  <2>2. printed' \in Seq(DOMAIN stored) /\ Len(printed') = Len(printed) + Len(page(s))
    BY <1>1, <1>7, <2>1
  <2>3. ToSet(printed \o page(s)) = ToSet(printed) \cup ToSet(page(s))
    BY <1>7, <2>1, ToSetJoin
  <2>4. QED
    BY <1>1, <2>2, <2>3
<1>10. StillToCome'
  <2> SUFFICES ASSUME NEW x \in M, x <= base, Alone(x), x \notin ToSet(printed'),
                      StillToCome
               PROVE  reading' # "done" /\ offset' <= Cardinality(NewerMatches(x))
    <3>1. /\ M = Matching(options)'
          /\ \A i : Alone(i)' = Alone(i) /\ NewerMatches(i)' = NewerMatches(i)
      BY <1>2 DEF M, Matching, Alone, NewerMatches
    <3>2. QED
      BY <1>2, <3>1 DEF StillToCome, QueryInv
  <2> DEFINE v == [j \in M |-> stored[j].timestamp]
  <2>1. PICK k \in 1..Len(s) : s[k] = x
    BY <1>6
  <2>2. v \in [M -> Int]
    BY <1>3, ParsedTime
  <2>3. Descending(s, v)
    <3>1. ASSUME NEW i \in 1..Len(s) - 1 PROVE s[i] \in M /\ s[i + 1] \in M
      <4>1. i \in 1..Len(s) /\ i + 1 \in 1..Len(s)
        BY <1>6
      <4>2. \A j \in 1..Len(s) : s[j] \in M
        BY <1>6
      <4>3. QED
        BY <4>1, <4>2
    <3>2. \A y \in M : v[y] = stored[y].timestamp
      OBVIOUS
    <3> HIDE DEF v
    <3>3. QED
      BY <1>5, <3>1, <3>2 DEF Descending
  <2>4. \A y \in M \ {s[k]} : v[y] # v[s[k]]
    BY <2>1 DEF Alone, M
  <2>5. NewerMatches(x) = {y \in M : v[y] > v[s[k]]}
    BY <2>1 DEF NewerMatches, M
  <2> HIDE DEF v
  <2>6. Cardinality(NewerMatches(x)) = k - 1
    <3> HIDE DEF M
    <3>1. Cardinality({y \in M : v[y] > v[s[k]]}) = k - 1
      BY <1>4, <1>5, <2>2, <2>3, <2>4, PlaceCounts
    <3>2. QED
      BY <2>5, <3>1
  <2>7. x \notin ToSet(printed) /\ x \notin ToSet(page(s))
    BY <1>9
  <2>8. offset <= k - 1
    BY <2>6, <2>7 DEF StillToCome, M
  <2>9. Len(page(s)) \in Nat
    BY <1>8
  <2>10. page(s) # <<>>
    BY <1>6, <1>7, <1>8, <2>8
  <2>11. offset + Len(page(s)) <= k - 1
    <3> SUFFICES ASSUME k <= offset + Len(page(s)) PROVE FALSE
      BY <1>7, <2>9
    <3>1. k - offset \in 1..Len(page(s)) /\ offset + (k - offset) = k
      BY <1>7, <2>8, <2>9
    <3>2. page(s)[k - offset] = x
      BY <1>8, <2>1, <3>1
    <3>3. k - offset \in DOMAIN page(s)
      BY <1>8, <3>1
    <3>4. QED
      BY <2>7, <3>2, <3>3 DEF ToSet
  <2>12. QED
    BY <1>1, <2>6, <2>10, <2>11
<1>11. reading' \in {"yes", "done"}
  BY <1>1
<1>12. offset' = Len(printed')
  BY <1>1, <1>9 DEF QueryInv
<1>13. QED
  BY <1>2, <1>9, <1>10, <1>11, <1>12 DEF QueryInv

\* Every step of a query keeps it.
LEMMA QueryInvStep ==
  ASSUME QueryInv, [Next]_vars
  PROVE  QueryInv'
<1>1. CASE UNCHANGED vars
  <2>1. /\ UNCHANGED <<pool, written, file, stored, options, base, printed, offset, reading>>
        /\ Matching(options)' = Matching(options)
        /\ \A i : Alone(i)' = Alone(i) /\ NewerMatches(i)' = NewerMatches(i)
    BY <1>1 DEF vars, Matching, Alone, NewerMatches
  <2>2. StillToCome'
    BY <2>1 DEF QueryInv, StillToCome
  <2>3. QED
    BY <2>1, <2>2 DEF QueryInv
<1>2. QED
  BY <1>1, InsertKeeps, BeginReadingKeeps, NextPageKeeps DEF Next, Rest

\* The pages of a query that is done are complete.
LEMMA QueryInvPages == QueryInv => PagingSkipsNothing /\ TypeOK
<1> SUFFICES ASSUME QueryInv PROVE PagingSkipsNothing /\ TypeOK
  OBVIOUS
<1>1. PagingSkipsNothing
  BY DEF QueryInv, StillToCome, PagingSkipsNothing
<1>2. \A i \in DOMAIN printed : printed[i] \in DOMAIN stored
  BY DEF QueryInv
<1>3. offset \in 0..Len(printed)
  BY DEF QueryInv
<1>4. ToSet(written) \in SUBSET (UNION Pools)
  BY DEF QueryInv, ToSet
<1>5. pool \in UNION {SUBSET p : p \in Pools}
  BY DEF QueryInv
<1>6. QED
  BY <1>1, <1>2, <1>3, <1>4, <1>5 DEF QueryInv, TypeOK

\* Every event that is yet to be stored is read back just if it is clean.
LEMMA QueryInvRoundTrip == QueryInv => RoundTripExactlyIfClean
<1> SUFFICES ASSUME QueryInv, NEW e \in pool
             PROVE  Iterated(Line(e)) = <<Flattened(e)>> <=> Clean(e)
  BY DEF RoundTripExactlyIfClean
<1>1. e \in UNION Pools
  BY DEF QueryInv
<1>2. QED
  BY <1>1, AloneIfClean

\* The file is read event by event, and the clean ones as themselves.
LEMMA QueryInvDamage == QueryInv => DamageStaysLocal
<1> SUFFICES ASSUME QueryInv PROVE DamageStaysLocal
  OBVIOUS
<1>1. stored = FlattenSeq([i \in DOMAIN written |-> Iterated(Line(written[i]))])
  BY Zenon DEF QueryInv, ReadAlone
<1>2. ASSUME NEW i \in DOMAIN written, Clean(written[i])
      PROVE  Iterated(Line(written[i])) = <<Flattened(written[i])>>
  <2>1. written[i] \in UNION Pools
    BY DEF QueryInv
  <2>2. QED
    BY <1>2, <2>1, AloneIfClean
<1>3. QED
  BY <1>1, <1>2, Zenon DEF DamageStaysLocal

-----------------------------------------------------------------------------
(* The configuration: trimming, unescaping and numbers.                    *)

\* A set of positions has a smallest and a largest.
LEMMA Extremes ==
  ASSUME NEW n \in Nat, NEW S, S \subseteq 1..n, S # {}
  PROVE  /\ Min(S) \in S /\ \A y \in S : Min(S) <= y
         /\ Max(S) \in S /\ \A y \in S : Max(S) >= y
<1>1. \E x \in S : \A y \in S : x <= y
  <2>1. S \subseteq Nat
    OBVIOUS
  <2>2. QED
    BY <2>1, Smallest
<1>2. \E x \in S : \A y \in S : x >= y
  <2> DEFINE T == {n - x : x \in S}
  <2>1. T \subseteq Nat /\ T # {}
    <3>1. ASSUME NEW x \in S PROVE n - x \in Nat
      <4>1. x \in 1..n
        OBVIOUS
      <4>2. QED
        BY <4>1
    <3>2. QED
      BY <3>1
  <2>2. PICK m \in T : \A k \in T : m <= k
    <3> HIDE DEF T
    <3>1. QED
      BY <2>1, Smallest
  <2>3. PICK x \in S : m = n - x
    OBVIOUS
  <2>4. ASSUME NEW y \in S PROVE x >= y
    <3>1. n - x <= n - y
      BY <2>2, <2>3
    <3>2. x \in Nat /\ y \in Nat
      OBVIOUS
    <3>3. QED
      BY <3>1, <3>2
  <2>5. QED
    BY <2>4
<1>3. Min(S) \in S /\ \A y \in S : Min(S) <= y
  BY <1>1, Zenon DEF Min
<1>4. Max(S) \in S /\ \A y \in S : Max(S) >= y
  BY <1>2, Zenon DEF Max
<1>5. QED
  BY <1>3, <1>4

\* Neither end is white space.
Tight(s) == s = <<>> \/ (~IsSpace(s[1]) /\ ~IsSpace(s[Len(s)]))

\* trim leaves no white space at the ends.
LEMMA TrimIs ==
  ASSUME NEW C, NEW s \in Seq(C)
  PROVE  Trim(s) \in Seq(C) /\ Tight(Trim(s))
<1> DEFINE solid == {i \in DOMAIN s : ~IsSpace(s[i])}
<1>1. Len(s) \in Nat /\ DOMAIN s = 1..Len(s)
  OBVIOUS
<1>2. CASE solid = {}
  <2>1. Trim(s) = <<>>
    BY <1>2 DEF Trim
  <2>2. QED
    BY <2>1 DEF Tight
<1>3. CASE solid # {}
  <2> DEFINE a == Min(solid)
             b == Max(solid)
  <2>1. Trim(s) = SubSeq(s, a, b)
    BY <1>3 DEF Trim
  <2>2. solid \subseteq 1..Len(s)
    BY <1>1
  <2>3. a \in solid /\ b \in solid /\ a <= b
    <3> HIDE DEF solid
    <3>1. QED
      BY <1>1, <1>3, <2>2, Extremes
  <2>4. a \in 1..Len(s) /\ b \in 1..Len(s) /\ ~IsSpace(s[a]) /\ ~IsSpace(s[b])
    BY <1>1, <2>3
  <2> HIDE DEF a, b, solid
  <2>5. /\ SubSeq(s, a, b) \in Seq(C) /\ Len(SubSeq(s, a, b)) = b - a + 1
        /\ \A i \in 1..b - a + 1 : SubSeq(s, a, b)[i] = s[a + i - 1]
    BY <2>3, <2>4
  <2>6. 1 \in 1..b - a + 1 /\ b - a + 1 \in 1..b - a + 1 /\ a + 1 - 1 = a /\ a + (b - a + 1) - 1 = b
    BY <2>3, <2>4
  <2>7. SubSeq(s, a, b)[1] = s[a] /\ SubSeq(s, a, b)[b - a + 1] = s[b]
    BY <2>5, <2>6
  <2>8. QED
    BY <2>1, <2>4, <2>5, <2>7 DEF Tight
<1>4. QED
  BY <1>2, <1>3

\* trim changes nothing without any.
LEMMA TrimTight ==
  ASSUME NEW C, NEW s \in Seq(C), Tight(s)
  PROVE  Trim(s) = s
<1> DEFINE solid == {i \in DOMAIN s : ~IsSpace(s[i])}
<1>1. Len(s) \in Nat /\ DOMAIN s = 1..Len(s)
  OBVIOUS
<1>2. CASE s = <<>>
  <2>1. solid = {}
    BY <1>2
  <2>2. QED
    BY <1>2, <2>1 DEF Trim
<1>3. CASE s # <<>>
  <2>1. 1 \in solid /\ Len(s) \in solid
    BY <1>1, <1>3 DEF Tight
  <2>2. solid \subseteq 1..Len(s)
    BY <1>1
  <2> HIDE DEF solid
  <2>3. /\ Min(solid) \in solid /\ \A y \in solid : Min(solid) <= y
        /\ Max(solid) \in solid /\ \A y \in solid : Max(solid) >= y
    BY <1>1, <2>1, <2>2, Extremes
  <2>4. Min(solid) = 1 /\ Max(solid) = Len(s)
    <3>1. Min(solid) \in 1..Len(s) /\ Max(solid) \in 1..Len(s)
      BY <2>2, <2>3
    <3>2. Min(solid) <= 1 /\ Max(solid) >= Len(s)
      BY <2>1, <2>3
    <3>3. QED
      BY <1>1, <3>1, <3>2
  <2>5. Trim(s) = SubSeq(s, 1, Len(s))
    BY <2>1, <2>4 DEF Trim, solid
  <2>6. QED
    BY <2>5
<1>4. QED
  BY <1>2, <1>3

\* A character other than a backslash stands for itself.
LEMMA PlainOne ==
  ASSUME NEW a, NEW c, c # "bs"
  PROVE  UnescapeOne([out |-> a, escaped |-> FALSE], c) = [out |-> Append(a, c), escaped |-> FALSE]
BY Zenon DEF UnescapeOne

\* A text without a backslash is its own meaning.
LEMMA UnescapePlain ==
  ASSUME NEW C, NEW s \in Seq(C), \A i \in 1..Len(s) : s[i] # "bs"
  PROVE  Unescape(s) = s
<1> DEFINE n == Len(s)
           begin == [out |-> <<>>, escaped |-> FALSE]
           Is(f) == f = [i \in 0..n |-> IF i = 0 THEN begin ELSE UnescapeOne(f[i - 1], s[i])]
           g == [i \in 0..n |-> [out |-> SubSeq(s, 1, i), escaped |-> FALSE]]
           h == CHOOSE f : Is(f)
<1>1. n \in Nat
  OBVIOUS
<1>2. g[0] = begin
  <2>1. SubSeq(s, 1, 0) \in Seq(C) /\ Len(SubSeq(s, 1, 0)) = 0
    OBVIOUS
  <2>2. SubSeq(s, 1, 0) = <<>>
    BY <2>1
  <2>3. g[0] = [out |-> SubSeq(s, 1, 0), escaped |-> FALSE]
    BY <1>1
  <2>4. QED
    BY <2>2, <2>3, Zenon
<1>3. ASSUME NEW i \in 1..n PROVE g[i] = UnescapeOne(g[i - 1], s[i])
  <2>1. i - 1 \in 0..n /\ i \in 0..n
    BY <1>1
  <2>2. g[i - 1] = [out |-> SubSeq(s, 1, i - 1), escaped |-> FALSE]
    BY <2>1
  <2>3. UnescapeOne(g[i - 1], s[i]) = [out |-> Append(SubSeq(s, 1, i - 1), s[i]), escaped |-> FALSE]
    BY <2>2, PlainOne
  <2>4. SubSeq(s, 1, i) = Append(SubSeq(s, 1, i - 1), s[i])
    BY <1>1
  <2>5. QED
    BY <2>1, <2>3, <2>4
<1>4. Is(g)
  <2>1. \A i \in 0..n : g[i] = IF i = 0 THEN begin ELSE UnescapeOne(g[i - 1], s[i])
    <3> HIDE DEF g, begin
    <3>1. QED
      BY <1>1, <1>2, <1>3
  <2>2. g = [i \in 0..n |-> g[i]]
    OBVIOUS
  <2> HIDE DEF g, begin
  <2>3. QED
    BY <2>1, <2>2
<1> HIDE DEF g
<1>5. Is(h)
  <2> HIDE DEF Is
  <2>1. QED
    BY <1>4, Zenon
<1>6. /\ h[0] = begin
      /\ \A i \in 1..n : h[i] = UnescapeOne(h[i - 1], s[i])
  <2> HIDE DEF h, begin
  <2>1. QED
    BY <1>1, <1>5
<1>7. \A i \in 0..n : h[i] = g[i]
  <2> HIDE DEF h, n, begin, Is
  <2>1. GoOnAlike(h, g, n)
    BY <1>2, <1>3, <1>6 DEF GoOnAlike
  <2>2. QED
    BY <1>1, <2>1, LoopsAgree
<1>8. h[n] = [out |-> s, escaped |-> FALSE]
  <2>1. g[n] = [out |-> SubSeq(s, 1, n), escaped |-> FALSE]
    BY <1>1 DEF g
  <2>2. SubSeq(s, 1, n) = s
    BY <1>1
  <2>3. n \in 0..n
    BY <1>1
  <2> HIDE DEF h, n
  <2>4. QED
    BY <1>7, <2>1, <2>2, <2>3
<1>9. Unescape(s) = IF h[n].escaped THEN Append(h[n].out, "bs") ELSE h[n].out
  BY DEF Unescape
<1> HIDE DEF h
<1>10. QED
  BY <1>8, <1>9

\* The digits a text begins with.
LEMMA DigitsType ==
  ASSUME NEW C, NEW v \in Seq(C)
  PROVE  DigitsOf(v) \in Seq(DOMAIN Digit)
<1> DEFINE body == IF Signed(v) THEN Tail(v) ELSE v
           stops == {i \in DOMAIN body : body[i] \notin DOMAIN Digit}
           D == DOMAIN Digit
<1>1. body \in Seq(C)
  BY DEF Signed
<1>2. DigitsOf(v) = IF stops = {} THEN body ELSE SubSeq(body, 1, Min(stops) - 1)
  BY DEF DigitsOf, Unsigned
<1> HIDE DEF body, D
<1>3. Len(body) \in Nat /\ DOMAIN body = 1..Len(body) /\ stops \subseteq 1..Len(body)
  BY <1>1
<1>4. CASE stops = {}
  <2>1. \A i \in 1..Len(body) : body[i] \in D
    BY <1>3, <1>4 DEF D
  <2>2. body \in Seq(D)
    BY <1>1, <2>1
  <2>3. QED
    BY <1>2, <1>4, <2>2 DEF D
<1>5. CASE stops # {}
  <2> DEFINE m == Min(stops)
             s == SubSeq(body, 1, m - 1)
  <2>1. m \in stops /\ \A y \in stops : m <= y
    <3> HIDE DEF stops
    <3>1. QED
      BY <1>3, <1>5, Extremes
  <2>2. m \in 1..Len(body)
    BY <1>3, <2>1
  <2> HIDE DEF m
  <2>3. s \in Seq(C) /\ Len(s) = m - 1 /\ \A i \in 1..m - 1 : s[i] = body[i]
    BY <1>1, <2>2
  <2>4. \A i \in 1..m - 1 : body[i] \in D
    <3> SUFFICES ASSUME NEW i \in 1..m - 1 PROVE body[i] \in D
      OBVIOUS
    <3>1. i \in 1..Len(body) /\ ~(m <= i)
      BY <1>3, <2>2
    <3>2. QED
      BY <1>3, <2>1, <3>1 DEF D
  <2> HIDE DEF s
  <2>5. s \in Seq(D)
    BY <2>2, <2>3, <2>4
  <2>6. QED
    BY <1>2, <1>5, <2>5 DEF D, m, s
<1>6. QED
  BY <1>4, <1>5

\* The value of digits is a number.
LEMMA ValueType ==
  ASSUME NEW d \in Seq(DOMAIN Digit)
  PROVE  ValueOf(d) \in Nat
<1> DEFINE n == Len(d)
           D == DOMAIN Digit
           st == [x \in Nat \X D |-> 10 * x[1] + Digit[x[2]]]
           Is(f) == f = [i \in 0..n |-> IF i = 0 THEN 0 ELSE 10 * f[i - 1] + Digit[d[i]]]
           h == CHOOSE f : Is(f)
<1>1. n \in Nat
  OBVIOUS
<1>2. \A c \in D : Digit[c] \in Nat
  BY DEF Digit
<1> HIDE DEF D
<1>3. st \in [Nat \X D -> Nat]
  BY <1>2
<1>4. d \in Seq(D)
  BY DEF D
<1>5. PICK f \in [0..n -> Nat] : IsLoop(f, 0, st, d, n)
  <2> HIDE DEF st
  <2>1. QED
    BY <1>3, <1>4, LoopExists
<1>6. \A i \in 1..n : f[i] = 10 * f[i - 1] + Digit[d[i]]
  <2> SUFFICES ASSUME NEW i \in 1..n PROVE f[i] = 10 * f[i - 1] + Digit[d[i]]
    OBVIOUS
  <2>0. i - 1 \in 0..n /\ i \in 1..Len(d)
    BY <1>1
  <2>1. f[i - 1] \in Nat /\ d[i] \in D
    <3> HIDE DEF n
    <3>1. f[i - 1] \in Nat
      BY <1>5, <2>0
    <3>2. d[i] \in D
      BY <1>4, <2>0
    <3>3. QED
      BY <3>1, <3>2
  <2>2. f[i] = st[<<f[i - 1], d[i]>>]
    BY <1>5 DEF IsLoop
  <2>3. QED
    BY <2>1, <2>2
<1>7. f[0] = 0
  BY <1>5 DEF IsLoop
<1> HIDE DEF st
<1>8. Is(f)
  <2>1. \A i \in 0..n : f[i] = IF i = 0 THEN 0 ELSE 10 * f[i - 1] + Digit[d[i]]
    BY <1>1, <1>6, <1>7
  <2>2. QED
    BY <1>5, <2>1
<1>9. Is(h)
  <2> HIDE DEF Is
  <2>1. QED
    BY <1>8, Zenon
<1>10. h[0] = 0 /\ \A i \in 1..n : h[i] = 10 * h[i - 1] + Digit[d[i]]
  <2> HIDE DEF h
  <2>1. QED
    BY <1>1, <1>9
<1>11. \A i \in 0..n : f[i] = h[i]
  <2> HIDE DEF h, n, Is
  <2>1. GoOnAlike(f, h, n)
    BY <1>6, <1>7, <1>10 DEF GoOnAlike
  <2>2. QED
    BY <1>1, <2>1, LoopsAgree
<1>12. ValueOf(d) = h[n]
  BY DEF ValueOf
<1>13. n \in 0..n /\ f[n] \in Nat
  BY <1>1, <1>5
<1> HIDE DEF h, n
<1>14. QED
  BY <1>11, <1>12, <1>13

\* So is that of a text.
LEMMA NumberType ==
  ASSUME NEW C, NEW v \in Seq(C)
  PROVE  Number(v) \in Int
<1>1. ValueOf(DigitsOf(v)) \in Nat
  BY DigitsType, ValueType
<1>2. QED
  BY <1>1 DEF Number

\* A valid integer is all digits after its sign.
LEMMA IntegerPlain ==
  ASSUME NEW C, NEW v \in Seq(C), IsValidInt(v)
  PROVE  \A i \in 1..Len(v) : v[i] # "bs"
<1> DEFINE body == IF Signed(v) THEN Tail(v) ELSE v
           stops == {i \in DOMAIN body : body[i] \notin DOMAIN Digit}
<1>1. /\ DigitsOf(v) # <<>>
      /\ Len(DigitsOf(v)) = Len(v) - (IF Signed(v) THEN 1 ELSE 0)
  BY DEF IsValidInt, HasNumber
<1>2. DigitsOf(v) = IF stops = {} THEN body ELSE SubSeq(body, 1, Min(stops) - 1)
  BY DEF DigitsOf, Unsigned
<1>3. /\ body \in Seq(C) /\ Len(body) = Len(v) - (IF Signed(v) THEN 1 ELSE 0)
      /\ Len(body) \in Nat /\ Len(v) \in Nat /\ DOMAIN body = 1..Len(body)
  <2>1. CASE Signed(v)
    <3>1. v # <<>>
      BY <2>1 DEF Signed
    <3>2. QED
      BY <2>1, <3>1
  <2>2. CASE ~Signed(v)
    BY <2>2
  <2>3. QED
    BY <2>1, <2>2
<1>4. stops = {}
  <2> SUFFICES ASSUME stops # {} PROVE FALSE
    OBVIOUS
  <2> DEFINE m == Min(stops)
  <2>1. stops \subseteq 1..Len(body)
    BY <1>3
  <2>2. m \in stops
    <3> HIDE DEF stops, body
    <3>1. QED
      BY <1>3, <2>1, Extremes
  <2>3. m \in 1..Len(body)
    BY <2>1, <2>2
  <2> HIDE DEF m, body, stops
  <2>4. Len(SubSeq(body, 1, m - 1)) = m - 1
    BY <1>3, <2>3
  <2>5. DigitsOf(v) = SubSeq(body, 1, m - 1)
    BY <1>2 DEF m
  <2>6. QED
    BY <1>1, <1>3, <2>3, <2>4, <2>5
<1>5. \A i \in 1..Len(body) : body[i] # "bs"
  <2>1. "bs" \notin DOMAIN Digit
    BY DEF Digit
  <2>2. \A i \in 1..Len(body) : body[i] \in DOMAIN Digit
    BY <1>3, <1>4
  <2> HIDE DEF body
  <2>3. QED
    BY <2>1, <2>2
<1>6. CASE ~Signed(v)
  BY <1>5, <1>6
<1>7. CASE Signed(v)
  <2>1. v # <<>> /\ v[1] = "-" /\ body = Tail(v)
    BY <1>7 DEF Signed
  <2>2. \A i \in 2..Len(v) : v[i] = body[i - 1] /\ i - 1 \in 1..Len(body)
    BY <1>3, <1>7, <2>1
  <2> HIDE DEF body
  <2>3. \A i \in 2..Len(v) : v[i] # "bs"
    BY <1>5, <2>2
  <2>4. \A i \in 1..Len(v) : i = 1 \/ i \in 2..Len(v)
    BY <1>3
  <2>5. QED
    BY <2>1, <2>3, <2>4
<1>8. QED
  BY <1>6, <1>7

\* The values of a file are trimmed texts.
LEMMA SettingValue ==
  ASSUME NEW lines, NEW n \in Nat, lines \in [1..n -> Lines], NEW key \in KeysOf(lines)
  PROVE  \E C : Parsed(lines)[key] \in Seq(C) /\ Tight(Parsed(lines)[key])
<1> DEFINE I == {i \in DOMAIN lines : IsSetting(lines[i]) /\ LineKey(lines[i]) = key}
           line == LineOf(lines, key)
           s == Trim(line)
           e == FirstEquals(s)
           equals == {i \in DOMAIN s : s[i] = "="}
           C == ToSet(line)
<1>1. I # {} /\ I \subseteq 1..n
  BY DEF KeysOf
<1>2. Max(I) \in I
  <2> HIDE DEF I
  <2>1. QED
    BY <1>1, Extremes
<1>3. line = lines[Max(I)]
  BY DEF LineOf
<1>4. line \in Lines /\ IsSetting(line)
  BY <1>2, <1>3
<1> HIDE DEF line, I
<1>5. line \in Seq(C)
  BY <1>4, ConfigAssumption
<1> HIDE DEF C
<1>6. s \in Seq(C)
  BY <1>5, TrimIs
<1>7. equals # {}
  <2>1. \E i \in 1..Len(s) : s[i] = "="
    BY <1>4 DEF IsSetting, HasEquals, Contains
  <2> HIDE DEF s
  <2>2. DOMAIN s = 1..Len(s)
    BY <1>6
  <2>3. QED
    BY <2>1, <2>2
<1>8. e \in 1..Len(s)
  <2>1. Len(s) \in Nat /\ equals \subseteq 1..Len(s)
    <3> HIDE DEF s
    <3>1. QED
      BY <1>6
  <2>2. e = Min(equals)
    BY DEF FirstEquals
  <2> HIDE DEF equals, s, e
  <2>3. QED
    BY <1>7, <2>1, <2>2, Extremes
<1>9. SubSeq(s, e + 1, Len(s)) \in Seq(C)
  <2> HIDE DEF s, e
  <2>1. QED
    BY <1>6, <1>8
<1>10. LineValue(line) = Trim(SubSeq(s, e + 1, Len(s)))
  BY DEF LineValue
<1>11. LineValue(line) \in Seq(C) /\ Tight(LineValue(line))
  <2> HIDE DEF s, e
  <2>1. QED
    BY <1>9, <1>10, TrimIs
<1>12. Parsed(lines)[key] = LineValue(line)
  BY DEF Parsed, line
<1>13. QED
  BY <1>11, <1>12

-----------------------------------------------------------------------------
(* The validator beside the store.                                         *)

\* What the validator says of a file.
Verdict(lines) ==
  [values |-> Parsed(lines),
   error |-> SyntaxError(lines) \/ TypeError(Parsed(lines)) \/ SemanticError(Parsed(lines))]

\* The setting of a key that the store shows as the validator saw it.
Kept(lines, key) ==
  /\ key \in DOMAIN Parsed(lines) /\ key \in DOMAIN load(Defaults, lines)
  /\ load(Defaults, lines)[key] = Parsed(lines)[key]
  /\ Trim(Parsed(lines)[key]) = Parsed(lines)[key]
  /\ Number(Parsed(lines)[key]) \in Int

\* A setting without a backslash is kept.
LEMMA PlainKept ==
  ASSUME NEW lines \in Seq(Lines), NEW key \in KeysOf(lines),
         \A i \in 1..Len(Parsed(lines)[key]) : Parsed(lines)[key][i] # "bs"
  PROVE  Kept(lines, key)
<1> DEFINE v == Parsed(lines)[key]
<1>1. PICK C : v \in Seq(C) /\ Tight(v)
  <2>1. Len(lines) \in Nat /\ lines \in [1..Len(lines) -> Lines]
    OBVIOUS
  <2>2. QED
    BY <2>1, SettingValue
<1>2. load(Defaults, lines)[key] = Unescape(v) /\ key \in DOMAIN load(Defaults, lines)
  BY DEF load, Parsed
<1>3. key \in DOMAIN Parsed(lines)
  BY DEF Parsed
<1> HIDE DEF v
<1>4. Unescape(v) = v
  BY <1>1, UnescapePlain DEF v
<1>5. Trim(v) = v /\ Number(v) \in Int
  BY <1>1, TrimTight, NumberType
<1>6. QED
  BY <1>2, <1>3, <1>4, <1>5 DEF Kept, v

\* The text of a setting is a sequence.
LEMMA SettingText ==
  ASSUME NEW lines \in Seq(Lines), NEW key \in KeysOf(lines)
  PROVE  \E C : Parsed(lines)[key] \in Seq(C)
<1>1. Len(lines) \in Nat /\ lines \in [1..Len(lines) -> Lines]
  OBVIOUS
<1>2. QED
  BY <1>1, SettingValue

\* A valid interval is kept, and read by both as the same number.
LEMMA IntervalKept ==
  ASSUME NEW lines \in Seq(Lines), ~Verdict(lines).error, IntervalKey \in KeysOf(lines)
  PROVE  /\ Kept(lines, IntervalKey)
         /\ HasNumber(Parsed(lines)[IntervalKey])
         /\ get_int(Parsed(lines), IntervalKey, 0) >= 0
<1> DEFINE V == Parsed(lines)
           v == V[IntervalKey]
<1>1. DOMAIN V = KeysOf(lines)
  BY DEF Parsed
<1>2. ~TypeError(V) /\ ~SemanticError(V)
  BY DEF Verdict
<1> HIDE DEF V
<1>3. ValidValue(IntervalKey, v)
  BY <1>1, <1>2 DEF TypeError, known_keys
<1>4. IsValidInt(v)
  BY <1>3, Zenon DEF ValidValue
<1>5. PICK C : v \in Seq(C)
  BY SettingText DEF V
<1>6. \A i \in 1..Len(v) : v[i] # "bs"
  BY <1>4, <1>5, IntegerPlain
<1>7. Kept(lines, IntervalKey)
  BY <1>6, PlainKept DEF V
<1>8. HasNumber(v)
  BY <1>4 DEF IsValidInt
<1>9. ~(get_int(V, IntervalKey, 0) < 0)
  BY <1>2 DEF SemanticError
<1>10. get_int(V, IntervalKey, 0) \in Int
  <2>1. Trim(v) = v /\ Number(v) \in Int
    BY <1>7 DEF Kept, V
  <2>2. QED
    BY <2>1 DEF get_int
<1>11. QED
  BY <1>7, <1>8, <1>9, <1>10 DEF V

\* A valid switch is one of the two words, and kept.
LEMMA SwitchKept ==
  ASSUME NEW lines \in Seq(Lines), ~Verdict(lines).error, SwitchKey \in KeysOf(lines)
  PROVE  /\ Kept(lines, SwitchKey)
         /\ Parsed(lines)[SwitchKey] \in {<<"on">>, <<"off">>}
<1> DEFINE V == Parsed(lines)
           v == V[SwitchKey]
<1>1. DOMAIN V = KeysOf(lines)
  BY DEF Parsed
<1>2. ~TypeError(V)
  BY DEF Verdict
<1> HIDE DEF V
<1>3. ValidValue(SwitchKey, v)
  BY <1>1, <1>2 DEF TypeError, known_keys
<1>4. SwitchKey # IntervalKey
  BY DEF SwitchKey, IntervalKey
<1>5. v \in {<<"on">>, <<"off">>}
  BY <1>3, <1>4 DEF ValidValue
<1>6. \A i \in 1..Len(v) : v[i] # "bs"
  BY <1>5
<1>7. QED
  BY <1>5, <1>6, PlainKept DEF V

\* A threshold of a valid file is a double, and read as such if it has no
\* backslash.
LEMMA ThresholdKept ==
  ASSUME NEW lines \in Seq(Lines), ~Verdict(lines).error,
         NEW key \in {WarningKey, CriticalKey}, key \in KeysOf(lines)
  PROVE  /\ IsDouble(Parsed(lines)[key])
         /\ ~Contains(Parsed(lines)[key], "bs") =>
              /\ get_double(load(Defaults, lines), key, {0}) = Double(Parsed(lines)[key])
              /\ Number(Parsed(lines)[key]) \in Int
<1> DEFINE V == Parsed(lines)
           values == load(Defaults, lines)
<1>1. DOMAIN V = KeysOf(lines)
  BY DEF Parsed
<1>2. ~TypeError(V)
  BY DEF Verdict
<1> HIDE DEF V
<1>3. ValidValue(key, V[key])
  BY <1>1, <1>2 DEF TypeError, known_keys
<1>4. key # IntervalKey /\ key # SwitchKey
  BY DEF SwitchKey, IntervalKey, WarningKey, CriticalKey
<1>5. IsDouble(V[key])
  BY <1>3, <1>4 DEF ValidValue
<1>6. ASSUME ~Contains(V[key], "bs")
      PROVE  get_double(values, key, {0}) = Double(V[key]) /\ Number(V[key]) \in Int
  <2>1. \A i \in 1..Len(V[key]) : V[key][i] # "bs"
    BY <1>6 DEF Contains
  <2>2. Kept(lines, key)
    BY <2>1, PlainKept DEF V
  <2> HIDE DEF values
  <2>3. /\ key \in DOMAIN values /\ values[key] = V[key]
        /\ Trim(V[key]) = V[key] /\ Number(V[key]) \in Int
    BY <2>2 DEF Kept, V, values
  <2>4. QED
    BY <1>5, <2>3 DEF get_double
<1>7. QED
  BY <1>5, <1>6 DEF V

\* The thresholds of a valid file are in order, unless one is no number.
LEMMA ThresholdsOrdered ==
  ASSUME NEW lines \in Seq(Lines), ~Verdict(lines).error,
         WarningKey \in KeysOf(lines), CriticalKey \in KeysOf(lines)
  PROVE  ~ \E w \in Double(Parsed(lines)[WarningKey]),
              c \in Double(Parsed(lines)[CriticalKey]) : w >= c
<1> DEFINE V == Parsed(lines)
<1>1. DOMAIN V = KeysOf(lines)
  BY DEF Parsed
<1>2. ~SemanticError(V)
  BY DEF Verdict
<1>3. IsDouble(V[WarningKey]) /\ IsDouble(V[CriticalKey])
  BY ThresholdKept
<1> HIDE DEF V
<1>4. ~ \E w \in Double(V[WarningKey]), c \in Double(V[CriticalKey]) : w >= c
  BY <1>1, <1>2, <1>3, Zenon DEF SemanticError
<1>5. QED
  BY <1>4 DEF V

\* The inductive invariant of the validator beside the store.
StoreInv ==
  /\ iniLines \in Seq(Lines)
  /\ storeAt \in {"write", "validated", "loaded"}
  /\ storeAt # "loaded" => storeValues = Defaults
  /\ storeAt = "loaded" => storeValues = load(Defaults, iniLines)
  /\ verdict = IF storeAt = "write" THEN [values |-> <<>>, error |-> FALSE] ELSE Verdict(iniLines)

\* Initially the file is empty and the store has the defaults.
LEMMA StoreInvInit == StoreInit => StoreInv
BY DEF StoreInit, StoreInv

\* Writing, validating and loading keep the invariant.
LEMMA StoreInvStep == StoreInv /\ [StoreNext]_storeVars => StoreInv'
<1> SUFFICES ASSUME StoreInv, [StoreNext]_storeVars PROVE StoreInv'
  OBVIOUS
<1> USE DEF StoreInv
<1>1. ASSUME NEW line \in Lines, WriteLine(line) PROVE StoreInv'
  BY <1>1 DEF WriteLine
<1>2. CASE Validate
  BY <1>2 DEF Validate, Verdict
<1>3. CASE Load
  BY <1>3 DEF Load
<1>4. CASE StoreRest \/ UNCHANGED storeVars
  BY <1>4 DEF StoreRest, storeVars
<1>5. QED
  BY <1>1, <1>2, <1>3, <1>4 DEF StoreNext

\* The invariant gives the promise.
LEMMA StoreInvHonours == StoreInv => ValidatedMeansHonoured
<1> SUFFICES ASSUME StoreInv, storeAt = "loaded", ~verdict.error
             PROVE  ValidatedMeansHonoured
  BY DEF ValidatedMeansHonoured
<1> DEFINE V == Parsed(iniLines)
<1>1. iniLines \in Seq(Lines) /\ verdict = Verdict(iniLines) /\ storeValues = load(Defaults, iniLines)
  BY DEF StoreInv
<1>2. ~Verdict(iniLines).error /\ verdict.values = V
  BY <1>1 DEF Verdict
<1>3. DOMAIN V = KeysOf(iniLines)
  BY DEF Parsed
<1>4. \A key \in DOMAIN V : storeValues[key] = Unescape(V[key])
  BY <1>1 DEF load, Parsed
<1> HIDE DEF V
<1>5. ASSUME NEW n \in 0..IntMax, Says(IntervalKey, n)
      PROVE  get_int(storeValues, IntervalKey, -1) = n
  <2>1. IntervalKey \in KeysOf(iniLines) /\ Number(V[IntervalKey]) = n
    BY <1>2, <1>3, <1>5 DEF Says
  <2>2. Kept(iniLines, IntervalKey) /\ HasNumber(V[IntervalKey])
    BY <1>1, <1>2, <2>1, IntervalKept DEF V
  <2>3. /\ IntervalKey \in DOMAIN storeValues
        /\ storeValues[IntervalKey] = V[IntervalKey] /\ Trim(V[IntervalKey]) = V[IntervalKey]
    BY <1>1, <2>2 DEF Kept, V
  <2>4. n \in -IntMax - 1..IntMax
    BY ConfigAssumption
  <2>5. QED
    BY <2>1, <2>2, <2>3, <2>4 DEF get_int
<1>6. ASSUME IntervalKey \in DOMAIN V
      PROVE  get_int(storeValues, IntervalKey, 0) >= 0
  <2>1. IntervalKey \in KeysOf(iniLines)
    BY <1>3, <1>6
  <2>2. Kept(iniLines, IntervalKey) /\ get_int(V, IntervalKey, 0) >= 0
    BY <1>1, <1>2, <2>1, IntervalKept DEF V
  <2>3. IntervalKey \in DOMAIN storeValues /\ storeValues[IntervalKey] = V[IntervalKey]
    BY <1>1, <2>2 DEF Kept, V
  <2>4. get_int(storeValues, IntervalKey, 0) = get_int(V, IntervalKey, 0)
    BY <1>6, <2>3 DEF get_int
  <2>5. QED
    BY <2>2, <2>4
<1>7. ASSUME SwitchKey \in DOMAIN V
      PROVE  get_bool(storeValues, SwitchKey, TRUE) = get_bool(storeValues, SwitchKey, FALSE)
  <2>1. SwitchKey \in KeysOf(iniLines)
    BY <1>3, <1>7
  <2>2. Kept(iniLines, SwitchKey) /\ V[SwitchKey] \in {<<"on">>, <<"off">>}
    BY <1>1, <1>2, <2>1, SwitchKept DEF V
  <2>3. SwitchKey \in DOMAIN storeValues /\ storeValues[SwitchKey] \in {<<"on">>, <<"off">>}
    BY <1>1, <2>2 DEF Kept, V
  <2>4. QED
    BY <2>3, Zenon DEF get_bool
<1>8. ASSUME NEW key \in {WarningKey, CriticalKey} \cap DOMAIN V, ~Contains(V[key], "bs")
      PROVE  /\ get_double(storeValues, key, {0}) = Double(V[key])
             /\ Number(V[key]) \in Int
  BY <1>1, <1>2, <1>3, <1>8, ThresholdKept DEF V
<1>9. ASSUME {WarningKey, CriticalKey} \subseteq DOMAIN V,
             \A key \in {WarningKey, CriticalKey} : ~Contains(V[key], "bs") /\ ~IsNaN(V[key])
      PROVE  \E w \in get_double(storeValues, WarningKey, {0}),
                c \in get_double(storeValues, CriticalKey, {0}) : w < c
  <2>1. ~ \E w \in Double(V[WarningKey]), c \in Double(V[CriticalKey]) : w >= c
    BY <1>1, <1>2, <1>3, <1>9, ThresholdsOrdered DEF V
  <2>2. \A key \in {WarningKey, CriticalKey} :
          /\ get_double(storeValues, key, {0}) = {Number(V[key])}
          /\ Double(V[key]) = {Number(V[key])} /\ Number(V[key]) \in Int
    BY <1>8, <1>9 DEF Double
  <2>3. QED
    BY <2>1, <2>2
<1>10. \A key : AsWritten(key) <=> ~Contains(V[key], "bs")
  BY <1>2 DEF AsWritten
<1>11. QED
  BY <1>2, <1>4, <1>5, <1>6, <1>7, <1>8, <1>9, <1>10 DEF ValidatedMeansHonoured

-----------------------------------------------------------------------------
(* The comparison of two snapshots.                                        *)

ProcessItem == [pid : Pid, memory : Memory]
ConnectionItem == [protocol : ToSet(Protocol), address : Address]
Entry == ProcessItem \cup ConnectionItem

\* Numbers below the limit are shown as they are.
LEMMA AddressShown ==
  ASSUME NEW x \in Address
  PROVE  Shown(x) = x
BY SnapshotDiffAssumption DEF Shown

\* The key of an item can be told from what is shown of it.
LEMMA KeyShown ==
  ASSUME NEW x \in Entry, NEW y \in Entry, ShownItem(x) = ShownItem(y)
  PROVE  extract_key(x) = extract_key(y)
<1>1. DOMAIN x = DOMAIN y /\ \A f \in DOMAIN x : Shown(x[f]) = Shown(y[f])
  <2>1. DOMAIN ShownItem(x) = DOMAIN x /\ DOMAIN ShownItem(y) = DOMAIN y
    BY DEF ShownItem
  <2>2. \A f \in DOMAIN x : ShownItem(x)[f] = Shown(x[f])
    BY DEF ShownItem
  <2>3. \A f \in DOMAIN y : ShownItem(y)[f] = Shown(y[f])
    BY DEF ShownItem
  <2>4. QED
    BY <2>1, <2>2, <2>3
<1>2. CASE x \in ProcessItem
  <2>1. "pid" \in DOMAIN x
    BY <1>2 DEF ProcessItem
  <2>2. "pid" \in DOMAIN y /\ Shown(x.pid) = Shown(y.pid)
    BY <1>1, <2>1
  <2>3. QED
    BY <2>1, <2>2 DEF extract_key
<1>3. CASE x \in ConnectionItem
  <2>1. "pid" \notin DOMAIN x /\ "address" \in DOMAIN x
    BY <1>3 DEF ConnectionItem
  <2>2. y \in ConnectionItem
    BY <1>1, <2>1 DEF Entry, ProcessItem
  <2>3. Shown(x.address) = Shown(y.address)
    BY <1>1, <2>1
  <2>4. x.address \in Address /\ y.address \in Address
    BY <1>3, <2>2 DEF ConnectionItem
  <2>5. x.address = y.address
    BY <2>3, <2>4, AddressShown
  <2>6. QED
    BY <1>1, <2>1, <2>5 DEF extract_key
<1>4. QED
  BY <1>2, <1>3 DEF Entry

\* No field differs just when the same is shown.
LEMMA FieldsSame ==
  ASSUME NEW a, NEW b
  PROVE  DiffFields(a, b) = {} <=> ShownItem(a) = ShownItem(b)
<1>1. ASSUME DiffFields(a, b) = {} PROVE ShownItem(a) = ShownItem(b)
  <2>1. DOMAIN a = DOMAIN b
    BY <1>1 DEF DiffFields
  <2>2. \A f \in DOMAIN a : Shown(a[f]) = Shown(b[f])
    BY <1>1, <2>1 DEF DiffFields, SameScalar
  <2>3. QED
    BY <2>1, <2>2 DEF ShownItem
<1>2. ASSUME ShownItem(a) = ShownItem(b) PROVE DiffFields(a, b) = {}
  <2>1. DOMAIN a = DOMAIN ShownItem(a) /\ DOMAIN b = DOMAIN ShownItem(b)
    BY DEF ShownItem
  <2>2. DOMAIN a = DOMAIN b
    BY <1>2, <2>1
  <2>3. \A f \in DOMAIN a : ShownItem(a)[f] = Shown(a[f]) /\ ShownItem(b)[f] = Shown(b[f])
    BY <2>2 DEF ShownItem
  <2>4. \A f \in DOMAIN a : Shown(a[f]) = Shown(b[f])
    BY <1>2, <2>3
  <2>5. QED
    BY <2>2, <2>4 DEF DiffFields, SameScalar
<1>3. QED
  BY <1>1, <1>2

\* No two items have the same key.
KeysDiffer(items) ==
  \A i, j \in 1..Len(items) : extract_key(items[i]) = extract_key(items[j]) => i = j

\* So it is when there are as many keys as items.
LEMMA ManyKeys ==
  ASSUME NEW items \in Seq(Entry), Cardinality(ItemKeys(items)) = Len(items)
  PROVE  KeysDiffer(items)
<1> DEFINE n == Len(items)
           K == ItemKeys(items)
           f == [i \in 1..n |-> extract_key(items[i])]
<1>1. n \in Nat /\ DOMAIN items = 1..n
  OBVIOUS
<1>2. f \in [1..n -> K] /\ \A k \in K : \E i \in 1..n : f[i] = k
  BY <1>1 DEF ItemKeys
<1>3. f \in Surjection(1..n, K)
  <2> HIDE DEF f, K
  <2>1. QED
    BY <1>2 DEF Surjection
<1>4. IsFiniteSet(1..n) /\ Cardinality(1..n) = Cardinality(K)
  BY <1>1, UpTo
<1>5. f \in Injection(1..n, K)
  <2> HIDE DEF f, K, n
  <2>1. QED
    BY <1>3, <1>4, FS_SurjSameCardinalityImpliesInj
<1>6. \A i, j \in 1..n : f[i] = f[j] => i = j
  <2> HIDE DEF f, K
  <2>1. QED
    BY <1>2, <1>5 DEF Injection, IsInjective
<1>7. QED
  BY <1>6 DEF KeysDiffer

\* Then the index has every item under its key.
LEMMA Indexed ==
  ASSUME NEW items \in Seq(Entry), KeysDiffer(items)
  PROVE  /\ DOMAIN index_array(items) = {extract_key(items[i]) : i \in 1..Len(items)}
         /\ \A i \in 1..Len(items) : index_array(items)[extract_key(items[i])] = items[i]
<1>1. DOMAIN items = 1..Len(items) /\ Len(items) \in Nat
  OBVIOUS
<1>2. DOMAIN index_array(items) = {extract_key(items[i]) : i \in 1..Len(items)}
  BY <1>1 DEF index_array, ItemKeys
<1>3. ASSUME NEW i \in 1..Len(items)
      PROVE  index_array(items)[extract_key(items[i])] = items[i]
  <2> DEFINE k == extract_key(items[i])
             First(j) == /\ extract_key(items[j]) = k
                         /\ \A h \in 1..j - 1 : extract_key(items[h]) # k
             c == CHOOSE j \in DOMAIN items : First(j)
  <2>1. index_array(items)[k] = items[c]
    BY <1>1 DEF index_array, ItemKeys
  <2>2. First(i)
    BY <1>1 DEF KeysDiffer
  <2>3. c \in DOMAIN items /\ First(c)
    <3> HIDE DEF First
    <3>1. i \in DOMAIN items
      BY <1>1
    <3>2. QED
      BY <2>2, <3>1, Zenon
  <2>4. c = i
    <3> HIDE DEF c
    <3>1. QED
      BY <1>1, <2>3 DEF KeysDiffer
  <2>5. QED
    BY <2>1, <2>4
<1>4. QED
  BY <1>2, <1>3

ShownSet(items) == {ShownItem(items[i]) : i \in 1..Len(items)}

\* Two arrays without a repeated key: no difference is found just when the
\* same items are shown.
LEMMA ArraysSame ==
  ASSUME NEW a \in Seq(Entry), NEW b \in Seq(Entry), KeysDiffer(a), KeysDiffer(b)
  PROVE  DiffArraySection(a, b) = {} <=> ShownSet(a) = ShownSet(b)
<1> DEFINE ia == index_array(a)
           ib == index_array(b)
           key(x) == extract_key(x)
<1>1. /\ DOMAIN ia = {key(a[i]) : i \in 1..Len(a)} /\ DOMAIN ib = {key(b[i]) : i \in 1..Len(b)}
      /\ \A i \in 1..Len(a) : ia[key(a[i])] = a[i]
      /\ \A i \in 1..Len(b) : ib[key(b[i])] = b[i]
  BY Indexed
<1>2. /\ \A i \in 1..Len(a) : a[i] \in Entry
      /\ \A i \in 1..Len(b) : b[i] \in Entry
  OBVIOUS
<1>3. DiffArraySection(a, b) =
        (DOMAIN ia \ DOMAIN ib) \cup (DOMAIN ib \ DOMAIN ia)
        \cup {k \in DOMAIN ia \cap DOMAIN ib : DiffFields(ia[k], ib[k]) # {}}
  BY DEF DiffArraySection
<1> HIDE DEF ia, ib
<1>4. ASSUME DiffArraySection(a, b) = {} PROVE ShownSet(a) = ShownSet(b)
  <2>1. DOMAIN ia = DOMAIN ib /\ \A k \in DOMAIN ia : DiffFields(ia[k], ib[k]) = {}
    BY <1>3, <1>4
  <2>2. ASSUME NEW i \in 1..Len(a) PROVE \E j \in 1..Len(b) : ShownItem(a[i]) = ShownItem(b[j])
    <3>1. PICK j \in 1..Len(b) : key(b[j]) = key(a[i])
      BY <1>1, <2>1, ZenonT(30)
    <3>2. DiffFields(a[i], b[j]) = {}
      BY <1>1, <2>1, <3>1
    <3>3. QED
      BY <3>2, FieldsSame
  <2>3. ASSUME NEW j \in 1..Len(b) PROVE \E i \in 1..Len(a) : ShownItem(a[i]) = ShownItem(b[j])
    <3>1. PICK i \in 1..Len(a) : key(b[j]) = key(a[i])
      BY <1>1, <2>1
    <3>2. DiffFields(a[i], b[j]) = {}
      BY <1>1, <2>1, <3>1
    <3>3. QED
      BY <3>2, FieldsSame
  <2>4. QED
    BY <2>2, <2>3 DEF ShownSet
<1>5. ASSUME ShownSet(a) = ShownSet(b) PROVE DiffArraySection(a, b) = {}
  <2>1. ASSUME NEW i \in 1..Len(a)
        PROVE  \E j \in 1..Len(b) : ShownItem(a[i]) = ShownItem(b[j]) /\ key(a[i]) = key(b[j])
    <3>1. PICK j \in 1..Len(b) : ShownItem(a[i]) = ShownItem(b[j])
      BY <1>5 DEF ShownSet
    <3>2. QED
      BY <1>2, <3>1, KeyShown
  <2>2. ASSUME NEW j \in 1..Len(b)
        PROVE  \E i \in 1..Len(a) : key(a[i]) = key(b[j])
    <3>1. PICK i \in 1..Len(a) : ShownItem(a[i]) = ShownItem(b[j])
      BY <1>5 DEF ShownSet
    <3>2. QED
      BY <1>2, <3>1, KeyShown
  <2>3. DOMAIN ia = DOMAIN ib
    BY <1>1, <2>1, <2>2
  <2>4. ASSUME NEW k \in DOMAIN ia PROVE DiffFields(ia[k], ib[k]) = {}
    <3>1. PICK i \in 1..Len(a) : k = key(a[i])
      BY <1>1
    <3>2. PICK j \in 1..Len(b) : ShownItem(a[i]) = ShownItem(b[j]) /\ key(a[i]) = key(b[j])
      BY <2>1
    <3>3. ia[k] = a[i] /\ ib[k] = b[j]
      BY <1>1, <3>1, <3>2
    <3>4. QED
      BY <3>2, <3>3, FieldsSame
  <2>5. QED
    BY <1>3, <2>3, <2>4
<1>6. QED
  BY <1>4, <1>5

-----------------------------------------------------------------------------
(* What a snapshot is.                                                     *)

\* Sequences of items, joined, are a sequence of items.
LEMMA FlattenType ==
  ASSUME NEW E, NEW seqs \in Seq(Seq(E))
  PROVE  FlattenSeq(seqs) \in Seq(E)
<1> DEFINE n == Len(seqs)
           X == Seq(E)
           st == [x \in X \X X |-> x[1] \o x[2]]
           Is(f) == f = [i \in 1..n |-> IF i = 1 THEN seqs[i] ELSE f[i - 1] \o seqs[i]]
           h == CHOOSE f : Is(f)
<1>1. n \in Nat
  OBVIOUS
<1>2. CASE n = 0
  <2>1. FlattenSeq(seqs) = seqs /\ seqs = <<>>
    BY <1>2 DEF FlattenSeq
  <2>2. QED
    BY <2>1
<1>3. CASE n # 0
  <2>1. st \in [X \X X -> X] /\ <<>> \in X
    OBVIOUS
  <2>2. seqs \in Seq(X) /\ \A i \in 1..n : seqs[i] \in X
    OBVIOUS
  <2>3. PICK f \in [0..n -> X] : IsLoop(f, <<>>, st, seqs, n)
    <3> HIDE DEF st, X
    <3>1. QED
      BY <2>1, <2>2, LoopExists
  <2>4. f[0] = <<>> /\ \A i \in 1..n : f[i] = f[i - 1] \o seqs[i]
    <3>1. ASSUME NEW i \in 1..n PROVE f[i] = f[i - 1] \o seqs[i]
      <4>1. i - 1 \in 0..n
        BY <1>1
      <4>2. f[i - 1] \in X /\ seqs[i] \in X
        <5> HIDE DEF X, n
        <5>1. QED
          BY <2>2, <2>3, <4>1
      <4>3. f[i] = st[<<f[i - 1], seqs[i]>>]
        BY <2>3 DEF IsLoop
      <4> HIDE DEF X
      <4>4. QED
        BY <4>2, <4>3
    <3>2. QED
      BY <2>3, <3>1 DEF IsLoop
  <2>5. 1 \in 1..n /\ f[1] = seqs[1]
    <3>1. 1 \in 1..n
      BY <1>1, <1>3
    <3>2. f[1] = <<>> \o seqs[1]
      <4>1. f[1] = f[1 - 1] \o seqs[1]
        BY <2>4, <3>1
      <4>2. 1 - 1 = 0
        OBVIOUS
      <4>3. QED
        BY <2>4, <4>1, <4>2
    <3>3. seqs[1] \in Seq(E)
      BY <2>2, <3>1
    <3>4. QED
      BY <3>1, <3>2, <3>3
  <2> DEFINE g == [i \in 1..n |-> f[i]]
  <2>6. Is(g)
    <3>1. \A i \in 1..n : g[i] = IF i = 1 THEN seqs[i] ELSE g[i - 1] \o seqs[i]
      <4> SUFFICES ASSUME NEW i \in 1..n, i # 1 PROVE g[i] = g[i - 1] \o seqs[i]
        BY <2>5
      <4>1. i - 1 \in 1..n
        BY <1>1
      <4>2. g[i] = f[i] /\ g[i - 1] = f[i - 1]
        BY <4>1
      <4>3. QED
        BY <2>4, <4>2
    <3>2. g = [i \in 1..n |-> g[i]]
      OBVIOUS
    <3> HIDE DEF g
    <3>3. QED
      BY <3>1, <3>2
  <2>7. Is(h)
    <3> HIDE DEF Is
    <3>1. QED
      BY <2>6, Zenon
  <2>8. \A i \in 1..n : h[i] = IF i = 1 THEN seqs[i] ELSE h[i - 1] \o seqs[i]
    <3> HIDE DEF h
    <3>1. QED
      BY <2>7
  <2> DEFINE k == [i \in 0..n |-> IF i = 0 THEN <<>> ELSE h[i]]
  <2>9. GoOnAlike(f, k, n)
    <3> HIDE DEF h
    <3>1. k[0] = <<>> /\ \A i \in 1..n : k[i] = h[i]
      BY <1>1
    <3> HIDE DEF k
    <3>2. ASSUME NEW i \in 1..n, f[i - 1] = k[i - 1] PROVE f[i] = k[i]
      <4>1. CASE i = 1
        BY <2>5, <2>8, <3>1, <4>1
      <4>2. CASE i # 1
        <5>1. i - 1 \in 1..n
          BY <1>1, <4>2
        <5>2. k[i - 1] = h[i - 1] /\ h[i] = h[i - 1] \o seqs[i]
          BY <2>8, <3>1, <4>2, <5>1
        <5>3. QED
          BY <2>4, <3>1, <3>2, <5>2
      <4>3. QED
        BY <4>1, <4>2
    <3>3. QED
      BY <2>4, <3>1, <3>2 DEF GoOnAlike
  <2>10. n \in 0..n /\ k[n] = h[n]
    <3> HIDE DEF h
    <3>1. QED
      BY <1>1, <1>3
  <2>11. f[n] = h[n]
    <3> HIDE DEF h, k, n
    <3>1. \A i \in 0..n : f[i] = k[i]
      BY <1>1, <2>9, LoopsAgree
    <3>2. QED
      BY <2>10, <3>1
  <2>12. FlattenSeq(seqs) = h[n]
    BY <1>3 DEF FlattenSeq
  <2>13. f[n] \in X
    <3> HIDE DEF X, n
    <3>1. QED
      BY <2>3, <2>10
  <2> HIDE DEF h
  <2>14. QED
    BY <2>11, <2>12, <2>13
<1>4. QED
  BY <1>2, <1>3

\* The numbers of a range are finitely many.
LEMMA BelowFinite ==
  ASSUME NEW n \in Int, NEW S, S \subseteq 0..n
  PROVE  IsFiniteSet(S)
<1>1. 0 \in Int /\ n \in Int
  OBVIOUS
<1>2. IsFiniteSet(0..n)
  BY <1>1, FS_Interval
<1>3. QED
  BY <1>2, FS_Subset

\* The connections captured are items, protocol after protocol.
LEMMA ConnectionsTyped == CaptureConnections \in Seq(Entry)
<1> DEFINE A(p) == {x \in Address : <<p, x>> \in connections}
           Of(p) == [i \in DOMAIN SetToSeq(A(p)) |->
                       [protocol |-> p, address |-> SetToSeq(A(p))[i]]]
           lists == [i \in DOMAIN Protocol |-> Of(Protocol[i])]
<1>1. ASSUME NEW p \in ToSet(Protocol) PROVE Of(p) \in Seq(Entry)
  <2>1. IsFiniteSet(A(p))
    <3>1. A(p) \subseteq 0..Limit - 1 /\ Limit - 1 \in Int
      BY SnapshotDiffAssumption
    <3> HIDE DEF A
    <3>2. QED
      BY <3>1, BelowFinite
  <2>2. PICK n \in Nat : n = Cardinality(A(p)) /\ ExistsBijection(1..n, A(p))
    <3> HIDE DEF A
    <3>1. PICK n \in Nat : ExistsBijection(1..n, A(p))
      BY <2>1, FS_NatBijection
    <3>2. Cardinality(A(p)) = n
      BY <3>1, FS_CountingElements
    <3>3. QED
      BY <3>1, <3>2
  <2> HIDE DEF A
  <2>3. PICK f \in [1..n -> A(p)] : IsInjective(f)
    <3>1. PICK f : f \in Bijection(1..n, A(p))
      BY <2>2 DEF ExistsBijection
    <3>2. f \in [1..n -> A(p)] /\ IsInjective(f)
      BY <3>1 DEF Bijection, Injection
    <3>3. QED
      BY <3>2
  <2>4. SetToSeq(A(p)) \in [1..n -> A(p)]
    <3>1. SetToSeq(A(p)) = CHOOSE g \in [1..n -> A(p)] : IsInjective(g)
      BY <2>2, Zenon DEF SetToSeq
    <3>2. QED
      BY <2>3, <3>1, Zenon
  <2>5. A(p) \subseteq Address
    BY DEF A
  <2>6. Of(p) \in [1..n -> ConnectionItem]
    <3> DEFINE a == SetToSeq(A(p))
    <3>1. DOMAIN a = 1..n /\ \A i \in 1..n : a[i] \in Address
      <4> HIDE DEF a
      <4>1. a \in [1..n -> A(p)]
        BY <2>4 DEF a
      <4>2. QED
        BY <2>5, <4>1
    <3> HIDE DEF a
    <3>2. Of(p) = [i \in 1..n |-> [protocol |-> p, address |-> a[i]]]
      BY <3>1 DEF a
    <3>3. QED
      BY <3>1, <3>2 DEF ConnectionItem
  <2> HIDE DEF Of
  <2>7. QED
    BY <2>6 DEF Entry
<1>2. lists \in Seq(Seq(Entry))
  <2> HIDE DEF Of
  <2>1. Len(Protocol) \in Nat /\ DOMAIN Protocol = 1..Len(Protocol)
    BY SnapshotDiffAssumption
  <2>2. \A i \in 1..Len(Protocol) : Protocol[i] \in ToSet(Protocol)
    BY <2>1 DEF ToSet
  <2>3. lists \in [1..Len(Protocol) -> Seq(Entry)]
    BY <1>1, <2>1, <2>2
  <2> HIDE DEF lists
  <2>4. QED
    BY <2>1, <2>3
<1>3. CaptureConnections = FlattenSeq(lists)
  BY DEF CaptureConnections
<1> HIDE DEF lists
<1>4. QED
  BY <1>2, <1>3, FlattenType

Cut(s) == IF MaxProcesses > 0 /\ Len(s) > MaxProcesses THEN SubSeq(s, 1, MaxProcesses) ELSE s

\* The processes as they may be sorted, and the items of such a sequence.
ByMemory(host) == {s \in SetToSeqs(DOMAIN host) : Descending(s, host)}
ItemsOf(host, s) == [i \in DOMAIN Cut(s) |-> [pid |-> Cut(s)[i], memory |-> host[Cut(s)[i]]]]

\* capture_processes yields the items of one of them.
LEMMA CaptureIs == CaptureProcesses = {ItemsOf(processes, s) : s \in ByMemory(processes)}
BY DEF CaptureProcesses, ItemsOf, ByMemory, Cut, Descending

\* A host's processes.
Host == UNION {[S -> Memory] : S \in SUBSET Pid}

\* The memory of finitely many processes is a number each.
LEMMA HostTyped ==
  ASSUME NEW host \in Host
  PROVE  host \in [DOMAIN host -> Int] /\ IsFiniteSet(DOMAIN host)
<1>1. PICK S \in SUBSET Pid : host \in [S -> Memory]
  BY DEF Host
<1>2. Memory \subseteq Int /\ S \subseteq 0..10 * Limit - 1 /\ 10 * Limit - 1 \in Int
  BY SnapshotDiffAssumption
<1>3. IsFiniteSet(S)
  BY <1>2, BelowFinite
<1>4. QED
  BY <1>1, <1>2, <1>3

\* The processes captured are items, the largest ones.
LEMMA ProcessesTyped ==
  ASSUME NEW host \in Host, NEW s \in ByMemory(host)
  PROVE  ItemsOf(host, s) \in Seq(Entry)
<1>1. PICK S \in SUBSET Pid : host \in [S -> Memory]
  BY DEF Host
<1>2. s \in Seq(S)
  <2>1. IsFiniteSet(S) /\ s \in SetToSeqs(S)
    BY <1>1, HostTyped DEF ByMemory
  <2>2. QED
    BY <2>1, Arrangement
<1>3. Cut(s) \in Seq(S)
  BY <1>2, SnapshotDiffAssumption DEF Cut
<1> DEFINE c == Cut(s)
<1>4. Len(c) \in Nat /\ DOMAIN c = 1..Len(c) /\ \A i \in 1..Len(c) : c[i] \in S
  BY <1>3
<1> HIDE DEF c
<1>5. \A i \in 1..Len(c) : c[i] \in Pid /\ host[c[i]] \in Memory
  BY <1>1, <1>4
<1>6. ItemsOf(host, s) \in [1..Len(c) -> ProcessItem]
  <2>1. ItemsOf(host, s) = [i \in 1..Len(c) |-> [pid |-> c[i], memory |-> host[c[i]]]]
    BY <1>4 DEF ItemsOf, c
  <2>2. QED
    BY <1>5, <2>1 DEF ProcessItem
<1>7. QED
  BY <1>4, <1>6 DEF Entry

\* Without ties there is one way to sort the processes.
LEMMA SortedAlone ==
  ASSUME NEW host \in Host, \A p, q \in DOMAIN host : host[p] = host[q] => p = q,
         NEW s \in ByMemory(host), NEW t \in ByMemory(host)
  PROVE  s = t
<1> DEFINE M == DOMAIN host
<1>1. host \in [M -> Int] /\ IsFiniteSet(M)
  BY HostTyped
<1>2. s \in SetToSeqs(M) /\ t \in SetToSeqs(M) /\ Descending(s, host) /\ Descending(t, host)
  BY DEF ByMemory
<1> HIDE DEF M
<1>3. /\ s \in Seq(M) /\ t \in Seq(M) /\ Len(s) = Cardinality(M) /\ Len(t) = Cardinality(M)
      /\ \A x \in M : \E k \in 1..Len(t) : t[k] = x
  BY <1>1, <1>2, Arrangement
<1>4. ASSUME NEW k \in 1..Len(s) PROVE s[k] = t[k]
  <2>1. s[k] \in M
    BY <1>3
  <2>2. PICK j \in 1..Len(t) : t[j] = s[k]
    BY <1>3, <2>1
  <2>3. \A y \in M \ {s[k]} : host[y] # host[s[k]]
    BY <2>1 DEF M
  <2>4. Cardinality({y \in M : host[y] > host[s[k]]}) = k - 1
    BY <1>1, <1>2, <2>3, PlaceCounts
  <2>5. Cardinality({y \in M : host[y] > host[t[j]]}) = j - 1
    <3>1. \A y \in M \ {t[j]} : host[y] # host[t[j]]
      BY <2>2, <2>3
    <3>2. QED
      BY <1>1, <1>2, <3>1, PlaceCounts
  <2>6. k - 1 = j - 1 /\ k \in Int /\ j \in Int
    BY <1>3, <2>2, <2>4, <2>5
  <2>7. QED
    BY <2>2, <2>6
<1>5. QED
  BY <1>3, <1>4

-----------------------------------------------------------------------------
(* The two captures and the comparison.                                    *)

\* Arrays of items, for sections that there are.
IsSnapshot(snap) ==
  /\ DOMAIN snap.sections \subseteq Section
  /\ \A s \in DOMAIN snap.sections \ {"environment"} : snap.sections[s] \in Seq(Entry)

\* A snapshot of the host as it is.
Taken(snap) ==
  \E p \in CaptureProcesses :
    snap.sections = [s \in DOMAIN snap.sections |-> IF s = "processes" THEN p
                                                    ELSE IF s = "connections" THEN CaptureConnections
                                                    ELSE CaptureEnvironment]

Differs ==
  (\E s \in Section : SectionDiffers(s)) \/ ~SameScalar(snapA.uptime, snapB.uptime)

DiffInv ==
  /\ DiffTypeOK
  /\ diffAt # "first" => IsSnapshot(snapA)
  /\ diffAt \in {"compare", "done"} => IsSnapshot(snapB)
  /\ diffAt # "first" /\ changes = 0 => Taken(snapA)
  /\ diffAt \in {"compare", "done"} /\ changes = 0 => Taken(snapB)
  /\ diffAt = "done" /\ exitCode # 2 => exitCode = IF Differs THEN 1 ELSE 0

\* generate yields snapshots of the host.
LEMMA SnapshotsAre ==
  ASSUME DiffTypeOK, NEW included \in SUBSET Section, NEW snap \in Snapshots(included)
  PROVE  IsSnapshot(snap) /\ Taken(snap)
<1>1. processes \in Host
  BY DEF DiffTypeOK, IsHost, Host
<1>2. PICK p \in CaptureProcesses :
        snap = [sections |-> [s \in included |-> IF s = "processes" THEN p
                                                 ELSE IF s = "connections" THEN CaptureConnections
                                                 ELSE CaptureEnvironment],
                uptime |-> uptime]
  BY DEF Snapshots
<1>3. p \in Seq(Entry)
  BY <1>1, CaptureIs, ProcessesTyped
<1>4. /\ DOMAIN snap.sections = included
      /\ snap.sections = [s \in included |-> IF s = "processes" THEN p
                                             ELSE IF s = "connections" THEN CaptureConnections
                                             ELSE CaptureEnvironment]
  BY <1>2
<1>5. Taken(snap)
  BY <1>4 DEF Taken
<1>6. \A s \in included \ {"environment"} : snap.sections[s] \in Seq(Entry)
  BY <1>3, <1>4, ConnectionsTyped DEF Section
<1>7. QED
  BY <1>4, <1>5, <1>6 DEF IsSnapshot

\* Two snapshots of the same host, without ties and with the same sections,
\* have the same contents.
LEMMA TakenSame ==
  ASSUME DiffTypeOK, Taken(snapA), Taken(snapB), DOMAIN snapA.sections = DOMAIN snapB.sections,
         \A p, q \in DOMAIN processes : processes[p] = processes[q] => p = q
  PROVE  snapA.sections = snapB.sections
<1>1. processes \in Host
  BY DEF DiffTypeOK, IsHost, Host
<1>2. \A p, q \in CaptureProcesses : p = q
  <2> SUFFICES ASSUME NEW p \in CaptureProcesses, NEW q \in CaptureProcesses PROVE p = q
    OBVIOUS
  <2>1. PICK s \in ByMemory(processes) : p = ItemsOf(processes, s)
    BY CaptureIs
  <2>2. PICK t \in ByMemory(processes) : q = ItemsOf(processes, t)
    BY CaptureIs
  <2>3. s = t
    BY <1>1, SortedAlone
  <2>4. QED
    BY <2>1, <2>2, <2>3
<1> DEFINE Of(D, p) == [s \in D |-> IF s = "processes" THEN p
                                    ELSE IF s = "connections" THEN CaptureConnections
                                    ELSE CaptureEnvironment]
<1>3. PICK p \in CaptureProcesses : snapA.sections = Of(DOMAIN snapA.sections, p)
  BY DEF Taken
<1>4. PICK q \in CaptureProcesses : snapB.sections = Of(DOMAIN snapB.sections, q)
  BY DEF Taken
<1> HIDE DEF Of
<1>5. p = q
  BY <1>2
<1>6. QED
  BY <1>3, <1>4, <1>5

\* Initially nothing has been captured.
LEMMA DiffInvInit ==
  ASSUME NEW hosts, hosts \subseteq Hosts, DiffInitIn(hosts)
  PROVE  DiffInv
<1>1. PICK h \in hosts : processes = h.processes /\ connections = h.connections
  BY DEF DiffInitIn
<1>2. IsHost([processes |-> processes, connections |-> connections])
  BY <1>1, HostsAssumption DEF IsHost
<1>3. DOMAIN environment \subseteq Variable /\ environment \in [DOMAIN environment -> VarValue]
  BY DEF DiffInitIn
<1>4. /\ uptime \in 1..MaxUptime /\ diffAt = "first" /\ changes \in 0..MaxChanges
      /\ exitCode \in 0..2
  BY SnapshotDiffAssumption DEF DiffInitIn
<1>5. QED
  BY <1>2, <1>3, <1>4 DEF DiffInv, DiffTypeOK

\* A key set or removed leaves a function of its type.
LEMMA OneSet ==
  ASSUME NEW K, NEW V, NEW f, DOMAIN f \subseteq K, f \in [DOMAIN f -> V], NEW k \in K, NEW v \in V,
         NEW g, g = With(f, k, v)
  PROVE  DOMAIN g \subseteq K /\ g \in [DOMAIN g -> V]
BY DEF With

\* So does a key removed.
LEMMA OneRemoved ==
  ASSUME NEW K, NEW V, NEW f, DOMAIN f \subseteq K, f \in [DOMAIN f -> V], NEW k,
         NEW g, g = Without(f, k)
  PROVE  DOMAIN g \subseteq K /\ g \in [DOMAIN g -> V]
BY DEF Without

\* A change of the host keeps the types.
LEMMA HostChangeTyped ==
  ASSUME DiffTypeOK, HostChange
  PROVE  DiffTypeOK' /\ changes' # 0
<1>1. /\ uptime' = uptime /\ snapA' = snapA /\ snapB' = snapB /\ diffAt' = diffAt
      /\ exitCode' = exitCode /\ changes' = changes + 1 /\ changes < MaxChanges
  BY DEF HostChange
<1>2. changes' \in 0..MaxChanges /\ changes' # 0
  BY <1>1, SnapshotDiffAssumption DEF DiffTypeOK
<1>3. /\ DOMAIN processes \subseteq Pid /\ processes \in [DOMAIN processes -> Memory]
      /\ DOMAIN environment \subseteq Variable /\ environment \in [DOMAIN environment -> VarValue]
      /\ connections \subseteq ToSet(Protocol) \X Address
  BY DEF DiffTypeOK, IsHost
<1>4. DOMAIN processes' \subseteq Pid /\ processes' \in [DOMAIN processes' -> Memory]
  <2>1. CASE \E p \in Pid, m \in Memory : processes' = With(processes, p, m)
    BY <1>3, <2>1, OneSet
  <2>2. CASE \E p \in DOMAIN processes : processes' = Without(processes, p)
    BY <1>3, <2>2, OneRemoved
  <2>3. CASE processes' = processes
    BY <1>3, <2>3
  <2>4. QED
    BY <2>1, <2>2, <2>3 DEF HostChange
<1>5. DOMAIN environment' \subseteq Variable /\ environment' \in [DOMAIN environment' -> VarValue]
  <2>1. CASE \E v \in Variable, x \in VarValue : environment' = With(environment, v, x)
    BY <1>3, <2>1, OneSet
  <2>2. CASE \E v \in DOMAIN environment : environment' = Without(environment, v)
    BY <1>3, <2>2, OneRemoved
  <2>3. CASE environment' = environment
    BY <1>3, <2>3
  <2>4. QED
    BY <2>1, <2>2, <2>3 DEF HostChange
<1>6. connections' \subseteq ToSet(Protocol) \X Address
  <2>1. \/ connections' = connections
        \/ \E c \in ToSet(Protocol) \X Address :
             connections' \in {connections \ {c}, connections \cup {c}}
    BY DEF HostChange
  <2>2. QED
    BY <1>3, <2>1
<1>7. QED
  BY <1>1, <1>2, <1>4, <1>5, <1>6 DEF DiffTypeOK, IsHost

\* The host as it was: what was taken of it still is.
LEMMA HostRests ==
  ASSUME UNCHANGED <<processes, connections, environment>>
  PROVE  /\ CaptureProcesses' = CaptureProcesses
         /\ CaptureConnections' = CaptureConnections
         /\ CaptureEnvironment' = CaptureEnvironment
<1>1. CaptureProcesses' = CaptureProcesses
  BY DEF CaptureProcesses
<1>2. CaptureConnections' = CaptureConnections
  BY DEF CaptureConnections
<1>3. CaptureEnvironment' = CaptureEnvironment
  BY DEF CaptureEnvironment
<1>4. QED
  BY <1>1, <1>2, <1>3

\* Every step of the two captures and the comparison keeps the invariant.
LEMMA DiffInvStep ==
  ASSUME DiffInv, [DiffNext]_diffVars
  PROVE  DiffInv'
<1>0. DiffTypeOK
  BY DEF DiffInv
<1>1. CASE HostChange
  <2>1. DiffTypeOK' /\ changes' # 0
    BY <1>0, <1>1, HostChangeTyped
  <2>2. snapA' = snapA /\ snapB' = snapB /\ diffAt' = diffAt /\ diffAt = "second"
    BY <1>1 DEF HostChange
  <2>3. IsSnapshot(snapA)'
    BY <2>2 DEF DiffInv, IsSnapshot
  <2>4. QED
    BY <2>1, <2>2, <2>3 DEF DiffInv
<1>2. CASE UptimePasses
  <2>1. /\ UNCHANGED <<processes, connections, environment, snapA, snapB, diffAt, changes, exitCode>>
        /\ diffAt = "second" /\ uptime' = uptime + 1 /\ uptime < MaxUptime
    BY <1>2 DEF UptimePasses
  <2>2. DiffTypeOK'
    <3>1. uptime' \in 1..MaxUptime
      BY <1>0, <2>1, SnapshotDiffAssumption DEF DiffTypeOK
    <3>2. QED
      BY <1>0, <2>1, <3>1 DEF DiffTypeOK, IsHost
  <2>3. IsSnapshot(snapA)'
    BY <2>1 DEF DiffInv, IsSnapshot
  <2>4. changes' = 0 => Taken(snapA)'
    BY <2>1, HostRests DEF DiffInv, Taken
  <2>5. QED
    BY <2>1, <2>2, <2>3, <2>4 DEF DiffInv
<1>3. CASE CaptureFirst
  <2>1. /\ UNCHANGED <<processes, connections, environment, uptime, snapB, changes, exitCode>>
        /\ diffAt' = "second" /\ snapA' \in Snapshots(Section)
    BY <1>3 DEF CaptureFirst, hostVars
  <2>2. DiffTypeOK'
    BY <1>0, <2>1 DEF DiffTypeOK, IsHost
  <2>3. IsSnapshot(snapA') /\ Taken(snapA')
    BY <1>0, <2>1, SnapshotsAre
  <2>4. IsSnapshot(snapA)' /\ Taken(snapA)'
    BY <2>1, <2>3, HostRests DEF IsSnapshot, Taken
  <2>5. QED
    BY <2>1, <2>2, <2>4 DEF DiffInv
<1>4. ASSUME NEW included \in SUBSET Section, CaptureSecond(included) PROVE DiffInv'
  <2>1. /\ UNCHANGED <<processes, connections, environment, uptime, snapA, changes, exitCode>>
        /\ diffAt = "second" /\ diffAt' = "compare" /\ snapB' \in Snapshots(included)
    BY <1>4 DEF CaptureSecond, hostVars
  <2>2. DiffTypeOK'
    BY <1>0, <2>1 DEF DiffTypeOK, IsHost
  <2>3. IsSnapshot(snapB') /\ Taken(snapB')
    BY <1>0, <2>1, SnapshotsAre
  <2>4. IsSnapshot(snapB)' /\ Taken(snapB)'
    BY <2>1, <2>3, HostRests DEF IsSnapshot, Taken
  <2>5. IsSnapshot(snapA)' /\ (changes' = 0 => Taken(snapA)')
    <3>1. IsSnapshot(snapA) /\ (changes = 0 => Taken(snapA))
      BY <2>1 DEF DiffInv
    <3>2. IsSnapshot(snapA)' <=> IsSnapshot(snapA)
      BY <2>1 DEF IsSnapshot
    <3>3. Taken(snapA)' <=> Taken(snapA)
      BY <2>1, HostRests DEF Taken
    <3>4. QED
      BY <2>1, <3>1, <3>2, <3>3
  <2>6. QED
    BY <2>1, <2>2, <2>4, <2>5 DEF DiffInv
<1>5. ASSUME UNCHANGED <<hostVars, snapA, snapB, changes>>,
             diffAt \in {"compare", "done"}, diffAt' = "done",
             \/ exitCode' = 2
             \/ exitCode' = IF Differs THEN 1 ELSE 0
             \/ diffAt = "done" /\ exitCode' = exitCode
      PROVE  DiffInv'
  <2>1. UNCHANGED <<processes, connections, environment, uptime, snapA, snapB, changes>>
    BY <1>5 DEF hostVars
  <2>2. exitCode' \in 0..2
    BY <1>0, <1>5 DEF DiffTypeOK
  <2>3. DiffTypeOK'
    BY <1>0, <1>5, <2>1, <2>2 DEF DiffTypeOK, IsHost
  <2>4. /\ IsSnapshot(snapA)' /\ (changes' = 0 => Taken(snapA)')
        /\ IsSnapshot(snapB)' /\ (changes' = 0 => Taken(snapB)')
    BY <1>5, <2>1, HostRests DEF DiffInv, IsSnapshot, Taken
  <2>5. Differs' = Differs
    BY <2>1 DEF Differs, SectionDiffers
  <2>6. exitCode' # 2 => exitCode' = IF Differs' THEN 1 ELSE 0
    BY <1>5, <2>5 DEF DiffInv
  <2>7. QED
    BY <1>5, <2>3, <2>4, <2>6 DEF DiffInv
<1>6. CASE Compare
  <2>1. exitCode' = IF Differs THEN 1 ELSE 0
    BY <1>6 DEF Compare, Differs
  <2>2. QED
    BY <1>5, <1>6, <2>1 DEF Compare
<1>7. CASE CompareFails
  BY <1>5, <1>7 DEF CompareFails
<1>8. CASE UNCHANGED diffVars
  <2>1. /\ UNCHANGED <<processes, connections, environment, uptime, snapA, snapB, changes>>
        /\ diffAt' = diffAt /\ exitCode' = exitCode
    BY <1>8 DEF diffVars, hostVars
  <2>2. DiffTypeOK'
    BY <1>0, <2>1 DEF DiffTypeOK, IsHost
  <2>3. /\ IsSnapshot(snapA)' <=> IsSnapshot(snapA)
        /\ IsSnapshot(snapB)' <=> IsSnapshot(snapB)
        /\ Taken(snapA)' <=> Taken(snapA)
        /\ Taken(snapB)' <=> Taken(snapB)
    BY <2>1, HostRests DEF IsSnapshot, Taken
  <2>4. Differs' <=> Differs
    BY <2>1 DEF Differs, SectionDiffers
  <2>5. QED
    BY <2>1, <2>2, <2>3, <2>4 DEF DiffInv
<1>9. QED
  BY <1>1, <1>2, <1>3, <1>4, <1>6, <1>7, <1>8 DEF DiffNext, DiffRest

\* The sections of two snapshots are the same to the comparison just when
\* they look the same.
LEMMA SectionsSame ==
  ASSUME IsSnapshot(snapA), IsSnapshot(snapB), UniqueKeys(snapA), UniqueKeys(snapB)
  PROVE  (\A s \in Section : ~SectionDiffers(s)) <=> Look(snapA) = Look(snapB)
<1> DEFINE a == snapA.sections
           b == snapB.sections
<1>1. DOMAIN a \subseteq Section /\ DOMAIN b \subseteq Section
  BY DEF IsSnapshot
<1>2. ASSUME NEW s \in DOMAIN a \cap DOMAIN b
      PROVE  ~SectionDiffers(s) <=> Look(snapA)[s] = Look(snapB)[s]
  <2>1. CASE s = "environment"
    <3>1. ~SectionDiffers(s) <=> DiffFields(a[s], b[s]) = {}
      BY <2>1 DEF SectionDiffers
    <3>2. Look(snapA)[s] = ShownItem(a[s]) /\ Look(snapB)[s] = ShownItem(b[s])
      BY <2>1 DEF Look
    <3>3. QED
      BY <3>1, <3>2, FieldsSame
  <2>2. CASE s # "environment"
    <3>1. a[s] \in Seq(Entry) /\ b[s] \in Seq(Entry)
      BY <2>2 DEF IsSnapshot
    <3>2. s \in Section \ {"environment"} /\ Items(snapA, s) = a[s] /\ Items(snapB, s) = b[s]
      BY <1>1, <2>2 DEF Items
    <3>3. KeysDiffer(a[s]) /\ KeysDiffer(b[s])
      BY <3>1, <3>2, ManyKeys DEF UniqueKeys
    <3>4. ~SectionDiffers(s) <=> DiffArraySection(a[s], b[s]) = {}
      BY <2>2 DEF SectionDiffers
    <3>5. DOMAIN a[s] = 1..Len(a[s]) /\ DOMAIN b[s] = 1..Len(b[s])
      BY <3>1
    <3>6. Look(snapA)[s] = ShownSet(a[s]) /\ Look(snapB)[s] = ShownSet(b[s])
      BY <2>2, <3>5 DEF Look, ShownSet
    <3>7. QED
      BY <3>1, <3>3, <3>4, <3>6, ArraysSame
  <2>3. QED
    BY <2>1, <2>2
<1>3. \A s \in Section : s \notin DOMAIN a \cap DOMAIN b =>
        (SectionDiffers(s) <=> s \in DOMAIN a \cup DOMAIN b)
  BY DEF SectionDiffers
<1>4. DOMAIN Look(snapA) = DOMAIN a /\ DOMAIN Look(snapB) = DOMAIN b
  BY DEF Look
<1>5. /\ Look(snapA) = [s \in DOMAIN a |-> Look(snapA)[s]]
      /\ Look(snapB) = [s \in DOMAIN b |-> Look(snapB)[s]]
  BY DEF Look
<1> HIDE DEF a, b
<1>6. ASSUME \A s \in Section : ~SectionDiffers(s) PROVE Look(snapA) = Look(snapB)
  <2>1. DOMAIN a = DOMAIN b
    BY <1>1, <1>3, <1>6
  <2>2. \A s \in DOMAIN a : Look(snapA)[s] = Look(snapB)[s]
    BY <1>1, <1>2, <1>6, <2>1
  <2>3. QED
    BY <1>5, <2>1, <2>2
<1>7. ASSUME Look(snapA) = Look(snapB), NEW s \in Section PROVE ~SectionDiffers(s)
  <2>1. DOMAIN a = DOMAIN b
    BY <1>4, <1>7
  <2>2. QED
    BY <1>2, <1>3, <1>7, <2>1
<1>8. QED
  BY <1>6, <1>7

\* The invariant gives the promise.
LEMMA DiffInvHonest == DiffInv => DiffHonest
<1> SUFFICES ASSUME DiffInv, diffAt = "done", exitCode # 2
             PROVE  DiffHonest
  BY DEF DiffHonest
<1>1. /\ DiffTypeOK /\ IsSnapshot(snapA) /\ IsSnapshot(snapB)
      /\ exitCode = IF Differs THEN 1 ELSE 0
      /\ changes = 0 => Taken(snapA) /\ Taken(snapB)
  BY DEF DiffInv
<1>2. exitCode = 0 <=> /\ \A s \in Section : ~SectionDiffers(s)
                       /\ Shown(snapA.uptime) = Shown(snapB.uptime)
  BY <1>1 DEF Differs, SameScalar
<1>3. ASSUME UniqueKeys(snapA), UniqueKeys(snapB)
      PROVE  exitCode = 0 <=> /\ Look(snapA) = Look(snapB)
                              /\ Shown(snapA.uptime) = Shown(snapB.uptime)
  BY <1>1, <1>2, <1>3, SectionsSame
<1>4. ASSUME changes = 0, Shown(snapA.uptime) = Shown(snapB.uptime),
             DOMAIN snapA.sections = DOMAIN snapB.sections,
             \A p, q \in DOMAIN processes : processes[p] = processes[q] => p = q
      PROVE  exitCode = 0
  <2>1. snapA.sections = snapB.sections
    BY <1>1, <1>4, TakenSame
  <2>2. \A x : DiffFields(x, x) = {}
    BY FieldsSame
  <2>3. \A x : DiffArraySection(x, x) = {}
    BY <2>2 DEF DiffArraySection
  <2>4. \A s \in Section : ~SectionDiffers(s)
    BY <2>1, <2>2, <2>3 DEF SectionDiffers
  <2>5. QED
    BY <1>2, <1>4, <2>4
<1>5. QED
  BY <1>3, <1>4 DEF DiffHonest

-----------------------------------------------------------------------------
(* The PID file.                                                           *)

\* Between the check that found no other instance and the end.
Engaged == Starting \cup {"running", "stopping"}

\* At most one start is engaged.
OneEngaged ==
  \A s, o \in Starter : startAt[s] \in Engaged /\ startAt[o] \in Engaged => s = o

\* The file names nobody who has not written to it.
NamesWriter ==
  \A s \in Starter : startAt[s] \in {"new", "checked", "forked", "opened"} => pidFile # s

\* An open stream is still that of the file of this name.
StreamLinked == \A s \in Starter : startAt[s] = "opened" => s \in linked

\* What was written stays there.
WrittenStays ==
  \A s \in Starter : startAt[s] \in {"written", "running", "stopping"} => pidFile = s

\* A name left behind is that of a daemon that was killed.
LeftBehind == \A s \in Starter : pidFile = s /\ startAt[s] = "gone" => s \in killed

DaemonInv ==
  /\ DaemonTypeOK
  /\ NamesWriter
  /\ ~overlap => OneEngaged /\ StreamLinked /\ WrittenStays /\ LeftBehind

-----------------------------------------------------------------------------
\* Initially nothing has started and there is no file.
LEMMA DaemonInvInit == DaemonInit => DaemonInv
BY PidAssumption
DEF DaemonInit, DaemonInv, DaemonTypeOK, Step, NamesWriter, OneEngaged, Engaged, Starting,
    StreamLinked, WrittenStays, LeftBehind, Absent, Empty

\* One step of one start keeps every variable in its range.
LEMMA DaemonStepTyped ==
  ASSUME DaemonTypeOK, [DaemonNext]_daemonVars
  PROVE  DaemonTypeOK'
<1> USE DEF DaemonTypeOK, Step, StartAt
<1>1. ASSUME NEW s \in Starter, Check(s)
      PROVE  DaemonTypeOK'
  BY <1>1 DEF Check
<1>2. ASSUME NEW s \in Starter, Daemonize(s)
      PROVE  DaemonTypeOK'
  BY <1>2 DEF Daemonize
<1>3. ASSUME NEW s \in Starter, OpenPidFile(s)
      PROVE  DaemonTypeOK'
  BY <1>3 DEF OpenPidFile
<1>4. ASSUME NEW s \in Starter, OpenPidFails(s)
      PROVE  DaemonTypeOK'
  BY <1>4 DEF OpenPidFails
<1>5. ASSUME NEW s \in Starter, WritePidFile(s)
      PROVE  DaemonTypeOK'
  BY <1>5 DEF WritePidFile
<1>6. ASSUME NEW s \in Starter, InstallHandlers(s)
      PROVE  DaemonTypeOK'
  BY <1>6 DEF InstallHandlers
<1>7. ASSUME NEW s \in Starter, Terminate(s)
      PROVE  DaemonTypeOK'
  BY <1>7 DEF Terminate
<1>8. ASSUME NEW s \in Starter, RemovePidFile(s)
      PROVE  DaemonTypeOK'
  BY <1>8 DEF RemovePidFile
<1>9. ASSUME NEW s \in Starter, TailReturns(s)
      PROVE  DaemonTypeOK'
  BY <1>9 DEF TailReturns
<1>10. ASSUME NEW s \in Starter, Kill(s)
      PROVE  DaemonTypeOK'
  BY <1>10 DEF Kill, Alive
<1>11. ASSUME NEW s \in Starter, ReusePid(s)
      PROVE  DaemonTypeOK'
  BY <1>11 DEF ReusePid
<1>12. CASE UNCHANGED daemonVars
  BY <1>12 DEF daemonVars
<1> QED
  BY <1>1, <1>2, <1>3, <1>4, <1>5, <1>6, <1>7, <1>8, <1>9, <1>10, <1>11, <1>12 DEF DaemonNext, DaemonRest

\* The steps from a check to the end keep the promise.  A check that finds no
\* instance while another start is engaged sets overlap: the other is on its
\* way, or the file names it and it exists.
LEMMA DaemonStepInv ==
  ASSUME DaemonInv, [DaemonNext]_daemonVars
  PROVE  DaemonInv'
<1>0. DaemonTypeOK /\ DaemonTypeOK'
  BY DaemonStepTyped DEF DaemonInv
<1> DEFINE Parts == OneEngaged /\ StreamLinked /\ WrittenStays /\ LeftBehind
<1> SUFFICES NamesWriter' /\ (~overlap' => Parts')
  BY <1>0 DEF DaemonInv
<1> USE DEF DaemonTypeOK, DaemonInv, StartAt, NamesWriter, OneEngaged, StreamLinked,
            WrittenStays, LeftBehind, Engaged, Starting
<1>1. ASSUME NEW s \in Starter, Check(s)
      PROVE  NamesWriter' /\ (~overlap' => Parts')
  <2>1. PICK answer \in BOOLEAN :
          AlreadyRunning(answer) /\ StartAt(s, "new", IF answer THEN "gone" ELSE "checked")
    BY <1>1 DEF Check
  <2>2. /\ pidFile' = pidFile /\ linked' = linked /\ killed' = killed
        /\ startAt[s] = "new" /\ pidFile # s
    BY <1>1, <2>1 DEF Check
  <2>3. NamesWriter'
    BY <1>0, <2>1, <2>2
  <2>4. ASSUME ~overlap'
        PROVE  Parts'
    <3>1. ~overlap /\ \A o \in Starter : startAt[o] \notin Starting
      BY <1>1, <2>4 DEF Check
    <3>2. ASSUME NEW o \in Starter, startAt[o] \in Engaged
          PROVE  answer
      <4>1. startAt[o] \in {"running", "stopping"} /\ pidFile = o
        BY <3>1, <3>2
      <4>2. answer = Exists(o)
        BY <2>1, <4>1, PidAssumption DEF AlreadyRunning
      <4> QED
        BY <4>1, <4>2 DEF Exists, Alive
    <3> QED
      BY <1>0, <2>1, <2>2, <3>1, <3>2
  <2> QED
    BY <2>3, <2>4
<1>2. ASSUME NEW s \in Starter, Daemonize(s)
      PROVE  NamesWriter' /\ (~overlap' => Parts')
  BY <1>0, <1>2 DEF Daemonize
<1>3. ASSUME NEW s \in Starter, OpenPidFile(s)
      PROVE  NamesWriter' /\ (~overlap' => Parts')
  BY <1>0, <1>3, PidAssumption DEF OpenPidFile
<1>4. ASSUME NEW s \in Starter, OpenPidFails(s)
      PROVE  NamesWriter' /\ (~overlap' => Parts')
  BY <1>0, <1>4 DEF OpenPidFails
<1>5. ASSUME NEW s \in Starter, WritePidFile(s)
      PROVE  NamesWriter' /\ (~overlap' => Parts')
  BY <1>0, <1>5 DEF WritePidFile
<1>6. ASSUME NEW s \in Starter, InstallHandlers(s)
      PROVE  NamesWriter' /\ (~overlap' => Parts')
  BY <1>0, <1>6 DEF InstallHandlers
<1>7. ASSUME NEW s \in Starter, Terminate(s)
      PROVE  NamesWriter' /\ (~overlap' => Parts')
  BY <1>0, <1>7 DEF Terminate
<1>8. ASSUME NEW s \in Starter, RemovePidFile(s)
      PROVE  NamesWriter' /\ (~overlap' => Parts')
  BY <1>0, <1>8, PidAssumption DEF RemovePidFile
<1>9. ASSUME NEW s \in Starter, TailReturns(s)
      PROVE  NamesWriter' /\ (~overlap' => Parts')
  BY <1>0, <1>9 DEF TailReturns
<1>10. ASSUME NEW s \in Starter, Kill(s)
      PROVE  NamesWriter' /\ (~overlap' => Parts')
  BY <1>0, <1>10 DEF Kill, Alive
<1>11. ASSUME NEW s \in Starter, ReusePid(s)
      PROVE  NamesWriter' /\ (~overlap' => Parts')
  BY <1>0, <1>11 DEF ReusePid
<1>12. CASE UNCHANGED daemonVars
  BY <1>12 DEF daemonVars
<1> HIDE DEF Parts, NamesWriter
<1> QED
  BY <1>1, <1>2, <1>3, <1>4, <1>5, <1>6, <1>7, <1>8, <1>9, <1>10, <1>11, <1>12 DEF DaemonNext, DaemonRest

-----------------------------------------------------------------------------
(* The updater.                                                            *)

\* Two digits to base b are compared as the numbers they stand for.
Num(b, p, x) == p * b + x

\* A digit behind a number gives a number.
LEMMA NumType ==
  ASSUME NEW b \in Nat, NEW p \in Nat, NEW x \in 0..b - 1
  PROVE  Num(b, p, x) \in Nat
<1>1. p * b \in Nat
  OBVIOUS
<1>2. QED
  BY <1>1 DEF Num

\* The greater number in front decides.
LEMMA HighDigit ==
  ASSUME NEW b \in Nat, NEW p \in Nat, NEW q \in Nat, NEW x \in 0..b - 1, NEW y \in 0..b - 1,
         p > q
  PROVE  Num(b, p, x) > Num(b, q, y)
<1>1. PICK d \in Nat : p = q + 1 + d
  <2>1. p - q - 1 \in Nat /\ p = q + 1 + (p - q - 1)
    OBVIOUS
  <2>2. QED
    BY <2>1
<1>2. p * b = q * b + b + d * b
  BY <1>1
<1>3. d * b \in Nat /\ q * b \in Nat
  OBVIOUS
<1>4. QED
  BY <1>2, <1>3 DEF Num

\* With the same in front the digit decides.
LEMMA LowDigit ==
  ASSUME NEW b \in Nat, NEW p \in Nat, NEW x \in 0..b - 1, NEW y \in 0..b - 1, x > y
  PROVE  Num(b, p, x) > Num(b, p, y)
<1>1. p * b \in Nat
  OBVIOUS
<1>2. QED
  BY <1>1 DEF Num

\* Three digits, the first that differs decides.
Decides(p1, p2, p3, q1, q2, q3) ==
  p1 > q1 \/ (p1 = q1 /\ p2 > q2) \/ (p1 = q1 /\ p2 = q2 /\ p3 > q3)

\* The first of three digits that differs decides.
LEMMA ThreeDigits ==
  ASSUME NEW b \in Nat, NEW p1 \in 0..b - 1, NEW p2 \in 0..b - 1, NEW p3 \in 0..b - 1,
         NEW q1 \in 0..b - 1, NEW q2 \in 0..b - 1, NEW q3 \in 0..b - 1,
         Decides(p1, p2, p3, q1, q2, q3)
  PROVE  Num(b, Num(b, p1, p2), p3) > Num(b, Num(b, q1, q2), q3)
<1>1. p1 \in Nat /\ q1 \in Nat
  OBVIOUS
<1>2. Num(b, p1, p2) \in Nat /\ Num(b, q1, q2) \in Nat
  BY <1>1, NumType
<1>3. CASE p1 > q1
  <2>1. Num(b, p1, p2) > Num(b, q1, q2)
    BY <1>1, <1>3, HighDigit
  <2>2. QED
    BY <1>2, <2>1, HighDigit
<1>4. CASE p1 = q1 /\ p2 > q2
  <2>1. Num(b, p1, p2) > Num(b, q1, q2)
    BY <1>1, <1>4, LowDigit
  <2>2. QED
    BY <1>2, <2>1, HighDigit
<1>5. CASE p1 = q1 /\ p2 = q2 /\ p3 > q3
  BY <1>2, <1>5, LowDigit
<1>6. QED
  BY <1>3, <1>4, <1>5 DEF Decides

\* A part of a version is a digit; there are three at most.
LEMMA PartType ==
  ASSUME NEW v \in Versions, NEW i \in Nat
  PROVE  /\ Part(v, i) \in 0..PartBound - 1
         /\ i \notin 1..3 => i \notin DOMAIN v
<1>1. PICK n \in 0..3 : v \in [1..n -> -1..PartBound - 1]
  BY UpdaterAssumption
<1>2. QED
  BY <1>1, UpdaterAssumption DEF Part, Stoi

\* Newer looks for the first part that differs ...
LEMMA NewerDecides ==
  ASSUME NEW v \in Versions, NEW w \in Versions
  PROVE  Newer(v, w) <=> Decides(Part(v, 1), Part(v, 2), Part(v, 3),
                                 Part(w, 1), Part(w, 2), Part(w, 3))
<1> DEFINE p(i) == Part(v, i)
           q(i) == Part(w, i)
<1>1. \A i \in Nat : p(i) \in 0..PartBound - 1 /\ q(i) \in 0..PartBound - 1
  BY PartType
<1>2. \A i \in Nat : i \notin DOMAIN v => p(i) = 0
  BY DEF Part
<1>3. \A i \in DOMAIN v : i \in 1..3
  <2>1. PICK n \in 0..3 : v \in [1..n -> -1..PartBound - 1]
    BY UpdaterAssumption
  <2>2. QED
    BY <2>1
<1>4. Newer(v, w) <=> \E i \in DOMAIN v : p(i) > q(i) /\ \A j \in 1..i - 1 : p(j) = q(j)
  BY DEF Newer
<1> HIDE DEF p, q
<1>5. ASSUME NEW i \in 1..3, p(i) > q(i), \A j \in 1..i - 1 : p(j) = q(j)
      PROVE  Newer(v, w)
  <2>1. i \in DOMAIN v
    BY <1>1, <1>2, <1>5
  <2>2. QED
    BY <1>4, <1>5, <2>1
<1>6. ASSUME p(1) > q(1) PROVE Newer(v, w)
  BY <1>5, <1>6
<1>7. ASSUME p(1) = q(1), p(2) > q(2) PROVE Newer(v, w)
  BY <1>5, <1>7
<1>8. ASSUME p(1) = q(1), p(2) = q(2), p(3) > q(3) PROVE Newer(v, w)
  BY <1>5, <1>8
<1>9. ASSUME Newer(v, w) PROVE Decides(p(1), p(2), p(3), q(1), q(2), q(3))
  <2>1. PICK i \in 1..3 : p(i) > q(i) /\ \A j \in 1..i - 1 : p(j) = q(j)
    BY <1>3, <1>4, <1>9
  <2>2. i = 1 \/ i = 2 \/ i = 3
    OBVIOUS
  <2>3. QED
    BY <2>1, <2>2 DEF Decides
<1>10. QED
  BY <1>6, <1>7, <1>8, <1>9 DEF p, q, Decides

\* ... and so do the numbers the versions stand for.
LEMMA NewerIsGreater ==
  ASSUME NEW v \in Versions, NEW w \in Versions
  PROVE  Newer(v, w) <=> Value(v) > Value(w)
<1> DEFINE b == PartBound
           p1 == Part(v, 1)
           p2 == Part(v, 2)
           p3 == Part(v, 3)
           q1 == Part(w, 1)
           q2 == Part(w, 2)
           q3 == Part(w, 3)
           m == Num(b, Num(b, p1, p2), p3)
           n == Num(b, Num(b, q1, q2), q3)
<1>1. Value(v) = m /\ Value(w) = n
  BY DEF Value, Num
<1>2. Newer(v, w) <=> Decides(p1, p2, p3, q1, q2, q3)
  BY NewerDecides
<1>3. b \in Nat
  BY UpdaterAssumption
<1>4. p1 \in 0..b - 1 /\ p2 \in 0..b - 1 /\ p3 \in 0..b - 1
  BY PartType
<1>5. q1 \in 0..b - 1 /\ q2 \in 0..b - 1 /\ q3 \in 0..b - 1
  BY PartType
<1> HIDE DEF b, p1, p2, p3, q1, q2, q3
<1>6. p1 \in Nat /\ q1 \in Nat
  BY <1>3, <1>4, <1>5
<1>7. Num(b, p1, p2) \in Nat /\ Num(b, q1, q2) \in Nat
  BY <1>3, <1>4, <1>5, <1>6, NumType
<1>8. m \in Nat /\ n \in Nat
  BY <1>3, <1>4, <1>5, <1>7, NumType
<1>9. Decides(p1, p2, p3, q1, q2, q3) => m > n
  BY <1>3, <1>4, <1>5, ThreeDigits
<1>10. Decides(q1, q2, q3, p1, p2, p3) => n > m
  BY <1>3, <1>4, <1>5, ThreeDigits
<1>11. p1 = q1 /\ p2 = q2 /\ p3 = q3 => m = n
  OBVIOUS
<1> HIDE DEF m, n
<1>12. \/ Decides(p1, p2, p3, q1, q2, q3) \/ Decides(q1, q2, q3, p1, p2, p3)
       \/ (p1 = q1 /\ p2 = q2 /\ p3 = q3)
  BY <1>3, <1>4, <1>5 DEF Decides
<1>13. m > n <=> Decides(p1, p2, p3, q1, q2, q3)
  BY <1>8, <1>9, <1>10, <1>11, <1>12
<1>14. QED
  BY <1>1, <1>2, <1>13, Zenon

\* What was learnt is what is offered.
Offer == latest # <<>> => (available <=> Value(latest) > Value(current))

\* Polls are left as long as there is one to come, there is a child from the
\* fork on, the user is told something only at the end, and by then the child
\* has ended.
Outcome ==
  /\ updAt \in {"releases", "tags", "prompt", "fork", "poll"} => polls < MaxPolls
  /\ updAt \in {"poll", "kill", "wait"} => child # "none"
  /\ updAt # "done" => message = "none"
  /\ message = "updated" => child = "ok" \/ childIgnored = TRUE
  /\ message = "failed" => child = "bad"

UpdInv == UpdTypeOK /\ Offer /\ Outcome

\* Initially nothing is known of a latest version.
LEMMA UpdInvInit == UpdInit => UpdInv
<1> SUFFICES ASSUME UpdInit PROVE UpdInv
  OBVIOUS
<1>1. UpdTypeOK
  <2>1. MaxPolls \in Nat
    BY UpdaterAssumption
  <2>2. polls \in 0..MaxPolls
    BY <2>1 DEF UpdInit
  <2>3. QED
    BY <2>2, Zenon DEF UpdInit, UpdTypeOK
<1>2. Offer /\ Outcome
  BY UpdaterAssumption DEF UpdInit, Offer, Outcome
<1>3. QED
  BY <1>1, <1>2 DEF UpdInv

\* The offer stays as it is while the versions do.
LEMMA OfferKept == Offer /\ UNCHANGED <<current, latest, available>> => Offer'
BY DEF Offer

\* A tag learned is compared with the current version.
LEMMA UpdLearns ==
  ASSUME UpdInv, NEW tag \in Versions, updAt \in {"releases", "tags"}, Learn(tag),
         UNCHANGED <<current, childVars, message>>
  PROVE  UpdInv'
<1>1. current' = current /\ current \in Versions /\ UNCHANGED <<childVars, message>>
  BY DEF UpdInv, UpdTypeOK
<1>2. latest' = tag /\ available' = Newer(tag, current)
  BY DEF Learn
<1>3. available' <=> Value(latest') > Value(current')
  BY <1>1, <1>2, NewerIsGreater
<1>4. available' \in BOOLEAN
  BY <1>2 DEF Newer
<1>5. updAt' \in {"prompt", "done"}
  BY DEF Learn
<1>6. UpdTypeOK'
  BY <1>1, <1>2, <1>4, <1>5 DEF UpdInv, UpdTypeOK, childVars
<1>7. Offer'
  BY <1>3 DEF Offer
<1>8. Outcome'
  BY <1>1, <1>5 DEF UpdInv, Outcome, childVars
<1>9. QED
  BY <1>6, <1>7, <1>8 DEF UpdInv

\* Every step of the update check and of the child keeps the invariant.
LEMMA UpdInvStep ==
  ASSUME UpdInv, [UpdNext]_updVars
  PROVE  UpdInv'
<1>0. UpdTypeOK /\ Offer /\ Outcome
  BY DEF UpdInv
<1>1. CASE \E tag \in Versions : /\ updAt \in {"releases", "tags"} /\ Learn(tag)
                               /\ UNCHANGED <<current, childVars, message>>
  BY <1>1, UpdLearns
<1>2. CASE /\ \/ updAt = "releases" /\ updAt' = "tags"
              \/ updAt = "tags" /\ updAt' = "done"
           /\ UNCHANGED <<latest, available, current, childVars, message>>
  <2>1. UpdTypeOK' /\ Outcome'
    BY <1>0, <1>2 DEF UpdTypeOK, Outcome, childVars
  <2>2. QED
    BY <1>0, <1>2, <2>1, OfferKept DEF UpdInv
<1>3. CASE Answer
  <2>1. UpdTypeOK' /\ Outcome' /\ UNCHANGED <<current, latest, available>>
    BY <1>0, <1>3 DEF Answer, UpdTypeOK, Outcome, childVars
  <2>2. QED
    BY <1>0, <2>1, OfferKept DEF UpdInv
<1>4. CASE Fork
  <2>1. UpdTypeOK' /\ UNCHANGED <<current, latest, available>>
    BY <1>0, <1>4 DEF Fork, UpdTypeOK
  <2>2. Outcome'
    <3>1. polls' = polls /\ polls < MaxPolls /\ childIgnored' = childIgnored
      BY <1>0, <1>4 DEF Fork, Outcome
    <3>2. \/ child' = "running" /\ updAt' = "poll" /\ message' = message
          \/ updAt' = "done" /\ message' = "no child" /\ child' = child
      BY <1>4 DEF Fork
    <3>3. message = "none"
      BY <1>0, <1>4 DEF Fork, Outcome
    <3>4. QED
      BY <3>1, <3>2, <3>3 DEF Outcome
  <2>3. QED
    BY <1>0, <2>1, <2>2, OfferKept DEF UpdInv
<1>5. CASE Poll
  <2>1. UNCHANGED <<current, latest, available>>
    BY <1>5 DEF Poll
  <2>2. UpdTypeOK'
    <3>1. CASE child = "running"
      <4>1. MaxPolls \in Nat
        BY UpdaterAssumption
      <4>2. polls < MaxPolls
        BY <1>0, <1>5 DEF Poll, Outcome
      <4>3. QED
        <5>1. polls' \in 0..MaxPolls
          <6>1. polls' = polls + 1
            BY <1>5, <3>1 DEF Poll
          <6>2. polls \in 0..MaxPolls
            BY <1>0 DEF UpdTypeOK
          <6>3. QED
            BY <4>1, <4>2, <6>1, <6>2
        <5>2. updAt' \in {"kill", "poll"}
          BY <1>5, <3>1 DEF Poll
        <5>3. UNCHANGED <<current, latest, available, child, signalled, reaped, childIgnored, message>>
          BY <1>5, <3>1 DEF Poll
        <5>4. QED
          BY <1>0, <5>1, <5>2, <5>3 DEF UpdTypeOK
    <3>2. CASE child # "running"
      BY <1>0, <1>5, <3>2 DEF Poll, Reap, Tell, UpdTypeOK
    <3>3. QED
      BY <3>1, <3>2
  <2>3. Outcome'
    <3>1. CASE child = "running"
      <4>1. MaxPolls \in Nat /\ polls < MaxPolls /\ polls \in Nat
        <5>1. MaxPolls \in Nat
          BY UpdaterAssumption
        <5>2. updAt = "poll"
          BY <1>5 DEF Poll
        <5>3. polls \in 0..MaxPolls
          BY <1>0 DEF UpdTypeOK
        <5>4. QED
          BY <1>0, <5>1, <5>2, <5>3 DEF Outcome
      <4>2. updAt' = "poll" => polls' < MaxPolls
        BY <1>5, <3>1, <4>1 DEF Poll
      <4>3. updAt' \in {"kill", "poll"} /\ UNCHANGED <<child, childIgnored, message>>
        BY <1>5, <3>1 DEF Poll
      <4>4. message = "none"
        BY <1>0, <1>5 DEF Poll, Outcome
      <4>5. QED
        BY <3>1, <4>2, <4>3, <4>4 DEF Outcome
    <3>2. CASE child # "running"
      <4>1. child \in {"ok", "bad"} /\ child' = child /\ updAt' = "done"
        BY <1>0, <1>5, <3>2, Zenon DEF Poll, UpdTypeOK, Outcome
      <4>2. message' = "failed" => child = "bad"
        BY <1>5, <3>2, <4>1 DEF Poll, Tell
      <4>3. childIgnored' = childIgnored /\ childIgnored \in BOOLEAN
        BY <1>0, <1>5 DEF Poll, UpdTypeOK
      <4>4. reaped' = "error" => childIgnored = TRUE
        BY <1>5, <3>2, <4>3, Zenon DEF Poll, Reap
      <4>5. message' = "updated" => child = "ok" \/ childIgnored = TRUE
        BY <1>5, <3>2, <4>4, Zenon DEF Poll, Tell
      <4>6. QED
        BY <4>1, <4>2, <4>3, <4>5 DEF Outcome
    <3>3. QED
      BY <3>1, <3>2
  <2>4. QED
    BY <1>0, <2>1, <2>2, <2>3, OfferKept DEF UpdInv
<1>6. CASE Terminated
  <2>1. UpdTypeOK' /\ Outcome' /\ UNCHANGED <<current, latest, available>>
    BY <1>0, <1>6 DEF Terminated, UpdTypeOK, Outcome
  <2>2. QED
    BY <1>0, <2>1, OfferKept DEF UpdInv
<1>7. CASE WaitForChild
  <2>1. UpdTypeOK' /\ Outcome' /\ UNCHANGED <<current, latest, available>>
    BY <1>0, <1>7 DEF WaitForChild, Reap, UpdTypeOK, Outcome
  <2>2. QED
    BY <1>0, <2>1, OfferKept DEF UpdInv
<1>8. CASE ChildEnds
  <2>1. UpdTypeOK' /\ Outcome' /\ UNCHANGED <<current, latest, available>>
    BY <1>0, <1>8 DEF ChildEnds, UpdTypeOK, Outcome
  <2>2. QED
    BY <1>0, <2>1, OfferKept DEF UpdInv
<1>9. CASE UNCHANGED updVars
  <2>1. UpdTypeOK' /\ Outcome' /\ UNCHANGED <<current, latest, available>>
    <3>1. /\ UNCHANGED <<updAt, current, latest, available, polls>>
          /\ UNCHANGED <<child, signalled, reaped, childIgnored, message>>
      BY <1>9 DEF updVars
    <3>2. UpdTypeOK'
      <4>1. /\ updAt' = updAt /\ current' = current /\ latest' = latest /\ available' = available
            /\ polls' = polls /\ child' = child /\ signalled' = signalled /\ reaped' = reaped
            /\ childIgnored' = childIgnored /\ message' = message
        BY <3>1
      <4>2. /\ updAt' \in {"releases", "tags", "prompt", "fork", "poll", "kill", "wait", "done"}
            /\ current' \in Versions /\ latest' \in Versions \cup {<<>>}
            /\ polls' \in 0..MaxPolls
        BY <1>0, <4>1 DEF UpdTypeOK
      <4>3. /\ child' \in {"none", "running", "ok", "bad"}
            /\ reaped' \in {"nothing", "status", "error"}
            /\ message' \in {"none", "updated", "failed", "timeout", "no child"}
        BY <1>0, <4>1 DEF UpdTypeOK
      <4>4. available' \in BOOLEAN /\ signalled' \in BOOLEAN /\ childIgnored' \in BOOLEAN
        BY <1>0, <4>1 DEF UpdTypeOK
      <4>5. QED
        BY <4>2, <4>3, <4>4 DEF UpdTypeOK
    <3>3. Outcome'
      BY <1>0, <3>1 DEF Outcome
    <3>4. QED
      BY <3>1, <3>2, <3>3
  <2>2. QED
    BY <1>0, <2>1, OfferKept DEF UpdInv
<1>10. QED
  BY <1>1, <1>2, <1>3, <1>4, <1>5, <1>6, <1>7, <1>8, <1>9
  DEF UpdNext, UpdRest, AskReleases, AskTags

-----------------------------------------------------------------------------
(* A session: the monitors' threads on their way through route_event.      *)

Place == {"idle", "type", "locked", "recent", "copy", "notify", "stuck", "exited"}
Busy == {"type", "locked", "recent", "copy", "notify"}

\* A busy thread routes its monitor's latest event.
Routing(at, ev, n, p) ==
  at \in Busy => ev = [mon |-> p, seq |-> n] /\ ev \in EventId /\ n >= 1

RouteInv ==
  /\ minute \in Minute
  /\ threadAt \in [Poller -> Place]
  /\ emits \in [Poller -> Nat]
  /\ event \in [Poller -> EventId \union {NoEvent}]
  /\ stamped \in [Poller -> Nat]
  /\ \A p \in Poller : /\ Routing(threadAt[p], event[p], emits[p], p)
                       /\ threadAt[p] \in {"type", "locked"} => stamped[p] \in 1..minute

\* What leaves the threads and the statistics alone.
ThreadsRest == UNCHANGED <<statsVars, threadAt, routed>>

\* Main's own steps leave the monitors' threads alone.
LEMMA MainRests == SesMain \/ SesTerm \/ UNCHANGED sesVars => ThreadsRest
<1>1. ASSUME NEW from, NEW to, Main(from, to), UNCHANGED statsVars PROVE ThreadsRest
  BY <1>1 DEF Main, ThreadsRest
<1>2. SesMain => ThreadsRest
  BY <1>1 DEF SesMain, BeginPlain, BeginTail, PrintRecent, Register, LeaveLoop, DestroyEngine,
              SesExit
<1>3. SesTerm => ThreadsRest
  BY DEF SesTerm, ThreadsRest
<1>4. UNCHANGED sesVars => ThreadsRest
  BY DEF sesVars, ThreadsRest
<1>5. QED
  BY <1>2, <1>3, <1>4

\* The steps of one thread, and what others do meanwhile.
LEMMA StepOfSession ==
  ASSUME [SesNext]_sesVars
  PROVE  \/ \E p \in Poller : \/ Emit(p) \/ RouteType(p) \/ RouteLocked(p) \/ RouteRecent(p)
                              \/ RouteCopy(p) \/ RouteNotify(p) \/ PollerExit(p)
                              \/ TornCrash(p) \/ NotifyStuck(p)
         \/ SesMain \/ SesTerm \/ UNCHANGED sesVars
         \/ Clock
BY DEF SesNext, Route, SesRest

\* The parts of an event.
LEMMA EventFields ==
  ASSUME NEW e \in EventId
  PROVE  e.mon \in Poller /\ e.seq \in Nat /\ e.seq >= 1 /\ TypeOf(e) \in EventType
BY StatisticsAssumption DEF EventId, EventType

\* A monitor's next event is an event.
LEMMA NewEvent ==
  ASSUME NEW p \in Poller, NEW n \in Nat, n < Len(Kinds[p])
  PROVE  [mon |-> p, seq |-> n + 1] \in EventId
<1>1. n + 1 \in DOMAIN Kinds[p]
  BY StatisticsAssumption
<1>2. QED
  BY <1>1 DEF EventId

\* Initially every thread is idle.
LEMMA RouteInit ==
  ASSUME NEW modes, SesInitIn(modes)
  PROVE  RouteInv
BY DEF SesInitIn, StatsInit, RouteInv, Place, Busy, Routing

\* A thread that goes on with its event, or ends.
LEMMA GoesOn ==
  ASSUME RouteInv, NEW p \in Poller, NEW to \in Place, GoTo(p, to),
         UNCHANGED <<minute, event, stamped, emits>>,
         to \in Busy => threadAt[p] \in Busy,
         to \in {"type", "locked"} => threadAt[p] \in {"type", "locked"}
  PROVE  RouteInv'
<1>1. threadAt' \in [Poller -> Place]
  BY DEF GoTo, RouteInv
<1>2. threadAt'[p] = to /\ \A q \in Poller : q # p => threadAt'[q] = threadAt[q]
  BY DEF GoTo, RouteInv
<1>3. \A q \in Poller : /\ Routing(threadAt'[q], event[q], emits[q], q)
                        /\ threadAt'[q] \in {"type", "locked"} => stamped[q] \in 1..minute
  BY <1>2 DEF RouteInv, Routing
<1>4. QED
  BY <1>1, <1>3 DEF RouteInv

\* Every step keeps a busy thread at its monitor's latest event.
LEMMA RouteStep ==
  ASSUME RouteInv, [SesNext]_sesVars
  PROVE  RouteInv'
<1>1. ASSUME NEW p \in Poller, Emit(p) PROVE RouteInv'
  <2> DEFINE e == [mon |-> p, seq |-> emits[p] + 1]
  <2>1. /\ emits[p] \in Nat /\ emits[p] < Len(Kinds[p]) /\ minute \in Minute
        /\ event' = [event EXCEPT ![p] = e] /\ stamped' = [stamped EXCEPT ![p] = minute]
        /\ emits' = [emits EXCEPT ![p] = @ + 1] /\ threadAt' = [threadAt EXCEPT ![p] = "type"]
        /\ minute' = minute
    BY <1>1 DEF Emit, RouteInv, GoTo, RecordBegin
  <2>2. e \in EventId
    BY <2>1, NewEvent
  <2> HIDE DEF e
  <2>3. minute \in Nat /\ minute >= 1
    BY <2>1, StatisticsAssumption DEF Minute
  <2>4. /\ threadAt' \in [Poller -> Place] /\ emits' \in [Poller -> Nat]
        /\ event' \in [Poller -> EventId \union {NoEvent}] /\ stamped' \in [Poller -> Nat]
    BY <2>1, <2>2, <2>3 DEF RouteInv, Place
  <2>5. /\ threadAt'[p] = "type" /\ emits'[p] = emits[p] + 1 /\ event'[p] = e
        /\ stamped'[p] = minute
    BY <2>1 DEF RouteInv
  <2>6. \A q \in Poller : q # p => /\ threadAt'[q] = threadAt[q] /\ emits'[q] = emits[q]
                                   /\ event'[q] = event[q] /\ stamped'[q] = stamped[q]
    BY <2>1 DEF RouteInv
  <2>7. Routing(threadAt'[p], event'[p], emits'[p], p) /\ stamped'[p] \in 1..minute
    BY <2>1, <2>2, <2>3, <2>5 DEF Routing, e
  <2>8. \A q \in Poller : /\ Routing(threadAt'[q], event'[q], emits'[q], q)
                          /\ threadAt'[q] \in {"type", "locked"} => stamped'[q] \in 1..minute
    BY <2>6, <2>7 DEF RouteInv
  <2>9. QED
    BY <2>1, <2>4, <2>8 DEF RouteInv
<1>2. ASSUME NEW p \in Poller, RouteType(p) PROVE RouteInv'
  <2>1. /\ GoTo(p, "locked") /\ threadAt[p] = "type"
        /\ UNCHANGED <<minute, event, stamped, emits>>
    BY <1>2 DEF RouteType, RecordType, At, routed
  <2>2. QED
    BY <2>1, GoesOn DEF Place, Busy
<1>3. ASSUME NEW p \in Poller, RouteLocked(p) PROVE RouteInv'
  <2>1. /\ threadAt[p] = "locked" /\ stamped' = [stamped EXCEPT ![p] = 0]
        /\ threadAt' = [threadAt EXCEPT ![p] = "recent"] /\ UNCHANGED <<minute, event, emits>>
    BY <1>3 DEF RouteLocked, RecordLocked, At, GoTo
  <2>2. threadAt' \in [Poller -> Place] /\ stamped' \in [Poller -> Nat]
    BY <2>1 DEF RouteInv, Place
  <2>3. /\ threadAt'[p] = "recent"
        /\ \A q \in Poller : q # p => threadAt'[q] = threadAt[q] /\ stamped'[q] = stamped[q]
    BY <2>1 DEF RouteInv
  <2>4. \A q \in Poller : /\ Routing(threadAt'[q], event[q], emits[q], q)
                          /\ threadAt'[q] \in {"type", "locked"} => stamped'[q] \in 1..minute
    BY <2>1, <2>3 DEF RouteInv, Routing, Busy
  <2>5. QED
    BY <2>1, <2>2, <2>4 DEF RouteInv
<1>4. ASSUME NEW p \in Poller, RouteRecent(p) PROVE RouteInv'
  <2>1. GoTo(p, "copy") /\ threadAt[p] = "recent" /\ UNCHANGED <<minute, event, stamped, emits>>
    BY <1>4 DEF RouteRecent, At, routed, statsVars
  <2>2. QED
    BY <2>1, GoesOn DEF Place, Busy
<1>5. ASSUME NEW p \in Poller, RouteCopy(p) PROVE RouteInv'
  <2>1. GoTo(p, "notify") /\ threadAt[p] = "copy" /\ UNCHANGED <<minute, event, stamped, emits>>
    BY <1>5 DEF RouteCopy, At, statsVars
  <2>2. QED
    BY <2>1, GoesOn DEF Place, Busy
<1>6. ASSUME NEW p \in Poller, RouteNotify(p) PROVE RouteInv'
  <2>1. /\ event' = [event EXCEPT ![p] = NoEvent] /\ threadAt' = [threadAt EXCEPT ![p] = "idle"]
        /\ UNCHANGED <<minute, stamped, emits>>
    BY <1>6 DEF RouteNotify, GoTo, statsVars
  <2>2. threadAt' \in [Poller -> Place] /\ event' \in [Poller -> EventId \union {NoEvent}]
    BY <2>1 DEF RouteInv, Place
  <2>3. /\ threadAt'[p] = "idle"
        /\ \A q \in Poller : q # p => threadAt'[q] = threadAt[q] /\ event'[q] = event[q]
    BY <2>1 DEF RouteInv
  <2>4. \A q \in Poller : /\ Routing(threadAt'[q], event'[q], emits[q], q)
                          /\ threadAt'[q] \in {"type", "locked"} => stamped[q] \in 1..minute
    BY <2>3 DEF RouteInv, Routing, Busy
  <2>5. QED
    BY <2>1, <2>2, <2>4 DEF RouteInv
<1>7. ASSUME NEW p \in Poller, PollerExit(p) PROVE RouteInv'
  <2>1. GoTo(p, "exited") /\ UNCHANGED <<minute, event, stamped, emits>>
    BY <1>7 DEF PollerExit, routed, statsVars
  <2>2. QED
    BY <2>1, GoesOn DEF Place, Busy
<1>8. ASSUME NEW p \in Poller, TornCrash(p) PROVE RouteInv'
  BY <1>8 DEF TornCrash, RouteInv, routed, statsVars
<1>9. ASSUME NEW p \in Poller, NotifyStuck(p) PROVE RouteInv'
  <2>1. GoTo(p, "stuck") /\ UNCHANGED <<minute, event, stamped, emits>>
    BY <1>9 DEF NotifyStuck, routed, statsVars
  <2>2. QED
    BY <2>1, GoesOn DEF Place, Busy
<1>10. CASE ThreadsRest
  BY <1>10 DEF ThreadsRest, RouteInv, routed, statsVars
<1>11. CASE Clock
  <2>1. UNCHANGED <<threadAt, event, stamped, emits>> /\ minute' = minute + 1 /\ minute < MaxMinute
    BY <1>11 DEF Clock, MinutePasses, routed
  <2>2. minute' \in Minute /\ \A k \in 1..minute : k \in 1..minute'
    BY <2>1, StatisticsAssumption DEF RouteInv, Minute
  <2>3. QED
    BY <2>1, <2>2 DEF RouteInv
<1>12. QED
  BY <1>1, <1>2, <1>3, <1>4, <1>5, <1>6, <1>7, <1>8, <1>9, <1>10, <1>11, StepOfSession, MainRests

-----------------------------------------------------------------------------
(* The statistics: each counter has counted just the events whose threads  *)
(* have passed it.                                                         *)

\* The number of each monitor's last event that has left the given steps behind.
Passed(em, at, steps) == [p \in Poller |-> IF at[p] \in steps THEN em[p] - 1 ELSE em[p]]
Upto(last) == {e \in EventId : e.seq <= last[e.mon]}
OfType(S, t) == {e \in S : TypeOf(e) = t}
OfSource(S, p) == {e \in S : e.mon = p}

Typed == Upto(Passed(emits, threadAt, {"type"}))
Sourced == Upto(Passed(emits, threadAt, {"type", "locked"}))

CountsInv ==
  /\ IsFiniteSet(Upto(emits))
  /\ total = Cardinality(Upto(emits))
  /\ typeCounts \in [EventType -> Nat]
  /\ sourceCounts \in [Poller -> Nat]
  /\ torn \in BOOLEAN
  /\ torn = FALSE => \A t \in EventType : typeCounts[t] = Cardinality(OfType(Typed, t))
  /\ \A p \in Poller : sourceCounts[p] = Cardinality(OfSource(Sourced, p))

\* How far each monitor is past some steps is a number.
LEMMA PassedType ==
  ASSUME RouteInv, NEW steps, steps \subseteq Busy
  PROVE  Passed(emits, threadAt, steps) \in [Poller -> Nat]
<1>1. \A p \in Poller : (IF threadAt[p] \in steps THEN emits[p] - 1 ELSE emits[p]) \in Nat
  BY DEF RouteInv, Routing
<1>2. QED
  BY <1>1 DEF Passed

\* Finitely many events have passed.
LEMMA PassedFinite ==
  ASSUME RouteInv, IsFiniteSet(Upto(emits)), NEW steps
  PROVE  IsFiniteSet(Upto(Passed(emits, threadAt, steps)))
<1>1. ASSUME NEW e \in Upto(Passed(emits, threadAt, steps)) PROVE e \in Upto(emits)
  <2>1. e \in EventId /\ e.mon \in Poller /\ e.seq \in Nat
    BY EventFields DEF Upto
  <2>2. e.seq <= IF threadAt[e.mon] \in steps THEN emits[e.mon] - 1 ELSE emits[e.mon]
    BY <2>1 DEF Upto, Passed
  <2>3. emits[e.mon] \in Nat
    BY <2>1 DEF RouteInv
  <2>4. QED
    BY <2>1, <2>2, <2>3 DEF Upto
<1>2. Upto(Passed(emits, threadAt, steps)) \subseteq Upto(emits)
  BY <1>1
<1>3. QED
  BY <1>2, FS_Subset

\* One monitor is one event further.
LEMMA OneFurther ==
  ASSUME NEW last \in [Poller -> Nat], NEW next, NEW p \in Poller, NEW e \in EventId,
         e = [mon |-> p, seq |-> last[p] + 1], next[p] = last[p] + 1,
         \A q \in Poller : q # p => next[q] = last[q]
  PROVE  Upto(next) = Upto(last) \union {e} /\ e \notin Upto(last)
<1>0. e.mon = p /\ e.seq = last[p] + 1 /\ last[p] \in Nat
  OBVIOUS
<1>1. e \notin Upto(last)
  BY <1>0 DEF Upto
<1>2. ASSUME NEW f \in EventId PROVE f \in Upto(next) <=> f \in Upto(last) \/ f = e
  <2>1. f.mon \in Poller /\ f.seq \in Nat
    BY EventFields
  <2>2. CASE f.mon # p
    BY <1>0, <2>1, <2>2 DEF Upto
  <2>3. CASE f.mon = p
    <3>1. f.seq = last[p] + 1 => f = e
      BY <2>3 DEF EventId
    <3>2. f.seq <= last[p] + 1 <=> f.seq <= last[p] \/ f.seq = last[p] + 1
      BY <1>0, <2>1
    <3>3. QED
      BY <1>0, <2>3, <3>1, <3>2 DEF Upto
  <2>4. QED
    BY <2>2, <2>3
<1>3. \A f : f \in Upto(next) <=> f \in Upto(last) \union {e}
  BY <1>2 DEF Upto
<1>4. QED
  BY <1>1, <1>3

\* An event more is one more of its type and none of another.
LEMMA OneMoreOfType ==
  ASSUME NEW S, NEW e, IsFiniteSet(S), e \notin S
  PROVE  /\ Cardinality(OfType(S \union {e}, TypeOf(e))) = Cardinality(OfType(S, TypeOf(e))) + 1
         /\ \A t : t # TypeOf(e) => OfType(S \union {e}, t) = OfType(S, t)
<1> DEFINE T == OfType(S, TypeOf(e))
<1>1. T \subseteq S
  BY DEF OfType
<1>2. IsFiniteSet(T) /\ e \notin T
  BY <1>1, FS_Subset
<1>3. OfType(S \union {e}, TypeOf(e)) = T \union {e}
  BY DEF OfType
<1> HIDE DEF T
<1>4. Cardinality(T \union {e}) = Cardinality(T) + 1
  BY <1>2, FS_AddElement
<1>5. \A t : t # TypeOf(e) => OfType(S \union {e}, t) = OfType(S, t)
  BY DEF OfType
<1>6. QED
  BY <1>3, <1>4, <1>5 DEF T

\* And one more of its monitor and none of another.
LEMMA OneMoreOfSource ==
  ASSUME NEW S, NEW e, IsFiniteSet(S), e \notin S
  PROVE  /\ Cardinality(OfSource(S \union {e}, e.mon)) = Cardinality(OfSource(S, e.mon)) + 1
         /\ \A p : p # e.mon => OfSource(S \union {e}, p) = OfSource(S, p)
<1> DEFINE T == OfSource(S, e.mon)
<1>1. T \subseteq S
  BY DEF OfSource
<1>2. IsFiniteSet(T) /\ e \notin T
  BY <1>1, FS_Subset
<1>3. OfSource(S \union {e}, e.mon) = T \union {e}
  BY DEF OfSource
<1> HIDE DEF T
<1>4. Cardinality(T \union {e}) = Cardinality(T) + 1
  BY <1>2, FS_AddElement
<1>5. \A p : p # e.mon => OfSource(S \union {e}, p) = OfSource(S, p)
  BY DEF OfSource
<1>6. QED
  BY <1>3, <1>4, <1>5 DEF T

\* Initially nothing is counted and nothing has passed.
LEMMA CountsInit ==
  ASSUME NEW modes, SesInitIn(modes)
  PROVE  CountsInv
<1>1. /\ emits = [p \in Poller |-> 0] /\ threadAt = [p \in Poller |-> "idle"] /\ total = 0
      /\ typeCounts = [t \in EventType |-> 0] /\ sourceCounts = [p \in Poller |-> 0] /\ torn = FALSE
  BY DEF SesInitIn, StatsInit
<1>2. ASSUME NEW e \in EventId PROVE ~(e.seq <= 0) /\ emits[e.mon] = 0
  BY <1>1, EventFields
<1>3. Upto(emits) = {}
  BY <1>2 DEF Upto
<1>4. \A p \in Poller : threadAt[p] \notin {"type", "locked"}
  BY <1>1
<1>5. Typed = Upto(emits) /\ Sourced = Upto(emits)
  BY <1>1, <1>4 DEF Typed, Sourced, Passed
<1>6. \A t : OfType(Typed, t) = {} /\ \A p : OfSource(Sourced, p) = {}
  BY <1>3, <1>5 DEF OfType, OfSource
<1>7. IsFiniteSet({}) /\ Cardinality({}) = 0
  BY FS_EmptySet
<1>8. QED
  BY <1>1, <1>3, <1>6, <1>7 DEF CountsInv

\* A step that neither emits nor passes a counter.
LEMMA CountsKept ==
  ASSUME RouteInv, CountsInv, UNCHANGED <<total, typeCounts, sourceCounts, torn, emits>>,
         \A p \in Poller : /\ threadAt'[p] \in {"type"} <=> threadAt[p] \in {"type"}
                           /\ threadAt'[p] \in {"type", "locked"} <=> threadAt[p] \in {"type", "locked"}
  PROVE  CountsInv'
<1>1. Typed' = Typed /\ Sourced' = Sourced
  BY DEF Typed, Sourced, Passed
<1>2. QED
  BY <1>1 DEF CountsInv

\* An emitted event counts in the total only.
LEMMA EmitCounts ==
  ASSUME RouteInv, CountsInv, NEW p \in Poller, Emit(p)
  PROVE  CountsInv'
<1> DEFINE e == [mon |-> p, seq |-> emits[p] + 1]
<1>1. /\ emits[p] \in Nat /\ emits[p] < Len(Kinds[p]) /\ threadAt[p] = "idle"
      /\ emits' = [emits EXCEPT ![p] = @ + 1] /\ threadAt' = [threadAt EXCEPT ![p] = "type"]
  BY DEF Emit, RouteInv, At, GoTo
<1>2. /\ total' = total + 1 /\ UNCHANGED <<typeCounts, sourceCounts>>
      /\ torn' = (torn \/ inserting # {} \/ (inserting' # {} /\ looking # {}))
  BY DEF Emit, RecordBegin
<1>3. e \in EventId
  BY <1>1, NewEvent
<1>4. emits \in [Poller -> Nat] /\ threadAt \in [Poller -> Place]
  BY DEF RouteInv
<1>5. /\ emits'[p] = emits[p] + 1 /\ \A q \in Poller : q # p => emits'[q] = emits[q]
      /\ threadAt'[p] = "type" /\ \A q \in Poller : q # p => threadAt'[q] = threadAt[q]
  BY <1>1, <1>4
<1>6. Upto(emits') = Upto(emits) \union {e} /\ e \notin Upto(emits)
  BY <1>3, <1>4, <1>5, OneFurther
<1>7. ASSUME NEW steps, "type" \in steps, "idle" \notin steps
      PROVE  Passed(emits', threadAt', steps) = Passed(emits, threadAt, steps)
  <2>1. ASSUME NEW q \in Poller
        PROVE  (IF threadAt'[q] \in steps THEN emits'[q] - 1 ELSE emits'[q])
                 = (IF threadAt[q] \in steps THEN emits[q] - 1 ELSE emits[q])
    BY <1>1, <1>5, <1>7
  <2>2. QED
    BY <2>1 DEF Passed
<1>8. Typed' = Typed /\ Sourced' = Sourced
  BY <1>7 DEF Typed, Sourced
<1>9. /\ IsFiniteSet(Upto(emits')) /\ total' = Cardinality(Upto(emits'))
  <2>1. IsFiniteSet(Upto(emits)) /\ total = Cardinality(Upto(emits))
    BY DEF CountsInv
  <2>2. QED
    BY <1>2, <1>6, <2>1, FS_AddElement
<1>10. torn' \in BOOLEAN /\ (torn' = FALSE => torn = FALSE)
  BY <1>2, Zenon DEF CountsInv
<1>11. QED
  BY <1>2, <1>8, <1>9, <1>10 DEF CountsInv

\* A thread that leaves some steps behind.
LEMMA PassesOn ==
  ASSUME RouteInv, NEW p \in Poller, NEW steps, steps \subseteq Busy, threadAt[p] \in steps,
         threadAt'[p] \notin steps, emits' = emits,
         \A q \in Poller : q # p => threadAt'[q] = threadAt[q]
  PROVE  /\ Upto(Passed(emits', threadAt', steps))
              = Upto(Passed(emits, threadAt, steps)) \union {event[p]}
         /\ event[p] \notin Upto(Passed(emits, threadAt, steps))
<1> DEFINE last == Passed(emits, threadAt, steps)
           next == Passed(emits', threadAt', steps)
<1>1. last \in [Poller -> Nat]
  BY PassedType
<1>2. emits[p] \in Nat /\ emits[p] >= 1 /\ event[p] = [mon |-> p, seq |-> emits[p]] /\ event[p] \in EventId
  BY DEF RouteInv, Routing
<1>3. last[p] = emits[p] - 1 /\ next[p] = emits[p] /\ \A q \in Poller : q # p => next[q] = last[q]
  BY DEF Passed
<1>4. event[p] = [mon |-> p, seq |-> last[p] + 1] /\ next[p] = last[p] + 1
  BY <1>2, <1>3
<1> HIDE DEF last, next
<1>5. Upto(next) = Upto(last) \union {event[p]} /\ event[p] \notin Upto(last)
  BY <1>1, <1>2, <1>3, <1>4, OneFurther
<1>6. QED
  BY <1>5 DEF last, next

\* The unlocked part of record counts it under its type, or tears the map.
LEMMA TypeCounts ==
  ASSUME RouteInv, CountsInv, NEW p \in Poller, RouteType(p)
  PROVE  CountsInv'
<1> DEFINE e == event[p]
<1>1. /\ threadAt[p] = "type" /\ threadAt' = [threadAt EXCEPT ![p] = "locked"]
      /\ UNCHANGED <<emits, total, sourceCounts, torn>>
      /\ \/ typeCounts' = [typeCounts EXCEPT ![TypeOf(e)] = @ + 1]
         \/ torn /\ UNCHANGED typeCounts
  BY DEF RouteType, RecordType, At, GoTo, routed
<1>2. /\ threadAt'[p] = "locked" /\ \A q \in Poller : q # p => threadAt'[q] = threadAt[q]
  BY <1>1 DEF RouteInv
<1>3. TypeOf(e) \in EventType
  BY <1>1, EventFields DEF RouteInv, Routing, Busy
<1>4. Sourced' = Sourced
  BY <1>1, <1>2 DEF Sourced, Passed
<1>5. Typed' = Typed \union {e} /\ e \notin Typed
  BY <1>1, <1>2, PassesOn DEF Typed, Busy
<1>6. IsFiniteSet(Typed)
  BY PassedFinite DEF CountsInv, Typed
<1>7. typeCounts' \in [EventType -> Nat]
  BY <1>1, <1>3 DEF CountsInv
<1>8. ASSUME torn' = FALSE, NEW t \in EventType
      PROVE  typeCounts'[t] = Cardinality(OfType(Typed', t))
  <2>1. typeCounts' = [typeCounts EXCEPT ![TypeOf(e)] = @ + 1]
    BY <1>1, <1>8
  <2>2. typeCounts[t] = Cardinality(OfType(Typed, t)) /\ typeCounts \in [EventType -> Nat]
    BY <1>1, <1>8 DEF CountsInv
  <2>3. CASE t = TypeOf(e)
    <3>1. typeCounts'[t] = typeCounts[t] + 1
      BY <2>1, <2>2, <2>3
    <3>2. Cardinality(OfType(Typed', t)) = Cardinality(OfType(Typed, t)) + 1
      <4>1. Cardinality(OfType(Typed \union {e}, TypeOf(e))) = Cardinality(OfType(Typed, TypeOf(e))) + 1
        BY <1>5, <1>6, OneMoreOfType
      <4>2. QED
        BY <1>5, <2>3, <4>1
    <3>3. QED
      BY <2>2, <3>1, <3>2
  <2>4. CASE t # TypeOf(e)
    <3>1. typeCounts'[t] = typeCounts[t]
      BY <2>1, <2>2, <2>4
    <3>2. OfType(Typed', t) = OfType(Typed, t)
      BY <1>5, <1>6, <2>4, OneMoreOfType
    <3>3. QED
      BY <2>2, <3>1, <3>2
  <2>5. QED
    BY <2>3, <2>4
<1>9. QED
  BY <1>1, <1>4, <1>7, <1>8 DEF CountsInv

\* The locked part counts it under its source.
LEMMA SourceCounts ==
  ASSUME RouteInv, CountsInv, NEW p \in Poller, RouteLocked(p)
  PROVE  CountsInv'
<1> DEFINE e == event[p]
<1>1. /\ threadAt[p] = "locked" /\ threadAt' = [threadAt EXCEPT ![p] = "recent"]
      /\ UNCHANGED <<emits, total, typeCounts, torn>>
      /\ sourceCounts' = [sourceCounts EXCEPT ![e.mon] = @ + 1]
  BY DEF RouteLocked, RecordLocked, At, GoTo
<1>2. /\ threadAt'[p] = "recent" /\ \A q \in Poller : q # p => threadAt'[q] = threadAt[q]
  BY <1>1 DEF RouteInv
<1>3. e.mon = p
  BY <1>1 DEF RouteInv, Routing, Busy
<1>4. Typed' = Typed
  BY <1>1, <1>2 DEF Typed, Passed
<1>5. Sourced' = Sourced \union {e} /\ e \notin Sourced
  BY <1>1, <1>2, PassesOn DEF Sourced, Busy
<1>6. IsFiniteSet(Sourced)
  BY PassedFinite DEF CountsInv, Sourced
<1>7. sourceCounts' \in [Poller -> Nat]
  BY <1>1, <1>3 DEF CountsInv
<1>8. ASSUME NEW q \in Poller
      PROVE  sourceCounts'[q] = Cardinality(OfSource(Sourced', q))
  <2>1. sourceCounts[q] = Cardinality(OfSource(Sourced, q)) /\ sourceCounts \in [Poller -> Nat]
    BY DEF CountsInv
  <2>2. CASE q = p
    <3>1. sourceCounts'[q] = sourceCounts[q] + 1
      BY <1>1, <1>3, <2>1, <2>2
    <3>2. Cardinality(OfSource(Sourced', q)) = Cardinality(OfSource(Sourced, q)) + 1
      <4>1. Cardinality(OfSource(Sourced \union {e}, e.mon)) = Cardinality(OfSource(Sourced, e.mon)) + 1
        BY <1>5, <1>6, OneMoreOfSource
      <4>2. QED
        BY <1>3, <1>5, <2>2, <4>1
    <3>3. QED
      BY <2>1, <3>1, <3>2
  <2>3. CASE q # p
    <3>1. sourceCounts'[q] = sourceCounts[q]
      BY <1>1, <1>3, <2>1, <2>3
    <3>2. OfSource(Sourced', q) = OfSource(Sourced, q)
      BY <1>3, <1>5, <1>6, <2>3, OneMoreOfSource
    <3>3. QED
      BY <2>1, <3>1, <3>2
  <2>4. QED
    BY <2>2, <2>3
<1>9. QED
  BY <1>1, <1>4, <1>7, <1>8 DEF CountsInv

\* Every step keeps the counters exact.
LEMMA CountsStep ==
  ASSUME RouteInv, CountsInv, [SesNext]_sesVars
  PROVE  CountsInv'
<1>1. ASSUME NEW p \in Poller, NEW to, GoTo(p, to), UNCHANGED <<statsVars, emits>>,
             to \notin {"type", "locked"}, threadAt[p] \notin {"type", "locked"}
      PROVE  CountsInv'
  <2>1. \A q \in Poller : /\ threadAt'[q] \in {"type"} <=> threadAt[q] \in {"type"}
                          /\ threadAt'[q] \in {"type", "locked"} <=> threadAt[q] \in {"type", "locked"}
    BY <1>1 DEF GoTo, RouteInv
  <2>2. UNCHANGED <<total, typeCounts, sourceCounts, torn, emits>>
    BY <1>1 DEF statsVars
  <2>3. QED
    BY <2>1, <2>2, CountsKept
<1>2. ASSUME NEW p \in Poller, RouteRecent(p) PROVE CountsInv'
  <2>1. GoTo(p, "copy") /\ threadAt[p] = "recent" /\ UNCHANGED <<statsVars, emits>>
    BY <1>2 DEF RouteRecent, At, routed
  <2>2. QED
    BY <1>1, <2>1
<1>3. ASSUME NEW p \in Poller, RouteCopy(p) PROVE CountsInv'
  <2>1. GoTo(p, "notify") /\ threadAt[p] = "copy" /\ UNCHANGED <<statsVars, emits>>
    BY <1>3 DEF RouteCopy, At
  <2>2. QED
    BY <1>1, <2>1
<1>4. ASSUME NEW p \in Poller, RouteNotify(p) PROVE CountsInv'
  <2>1. GoTo(p, "idle") /\ threadAt[p] = "notify" /\ UNCHANGED <<statsVars, emits>>
    BY <1>4 DEF RouteNotify, At
  <2>2. QED
    BY <1>1, <2>1
<1>5. ASSUME NEW p \in Poller, PollerExit(p) PROVE CountsInv'
  <2>1. GoTo(p, "exited") /\ threadAt[p] = "idle" /\ UNCHANGED <<statsVars, emits>>
    BY <1>5 DEF PollerExit, At, routed
  <2>2. QED
    BY <1>1, <2>1
<1>6. ASSUME NEW p \in Poller, NotifyStuck(p) PROVE CountsInv'
  <2>1. GoTo(p, "stuck") /\ threadAt[p] = "notify" /\ UNCHANGED <<statsVars, emits>>
    BY <1>6 DEF NotifyStuck, At, routed
  <2>2. QED
    BY <1>1, <2>1
<1>7. ASSUME NEW p \in Poller, TornCrash(p) PROVE CountsInv'
  BY <1>7, CountsKept DEF TornCrash, statsVars, routed
<1>8. CASE ThreadsRest
  BY <1>8, CountsKept DEF ThreadsRest, statsVars, routed
<1>9. CASE Clock
  BY <1>9, CountsKept DEF Clock, MinutePasses, routed
<1>10. QED
  BY <1>2, <1>3, <1>4, <1>5, <1>6, <1>7, <1>8, <1>9, EmitCounts, TypeCounts, SourceCounts,
     StepOfSession, MainRests

\* The minutes are exact as far back as they are kept, none lies ahead of the
\* clock, and one more than wanted are kept at most.
BucketInv ==
  /\ minuteBuckets \in [Minute -> Nat]
  /\ seen \in [Minute -> Nat]
  /\ \A m \in Minute : minuteBuckets[m] # 0 => m <= minute
  /\ \A m \in Minute : m >= minute - Keep => minuteBuckets[m] = seen[m]
  /\ Cardinality(Used(minuteBuckets)) <= Keep + 1

\* Initially no minute has been counted.
LEMMA BucketInit ==
  ASSUME NEW modes, SesInitIn(modes)
  PROVE  BucketInv
<1>1. minuteBuckets = [m \in Minute |-> 0] /\ seen = [m \in Minute |-> 0]
  BY DEF SesInitIn, StatsInit
<1>2. Used(minuteBuckets) = {}
  BY <1>1 DEF Used
<1>3. Cardinality(Used(minuteBuckets)) <= Keep + 1
  BY <1>2, FS_EmptySet, StatisticsAssumption
<1>4. QED
  BY <1>1, <1>3 DEF BucketInv

\* Counting a minute and pruning keeps the minutes looked at.
LEMMA LockedBuckets ==
  ASSUME RouteInv, BucketInv, NEW p \in Poller, RouteLocked(p)
  PROVE  BucketInv'
<1> DEFINE m == stamped[p]
           counted == [minuteBuckets EXCEPT ![m] = @ + 1]
<1>1. /\ minuteBuckets' = IF Cardinality(Used(counted)) > Keep THEN Pruned(counted) ELSE counted
      /\ seen' = [seen EXCEPT ![m] = @ + 1] /\ minute' = minute /\ threadAt[p] = "locked"
  BY DEF RouteLocked, RecordLocked, At
<1>2. Keep \in Nat /\ MaxMinute \in Nat /\ minute \in Nat /\ minute <= MaxMinute
  BY StatisticsAssumption DEF RouteInv, Minute
<1>3. m \in Minute /\ m <= minute
  <2>1. m \in 1..minute
    BY <1>1 DEF RouteInv
  <2>2. QED
    BY <1>2, <2>1 DEF Minute
<1>4. minuteBuckets \in [Minute -> Nat] /\ seen \in [Minute -> Nat]
  BY DEF BucketInv
<1>5. /\ counted \in [Minute -> Nat] /\ counted[m] = minuteBuckets[m] + 1
      /\ \A k \in Minute : k # m => counted[k] = minuteBuckets[k]
  BY <1>3, <1>4
<1>6. /\ seen' \in [Minute -> Nat] /\ seen'[m] = seen[m] + 1
      /\ \A k \in Minute : k # m => seen'[k] = seen[k]
  BY <1>1, <1>3, <1>4
<1> HIDE DEF m, counted
<1>7. /\ \A k \in Minute : counted[k] # 0 => k <= minute
      /\ \A k \in Minute : k >= minute - Keep => counted[k] = seen'[k]
  BY <1>3, <1>5, <1>6 DEF BucketInv
<1>8. CASE Cardinality(Used(counted)) > Keep
  <2>1. minuteBuckets' = Pruned(counted)
    BY <1>1, <1>8
  <2>2. \A k \in Minute : minuteBuckets'[k] = IF k < minute - Keep THEN 0 ELSE counted[k]
    BY <2>1 DEF Pruned
  <2>3. minuteBuckets' \in [Minute -> Nat]
    BY <1>5, <2>1 DEF Pruned
  <2>4. \A k \in Minute : /\ minuteBuckets'[k] # 0 => k <= minute
                          /\ k >= minute - Keep => minuteBuckets'[k] = seen'[k]
    BY <1>2, <1>7, <2>2 DEF Minute
  <2>5. Used(minuteBuckets') \subseteq (minute - Keep)..minute
    BY <1>2, <2>2, <2>4 DEF Used, Minute
  <2>6. minute - Keep \in Int /\ minute \in Int
    BY <1>2
  <2>7. /\ IsFiniteSet((minute - Keep)..minute)
        /\ Cardinality((minute - Keep)..minute) = IF minute - Keep > minute THEN 0 ELSE minute - (minute - Keep) + 1
    BY <2>6, FS_Interval
  <2>8. Cardinality((minute - Keep)..minute) = Keep + 1
    BY <1>2, <2>7
  <2>9. Cardinality(Used(minuteBuckets')) <= Keep + 1
    BY <2>5, <2>7, <2>8, FS_Subset
  <2>10. QED
    BY <1>1, <1>6, <2>3, <2>4, <2>9 DEF BucketInv
<1>9. CASE ~(Cardinality(Used(counted)) > Keep)
  <2>1. minuteBuckets' = counted
    BY <1>1, <1>9
  <2>2. Used(counted) \subseteq 1..MaxMinute
    BY DEF Used, Minute
  <2>3. 1 \in Int /\ MaxMinute \in Int
    BY <1>2
  <2>4. IsFiniteSet(1..MaxMinute)
    BY <2>3, FS_Interval
  <2>5. Cardinality(Used(counted)) \in Nat
    BY <2>2, <2>4, FS_Subset, FS_CardinalityType
  <2>6. Cardinality(Used(counted)) <= Keep + 1
    BY <1>2, <1>9, <2>5
  <2>7. QED
    BY <1>1, <1>5, <1>6, <1>7, <2>1, <2>6 DEF BucketInv
<1>10. QED
  BY <1>8, <1>9

\* Every step keeps the minutes.
LEMMA BucketStep ==
  ASSUME RouteInv, BucketInv, [SesNext]_sesVars
  PROVE  BucketInv'
<1>1. ASSUME UNCHANGED <<minute, minuteBuckets, seen>> PROVE BucketInv'
  BY <1>1 DEF BucketInv, Used
<1>2. ASSUME NEW p \in Poller, \/ Emit(p) \/ RouteType(p) \/ RouteRecent(p) \/ RouteCopy(p)
                               \/ RouteNotify(p) \/ PollerExit(p) \/ TornCrash(p) \/ NotifyStuck(p)
      PROVE  UNCHANGED <<minute, minuteBuckets, seen>>
  BY <1>2 DEF Emit, RecordBegin, RouteType, RecordType, RouteRecent, RouteCopy, RouteNotify,
              PollerExit, TornCrash, NotifyStuck, statsVars
<1>3. CASE ThreadsRest
  BY <1>1, <1>3 DEF ThreadsRest, statsVars
<1>4. CASE Clock
  <2>1. minute' = minute + 1 /\ UNCHANGED <<minuteBuckets, seen>>
    BY <1>4 DEF Clock, MinutePasses
  <2>2. Keep \in Nat /\ minute \in Nat
    BY StatisticsAssumption DEF RouteInv, Minute
  <2>3. \A m \in Minute : /\ minuteBuckets[m] # 0 => m <= minute'
                          /\ m >= minute' - Keep => minuteBuckets[m] = seen[m]
    BY <2>1, <2>2 DEF BucketInv, Minute
  <2>4. QED
    BY <2>1, <2>3 DEF BucketInv, Used
<1>5. QED
  BY <1>1, <1>2, <1>3, <1>4, LockedBuckets, StepOfSession, MainRests

\* With no event between record's two parts every counter has counted all.
LEMMA CountersConsistent == RouteInv /\ CountsInv /\ BucketInv => StatsConsistent
<1> SUFFICES ASSUME RouteInv, CountsInv, BucketInv PROVE StatsConsistent
  OBVIOUS
<1> DEFINE begun == {e \in EventId : e.seq <= emits[e.mon]}
           recording == {p \in Poller : threadAt[p] \in {"type", "locked"}}
<1>1. begun = Upto(emits)
  BY DEF Upto
<1>2. ASSUME recording = {}, torn = FALSE
      PROVE  /\ total = Cardinality(begun)
             /\ \A t \in EventType : typeCounts[t] = Cardinality({e \in begun : TypeOf(e) = t})
             /\ \A p \in Poller : sourceCounts[p] = Cardinality({e \in begun : e.mon = p})
  <2>1. \A p \in Poller : threadAt[p] \notin {"type", "locked"}
    BY <1>2
  <2>2. emits \in [Poller -> Nat]
    BY DEF RouteInv
  <2>3. /\ Passed(emits, threadAt, {"type"}) = emits
        /\ Passed(emits, threadAt, {"type", "locked"}) = emits
    BY <2>1, <2>2 DEF Passed
  <2>4. Typed = begun /\ Sourced = begun
    BY <1>1, <2>3 DEF Typed, Sourced
  <2>5. QED
    BY <1>1, <1>2, <2>4 DEF CountsInv, OfType, OfSource
<1>3. torn \in BOOLEAN
  BY DEF CountsInv
<1>4. /\ \A m \in Minute : m >= minute - Keep => minuteBuckets[m] = seen[m]
      /\ Cardinality(Used(minuteBuckets)) <= Keep + 1
  BY DEF BucketInv
<1> HIDE DEF begun, recording
<1>5. CountersAgree(begun, recording)
  BY <1>2, <1>3, <1>4, Zenon DEF CountersAgree
<1>6. QED
  BY <1>5 DEF StatsConsistent, begun, recording

-----------------------------------------------------------------------------
(* The tail: what is on the screen, and what may still get there.          *)

\* The events of each monitor in the order emitted: each once, or not.
Ascending(s) ==
  \A i, j \in DOMAIN s : i < j /\ s[i].mon = s[j].mon => s[i].seq < s[j].seq
Rising(s) ==
  \A i, j \in DOMAIN s : i < j /\ s[i].mon = s[j].mon => s[i].seq <= s[j].seq
Before(s, r) ==
  \A i \in DOMAIN s, j \in DOMAIN r : s[i].mon = r[j].mon => s[i].seq < r[j].seq
Within(s, last) == \A i \in DOMAIN s : s[i].seq <= last[s[i].mon]
Fresh(s, p, n) == \A i \in DOMAIN s : s[i].mon = p => s[i].seq < n
Single(s) == \A p \in Poller : \A j, k \in Again(s, p) : j = k

\* The last event of each monitor that may be in recent_.
Listed == Passed(emits, threadAt, {"type", "locked", "recent"})

TailInv ==
  /\ recentList \in Seq(EventId) /\ replay \in Seq(EventId) /\ screen \in Seq(EventId)
  /\ registered \in BOOLEAN /\ copied \in [Poller -> BOOLEAN]
  /\ Ascending(recentList) /\ Within(recentList, Listed)
  /\ Ascending(replay) /\ Within(replay, Listed)
  /\ Rising(screen) /\ Within(screen, Listed) /\ Single(screen)
  /\ sesMain \in {"started", "replay"} => registered = FALSE
  /\ sesMain = "started" => screen = <<>>
  /\ sesMain = "replay" => Before(screen, replay)
  /\ registered = FALSE => Ascending(screen) /\ \A p \in Poller : copied[p] = FALSE
  /\ \A p \in Poller : threadAt[p] \in {"copy", "notify"} =>
       Again(screen, p) = {} \/ Fresh(screen, p, emits[p])

\* The elements of a list and of one event more.
LEMMA AppendedEvent ==
  ASSUME NEW s \in Seq(EventId), NEW e \in EventId
  PROVE  /\ Append(s, e) \in Seq(EventId)
         /\ DOMAIN s = 1..Len(s) /\ DOMAIN Append(s, e) = 1..Len(s) + 1 /\ Len(s) \in Nat
         /\ Append(s, e)[Len(s) + 1] = e
         /\ \A i \in 1..Len(s) : i \in 1..Len(s) + 1 /\ Append(s, e)[i] = s[i]
OBVIOUS

\* A later event of its monitor keeps a list ascending.
LEMMA AppendAscending ==
  ASSUME NEW s \in Seq(EventId), NEW e \in EventId, Ascending(s), Fresh(s, e.mon, e.seq)
  PROVE  Ascending(Append(s, e))
<1> DEFINE n == Len(s)
           t == Append(s, e)
<1>1. /\ DOMAIN s = 1..n /\ DOMAIN t = 1..n + 1 /\ n \in Nat /\ t[n + 1] = e
      /\ \A i \in 1..n : t[i] = s[i]
  BY AppendedEvent
<1> HIDE DEF n, t
<1>2. ASSUME NEW i \in 1..n + 1, NEW j \in 1..n + 1, i < j, t[i].mon = t[j].mon
      PROVE  t[i].seq < t[j].seq
  <2>1. i \in 1..n /\ t[i] = s[i]
    BY <1>1, <1>2
  <2>2. CASE j = n + 1
    BY <1>1, <1>2, <2>1, <2>2 DEF Fresh
  <2>3. CASE j # n + 1
    <3>1. j \in 1..n /\ t[j] = s[j]
      BY <1>1, <2>3
    <3>2. QED
      BY <1>1, <1>2, <2>1, <3>1 DEF Ascending
  <2>4. QED
    BY <2>2, <2>3
<1>3. Ascending(t)
  BY <1>1, <1>2 DEF Ascending
<1>4. QED
  BY <1>3 DEF t

\* An event that is not earlier keeps it rising.
LEMMA AppendRising ==
  ASSUME NEW s \in Seq(EventId), NEW e \in EventId, Rising(s),
         \A i \in DOMAIN s : s[i].mon = e.mon => s[i].seq <= e.seq
  PROVE  Rising(Append(s, e))
<1> DEFINE n == Len(s)
           t == Append(s, e)
<1>1. /\ DOMAIN s = 1..n /\ DOMAIN t = 1..n + 1 /\ n \in Nat /\ t[n + 1] = e
      /\ \A i \in 1..n : t[i] = s[i]
  BY AppendedEvent
<1> HIDE DEF n, t
<1>2. ASSUME NEW i \in 1..n + 1, NEW j \in 1..n + 1, i < j, t[i].mon = t[j].mon
      PROVE  t[i].seq <= t[j].seq
  <2>1. i \in 1..n /\ t[i] = s[i]
    BY <1>1, <1>2
  <2>2. CASE j = n + 1
    BY <1>1, <1>2, <2>1, <2>2
  <2>3. CASE j # n + 1
    <3>1. j \in 1..n /\ t[j] = s[j]
      BY <1>1, <2>3
    <3>2. QED
      BY <1>1, <1>2, <2>1, <3>1 DEF Rising
  <2>4. QED
    BY <2>2, <2>3
<1>3. Rising(t)
  BY <1>1, <1>2 DEF Rising
<1>4. QED
  BY <1>3 DEF t

\* And within the events there are, if it is one.
LEMMA AppendWithin ==
  ASSUME NEW s \in Seq(EventId), NEW e \in EventId, NEW last, Within(s, last),
         e.seq <= last[e.mon]
  PROVE  Within(Append(s, e), last)
<1> DEFINE n == Len(s)
           t == Append(s, e)
<1>1. /\ DOMAIN s = 1..n /\ DOMAIN t = 1..n + 1 /\ n \in Nat /\ t[n + 1] = e
      /\ \A i \in 1..n : t[i] = s[i]
  BY AppendedEvent
<1> HIDE DEF n, t
<1>2. ASSUME NEW i \in 1..n + 1 PROVE t[i].seq <= last[t[i].mon]
  <2>1. CASE i = n + 1
    BY <1>1, <2>1
  <2>2. CASE i # n + 1
    BY <1>1, <2>2 DEF Within
  <2>3. QED
    BY <2>1, <2>2
<1>3. Within(t, last)
  BY <1>1, <1>2 DEF Within
<1>4. QED
  BY <1>3 DEF t

\* An event that is appended is printed again only if it was there already.
LEMMA AppendAgain ==
  ASSUME NEW s \in Seq(EventId), NEW e \in EventId, NEW p
  PROVE  /\ e.mon # p => Again(Append(s, e), p) = Again(s, p)
         /\ (\A i \in DOMAIN s : s[i] # e) => Again(Append(s, e), p) = Again(s, p)
         /\ Again(Append(s, e), p) \subseteq Again(s, p) \union {Len(s) + 1}
<1> DEFINE n == Len(s)
           t == Append(s, e)
<1>1. /\ DOMAIN s = 1..n /\ DOMAIN t = 1..n + 1 /\ n \in Nat /\ t[n + 1] = e
      /\ \A i \in 1..n : t[i] = s[i]
  BY AppendedEvent
<1> HIDE DEF n, t
<1>2. ASSUME NEW j \in 1..n PROVE j \in Again(t, p) <=> j \in Again(s, p)
  <2>1. t[j] = s[j] /\ j \in DOMAIN s /\ j \in DOMAIN t
    BY <1>1
  <2>2. \A i \in 1..j - 1 : i \in 1..n /\ t[i] = s[i]
    BY <1>1
  <2>3. QED
    BY <2>1, <2>2 DEF Again
<1>3. \A j \in 1..n + 1 : j \in 1..n \/ j = n + 1
  BY <1>1
<1>4. /\ \A j \in Again(s, p) : j \in 1..n
      /\ \A j \in Again(t, p) : j \in 1..n \/ j = n + 1
  BY <1>1, <1>3 DEF Again
<1>5. ASSUME n + 1 \in Again(t, p) PROVE e.mon = p /\ \E i \in DOMAIN s : s[i] = e
  <2>1. t[n + 1].mon = p /\ \E i \in 1..(n + 1) - 1 : t[i] = t[n + 1]
    BY <1>5 DEF Again
  <2>2. PICK i \in 1..(n + 1) - 1 : t[i] = e
    BY <1>1, <2>1
  <2>3. i \in 1..n
    BY <1>1, <2>2
  <2>4. QED
    BY <1>1, <2>1, <2>2, <2>3
<1>6. ASSUME n + 1 \notin Again(t, p) PROVE Again(t, p) = Again(s, p)
  BY <1>2, <1>4, <1>6
<1>7. Again(t, p) \subseteq Again(s, p) \union {n + 1}
  BY <1>2, <1>4
<1>8. QED
  BY <1>5, <1>6, <1>7 DEF t, n

\* What ascends repeats nothing.
LEMMA AscendingOnce ==
  ASSUME NEW s \in Seq(EventId), Ascending(s), NEW p
  PROVE  Again(s, p) = {} /\ Rising(s)
<1>1. ASSUME NEW j \in Again(s, p) PROVE FALSE
  <2>1. PICK i \in 1..j - 1 : s[i] = s[j]
    BY DEF Again
  <2>2. j \in DOMAIN s /\ i \in DOMAIN s /\ i < j
    BY DEF Again
  <2>3. s[i].seq < s[j].seq /\ s[j] \in EventId
    BY <2>1, <2>2 DEF Ascending
  <2>4. s[j].seq \in Nat
    BY <2>3, EventFields
  <2>5. QED
    BY <2>1, <2>3, <2>4
<1>2. ASSUME NEW i \in DOMAIN s, NEW j \in DOMAIN s, i < j, s[i].mon = s[j].mon
      PROVE  s[i].seq <= s[j].seq
  <2>1. s[i].seq < s[j].seq
    BY <1>2 DEF Ascending
  <2>2. s[i] \in EventId /\ s[j] \in EventId
    OBVIOUS
  <2>3. s[i].seq \in Nat /\ s[j].seq \in Nat
    BY <2>2, EventFields
  <2>4. QED
    BY <2>1, <2>3
<1>3. QED
  BY <1>1, <1>2 DEF Rising

\* What is left of a list keeps its order.
LEMMA PartAscending ==
  ASSUME NEW s \in Seq(EventId), NEW k \in 1..Len(s) + 1, NEW last, Ascending(s), Within(s, last)
  PROVE  LET t == SubSeq(s, k, Len(s))
         IN  t \in Seq(EventId) /\ Ascending(t) /\ Within(t, last)
<1> DEFINE n == Len(s)
           t == SubSeq(s, k, n)
<1>1. n \in Nat /\ DOMAIN s = 1..n
  OBVIOUS
<1>2. /\ t \in Seq(EventId) /\ Len(t) = n - k + 1
      /\ \A i \in 1..n - k + 1 : t[i] = s[k + i - 1]
  OBVIOUS
<1>3. DOMAIN t = 1..n - k + 1
  BY <1>2
<1> HIDE DEF n, t
<1>4. \A i \in DOMAIN t : k + i - 1 \in DOMAIN s /\ t[i] = s[k + i - 1]
  BY <1>1, <1>2, <1>3
<1>5. \A i, j \in DOMAIN t : i < j => k + i - 1 < k + j - 1
  BY <1>1, <1>3
<1>6. Ascending(t) /\ Within(t, last)
  BY <1>4, <1>5 DEF Ascending, Within
<1>7. QED
  BY <1>2, <1>6 DEF t, n

\* Initially the lists and the screen are empty.
LEMMA TailInit ==
  ASSUME NEW modes, SesInitIn(modes)
  PROVE  TailInv
<1>1. /\ recentList = <<>> /\ replay = <<>> /\ screen = <<>> /\ registered = FALSE
      /\ copied = [p \in Poller |-> FALSE] /\ threadAt = [p \in Poller |-> "idle"]
      /\ sesMain = "started"
  BY DEF SesInitIn
<1>2. /\ <<>> \in Seq(EventId) /\ Ascending(<<>>) /\ Rising(<<>>) /\ Within(<<>>, Listed)
      /\ \A p : Again(<<>>, p) = {}
  BY DEF Ascending, Rising, Within, Again
<1>3. QED
  BY <1>1, <1>2 DEF TailInv, Single

\* How far recent_ has got is a number for each monitor.
LEMMA ListedType == RouteInv => Listed \in [Poller -> Nat]
BY PassedType DEF Listed, Busy

\* Steps that touch neither the lists nor the screen.
LEMMA TailKept ==
  ASSUME RouteInv, TailInv, UNCHANGED <<recentList, replay, screen, registered, copied>>,
         Listed' = Listed, sesMain' \in {"started", "replay"} => sesMain' = sesMain,
         \A p \in Poller : threadAt'[p] \in {"copy", "notify"} =>
           threadAt[p] \in {"copy", "notify"} /\ emits'[p] = emits[p]
  PROVE  TailInv'
<1>1. /\ recentList' \in Seq(EventId) /\ replay' \in Seq(EventId) /\ screen' \in Seq(EventId)
      /\ registered' \in BOOLEAN /\ copied' \in [Poller -> BOOLEAN]
  BY DEF TailInv
<1>2. /\ Ascending(recentList') /\ Within(recentList', Listed')
      /\ Ascending(replay') /\ Within(replay', Listed')
      /\ Rising(screen') /\ Within(screen', Listed') /\ Single(screen')
  BY DEF TailInv
<1>3. /\ sesMain' \in {"started", "replay"} => registered' = FALSE
      /\ sesMain' = "started" => screen' = <<>>
      /\ sesMain' = "replay" => Before(screen', replay')
  BY DEF TailInv
<1>4. registered' = FALSE => Ascending(screen') /\ \A p \in Poller : copied'[p] = FALSE
  BY DEF TailInv
<1>5. \A p \in Poller : threadAt'[p] \in {"copy", "notify"} =>
        Again(screen', p) = {} \/ Fresh(screen', p, emits'[p])
  BY DEF TailInv
<1>6. QED
  BY <1>1, <1>2, <1>3, <1>4, <1>5 DEF TailInv

\* An emitted event is not listed yet.
LEMMA EmitTail ==
  ASSUME RouteInv, TailInv, NEW p \in Poller, Emit(p)
  PROVE  TailInv'
<1>1. /\ emits[p] \in Nat /\ threadAt[p] = "idle" /\ UNCHANGED <<recentList, screen, copied>>
      /\ UNCHANGED <<sesMain, replay, registered>>
      /\ emits' = [emits EXCEPT ![p] = @ + 1] /\ threadAt' = [threadAt EXCEPT ![p] = "type"]
  BY DEF Emit, RouteInv, At, GoTo, sesMainVars
<1>2. emits \in [Poller -> Nat] /\ threadAt \in [Poller -> Place]
  BY DEF RouteInv
<1>3. /\ emits'[p] = emits[p] + 1 /\ \A q \in Poller : q # p => emits'[q] = emits[q]
      /\ threadAt'[p] = "type" /\ \A q \in Poller : q # p => threadAt'[q] = threadAt[q]
  BY <1>1, <1>2
<1> DEFINE steps == {"type", "locked", "recent"}
<1>4. ASSUME NEW q \in Poller
      PROVE  (IF threadAt'[q] \in steps THEN emits'[q] - 1 ELSE emits'[q])
               = (IF threadAt[q] \in steps THEN emits[q] - 1 ELSE emits[q])
  BY <1>1, <1>3
<1>5. Listed' = Listed
  BY <1>4 DEF Listed, Passed
<1>6. \A q \in Poller : threadAt'[q] \in {"copy", "notify"} =>
        threadAt[q] \in {"copy", "notify"} /\ emits'[q] = emits[q]
  BY <1>3
<1>7. QED
  BY <1>1, <1>5, <1>6, TailKept

\* A thread that moves on without passing recent_.
LEMMA MoveTail ==
  ASSUME RouteInv, TailInv, NEW p \in Poller, NEW to, GoTo(p, to), emits' = emits,
         UNCHANGED <<recentList, replay, screen, registered, copied, sesMain>>,
         to \in {"type", "locked", "recent"} <=> threadAt[p] \in {"type", "locked", "recent"},
         to \in {"copy", "notify"} => threadAt[p] \in {"copy", "notify"}
  PROVE  TailInv'
<1>1. threadAt'[p] = to /\ \A q \in Poller : q # p => threadAt'[q] = threadAt[q]
  BY DEF GoTo, RouteInv
<1>2. \A q \in Poller : threadAt'[q] \in {"type", "locked", "recent"}
                          <=> threadAt[q] \in {"type", "locked", "recent"}
  BY <1>1
<1>3. Listed' = Listed
  BY <1>2 DEF Listed, Passed
<1>4. QED
  BY <1>1, <1>3, TailKept

\* What is within stays so when more has happened.
LEMMA WithinMore ==
  ASSUME NEW s \in Seq(EventId), NEW last \in [Poller -> Nat], NEW next \in [Poller -> Nat],
         Within(s, last), \A p \in Poller : last[p] <= next[p]
  PROVE  Within(s, next)
<1>1. ASSUME NEW i \in DOMAIN s PROVE s[i].seq <= next[s[i].mon]
  <2>1. s[i] \in EventId
    OBVIOUS
  <2>2. s[i].mon \in Poller /\ s[i].seq \in Nat
    BY <2>1, EventFields
  <2>3. s[i].seq <= last[s[i].mon] /\ last[s[i].mon] <= next[s[i].mon]
    BY <2>2 DEF Within
  <2>4. last[s[i].mon] \in Nat /\ next[s[i].mon] \in Nat
    BY <2>2
  <2>5. QED
    BY <2>2, <2>3, <2>4
<1>2. QED
  BY <1>1 DEF Within

\* What is below the number of an event is not that event.
LEMMA FreshBelow ==
  ASSUME NEW s \in Seq(EventId), NEW last \in [Poller -> Nat], NEW p \in Poller, NEW n \in Nat,
         Within(s, last), last[p] = n - 1
  PROVE  Fresh(s, p, n)
<1>1. ASSUME NEW i \in DOMAIN s, s[i].mon = p PROVE s[i].seq < n
  <2>1. s[i] \in EventId
    OBVIOUS
  <2>2. s[i].seq \in Nat
    BY <2>1, EventFields
  <2>3. s[i].seq <= n - 1
    BY <1>1 DEF Within
  <2>4. QED
    BY <2>2, <2>3
<1>2. QED
  BY <1>1 DEF Fresh

\* recent_ takes an event and drops its oldest.
LEMMA RecentTail ==
  ASSUME RouteInv, RouteInv', TailInv, NEW p \in Poller, RouteRecent(p)
  PROVE  TailInv'
<1> DEFINE e == event[p]
           s == Append(recentList, e)
<1>1. /\ threadAt[p] = "recent" /\ threadAt' = [threadAt EXCEPT ![p] = "copy"]
      /\ recentList' = IF Len(s) > MaxRecent THEN Tail(s) ELSE s
      /\ UNCHANGED <<replay, screen, registered, copied, sesMain, emits>>
  BY DEF RouteRecent, At, GoTo, routed, sesMainVars
<1>2. threadAt'[p] = "copy" /\ \A q \in Poller : q # p => threadAt'[q] = threadAt[q]
  BY <1>1 DEF RouteInv
<1>3. e = [mon |-> p, seq |-> emits[p]] /\ e \in EventId /\ emits[p] \in Nat /\ emits[p] >= 1
  BY <1>1 DEF RouteInv, Routing, Busy
<1>4. e.mon = p /\ e.seq = emits[p]
  BY <1>3
<1>5. Listed \in [Poller -> Nat] /\ Listed' \in [Poller -> Nat]
  <2>1. Listed \in [Poller -> Nat]
    BY ListedType
  <2>2. \A q \in Poller : (IF threadAt'[q] \in {"type", "locked", "recent"}
                           THEN emits'[q] - 1 ELSE emits'[q]) \in Nat
    BY DEF RouteInv, Routing, Busy
  <2>3. QED
    BY <2>1, <2>2 DEF Listed, Passed
<1>6. /\ Listed[p] = emits[p] - 1 /\ Listed'[p] = emits[p]
      /\ \A q \in Poller : q # p => Listed'[q] = Listed[q]
  BY <1>1, <1>2 DEF Listed, Passed
<1>7. \A q \in Poller : Listed[q] <= Listed'[q]
  BY <1>3, <1>5, <1>6
<1> HIDE DEF e
<1>8. recentList \in Seq(EventId) /\ replay \in Seq(EventId) /\ screen \in Seq(EventId)
  BY DEF TailInv
<1>9. Fresh(recentList, p, emits[p]) /\ Fresh(screen, p, emits[p])
  BY <1>3, <1>5, <1>6, <1>8, FreshBelow DEF TailInv
<1>10. Within(recentList, Listed') /\ Within(replay, Listed') /\ Within(screen, Listed')
  BY <1>5, <1>7, <1>8, WithinMore DEF TailInv
<1>11. s \in Seq(EventId) /\ Ascending(s) /\ Within(s, Listed')
  <2>1. Ascending(recentList)
    BY DEF TailInv
  <2>2. Ascending(s)
    BY <1>3, <1>4, <1>8, <1>9, <2>1, AppendAscending
  <2>3. e.seq <= Listed'[e.mon]
    BY <1>3, <1>4, <1>6
  <2>4. Within(s, Listed')
    BY <1>3, <1>8, <1>10, <2>3, AppendWithin
  <2>5. QED
    BY <1>3, <1>8, <2>2, <2>4
<1>12. recentList' \in Seq(EventId) /\ Ascending(recentList') /\ Within(recentList', Listed')
  <2> HIDE DEF s
  <2>1. CASE Len(s) > MaxRecent
    <3>1. s # <<>> /\ Len(s) \in Nat /\ 2 \in 1..Len(s) + 1
      BY <1>11, <2>1, SessionAssumption
    <3>2. Tail(s) = SubSeq(s, 2, Len(s))
      BY <1>11, <3>1
    <3>3. QED
      BY <1>1, <1>11, <2>1, <3>1, <3>2, PartAscending
  <2>2. CASE ~(Len(s) > MaxRecent)
    BY <1>1, <1>11, <2>2
  <2>3. QED
    BY <2>1, <2>2
<1>13. \A q \in Poller : threadAt'[q] \in {"copy", "notify"} =>
         Again(screen, q) = {} \/ Fresh(screen, q, emits[q])
  BY <1>2, <1>9 DEF TailInv
<1> HIDE DEF s
<1>14. QED
  BY <1>1, <1>10, <1>12, <1>13 DEF TailInv

\* The callback prints an event for the second time only if the replay had it,
\* and then the monitor has no event printed twice so far.
LEMMA NotifyTail ==
  ASSUME RouteInv, TailInv, NEW p \in Poller, RouteNotify(p)
  PROVE  TailInv'
<1> DEFINE e == event[p]
           t == Append(screen, e)
<1>1. /\ threadAt[p] = "notify" /\ threadAt' = [threadAt EXCEPT ![p] = "idle"]
      /\ copied' = [copied EXCEPT ![p] = FALSE]
      /\ UNCHANGED <<recentList, replay, registered, sesMain, emits>>
  BY DEF RouteNotify, At, GoTo, sesMainVars
<1>2. \/ copied[p] /\ screen' = t
      \/ screen' = screen
  BY DEF RouteNotify, Printed
<1>3. /\ threadAt'[p] = "idle" /\ \A q \in Poller : q # p => threadAt'[q] = threadAt[q]
  BY <1>1 DEF RouteInv
<1>4. Listed' = Listed
  BY <1>1, <1>3 DEF Listed, Passed
<1>5. /\ copied' \in [Poller -> BOOLEAN] /\ copied'[p] = FALSE
      /\ \A q \in Poller : q # p => copied'[q] = copied[q]
  BY <1>1 DEF TailInv
<1>6. e = [mon |-> p, seq |-> emits[p]] /\ e \in EventId /\ emits[p] \in Nat
  BY <1>1 DEF RouteInv, Routing, Busy
<1>7. e.mon = p /\ e.seq = emits[p] /\ Listed[p] = emits[p]
  BY <1>1, <1>6 DEF Listed, Passed
<1>8. recentList \in Seq(EventId) /\ replay \in Seq(EventId) /\ screen \in Seq(EventId)
  BY DEF TailInv
<1> HIDE DEF e
<1>9. CASE screen' = screen
  <2>1. registered = FALSE => \A q \in Poller : copied'[q] = FALSE
    BY <1>5 DEF TailInv
  <2>2. \A q \in Poller : threadAt'[q] \in {"copy", "notify"} =>
          Again(screen, q) = {} \/ Fresh(screen, q, emits[q])
    BY <1>3 DEF TailInv
  <2>3. QED
    BY <1>1, <1>4, <1>5, <1>9, <2>1, <2>2 DEF TailInv
<1>10. CASE copied[p] /\ screen' = t
  <2>1. registered = TRUE
    BY <1>10, Zenon DEF TailInv
  <2>2. sesMain \notin {"started", "replay"}
    BY <2>1 DEF TailInv
  <2>3. t \in Seq(EventId)
    BY <1>6, <1>8, AppendedEvent
  <2>4. Rising(t)
    <3>1. \A i \in DOMAIN screen : screen[i].mon = p => screen[i].seq <= emits[p]
      BY <1>7 DEF TailInv, Within
    <3>2. QED
      BY <1>6, <1>7, <1>8, <3>1, AppendRising DEF TailInv
  <2>5. Within(t, Listed)
    <3>1. e.seq <= Listed[e.mon]
      BY <1>6, <1>7
    <3>2. QED
      BY <1>6, <1>8, <3>1, AppendWithin DEF TailInv
  <2>6. \A q : q # p => Again(t, q) = Again(screen, q)
    BY <1>6, <1>7, <1>8, AppendAgain
  <2>7. \A j, k \in Again(t, p) : j = k
    <3>1. CASE Again(screen, p) = {}
      <4>1. Again(t, p) \subseteq Again(screen, p) \union {Len(screen) + 1}
        BY <1>6, <1>8, AppendAgain
      <4>2. QED
        BY <3>1, <4>1
    <3>2. CASE Again(screen, p) # {}
      <4>1. Fresh(screen, p, emits[p])
        BY <1>1, <3>2 DEF TailInv
      <4>2. ASSUME NEW i \in DOMAIN screen, screen[i] = e PROVE FALSE
        BY <1>6, <1>7, <4>1, <4>2 DEF Fresh
      <4>3. Again(t, p) = Again(screen, p)
        BY <1>6, <1>8, <4>2, AppendAgain
      <4>4. QED
        BY <4>3 DEF TailInv, Single
    <3>3. QED
      BY <3>1, <3>2
  <2>8. Single(t)
    BY <2>6, <2>7 DEF TailInv, Single
  <2>9. ASSUME NEW q \in Poller, threadAt'[q] \in {"copy", "notify"}
        PROVE  Again(t, q) = {} \/ Fresh(t, q, emits[q])
    <3>1. q # p /\ threadAt[q] \in {"copy", "notify"}
      BY <1>3, <2>9
    <3>2. Again(screen, q) = {} \/ Fresh(screen, q, emits[q])
      BY <3>1 DEF TailInv
    <3>3. ASSUME Fresh(screen, q, emits[q]) PROVE Fresh(t, q, emits[q])
      <4>1. /\ DOMAIN screen = 1..Len(screen) /\ DOMAIN t = 1..Len(screen) + 1
            /\ Len(screen) \in Nat /\ t[Len(screen) + 1] = e
            /\ \A i \in 1..Len(screen) : t[i] = screen[i]
        BY <1>6, <1>8, AppendedEvent
      <4>2. \A i \in DOMAIN t : i \in DOMAIN screen \/ i = Len(screen) + 1
        BY <4>1
      <4> HIDE DEF t
      <4>3. QED
        BY <1>7, <3>1, <3>3, <4>1, <4>2 DEF Fresh
    <3>4. QED
      BY <2>6, <3>1, <3>2, <3>3
  <2> HIDE DEF t
  <2>10. QED
    BY <1>1, <1>4, <1>5, <1>10, <2>1, <2>2, <2>3, <2>4, <2>5, <2>8, <2>9 DEF TailInv
<1>11. QED
  BY <1>2, <1>9, <1>10

\* A thread copies the callback list.
LEMMA CopyTail ==
  ASSUME RouteInv, TailInv, NEW p \in Poller, RouteCopy(p)
  PROVE  TailInv'
<1>1. /\ threadAt[p] = "copy" /\ threadAt' = [threadAt EXCEPT ![p] = "notify"]
      /\ copied' = [copied EXCEPT ![p] = registered]
      /\ UNCHANGED <<recentList, replay, registered, sesMain, emits, screen>>
  BY DEF RouteCopy, At, GoTo, sesMainVars
<1>2. /\ threadAt'[p] = "notify" /\ \A q \in Poller : q # p => threadAt'[q] = threadAt[q]
  BY <1>1 DEF RouteInv
<1>3. Listed' = Listed
  BY <1>1, <1>2 DEF Listed, Passed
<1>4. copied' \in [Poller -> BOOLEAN] /\ (registered = FALSE => \A q \in Poller : copied'[q] = FALSE)
  BY <1>1 DEF TailInv
<1>5. \A q \in Poller : threadAt'[q] \in {"copy", "notify"} =>
        Again(screen, q) = {} \/ Fresh(screen, q, emits[q])
  BY <1>1, <1>2 DEF TailInv
<1>6. QED
  BY <1>1, <1>3, <1>4, <1>5 DEF TailInv

\* A step of main that neither prints nor replays.
LEMMA MainTail ==
  ASSUME RouteInv, TailInv, NEW from, NEW to, Main(from, to),
         UNCHANGED <<replay, screen, registered>>, to \notin {"started", "replay"}
  PROVE  TailInv'
<1>1. /\ sesMain' \notin {"started", "replay"}
      /\ UNCHANGED <<threadAt, emits, copied, recentList, replay, screen, registered>>
  BY DEF Main, routed
<1>2. Listed' = Listed
  BY <1>1 DEF Listed
<1>3. QED
  BY <1>1, <1>2, TailKept

\* The recent events are fetched when nothing has been printed.
LEMMA BeginTailKeeps ==
  ASSUME RouteInv, TailInv, BeginTail
  PROVE  TailInv'
<1>1. /\ sesMain = "started" /\ sesMain' = "replay"
      /\ replay' = LastOf(recentList, TailRecent)
      /\ UNCHANGED <<threadAt, emits, copied, recentList, registered, screen>>
  BY DEF BeginTail, Main, routed
<1>2. Listed' = Listed
  BY <1>1 DEF Listed
<1>3. recentList \in Seq(EventId) /\ Ascending(recentList) /\ Within(recentList, Listed)
  BY DEF TailInv
<1> DEFINE n == Len(recentList)
           k == IF n > TailRecent THEN n - TailRecent + 1 ELSE 1
<1>4. k \in 1..n + 1
  <2>1. n \in Nat
    BY <1>3
  <2>2. QED
    BY <2>1, SessionAssumption
<1>5. replay' = SubSeq(recentList, k, n)
  BY <1>1 DEF LastOf
<1> HIDE DEF k
<1>6. replay' \in Seq(EventId) /\ Ascending(replay') /\ Within(replay', Listed)
  BY <1>3, <1>4, <1>5, PartAscending
<1>7. screen = <<>> /\ registered = FALSE
  BY <1>1 DEF TailInv
<1>8. Before(screen, replay')
  BY <1>7 DEF Before
<1>9. QED
  BY <1>1, <1>2, <1>6, <1>7, <1>8 DEF TailInv

\* A recent event is printed: it comes after all that is on the screen.
LEMMA PrintTail ==
  ASSUME RouteInv, TailInv, PrintRecent
  PROVE  TailInv'
<1> DEFINE e == Head(replay)
           t == Append(screen, e)
           n == Len(replay)
           m == Len(screen)
<1>1. /\ sesMain = "replay" /\ sesMain' = "replay" /\ replay # <<>> /\ replay' = Tail(replay)
      /\ UNCHANGED <<threadAt, emits, copied, recentList, registered>>
  BY DEF PrintRecent, Main, routed
<1>2. screen' = t \/ screen' = screen
  BY DEF PrintRecent, Printed
<1>3. Listed' = Listed
  BY <1>1 DEF Listed
<1>4. replay \in Seq(EventId) /\ screen \in Seq(EventId) /\ registered = FALSE
  BY <1>1 DEF TailInv
<1>5. e \in EventId /\ e = replay[1] /\ n \in Nat /\ 1 \in 1..n /\ DOMAIN replay = 1..n
  BY <1>1, <1>4
<1>6. replay' = SubSeq(replay, 2, n) /\ 2 \in 1..n + 1
  BY <1>1, <1>4, <1>5
<1>7. replay' \in Seq(EventId) /\ Ascending(replay') /\ Within(replay', Listed)
  BY <1>4, <1>6, PartAscending DEF TailInv
<1>8. /\ DOMAIN replay' = 1..n - 1
      /\ \A j \in 1..n - 1 : replay'[j] = replay[j + 1]
  BY <1>1, <1>4, <1>5
<1>9. \A j \in DOMAIN replay' : j + 1 \in DOMAIN replay /\ 1 < j + 1 /\ replay'[j] = replay[j + 1]
  BY <1>5, <1>8
<1> HIDE DEF e, n
<1>10. Before(screen, replay) /\ Ascending(replay) /\ Ascending(screen) /\ Within(screen, Listed)
  BY <1>1, <1>4 DEF TailInv
<1>11. Before(screen, replay')
  BY <1>9, <1>10 DEF Before
<1>12. Fresh(screen, e.mon, e.seq)
  BY <1>5, <1>10 DEF Before, Fresh
<1>13. \A j \in DOMAIN replay' : e.mon = replay'[j].mon => e.seq < replay'[j].seq
  BY <1>5, <1>9, <1>10 DEF Ascending
<1>14. e.seq <= Listed[e.mon]
  BY <1>5 DEF TailInv, Within
<1>15. /\ t \in Seq(EventId) /\ DOMAIN screen = 1..m /\ DOMAIN t = 1..m + 1 /\ m \in Nat
       /\ t[m + 1] = e /\ \A i \in 1..m : t[i] = screen[i]
  BY <1>4, <1>5, AppendedEvent
<1>16. Ascending(t) /\ Within(t, Listed)
  BY <1>4, <1>5, <1>10, <1>12, <1>14, AppendAscending, AppendWithin
<1> HIDE DEF t, m
<1>17. \A i \in DOMAIN t : i \in DOMAIN screen \/ i = m + 1
  BY <1>15
<1>18. Before(t, replay')
  BY <1>11, <1>13, <1>15, <1>17 DEF Before
<1>19. /\ screen' \in Seq(EventId) /\ Ascending(screen') /\ Within(screen', Listed)
       /\ Before(screen', replay')
  BY <1>2, <1>4, <1>10, <1>11, <1>15, <1>16, <1>18
<1>20. Rising(screen') /\ \A p \in Poller : Again(screen', p) = {}
  <2>1. ASSUME NEW s \in Seq(EventId), Ascending(s)
        PROVE  Rising(s) /\ \A p \in Poller : Again(s, p) = {}
    BY <2>1, AscendingOnce
  <2>2. QED
    BY <1>19, <2>1
<1>21. Single(screen')
  BY <1>20 DEF Single
<1>22. QED
  BY <1>1, <1>3, <1>4, <1>7, <1>19, <1>20, <1>21 DEF TailInv

\* The callback is registered after the replay.
LEMMA RegisterTail ==
  ASSUME RouteInv, TailInv, Register
  PROVE  TailInv'
<1>1. /\ sesMain = "replay" /\ sesMain' = "loop" /\ registered' = TRUE
      /\ UNCHANGED <<threadAt, emits, copied, recentList, replay, screen>>
  BY DEF Register, Main, routed
<1>2. Listed' = Listed
  BY <1>1 DEF Listed
<1>3. QED
  BY <1>1, <1>2 DEF TailInv

\* Every step keeps the order of the tail.
LEMMA TailStep ==
  ASSUME RouteInv, TailInv, [SesNext]_sesVars
  PROVE  TailInv'
<1>1. RouteInv'
  BY RouteStep
<1>2. ASSUME NEW p \in Poller, Emit(p) \/ RouteRecent(p) \/ RouteCopy(p) \/ RouteNotify(p)
      PROVE  TailInv'
  BY <1>1, <1>2, EmitTail, RecentTail, CopyTail, NotifyTail
<1>3. ASSUME NEW p \in Poller, RouteType(p) PROVE TailInv'
  <2>1. /\ GoTo(p, "locked") /\ threadAt[p] = "type"
        /\ UNCHANGED <<emits, recentList, replay, screen, registered, copied, sesMain>>
    BY <1>3 DEF RouteType, At, routed, sesMainVars
  <2>2. QED
    BY <2>1, MoveTail
<1>4. ASSUME NEW p \in Poller, RouteLocked(p) PROVE TailInv'
  <2>1. /\ GoTo(p, "recent") /\ threadAt[p] = "locked"
        /\ UNCHANGED <<emits, recentList, replay, screen, registered, copied, sesMain>>
    BY <1>4 DEF RouteLocked, At, sesMainVars
  <2>2. QED
    BY <2>1, MoveTail
<1>5. ASSUME NEW p \in Poller, PollerExit(p) PROVE TailInv'
  <2>1. /\ GoTo(p, "exited") /\ threadAt[p] = "idle"
        /\ UNCHANGED <<emits, recentList, replay, screen, registered, copied, sesMain>>
    BY <1>5 DEF PollerExit, At, routed, sesMainVars
  <2>2. QED
    BY <2>1, MoveTail
<1>6. ASSUME NEW p \in Poller, NotifyStuck(p) PROVE TailInv'
  <2>1. /\ GoTo(p, "stuck") /\ threadAt[p] = "notify"
        /\ UNCHANGED <<emits, recentList, replay, screen, registered, copied, sesMain>>
    BY <1>6 DEF NotifyStuck, At, routed, sesMainVars
  <2>2. QED
    BY <2>1, MoveTail
<1>7. ASSUME UNCHANGED <<threadAt, emits, copied, recentList, replay, screen, registered>>,
             sesMain' \in {sesMain, "crashed"}
      PROVE  TailInv'
  <2>1. Listed' = Listed
    BY <1>7 DEF Listed
  <2>2. QED
    BY <1>7, <2>1, TailKept
<1>8. ASSUME NEW p \in Poller, TornCrash(p) PROVE TailInv'
  BY <1>7, <1>8 DEF TornCrash, routed
<1>9. CASE SesTerm \/ Clock \/ UNCHANGED sesVars
  BY <1>7, <1>9 DEF SesTerm, Clock, sesVars, sesMainVars, routed
<1>10. CASE SesMain
  <2>1. CASE BeginTail \/ PrintRecent \/ Register
    BY <2>1, BeginTailKeeps, PrintTail, RegisterTail
  <2>2. CASE BeginPlain \/ LeaveLoop \/ DestroyEngine \/ SesExit
    BY <2>2, MainTail DEF BeginPlain, LeaveLoop, DestroyEngine, SesExit
  <2>3. QED
    BY <1>10, <2>1, <2>2 DEF SesMain
<1>11. QED
  BY <1>2, <1>3, <1>4, <1>5, <1>6, <1>8, <1>9, <1>10, StepOfSession

\* The invariant gives the promise.
LEMMA TailInOrder == TailInv => TailKeepsOrder
BY DEF TailInv, TailKeepsOrder, Rising, Single

-----------------------------------------------------------------------------
(* What is left of the session's types: the main thread, the unlocked part *)
(* of record, and the limit of recent_.                                    *)

MainInv ==
  /\ mode \in {"tail", "report", "plain"}
  /\ sesMain \in {"started", "replay", "report", "statistics", "loop", "returned",
                  "stopping", "exited", "crashed"}
  /\ sesRunning \in BOOLEAN /\ dangling \in BOOLEAN

RecordInv ==
  /\ statsHeld \in BOOLEAN
  /\ inserting \subseteq looking /\ looking \subseteq Poller
  /\ \A p \in Poller : emits[p] \in 0..Len(Kinds[p])
  /\ stamped \in [Poller -> 0..MaxMinute]

RecentInv == Len(recentList) <= MaxRecent

\* Every step keeps main within its places.
LEMMA MainInvStep ==
  ASSUME MainInv, [SesNext]_sesVars
  PROVE  MainInv'
<1>1. ASSUME NEW p \in Poller, Emit(p) \/ RouteType(p) \/ RouteLocked(p) \/ RouteRecent(p)
                               \/ RouteCopy(p) \/ PollerExit(p)
      PROVE  UNCHANGED <<mode, sesMain, sesRunning, dangling>>
  BY <1>1
  DEF Emit, RouteType, RouteLocked, RouteRecent, RouteCopy, PollerExit, sesMainVars
<1>2. ASSUME NEW p \in Poller, RouteNotify(p) \/ NotifyStuck(p)
      PROVE  UNCHANGED <<mode, sesMain, sesRunning>> /\ dangling' \in BOOLEAN
  BY <1>2 DEF RouteNotify, NotifyStuck, sesMainVars, MainInv
<1>3. ASSUME NEW p \in Poller, TornCrash(p)
      PROVE  UNCHANGED <<mode, sesRunning, dangling>> /\ sesMain' = "crashed"
  BY <1>3 DEF TornCrash
<1>4. ASSUME SesMain PROVE MainInv'
  <2>1. UNCHANGED <<mode, dangling, sesRunning>>
    BY <1>4 DEF SesMain, BeginPlain, BeginTail, PrintRecent, Register, LeaveLoop, DestroyEngine,
                SesExit, Main
  <2>2. sesMain' \in {"loop", "replay", "returned", "stopping", "exited"}
    BY <1>4 DEF SesMain, BeginPlain, BeginTail, PrintRecent, Register, LeaveLoop, DestroyEngine,
                SesExit, Main
  <2>3. QED
    BY <2>1, <2>2 DEF MainInv
<1>5. ASSUME SesTerm \/ Clock \/ UNCHANGED sesVars PROVE MainInv'
  BY <1>5 DEF SesTerm, Clock, sesVars, sesMainVars, MainInv
<1>6. ASSUME UNCHANGED <<mode, sesMain, sesRunning>>, dangling' \in BOOLEAN PROVE MainInv'
  BY <1>6 DEF MainInv
<1>7. QED
  <2>1. ASSUME NEW p \in Poller, Emit(p) \/ RouteType(p) \/ RouteLocked(p) \/ RouteRecent(p)
                                 \/ RouteCopy(p) \/ PollerExit(p)
        PROVE  MainInv'
    BY <1>1, <2>1 DEF MainInv
  <2>2. ASSUME NEW p \in Poller, RouteNotify(p) \/ NotifyStuck(p) PROVE MainInv'
    BY <1>2, <1>6, <2>2
  <2>3. ASSUME NEW p \in Poller, TornCrash(p) PROVE MainInv'
    BY <1>3, <2>3 DEF MainInv
  <2>4. QED
    BY <1>4, <1>5, <2>1, <2>2, <2>3, StepOfSession

\* Every step keeps record's types.
LEMMA RecordInvStep ==
  ASSUME RouteInv, RecordInv, [SesNext]_sesVars
  PROVE  RecordInv'
<1>1. ASSUME NEW p \in Poller, Emit(p) PROVE RecordInv'
  <2>1. /\ emits[p] < Len(Kinds[p]) /\ emits' = [emits EXCEPT ![p] = @ + 1]
        /\ stamped' = [stamped EXCEPT ![p] = minute]
        /\ looking' = looking \union {p}
        /\ inserting' = inserting \union {p} \/ inserting' = inserting
        /\ statsHeld' = statsHeld
    BY <1>1 DEF Emit, RecordBegin
  <2>2. /\ inserting' \subseteq looking' /\ looking' \subseteq Poller /\ statsHeld' \in BOOLEAN
    BY <2>1 DEF RecordInv
  <2>3. emits \in [Poller -> Nat] /\ Len(Kinds[p]) \in Nat
    BY StatisticsAssumption DEF RouteInv
  <2>4. ASSUME NEW q \in Poller PROVE emits'[q] \in 0..Len(Kinds[q])
    <3>1. CASE q = p
      BY <2>1, <2>3, <3>1
    <3>2. CASE q # p
      BY <2>1, <2>3, <3>2 DEF RecordInv
    <3>3. QED
      BY <3>1, <3>2
  <2>5. minute \in 0..MaxMinute
    BY StatisticsAssumption DEF RouteInv, Minute
  <2>6. stamped' \in [Poller -> 0..MaxMinute]
    BY <2>1, <2>5 DEF RecordInv
  <2>7. QED
    BY <2>2, <2>4, <2>6 DEF RecordInv
<1>2. ASSUME NEW p \in Poller, RouteType(p) PROVE RecordInv'
  <2>1. /\ looking' = looking \ {p} /\ inserting' = inserting \ {p}
        /\ UNCHANGED <<statsHeld, emits, stamped>>
    BY <1>2 DEF RouteType, RecordType, routed
  <2>2. QED
    BY <2>1 DEF RecordInv
<1>3. ASSUME NEW p \in Poller, RouteLocked(p) PROVE RecordInv'
  <2>1. /\ stamped' = [stamped EXCEPT ![p] = 0]
        /\ UNCHANGED <<statsHeld, emits, looking, inserting>>
    BY <1>3 DEF RouteLocked, RecordLocked
  <2>2. 0 \in 0..MaxMinute
    BY StatisticsAssumption
  <2>3. stamped' \in [Poller -> 0..MaxMinute]
    BY <2>1, <2>2 DEF RecordInv
  <2>4. QED
    BY <2>1, <2>3 DEF RecordInv
<1>4. ASSUME UNCHANGED <<statsHeld, inserting, looking, emits, stamped>> PROVE RecordInv'
  BY <1>4 DEF RecordInv
<1>5. ASSUME NEW p \in Poller, RouteRecent(p) \/ RouteCopy(p) \/ RouteNotify(p) \/ PollerExit(p)
                               \/ TornCrash(p) \/ NotifyStuck(p)
      PROVE  UNCHANGED <<statsHeld, inserting, looking, emits, stamped>>
  BY <1>5
  DEF RouteRecent, RouteCopy, RouteNotify, PollerExit, TornCrash, NotifyStuck, statsVars, routed
<1>6. ASSUME ThreadsRest PROVE UNCHANGED <<statsHeld, inserting, looking, emits, stamped>>
  BY <1>6 DEF ThreadsRest, statsVars, routed
<1>7. ASSUME Clock PROVE UNCHANGED <<statsHeld, inserting, looking, emits, stamped>>
  BY <1>7 DEF Clock, MinutePasses, routed
<1>8. QED
  BY <1>1, <1>2, <1>3, <1>4, <1>5, <1>6, <1>7, StepOfSession, MainRests

\* recent_ never grows beyond its limit.
LEMMA RecentInvStep ==
  ASSUME RouteInv, TailInv, RecentInv, [SesNext]_sesVars
  PROVE  RecentInv'
<1>1. ASSUME NEW p \in Poller, RouteRecent(p) PROVE RecentInv'
  <2> DEFINE s == Append(recentList, event[p])
  <2>1. recentList' = (IF Len(s) > MaxRecent THEN Tail(s) ELSE s) /\ threadAt[p] = "recent"
    BY <1>1 DEF RouteRecent, At
  <2>2. event[p] \in EventId /\ recentList \in Seq(EventId)
    BY <2>1 DEF RouteInv, Routing, Busy, TailInv
  <2>3. s \in Seq(EventId) /\ Len(s) = Len(recentList) + 1 /\ s # <<>> /\ Len(recentList) \in Nat
    BY <2>2
  <2> HIDE DEF s
  <2>4. Len(Tail(s)) = Len(s) - 1
    BY <2>3
  <2>5. QED
    BY <2>1, <2>3, <2>4, SessionAssumption DEF RecentInv
<1>2. ASSUME NEW p \in Poller, Emit(p) \/ RouteType(p) \/ RouteLocked(p) \/ RouteCopy(p)
                               \/ RouteNotify(p) \/ PollerExit(p) \/ TornCrash(p) \/ NotifyStuck(p)
      PROVE  recentList' = recentList
  BY <1>2
  DEF Emit, RouteType, RouteLocked, RouteCopy, RouteNotify, PollerExit, TornCrash, NotifyStuck
<1>3. ASSUME SesMain PROVE recentList' = recentList
  BY <1>3 DEF SesMain, BeginPlain, BeginTail, PrintRecent, Register, LeaveLoop, DestroyEngine,
              SesExit, Main
<1>4. ASSUME SesTerm \/ Clock \/ UNCHANGED sesVars PROVE recentList' = recentList
  BY <1>4 DEF SesTerm, Clock, sesVars
<1>5. QED
  BY <1>1, <1>2, <1>3, <1>4, StepOfSession DEF RecentInv

\* Initially they are right.
LEMMA TypesInit ==
  ASSUME NEW modes, modes \subseteq {"tail", "report", "plain"}, SesInitIn(modes)
  PROVE  MainInv /\ RecordInv /\ RecentInv
<1>1. MainInv
  BY DEF SesInitIn, MainInv
<1>2. RecordInv
  <2>1. /\ statsHeld = FALSE /\ inserting = {} /\ looking = {}
        /\ emits = [p \in Poller |-> 0] /\ stamped = [p \in Poller |-> 0]
    BY DEF SesInitIn, StatsInit
  <2>2. 0 \in 0..MaxMinute /\ \A p \in Poller : 0 \in 0..Len(Kinds[p])
    BY StatisticsAssumption
  <2>3. QED
    BY <2>1, <2>2 DEF RecordInv
<1>3. RecentInv
  BY SessionAssumption DEF SesInitIn, RecentInv
<1>4. QED
  BY <1>1, <1>2, <1>3

\* Together these are the types of the session.
LEMMA SessionTyped ==
  ASSUME RouteInv, CountsInv, BucketInv, TailInv, MainInv, RecordInv, RecentInv
  PROVE  SesTypeOK
<1>1. StatsTypeOK
  <2>1. total \in Nat
    BY FS_CardinalityType DEF CountsInv
  <2>2. QED
    BY <2>1 DEF StatsTypeOK, RouteInv, CountsInv, BucketInv, RecordInv
<1>2. ASSUME NEW s \in Seq(EventId) PROVE ToSet(s) \subseteq EventId
  BY DEF ToSet
<1>3. \A s \in {recentList, replay, screen} : ToSet(s) \subseteq EventId
  BY <1>2 DEF TailInv
<1>4. threadAt \in [Poller -> {"idle", "type", "locked", "recent", "copy", "notify", "stuck",
                               "exited"}]
  BY DEF RouteInv, Place
<1>5. {registered, dangling} \subseteq BOOLEAN /\ copied \in [Poller -> BOOLEAN]
  BY DEF TailInv, MainInv
<1>6. \A p \in Poller : event[p] \in EventId \union {NoEvent}
  BY DEF RouteInv
<1>7. QED
  BY <1>1, <1>3, <1>4, <1>5, <1>6 DEF SesTypeOK, MainInv, RecordInv, RecentInv

-----------------------------------------------------------------------------
(* The program: every step is one of the component's, or leaves it alone.  *)

\* A step of the program is one of the updater, the end of it, or leaves it alone.
LEMMA StepOfUpdater ==
  ASSUME UpdInv, [ProgramNext]_allVars
  PROVE  UpdInv'
<1>1. CASE Updating
  BY <1>1, UpdInvStep DEF Updating
<1>2. CASE UNCHANGED updVars
  BY <1>2, UpdInvStep
<1>3. CASE BeginCommand
  <2>1. /\ updAt' = "done" /\ current' = AnyOf(Versions) /\ latest' = <<>> /\ polls' = 0
        /\ available' = FALSE /\ child' = "none" /\ signalled' = FALSE /\ reaped' = "nothing"
        /\ childIgnored' = FALSE /\ message' = "none"
    BY <1>3 DEF BeginCommand
  <2>2. current' \in Versions
    BY <2>1 DEF UpdInv, UpdTypeOK, AnyOf
  <2>3. polls' \in 0..MaxPolls
    BY <2>1, UpdaterAssumption
  <2>4. UpdTypeOK'
    BY <2>1, <2>2, <2>3 DEF UpdTypeOK
  <2>5. Offer' /\ Outcome'
    BY <2>1 DEF Offer, Outcome
  <2>6. QED
    BY <2>4, <2>5 DEF UpdInv
<1>4. QED
  BY <1>1, <1>2, <1>3
  DEF ProgramNext, Query, Diff, ValidateConfig, Watch, RunSession, RunDaemon, allVars

\* The other components take steps of their own or none.  The daemon.
LEMMA DaemonStep ==
  ASSUME [ProgramNext]_allVars
  PROVE  [DaemonNext]_daemonVars
BY DEF ProgramNext, BeginCommand, Updating, Query, Diff, ValidateConfig, Watch, RunSession,
       RunDaemon, allVars

\* The session.
LEMMA SessionStep ==
  ASSUME [ProgramNext]_allVars
  PROVE  [SesNext]_sesVars
BY DEF ProgramNext, BeginCommand, Updating, Query, Diff, ValidateConfig, Watch, RunSession,
       RunDaemon, allVars

\* The query.
LEMMA QueryStep ==
  ASSUME [ProgramNext]_allVars
  PROVE  [Next]_vars
BY DEF ProgramNext, BeginCommand, Updating, Query, Diff, ValidateConfig, Watch, RunSession,
       RunDaemon, allVars

\* The comparison of snapshots.
LEMMA DiffStep ==
  ASSUME [ProgramNext]_allVars
  PROVE  [DiffNext]_diffVars
BY DEF ProgramNext, BeginCommand, Updating, Query, Diff, ValidateConfig, Watch, RunSession,
       RunDaemon, allVars

\* The validator and the store.
LEMMA StoreStep ==
  ASSUME [ProgramNext]_allVars
  PROVE  [StoreNext]_storeVars
BY DEF ProgramNext, BeginCommand, Updating, Query, Diff, ValidateConfig, Watch, RunSession,
       RunDaemon, allVars

(***************************************************************************)
(* What holds throughout a query, for any events, filters and page sizes:  *)
(* what was read of the file is what it begins with, and the matching      *)
(* events not shown so far are still to come (FileStorage::iterate,        *)
(* EventQuery::query).                                                     *)
(***************************************************************************)
THEOREM QueryInvariant == ProgramSpec => []QueryInv
<1>1. ProgramInit => QueryInv
  BY QueryInvInit DEF ProgramInit
<1>2. QueryInv /\ [ProgramNext]_allVars => QueryInv'
  BY QueryStep, QueryInvStep
<1>3. QED
  BY <1>1, <1>2, PTL DEF ProgramSpec

\* A query's variables stay in their ranges (EventQuery::query).
THEOREM QueryTypes == ProgramSpec => []TypeOK
<1>1. QueryInv => TypeOK
  BY QueryInvPages
<1>2. QED
  BY <1>1, QueryInvariant, PTL

(***************************************************************************)
(* A reader that pages until a page is empty has seen every match that was *)
(* stored when it began and shares its time with no other, for any events  *)
(* appended between its pages, in any order of their times, and for any    *)
(* page size (EventQuery::query).                                          *)
(***************************************************************************)
THEOREM PagesComplete == ProgramSpec => []PagingSkipsNothing
<1>1. QueryInv => PagingSkipsNothing
  BY QueryInvPages
<1>2. QED
  BY <1>1, QueryInvariant, PTL

(***************************************************************************)
(* An event read back alone from its line is the event stored, line breaks *)
(* of attributes and summary apart, exactly when none of its fields holds  *)
(* a separator: for texts of any length over any symbols                   *)
(* (serialize_event, parse_event, FileStorage::iterate).                   *)
(***************************************************************************)
THEOREM RoundTrip == ProgramSpec => []RoundTripExactlyIfClean
<1>1. QueryInv => RoundTripExactlyIfClean
  BY QueryInvRoundTrip
<1>2. QED
  BY <1>1, QueryInvariant, PTL

(***************************************************************************)
(* The storage file is read back as the events would be one by one, each   *)
(* alone in a file, and a clean one as itself: whatever separators its     *)
(* neighbours hold (FileStorage::insert, FileStorage::iterate).            *)
(***************************************************************************)
THEOREM DamageLocal == ProgramSpec => []DamageStaysLocal
<1>1. QueryInv => DamageStaysLocal
  BY QueryInvDamage
<1>2. QED
  BY <1>1, QueryInvariant, PTL

(***************************************************************************)
(* What holds from the first capture to the exit code, for any host and    *)
(* any changes of it: the files hold items of the host's types, are still  *)
(* snapshots of it if it has not changed, and the exit code is what their  *)
(* comparison gives (SnapshotGenerator::generate, SnapshotDiff::run).      *)
(***************************************************************************)
THEOREM DiffInvariant == ProgramSpec => []DiffInv
<1>1. ProgramInit => DiffInv
  <2>1. AnyOf(Hosts) \in Hosts
    BY HostsAssumption DEF AnyOf
  <2>2. QED
    BY <2>1, DiffInvInit DEF ProgramInit
<1>2. DiffInv /\ [ProgramNext]_allVars => DiffInv'
  BY DiffStep, DiffInvStep
<1>3. QED
  BY <1>1, <1>2, PTL DEF ProgramSpec

(***************************************************************************)
(* --snapshot-diff exits with 0 just when the two files say the same, as   *)
(* far as the digits shown go and keys are unique, and does so for a host  *)
(* that has not changed: for any number of processes, connections and      *)
(* variables (capture_processes, index_array, diff_array_section).         *)
(***************************************************************************)
THEOREM DiffTellsTruth == ProgramSpec => []DiffHonest
<1>1. DiffInv => DiffHonest
  BY DiffInvHonest
<1>2. QED
  BY <1>1, DiffInvariant, PTL

(***************************************************************************)
(* A file --validate-config passes is honoured when it is loaded, for all  *)
(* files of any length: the invariant is that the verdict and the store    *)
(* are made from the same lines (ConfigValidator::validate,                *)
(* ConfigStore::load).                                                     *)
(***************************************************************************)
THEOREM ValidatedHonoured == ProgramSpec => []ValidatedMeansHonoured
<1>1. ProgramInit => StoreInv
  BY StoreInvInit DEF ProgramInit
<1>2. StoreInv /\ [ProgramNext]_allVars => StoreInv'
  BY StoreStep, StoreInvStep
<1>3. StoreInv => ValidatedMeansHonoured
  BY StoreInvHonours
<1>4. QED
  BY <1>1, <1>2, <1>3, PTL DEF ProgramSpec

(***************************************************************************)
(* An update is offered exactly when the latest version is greater, for    *)
(* all versions of up to three parts, and the user is told the truth about *)
(* git (check_for_update, compare_versions, prompt_update).                *)
(***************************************************************************)
THEOREM UpdaterHonest == ProgramSpec => []UpdateHonest
<1>1. ProgramInit => UpdInv
  BY UpdInvInit DEF ProgramInit
<1>2. UpdInv /\ [ProgramNext]_allVars => UpdInv'
  BY StepOfUpdater
<1>3. UpdInv => UpdateHonest
  BY Zenon DEF UpdInv, Offer, Outcome, UpdateHonest
<1>4. QED
  BY <1>1, <1>2, <1>3, PTL DEF ProgramSpec

\* The session's invariants together.
SessionInv ==
  RouteInv /\ CountsInv /\ BucketInv /\ TailInv /\ MainInv /\ RecordInv /\ RecentInv

(***************************************************************************)
(* What holds throughout a session, for any number of monitors, events and *)
(* types: a busy thread routes its monitor's latest event; each counter    *)
(* has counted just the events whose threads have passed it (record); and  *)
(* the screen, the replay and recent_ hold a monitor's events in order     *)
(* (route_event, TailWatcher::run).                                        *)
(***************************************************************************)
THEOREM SessionInvariant == ProgramSpec => []SessionInv
<1>1. ProgramInit => SessionInv
  <2>1. ASSUME NEW modes, modes \subseteq {"tail", "report", "plain"}, SesInitIn(modes)
        PROVE  SessionInv
    BY <2>1, RouteInit, CountsInit, BucketInit, TailInit, TypesInit DEF SessionInv
  <2>2. QED
    BY <2>1 DEF ProgramInit
<1>2. SessionInv /\ [ProgramNext]_allVars => SessionInv'
  BY SessionStep, RouteStep, CountsStep, BucketStep, TailStep, MainInvStep, RecordInvStep,
     RecentInvStep
  DEF SessionInv
<1>3. QED
  BY <1>1, <1>2, PTL DEF ProgramSpec

(***************************************************************************)
(* Every variable of a session stays in its range; recent_ stays within    *)
(* its limit (route_event, record, TailWatcher::run).                      *)
(***************************************************************************)
THEOREM SessionTypes == ProgramSpec => []SesTypeOK
<1>1. SessionInv => SesTypeOK
  BY SessionTyped DEF SessionInv
<1>2. QED
  BY <1>1, SessionInvariant, PTL

(***************************************************************************)
(* The statistics agree with the events emitted whenever no thread is in   *)
(* the middle of recording one, the minutes a report looks at are counted  *)
(* exactly and the minutes kept stay bounded: for every interleaving of    *)
(* any number of monitors (record, prune_time_buckets).                    *)
(***************************************************************************)
THEOREM StatisticsAgree == ProgramSpec => []StatsConsistent
<1>1. SessionInv => StatsConsistent
  BY CountersConsistent DEF SessionInv
<1>2. QED
  BY <1>1, SessionInvariant, PTL

(***************************************************************************)
(* --tail prints every monitor's events in the order emitted and repeats   *)
(* at most one of each monitor's, for any limits of recent_ and the replay *)
(* (TailWatcher::run, route_event, recent_events).                         *)
(***************************************************************************)
THEOREM TailInEmissionOrder == ProgramSpec => []TailKeepsOrder
<1>1. SessionInv => TailKeepsOrder
  BY TailInOrder DEF SessionInv
<1>2. QED
  BY <1>1, SessionInvariant, PTL

(***************************************************************************)
(* The invariant: as long as no two starts overlap, one start at most is   *)
(* engaged, its stream is the file's, and what it wrote stays until it     *)
(* ends (is_already_running, daemonize, write_pid_file, remove_pid_file).  *)
(***************************************************************************)
THEOREM DaemonInvariant == ProgramSpec => []DaemonInv
<1>1. ProgramInit => DaemonInv
  BY DaemonInvInit DEF ProgramInit
<1>2. DaemonInv /\ [ProgramNext]_allVars => DaemonInv'
  BY DaemonStep, DaemonStepInv
<1>3. QED
  BY <1>1, <1>2, PTL DEF ProgramSpec

(***************************************************************************)
(* For any number of starts: unless two overlap, at most one daemon is up, *)
(* the PID file names it, and a name left behind is that of a daemon that  *)
(* did not end by SIGTERM.                                                 *)
(***************************************************************************)
THEOREM PidFileHonest == ProgramSpec => []PidFileTellsTruth
<1>1. DaemonInv => PidFileTellsTruth
  BY DEF DaemonInv, PidFileTellsTruth, Up, OneEngaged, Engaged, WrittenStays, LeftBehind
<1>2. QED
  BY <1>1, DaemonInvariant, PTL

=============================================================================
