------------------------- MODULE FileStorage_proofs -------------------------
(***************************************************************************)
(* Theorems about FileStorage, for every rotation size, every number of    *)
(* backups, every sequence of calls, failures and crashes:                 *)
(*   StorageOrder       types and order of the files (OrderInv)            *)
(*   StorageInOrder     BackupsInOrder                                     *)
(*   StorageLosesNone   NoEventLost                                        *)
(*   StorageCounts      CountersMatchFile                                  *)
(*   StorageDamage      CrashDamageBounded                                 *)
(*   StorageIsLog       ImplementsLog: the event log is implemented        *)
(***************************************************************************)
EXTENDS FileStorage, FiniteSetTheorems, TLAPS

-----------------------------------------------------------------------------
(* The inductive invariants.                                               *)

\* The lines of a file are in insertion order, one behind the other.
Ordered(f) ==
  \A a, b \in DOMAIN f : a < b => f[a].ev < f[b].ev /\ f[a].end <= f[b].end

\* Every event of f is older than every event of g; than event e.
Older(f, g) == \A a \in DOMAIN f, b \in DOMAIN g : f[a].ev < g[b].ev
Before(f, e) == \A a \in DOMAIN f : f[a].ev < e

\* The active file f and the backups b are in order, and hold no event from n on.
InOrder(f, b, n) ==
  /\ Ordered(f)
  /\ Before(f, n)
  /\ \A i \in 1..MaxBackups : Ordered(b[i]) /\ Before(b[i], n) /\ Older(b[i], f)
  /\ \A i, j \in 1..MaxBackups : i < j => Older(b[j], b[i])

\* What is written: a text or a part of one.
Part == [lines : Nat \ {0}, ok : BOOLEAN, nl : BOOLEAN]

\* g holds neighbouring texts of f, each complete if it was, but perhaps for the
\* first and the last one.
CopyOf(g, f) ==
  /\ Ordered(g)
  /\ \E k \in 0..Len(f) :
       /\ Len(g) <= Len(f) - k
       /\ \A a \in 1..Len(g) :
            /\ g[a].ev = f[a + k].ev
            /\ g[a].ok => f[a + k].ok
            /\ 1 < a /\ a < Len(g) => g[a].ok = f[a + k].ok

\* g is f, or f up to a text of which a part may be missing.
CopyUpTo(g, f) ==
  /\ Ordered(g)
  /\ Len(g) <= Len(f)
  /\ \A a \in 1..Len(g) :
       /\ g[a].ev = f[a].ev
       /\ g[a].ok => f[a].ok
       /\ a < Len(g) => g[a].ok = f[a].ok

\* What prune() knows between the copy and the rename.
Copied(f, c, n, g) ==
  /\ c > n
  /\ CopyOf(g, f)
  /\ \A k \in Cut(c - n) : CopyUpTo(g, Kept(k, c - n))

\* A rotation runs only when backups are configured, over their numbers.
Rotating ==
  /\ op \in {"remove", "shift"} => maxFiles > 0
  /\ op = "shift" => arg < maxFiles

OrderInv ==
  /\ TypeOK
  /\ Rotating
  /\ InOrder(file, backup, next)
  /\ op = "prune" => Copied(file, count, arg, tmp)

\* Where event e, handed to insert(), can be.
Stored(e, f, b) == e \in Intact(f) \/ \E i \in 1..MaxBackups : e \in Intact(b[i])
Gone == refused \union discarded \union damaged \union unwritten

LossInv ==
  /\ Gone \subseteq 1..next - 1
  /\ ~failed /\ op = "shift" => backup[arg + 1] = <<>>
  /\ ~failed => \A e \in 1..next - 1 : e \in Gone \/ Stored(e, file, backup)

\* While no write has failed or been cut short nothing is damaged.
CleanInv ==
  torn = 0 =>
    /\ \A a \in DOMAIN file : file[a].nl = TRUE
    /\ bad = FALSE
    /\ damaged = {}
    /\ unwritten = {}

\* If, besides, no rename failed the counters are right in every state in which
\* they are used, except that a storage that was never opened has counted nothing.
Exact(f) == bytes = Bytes(f) /\ count <= Bytes(f) /\ Bytes(f) <= count + breaks
CounterInv ==
  ~failed /\ torn = 0 =>
    /\ op \in {"down", "idle", "prune"} => Exact(file) \/ (isOpen = FALSE /\ count = 0)
    /\ op = "reopen" => file = <<>>

\* The events that the next write to f would add to the damaged ones, d.
Debt(f, d) ==
  IF f = <<>> \/ f[Len(f)].nl THEN 0 ELSE IF f[Len(f)].ev \in d THEN 1 ELSE 2
DamageInv == Cardinality(damaged) + Debt(file, damaged) <= 2 * torn

-----------------------------------------------------------------------------
(* Lemmas about the operators of the model.                                *)

\* MaxBackups is a natural number that bounds every configured number of files.
LEMMA MaxBackupsNat == MaxBackups \in Nat /\ \A n \in FileCounts : n <= MaxBackups
BY StorageAssumption DEF MaxBackups

\* Every line ends at or before the end of the file; Bytes is a number.
LEMMA BytesLast ==
  ASSUME NEW f \in Seq(Line), Ordered(f)
  PROVE  Bytes(f) \in Nat /\ \A a \in DOMAIN f : f[a].end <= Bytes(f)
<1>1. CASE f = <<>>
  BY <1>1 DEF Bytes
<1>2. CASE f # <<>>
  <2>1. Len(f) \in DOMAIN f /\ f[Len(f)] \in Line
    BY <1>2
  <2>2. Bytes(f) = f[Len(f)].end
    BY <1>2 DEF Bytes
  <2>3. \A a \in DOMAIN f : a <= Len(f) /\ a \in Nat
    OBVIOUS
  <2>4. Bytes(f) \in Nat
    BY <2>1, <2>2 DEF Line
  <2> QED
    BY <2>1, <2>2, <2>3, <2>4 DEF Ordered
<1> QED
  BY <1>1, <1>2

\* What writing event e to file f gives: the lines before the last one written
\* stay, and the last one is either a new line for e or the torn line, longer.
LEMMA AppendTextShape ==
  ASSUME NEW f \in Seq(Line), Ordered(f), NEW e \in 1..MaxEvents,
         NEW p \in Part,
         NEW g, g = AppendText(f, e, p)
  PROVE  /\ g \in Seq(Line)
         /\ g # <<>>
         /\ \/ /\ f = <<>> \/ f[Len(f)].nl
               /\ Len(g) = Len(f) + 1
               /\ \A a \in 1..Len(f) : g[a] = f[a]
               /\ g[Len(g)] = [ev |-> e, ok |-> p.ok, nl |-> p.nl, end |-> Bytes(f) + p.lines]
            \/ /\ f # <<>> /\ ~f[Len(f)].nl
               /\ Len(g) = Len(f)
               /\ \A a \in 1..Len(f) - 1 : g[a] = f[a]
               /\ g[Len(g)] = [ev |-> f[Len(f)].ev, ok |-> FALSE, nl |-> p.nl,
                               end |-> f[Len(f)].end + p.lines - 1]
<1>1. CASE f = <<>> \/ f[Len(f)].nl
  <2> DEFINE l == [ev |-> e, ok |-> p.ok, nl |-> p.nl, end |-> Bytes(f) + p.lines]
  <2>0. Bytes(f) + p.lines \in Nat /\ p.ok \in BOOLEAN /\ p.nl \in BOOLEAN
    BY BytesLast DEF Part
  <2>1. l \in Line
    BY <2>0 DEF Line
  <2>2. g = Append(f, l)
    BY <1>1 DEF AppendText
  <2> HIDE DEF l
  <2>3. g \in Seq(Line) /\ Len(g) = Len(f) + 1 /\ g[Len(f) + 1] = l
    BY <2>1, <2>2
  <2>4. \A a \in 1..Len(f) : g[a] = f[a]
    BY <2>1, <2>2
  <2>5. g # <<>>
    BY <2>3
  <2> QED
    BY <1>1, <2>3, <2>4, <2>5 DEF l
<1>2. CASE f # <<>> /\ ~f[Len(f)].nl
  <2> DEFINE l == [ev |-> f[Len(f)].ev, ok |-> FALSE, nl |-> p.nl,
                   end |-> f[Len(f)].end + p.lines - 1]
  <2>1. Len(f) \in 1..Len(f) /\ f[Len(f)] \in Line
    BY <1>2
  <2>0. p.lines \in Nat \ {0} /\ p.nl \in BOOLEAN
    BY DEF Part
  <2>2. l \in Line
    BY <2>0, <2>1 DEF Line
  <2>3. g = [f EXCEPT ![Len(f)] = l]
    BY <1>2 DEF AppendText
  <2> HIDE DEF l
  <2>4. g \in Seq(Line) /\ Len(g) = Len(f) /\ g[Len(f)] = l
    BY <2>1, <2>2, <2>3
  <2>5. \A a \in 1..Len(f) - 1 : g[a] = f[a]
    BY <2>1, <2>3
  <2>6. g # <<>>
    BY <2>1, <2>4
  <2> QED
    BY <1>2, <2>4, <2>5, <2>6 DEF l
<1> QED
  BY <1>1, <1>2

\* The shape of Line, for the events of a file.
LEMMA LineFields ==
  ASSUME NEW f \in Seq(Line), NEW a \in DOMAIN f
  PROVE  /\ a \in 1..Len(f)
         /\ f[a].ev \in 1..MaxEvents
         /\ f[a].ok \in BOOLEAN
         /\ f[a].nl \in BOOLEAN
         /\ f[a].end \in Nat
<1>1. a \in 1..Len(f) /\ f[a] \in Line
  OBVIOUS
<1> QED
  BY <1>1 DEF Line

\* A write keeps the files in order when its event is newer than all others.
LEMMA AppendInOrder ==
  ASSUME NEW f \in Seq(Line), NEW b \in [1..MaxBackups -> Seq(Line)],
         NEW e \in 1..MaxEvents, NEW p \in Part,
         InOrder(f, b, e)
  PROVE  InOrder(AppendText(f, e, p), b, e + 1)
<1> DEFINE g == AppendText(f, e, p)
<1>0. Ordered(f) /\ Before(f, e) /\ p.lines \in Nat \ {0}
  BY DEF InOrder, Part
<1>1. /\ g \in Seq(Line)
      /\ \A a \in DOMAIN g : \/ a \in DOMAIN f /\ g[a].ev = f[a].ev
                             \/ a = Len(g) /\ g[a].ev = e
      /\ \A a \in DOMAIN g : a # Len(g) => a \in DOMAIN f /\ g[a].end = f[a].end
      /\ g # <<>>
      /\ f # <<>> => g[Len(g)].end >= f[Len(f)].end
  <2> HIDE DEF g
  <2>0. g = AppendText(f, e, p)
    BY DEF g
  <2>1. /\ g \in Seq(Line)
        /\ g # <<>>
        /\ \/ /\ f = <<>> \/ f[Len(f)].nl
              /\ Len(g) = Len(f) + 1
              /\ \A a \in 1..Len(f) : g[a] = f[a]
              /\ g[Len(g)] = [ev |-> e, ok |-> p.ok, nl |-> p.nl, end |-> Bytes(f) + p.lines]
           \/ /\ f # <<>> /\ ~f[Len(f)].nl
              /\ Len(g) = Len(f)
              /\ \A a \in 1..Len(f) - 1 : g[a] = f[a]
              /\ g[Len(g)] = [ev |-> f[Len(f)].ev, ok |-> FALSE, nl |-> p.nl,
                              end |-> f[Len(f)].end + p.lines - 1]
    BY <1>0, <2>0, AppendTextShape
  <2>2. DOMAIN f = 1..Len(f) /\ DOMAIN g = 1..Len(g) /\ Len(f) \in Nat
    BY <2>1
  <2>3. f # <<>> => Len(f) \in DOMAIN f
    OBVIOUS
  <2>4. f # <<>> => f[Len(f)].end \in Nat
    BY <2>3, LineFields
  <2>5. f # <<>> => Bytes(f) = f[Len(f)].end
    BY DEF Bytes
  <2>6. CASE /\ f = <<>> \/ f[Len(f)].nl
             /\ Len(g) = Len(f) + 1
             /\ \A a \in 1..Len(f) : g[a] = f[a]
             /\ g[Len(g)] = [ev |-> e, ok |-> p.ok, nl |-> p.nl, end |-> Bytes(f) + p.lines]
    <3>1. g[Len(g)].ev = e /\ g[Len(g)].end = Bytes(f) + p.lines
      BY <2>6
    <3>2. \A a \in DOMAIN g : a # Len(g) => a \in DOMAIN f /\ g[a] = f[a]
      BY <2>2, <2>6
    <3> QED
      BY <1>0, <2>1, <2>4, <2>5, <3>1, <3>2
  <2>7. CASE /\ f # <<>> /\ ~f[Len(f)].nl
             /\ Len(g) = Len(f)
             /\ \A a \in 1..Len(f) - 1 : g[a] = f[a]
             /\ g[Len(g)] = [ev |-> f[Len(f)].ev, ok |-> FALSE, nl |-> p.nl,
                             end |-> f[Len(f)].end + p.lines - 1]
    <3>1. g[Len(g)].ev = f[Len(g)].ev /\ g[Len(g)].end = f[Len(f)].end + p.lines - 1
      BY <2>7
    <3>2. \A a \in DOMAIN g : a # Len(g) => a \in DOMAIN f /\ g[a] = f[a]
      BY <2>2, <2>7
    <3>3. Len(g) \in DOMAIN f
      BY <2>3, <2>7
    <3> QED
      BY <1>0, <2>1, <2>4, <3>1, <3>2, <3>3, <2>7
  <2> QED
    BY <2>1, <2>6, <2>7
<1> HIDE DEF g
<1>2. \A a \in DOMAIN f : f[a].ev \in Nat /\ f[a].end \in Nat /\ a \in 1..Len(f)
  BY LineFields
<1>3. Before(g, e + 1)
  BY <1>0, <1>1, <1>2, SMTT(30) DEF Before
<1>4. Ordered(g)
  <2> SUFFICES ASSUME NEW c \in DOMAIN g, NEW d \in DOMAIN g, c < d
               PROVE  g[c].ev < g[d].ev /\ g[c].end <= g[d].end
    BY DEF Ordered
  <2>1. c \in 1..Len(g) /\ d \in 1..Len(g) /\ Len(g) \in Nat
    BY <1>1
  <2>2. c # Len(g) /\ c \in DOMAIN f /\ g[c].ev = f[c].ev /\ g[c].end = f[c].end
    BY <1>1, <2>1
  <2>3. g[c].ev < g[d].ev
    BY <1>0, <1>1, <2>2 DEF Ordered, Before
  <2>4. CASE d # Len(g)
    BY <1>0, <1>1, <2>2, <2>3, <2>4 DEF Ordered
  <2>5. CASE d = Len(g)
    <3>1. f # <<>> /\ Len(f) \in DOMAIN f /\ c <= Len(f)
      BY <2>2, <1>2
    <3>2. f[c].end <= f[Len(f)].end
      BY <1>0, <1>2, <3>1, <2>2 DEF Ordered
    <3>3. g[Len(g)] \in Line
      BY <1>1
    <3>4. g[Len(g)].end \in Nat
      BY <3>3 DEF Line
    <3> QED
      BY <1>1, <1>2, <2>2, <2>3, <2>5, <3>1, <3>2, <3>4
  <2> QED
    BY <2>4, <2>5
<1>5. \A i \in 1..MaxBackups : Ordered(b[i]) /\ Before(b[i], e + 1) /\ Older(b[i], g)
  <2> SUFFICES ASSUME NEW i \in 1..MaxBackups
               PROVE  Ordered(b[i]) /\ Before(b[i], e + 1) /\ Older(b[i], g)
    OBVIOUS
  <2>1. Ordered(b[i]) /\ Before(b[i], e) /\ Older(b[i], f)
    BY DEF InOrder
  <2>2. b[i] \in Seq(Line)
    OBVIOUS
  <2>3. \A a \in DOMAIN b[i] : b[i][a].ev \in Nat
    BY <2>2, LineFields
  <2>4. Before(b[i], e + 1)
    BY <2>1, <2>3 DEF Before
  <2>5. Older(b[i], g)
    BY <1>1, <2>1 DEF Older, Before
  <2> QED
    BY <2>1, <2>4, <2>5
<1>6. \A i, j \in 1..MaxBackups : i < j => Older(b[j], b[i])
  BY DEF InOrder
<1> QED
  BY <1>3, <1>4, <1>5, <1>6 DEF InOrder, g

\* The files stay in order when an event is refused, a backup is removed, a
\* backup is renamed, the file becomes the first backup, or a copy replaces it.
LEMMA RefuseInOrder ==
  ASSUME NEW f \in Seq(Line), NEW b \in [1..MaxBackups -> Seq(Line)],
         NEW e \in Nat, InOrder(f, b, e)
  PROVE  InOrder(f, b, e + 1)
<1>1. \A a \in DOMAIN f : f[a].ev \in Nat
  BY LineFields
<1>2. \A i \in 1..MaxBackups : \A a \in DOMAIN b[i] : b[i][a].ev \in Nat
  <2> SUFFICES ASSUME NEW i \in 1..MaxBackups, NEW a \in DOMAIN b[i]
               PROVE  b[i][a].ev \in Nat
    OBVIOUS
  <2>1. b[i] \in Seq(Line)
    OBVIOUS
  <2> QED
    BY <2>1, LineFields
<1> QED
  BY <1>1, <1>2 DEF InOrder, Before

LEMMA RemoveInOrder ==
  ASSUME NEW f, NEW b \in [1..MaxBackups -> Seq(Line)], NEW e,
         NEW k \in 1..MaxBackups, InOrder(f, b, e)
  PROVE  InOrder(f, [b EXCEPT ![k] = <<>>], e)
<1> DEFINE c == [b EXCEPT ![k] = <<>>]
<1>1. \A i \in 1..MaxBackups : c[i] = <<>> \/ c[i] = b[i]
  OBVIOUS
<1> HIDE DEF c
<1>2. \A g : Ordered(<<>>) /\ Before(<<>>, e) /\ Older(<<>>, g) /\ Older(g, <<>>)
  BY DEF Ordered, Before, Older
<1>3. \A i \in 1..MaxBackups : Ordered(c[i]) /\ Before(c[i], e) /\ Older(c[i], f)
  BY <1>1, <1>2, Zenon DEF InOrder
<1>4. \A i, j \in 1..MaxBackups : i < j => Older(c[j], c[i])
  BY <1>1, <1>2, Zenon DEF InOrder
<1>5. Ordered(f) /\ Before(f, e)
  BY DEF InOrder
<1> QED
  BY <1>3, <1>4, <1>5, Zenon DEF InOrder, c

LEMMA RenameInOrder ==
  ASSUME NEW f, NEW b \in [1..MaxBackups -> Seq(Line)], NEW e,
         NEW k \in 1..MaxBackups, k + 1 \in 1..MaxBackups, InOrder(f, b, e)
  PROVE  InOrder(f, Renamed(b, k), e)
<1>1. CASE b[k] = <<>>
  BY <1>1 DEF Renamed
<1>2. CASE b[k] # <<>>
  <2> DEFINE c == [b EXCEPT ![k] = <<>>, ![k + 1] = b[k]]
  <2>1. /\ c[k] = <<>>
        /\ c[k + 1] = b[k]
        /\ \A i \in 1..MaxBackups : i # k /\ i # k + 1 => c[i] = b[i]
    OBVIOUS
  <2> HIDE DEF c
  <2>2. \A g : Ordered(<<>>) /\ Before(<<>>, e) /\ Older(<<>>, g) /\ Older(g, <<>>)
    BY DEF Ordered, Before, Older
  <2>3. \A i \in 1..MaxBackups : Ordered(c[i]) /\ Before(c[i], e) /\ Older(c[i], f)
    BY <2>1, <2>2 DEF InOrder
  <2>4. ASSUME NEW i \in 1..MaxBackups, NEW j \in 1..MaxBackups, i < j
        PROVE  Older(c[j], c[i])
    <3>0. MaxBackups \in Nat
      BY MaxBackupsNat
    <3>1. CASE i = k \/ j = k
      BY <2>1, <2>2, <3>1
    <3>2. CASE i # k /\ j # k /\ i = k + 1
      <4>1. k < j /\ j # k + 1
        BY <2>4, <3>2, <3>0
      <4> QED
        BY <2>1, <3>2, <4>1 DEF InOrder
    <3>3. CASE i # k /\ j # k /\ j = k + 1
      <4>1. i < k /\ i # k + 1
        BY <2>4, <3>3, <3>0
      <4> QED
        BY <2>1, <3>3, <4>1 DEF InOrder
    <3>4. CASE i # k /\ j # k /\ i # k + 1 /\ j # k + 1
      BY <2>1, <2>4, <3>4 DEF InOrder
    <3> QED
      BY <3>1, <3>2, <3>3, <3>4
  <2>5. Ordered(f) /\ Before(f, e)
    BY DEF InOrder
  <2>6. Renamed(b, k) = c
    BY <1>2 DEF Renamed, c
  <2> QED
    BY <2>3, <2>4, <2>5, <2>6 DEF InOrder
<1> QED
  BY <1>1, <1>2

LEMMA FirstInOrder ==
  ASSUME NEW f \in Seq(Line), NEW b \in [1..MaxBackups -> Seq(Line)], NEW e,
         1 \in 1..MaxBackups, InOrder(f, b, e)
  PROVE  InOrder(<<>>, [b EXCEPT ![1] = f], e)
<1> DEFINE c == [b EXCEPT ![1] = f]
<1>1. c[1] = f /\ \A i \in 1..MaxBackups : i # 1 => c[i] = b[i]
  OBVIOUS
<1> HIDE DEF c
<1>2. \A g : Ordered(<<>>) /\ Before(<<>>, e) /\ Older(<<>>, g) /\ Older(g, <<>>)
  BY DEF Ordered, Before, Older
<1>3. \A i \in 1..MaxBackups : Ordered(c[i]) /\ Before(c[i], e) /\ Older(c[i], <<>>)
  BY <1>1, <1>2 DEF InOrder
<1>4. \A i, j \in 1..MaxBackups : i < j => Older(c[j], c[i])
  <2> SUFFICES ASSUME NEW i \in 1..MaxBackups, NEW j \in 1..MaxBackups, i < j
               PROVE  Older(c[j], c[i])
    OBVIOUS
  <2>1. j # 1
    BY MaxBackupsNat
  <2> QED
    BY <1>1, <2>1 DEF InOrder
<1> QED
  BY <1>2, <1>3, <1>4 DEF InOrder, c

LEMMA CopyInOrder ==
  ASSUME NEW f \in Seq(Line), NEW g \in Seq(Line),
         NEW b \in [1..MaxBackups -> Seq(Line)], NEW e,
         InOrder(f, b, e), CopyOf(g, f)
  PROVE  InOrder(g, b, e)
<1>1. \A a \in DOMAIN g : \E c \in DOMAIN f : g[a].ev = f[c].ev
  <2>1. PICK k \in 0..Len(f) :
          /\ Len(g) <= Len(f) - k
          /\ \A a \in 1..Len(g) : g[a].ev = f[a + k].ev
    BY DEF CopyOf
  <2>2. \A a \in DOMAIN g : a + k \in DOMAIN f /\ g[a].ev = f[a + k].ev
    BY <2>1
  <2> QED
    BY <2>2
<1>2. Ordered(g)
  BY DEF CopyOf
<1>3. Before(g, e)
  BY <1>1 DEF InOrder, Before
<1>4. \A i \in 1..MaxBackups : Older(b[i], g)
  BY <1>1 DEF InOrder, Older
<1> QED
  BY <1>2, <1>3, <1>4 DEF InOrder

\* A text of h lines, and every part of it, is a Part.
LEMMA PartTypes ==
  ASSUME NEW h \in Nat
  PROVE  /\ h # 0 => Whole(h) \in Part
         /\ Parts(h) \subseteq Part
BY DEF Whole, Parts, Part

\* What is left of the file when its first s lines are dropped: texts with their
\* types, in order, terminated, and complete if they were, but perhaps for the
\* first.
LEMMA KeptShape ==
  ASSUME file \in Seq(Line), Ordered(file), NEW s \in Nat \ {0}, NEW k \in Cut(s)
  PROVE  LET g == Kept(k, s)
         IN  /\ k \in 0..Len(file)
             /\ g \in Seq(Line)
             /\ Ordered(g)
             /\ Len(g) = Len(file) - k
             /\ \A a \in 1..Len(g) :
                  /\ g[a].ev = file[a + k].ev
                  /\ g[a].ok => file[a + k].ok
                  /\ 1 < a => g[a].ok = file[a + k].ok
                  /\ g[a].nl = TRUE
                  /\ g[a].end = file[a + k].end - s
<1> DEFINE new(i) == [ev |-> file[i + k].ev,
                      ok |-> file[i + k].ok /\ (i > 1 \/ (k > 0 /\ file[k].end = s)),
                      nl |-> TRUE,
                      end |-> file[i + k].end - s]
           g == [i \in 1..Len(file) - k |-> new(i)]
<1>1. g = Kept(k, s)
  BY DEF Kept
<1>2. k \in 0..Len(file) /\ (k < Len(file) => s < file[k + 1].end)
  BY DEF Cut
<1>3. \A i \in 1..Len(file) - k : i + k \in DOMAIN file /\ k + 1 \in DOMAIN file
  BY <1>2
<1>4. ASSUME NEW i \in 1..Len(file) - k
      PROVE  /\ new(i) \in Line
             /\ new(i).ev = file[i + k].ev
             /\ new(i).ok => file[i + k].ok
             /\ 1 < i => new(i).ok = file[i + k].ok
             /\ new(i).nl = TRUE
             /\ new(i).end = file[i + k].end - s
  <2>1. file[i + k] \in Line /\ file[k + 1] \in Line
    BY <1>3
  <2>2. file[i + k].end \in Nat /\ file[k + 1].end \in Nat
    BY <2>1 DEF Line
  <2>3. file[k + 1].end <= file[i + k].end
    <3>1. k + 1 = i + k \/ k + 1 < i + k
      BY <1>2
    <3> QED
      BY <1>3, <2>2, <3>1 DEF Ordered
  <2>4. file[i + k].end - s \in Nat
    BY <1>2, <2>2, <2>3
  <2>5. file[i + k].ev \in 1..MaxEvents /\ file[i + k].ok \in BOOLEAN
    BY <2>1 DEF Line
  <2>6. new(i) \in Line
    BY <2>4, <2>5 DEF Line
  <2>7. 1 < i => new(i).ok = file[i + k].ok
    BY <2>5
  <2> QED
    BY <2>6, <2>7
<1> HIDE DEF new
<1>5. Len(file) - k \in Nat
  BY <1>2
<1>6. g \in Seq(Line) /\ Len(g) = Len(file) - k /\ DOMAIN g = 1..Len(file) - k
  <2>1. \A i \in 1..Len(file) - k : new(i) \in Line
    BY <1>4
  <2> QED
    BY <1>5, <2>1
<1>7. \A i \in 1..Len(file) - k : g[i] = new(i)
  OBVIOUS
<1> HIDE DEF g
<1>8. Ordered(g)
  <2> SUFFICES ASSUME NEW a \in DOMAIN g, NEW b \in DOMAIN g, a < b
               PROVE  g[a].ev < g[b].ev /\ g[a].end <= g[b].end
    BY DEF Ordered
  <2>1. a \in 1..Len(file) - k /\ b \in 1..Len(file) - k
    BY <1>6
  <2>2. a + k \in DOMAIN file /\ b + k \in DOMAIN file
    BY <1>3, <2>1
  <2>3. a + k < b + k
    BY <2>1, <1>2
  <2>4. file[a + k].ev < file[b + k].ev /\ file[a + k].end <= file[b + k].end
    BY <2>2, <2>3 DEF Ordered
  <2>5. /\ file[a + k].end \in Nat
        /\ file[b + k].end \in Nat
    BY <2>2, LineFields
  <2>6. /\ g[a].ev = file[a + k].ev /\ g[a].end = file[a + k].end - s
        /\ g[b].ev = file[b + k].ev /\ g[b].end = file[b + k].end - s
    BY <1>4, <1>7, <2>1
  <2> QED
    BY <2>4, <2>5, <2>6
<1>9. \A a \in 1..Len(g) :
        /\ g[a].ev = file[a + k].ev
        /\ g[a].ok => file[a + k].ok
        /\ 1 < a => g[a].ok = file[a + k].ok
        /\ g[a].nl = TRUE
        /\ g[a].end = file[a + k].end - s
  BY <1>4, <1>6, <1>7
<1> QED
  BY <1>1, <1>2, <1>6, <1>8, <1>9

\* Of the file's texts there is only one number that lies in the first s lines.
LEMMA CutUnique ==
  ASSUME file \in Seq(Line), Ordered(file), NEW s \in Nat,
         NEW k \in Cut(s), NEW l \in Cut(s)
  PROVE  k = l
<1>1. ASSUME NEW a \in Cut(s), NEW b \in Cut(s), a < b
      PROVE  FALSE
  <2>1. /\ a \in Nat /\ b \in 0..Len(file) /\ Len(file) \in Nat
        /\ a < Len(file) => s < file[a + 1].end
        /\ b > 0 => file[b].end <= s
    BY DEF Cut
  <2>2. a + 1 \in DOMAIN file /\ b \in DOMAIN file /\ (a + 1 = b \/ a + 1 < b)
    BY <1>1, <2>1
  <2>3. file[a + 1].end \in Nat /\ file[b].end \in Nat
    BY <2>2, LineFields
  <2>4. file[a + 1].end <= file[b].end
    BY <2>2, <2>3 DEF Ordered
  <2> QED
    BY <1>1, <2>1, <2>3, <2>4
<1>2. k \in Nat /\ l \in Nat
  BY DEF Cut
<1> QED
  BY <1>1, <1>2

\* A copy during which a write fails is a copy up to some text.
LEMMA ShortCopyUpTo ==
  ASSUME NEW f \in Seq(Line), Ordered(f), \A a \in 1..Len(f) : f[a].nl = TRUE,
         NEW g \in ShortCopies(f)
  PROVE  g \in Seq(Line) /\ CopyUpTo(g, f)
<1>1. PICK m \in 1..Len(f) :
        \/ g = Start(f, m)
        \/ \E p \in Parts(f[m].end - Bytes(Start(f, m))) :
             g = AppendText(Start(f, m), f[m].ev, [p EXCEPT !.ok = @ /\ f[m].ok])
  BY DEF ShortCopies
<1> DEFINE h == Start(f, m)
<1>2. /\ h \in Seq(Line) /\ Len(h) = m - 1
      /\ \A a \in 1..m - 1 : h[a] = f[a]
  BY DEF Start
<1>3. m \in DOMAIN f /\ f[m] \in Line
  OBVIOUS
<1> HIDE DEF h
<1>4. \A a \in DOMAIN h : a \in DOMAIN f /\ h[a] = f[a] /\ a < m
  BY <1>2
<1>5. Ordered(h) /\ Before(h, f[m].ev)
  BY <1>3, <1>4 DEF Ordered, Before
<1>6. CASE g = h
  <2>1. Len(h) <= Len(f)
    BY <1>2
  <2>2. \A a \in 1..Len(h) : h[a] = f[a]
    BY <1>2
  <2> QED
    BY <1>2, <1>5, <1>6, <2>1, <2>2 DEF CopyUpTo
<1>7. CASE \E p \in Parts(f[m].end - Bytes(h)) :
             g = AppendText(h, f[m].ev, [p EXCEPT !.ok = @ /\ f[m].ok])
  <2>1. PICK p \in Parts(f[m].end - Bytes(h)) :
          g = AppendText(h, f[m].ev, [p EXCEPT !.ok = @ /\ f[m].ok])
    BY <1>7
  <2> DEFINE q == [p EXCEPT !.ok = @ /\ f[m].ok]
  <2>2. Bytes(h) \in Nat /\ f[m].end \in Nat /\ f[m].ev \in 1..MaxEvents
        /\ f[m].ok \in BOOLEAN
    BY <1>2, <1>3, <1>5, BytesLast DEF Line
  <2>3. /\ p.lines \in 1..(f[m].end - Bytes(h)) /\ p.ok \in BOOLEAN /\ p.nl \in BOOLEAN
        /\ p \in [lines : 1..(f[m].end - Bytes(h)), ok : BOOLEAN, nl : BOOLEAN]
    BY DEF Parts
  <2>4. p.lines \in Nat \ {0}
    BY <2>2, <2>3
  <2>5. q \in Part /\ (q.ok => f[m].ok)
    BY <2>2, <2>3, <2>4 DEF Part
  <2> HIDE DEF q
  <2>6. g = AppendText(h, f[m].ev, q)
    BY <2>1 DEF q
  <2>7. h = <<>> \/ h[Len(h)].nl
    BY <1>2
  <2>8. /\ g \in Seq(Line)
        /\ Len(g) = Len(h) + 1
        /\ \A a \in 1..Len(h) : g[a] = h[a]
        /\ g[Len(g)] = [ev |-> f[m].ev, ok |-> q.ok, nl |-> q.nl,
                        end |-> Bytes(h) + q.lines]
    <3>1. PICK e \in 1..MaxEvents : e = f[m].ev
      BY <2>2
    <3>2. h \in Seq(Line) /\ Ordered(h) /\ q \in Part /\ g = AppendText(h, e, q)
      BY <1>2, <1>5, <2>5, <2>6, <3>1
    <3>3. /\ g \in Seq(Line)
          /\ \/ /\ Len(g) = Len(h) + 1
                /\ \A a \in 1..Len(h) : g[a] = h[a]
                /\ g[Len(g)] = [ev |-> e, ok |-> q.ok, nl |-> q.nl,
                                end |-> Bytes(h) + q.lines]
             \/ h # <<>> /\ ~h[Len(h)].nl
      <4>1. PICK s \in Seq(Line), r \in Part : s = h /\ r = q
        BY <3>2
      <4>2. Ordered(s) /\ g = AppendText(s, e, r)
        BY <3>2, <4>1
      <4>3. /\ g \in Seq(Line)
            /\ g # <<>>
            /\ \/ /\ s = <<>> \/ s[Len(s)].nl
                  /\ Len(g) = Len(s) + 1
                  /\ \A a \in 1..Len(s) : g[a] = s[a]
                  /\ g[Len(g)] = [ev |-> e, ok |-> r.ok, nl |-> r.nl,
                                  end |-> Bytes(s) + r.lines]
               \/ /\ s # <<>> /\ ~s[Len(s)].nl
                  /\ Len(g) = Len(s)
                  /\ \A a \in 1..Len(s) - 1 : g[a] = s[a]
                  /\ g[Len(g)] = [ev |-> s[Len(s)].ev, ok |-> FALSE, nl |-> r.nl,
                                  end |-> s[Len(s)].end + r.lines - 1]
        BY <4>2, AppendTextShape
      <4> QED
        BY <4>1, <4>3
    <3> QED
      BY <2>7, <3>1, <3>3
  <2>9. Ordered(g)
    <3> DEFINE b == [i \in 1..MaxBackups |-> <<>>]
    <3>1. b \in [1..MaxBackups -> Seq(Line)] /\ \A i \in 1..MaxBackups : b[i] = <<>>
      OBVIOUS
    <3> HIDE DEF b
    <3>2. InOrder(h, b, f[m].ev)
      BY <1>5, <3>1 DEF InOrder, Ordered, Before, Older
    <3>3. InOrder(AppendText(h, f[m].ev, q), b, f[m].ev + 1)
      BY <1>2, <2>2, <2>5, <3>1, <3>2, AppendInOrder
    <3> QED
      BY <2>6, <3>3 DEF InOrder
  <2>10. Len(g) = m
    BY <1>2, <2>8
  <2>11. g[m].ev = f[m].ev /\ (g[m].ok => f[m].ok)
    BY <2>5, <2>8, <2>10
  <2>12. \A a \in 1..m - 1 : g[a] = f[a]
    BY <1>2, <2>8
  <2>13. \A a \in 1..m : a = m \/ a \in 1..m - 1
    OBVIOUS
  <2> QED
    BY <2>8, <2>9, <2>10, <2>11, <2>12, <2>13 DEF CopyUpTo
<1> QED
  BY <1>1, <1>6, <1>7 DEF h

\* What prune() leaves in the temporary file.
LEMMA CopyMade ==
  ASSUME file \in Seq(Line), Ordered(file), count \in Nat, NEW n \in Nat, count > n,
         NEW k \in Cut(count - n),
         NEW g \in {Kept(k, count - n)} \union ShortCopies(Kept(k, count - n))
  PROVE  g \in Seq(Line) /\ Copied(file, count, n, g)
<1> DEFINE s == count - n
           f == Kept(k, s)
<1>0. s \in Nat \ {0}
  OBVIOUS
<1>1. /\ k \in 0..Len(file)
      /\ f \in Seq(Line)
      /\ Ordered(f)
      /\ Len(f) = Len(file) - k
      /\ \A a \in 1..Len(f) :
           /\ f[a].ev = file[a + k].ev
           /\ f[a].ok => file[a + k].ok
           /\ 1 < a => f[a].ok = file[a + k].ok
           /\ f[a].nl = TRUE
  BY <1>0, KeptShape
<1> HIDE DEF f, s
<1>2. g = f \/ g \in ShortCopies(f)
  BY DEF f, s
<1>3. CopyUpTo(f, f)
  BY <1>1 DEF CopyUpTo
<1>4. g \in Seq(Line) /\ CopyUpTo(g, f)
  BY <1>1, <1>2, <1>3, ShortCopyUpTo
<1>5. CopyOf(g, file)
  <2>1. Len(g) \in Nat /\ Len(g) <= Len(file) - k
    BY <1>1, <1>4 DEF CopyUpTo
  <2>2. \A a \in 1..Len(g) : a \in 1..Len(f)
    BY <1>1, <1>4 DEF CopyUpTo
  <2>3. ASSUME NEW a \in 1..Len(g)
        PROVE  /\ g[a].ev = file[a + k].ev
               /\ g[a].ok => file[a + k].ok
               /\ 1 < a /\ a < Len(g) => g[a].ok = file[a + k].ok
    BY <1>1, <1>4, <2>2 DEF CopyUpTo
  <2>4. Ordered(g)
    BY <1>4 DEF CopyUpTo
  <2> QED
    BY <1>1, <2>1, <2>3, <2>4 DEF CopyOf
<1>6. ASSUME NEW l \in Cut(count - n)
      PROVE  CopyUpTo(g, Kept(l, count - n))
  <2>1. l = k
    BY <1>0, CutUnique DEF s
  <2> QED
    BY <1>4, <2>1 DEF f, s
<1> QED
  BY <1>4, <1>5, <1>6 DEF Copied

-----------------------------------------------------------------------------
(* Types and order.                                                        *)

LEMMA OrderInit == Init => OrderInv
<1> SUFFICES ASSUME Init
             PROVE  OrderInv
  OBVIOUS
<1>1. TypeOK
  <2>1. <<>> \in Seq(Line) /\ backup \in [1..MaxBackups -> Seq(Line)]
    BY DEF Init
  <2>2. 1 \in 1..MaxEvents + 1 /\ 0 \in 0..MaxCrashes /\ 0 \in 0..MaxCalls
    BY StorageAssumption
  <2> QED
    BY <2>1, <2>2 DEF Init, TypeOK, Ops
<1>2. Rotating
  BY DEF Init, Rotating
<1>3. InOrder(file, backup, next)
  BY DEF Init, InOrder, Ordered, Before, Older
<1> QED
  BY <1>1, <1>2, <1>3 DEF OrderInv, Init

\* The files of a step that leaves them alone.
LEMMA SameFilesInOrder ==
  ASSUME OrderInv, UNCHANGED <<file, backup, next>>
  PROVE  InOrder(file, backup, next)'
BY DEF OrderInv, InOrder

\* A write, complete or torn by a crash.
LEMMA WriteInOrder ==
  ASSUME OrderInv, next <= MaxEvents, next' = next + 1, UNCHANGED backup,
         NEW p \in Part,
         file' = AppendText(file, next, p)
  PROVE  /\ file' \in Seq(Line)
         /\ next' \in 1..MaxEvents + 1
         /\ InOrder(file, backup, next)'
<1>1. next \in 1..MaxEvents /\ file \in Seq(Line)
      /\ backup \in [1..MaxBackups -> Seq(Line)] /\ InOrder(file, backup, next)
  BY StorageAssumption DEF OrderInv, TypeOK
<1>2. InOrder(AppendText(file, next, p), backup, next + 1)
  BY <1>1, AppendInOrder
<1>3. Ordered(file)
  BY <1>1 DEF InOrder
<1>4. AppendText(file, next, p) \in Seq(Line)
  BY <1>1, <1>3, AppendTextShape
<1>5. next' \in 1..MaxEvents + 1
  BY <1>1, StorageAssumption
<1> QED
  BY <1>2, <1>4, <1>5

\* The events a write damages are events that were handed to insert().
LEMMA HitEvents ==
  ASSUME OrderInv, next <= MaxEvents, NEW p
  PROVE  /\ Hit(file, next, p) \subseteq 1..next
         /\ Hit(file, next, p) \subseteq 1..MaxEvents
         /\ next \in 1..MaxEvents
<1>1. next \in 1..MaxEvents /\ file \in Seq(Line) /\ Before(file, next)
  BY StorageAssumption DEF OrderInv, TypeOK, InOrder
<1>2. file # <<>> => Len(file) \in DOMAIN file
  BY <1>1
<1>3. file # <<>> => file[Len(file)].ev \in 1..next
  BY <1>1, <1>2, LineFields DEF Before
<1>4. Hit(file, next, p) \subseteq 1..next
  BY <1>1, <1>3 DEF Hit
<1>5. 1..next \subseteq 1..MaxEvents
  BY <1>1, StorageAssumption
<1> QED
  BY <1>1, <1>4, <1>5

\* The number of the backup that a rotation works on.
LEMMA RotationIndex ==
  ASSUME OrderInv
  PROVE  /\ op = "remove" => maxFiles \in 1..MaxBackups
         /\ op = "shift" => /\ maxFiles \in 1..MaxBackups
                            /\ arg + 1 \in 1..MaxBackups
                            /\ arg > 0 => arg \in 1..MaxBackups
BY MaxBackupsNat, StorageAssumption DEF OrderInv, TypeOK, Rotating

\* Replacing one file of the backups by another.
LEMMA ReplaceBackup ==
  ASSUME NEW S, NEW m, NEW b \in [1..m -> S], NEW k \in 1..m, NEW x \in S
  PROVE  [b EXCEPT ![k] = x] \in [1..m -> S]
OBVIOUS

LEMMA RenamedType ==
  ASSUME NEW b \in [1..MaxBackups -> Seq(Line)], NEW k \in 1..MaxBackups,
         k + 1 \in 1..MaxBackups
  PROVE  Renamed(b, k) \in [1..MaxBackups -> Seq(Line)]
<1>1. <<>> \in Seq(Line) /\ b[k] \in Seq(Line)
  OBVIOUS
<1> DEFINE c == [b EXCEPT ![k] = <<>>]
           d == [c EXCEPT ![k + 1] = b[k]]
<1>2. c \in [1..MaxBackups -> Seq(Line)]
  BY <1>1, ReplaceBackup
<1> HIDE DEF c
<1>3. d \in [1..MaxBackups -> Seq(Line)]
  BY <1>1, <1>2, ReplaceBackup
<1>4. Renamed(b, k) = b \/ Renamed(b, k) = d
  BY DEF Renamed, c
<1> QED
  BY <1>3, <1>4

LEMMA OrderStep == OrderInv /\ [Next]_vars => OrderInv'
<1> SUFFICES ASSUME OrderInv, [Next]_vars
             PROVE  OrderInv'
  OBVIOUS
<1> USE DEF OrderInv
<1>0. TypeOK /\ Rotating
  OBVIOUS
<1>2. CASE Close
  <2>0. UNCHANGED <<file, backup, next>>
    BY <1>2 DEF Close, Call, diskVars, histVars
  <2>1. TypeOK'
    <3>1. calls' \in 0..MaxCalls /\ crashes' \in 0..MaxCrashes
      BY <1>2, <1>0, StorageAssumption DEF TypeOK, Close, Call, diskVars, histVars
    <3> QED
      BY <1>2, <1>0, <3>1 DEF TypeOK, Ops, Close, Call, diskVars, histVars
  <2>2. Rotating'
    BY <1>2, <1>0, StorageAssumption DEF TypeOK, Rotating, Close, Call, diskVars, histVars
  <2>3. InOrder(file, backup, next)'
    BY <2>0, SameFilesInOrder
  <2>4. (op = "prune" => Copied(file, count, arg, tmp))'
    BY <1>2 DEF Close, Call, diskVars, histVars
  <2> QED
    BY <2>1, <2>2, <2>3, <2>4
<1>3. CASE \E n \in FileCounts : ConfigureRotation(n)
  <2>0. UNCHANGED <<file, backup, next>>
    BY <1>3 DEF ConfigureRotation, Call, diskVars, histVars
  <2>1. TypeOK'
    BY <1>3, <1>0, StorageAssumption, SMTT(30) DEF TypeOK, Ops, ConfigureRotation, Call, diskVars, histVars
  <2>2. Rotating'
    BY <1>3, <1>0, StorageAssumption DEF TypeOK, Rotating, ConfigureRotation, Call, diskVars, histVars
  <2>3. InOrder(file, backup, next)'
    BY <2>0, SameFilesInOrder
  <2>4. (op = "prune" => Copied(file, count, arg, tmp))'
    BY <1>3 DEF ConfigureRotation, Call, diskVars, histVars
  <2> QED
    BY <2>1, <2>2, <2>3, <2>4
<1>9. CASE RotateReopen
  <2>0. UNCHANGED <<file, backup, next>>
    BY <1>9 DEF RotateReopen, Reopened, diskVars, histVars
  <2>1. TypeOK'
    BY <1>9, <1>0, StorageAssumption DEF TypeOK, Ops, RotateReopen, Reopened, diskVars, histVars
  <2>2. Rotating'
    BY <1>9, <1>0, StorageAssumption DEF TypeOK, Rotating, RotateReopen, Reopened, diskVars, histVars
  <2>3. InOrder(file, backup, next)'
    BY <2>0, SameFilesInOrder
  <2>4. (op = "prune" => Copied(file, count, arg, tmp))'
    BY <1>9 DEF RotateReopen, Reopened, diskVars, histVars
  <2> QED
    BY <2>1, <2>2, <2>3, <2>4
<1>12. CASE Crash
  <2>0. UNCHANGED <<file, backup, next>>
    BY <1>12 DEF Crash, Die, diskVars, histVars
  <2>1. TypeOK'
    <3>1. calls' \in 0..MaxCalls /\ crashes' \in 0..MaxCrashes
      BY <1>12, <1>0, StorageAssumption DEF TypeOK, Crash, Die, diskVars, histVars
    <3> QED
      BY <1>12, <1>0, <3>1 DEF TypeOK, Ops, Crash, Die, diskVars, histVars
  <2>2. Rotating'
    BY <1>12, <1>0, StorageAssumption DEF TypeOK, Rotating, Crash, Die, diskVars, histVars
  <2>3. InOrder(file, backup, next)'
    BY <2>0, SameFilesInOrder
  <2>4. (op = "prune" => Copied(file, count, arg, tmp))'
    BY <1>12 DEF Crash, Die, diskVars, histVars
  <2> QED
    BY <2>1, <2>2, <2>3, <2>4
<1>1. CASE Open
  <2>0. UNCHANGED <<file, backup, next>>
    BY <1>1 DEF Open, diskVars
  <2>1. TypeOK'
    <3>1. Bytes(file) \in Nat
      BY <1>0, BytesLast DEF TypeOK, InOrder
    <3>2. calls' \in 0..MaxCalls
      BY <1>1, <1>0, StorageAssumption DEF TypeOK, Open, Call
    <3>3. isOpen' \in BOOLEAN /\ bad' \in BOOLEAN /\ bytes' \in Nat /\ count' \in Nat
      BY <1>1, <1>0, <3>1 DEF TypeOK, Open
    <3> QED
      BY <1>1, <1>0, <3>2, <3>3 DEF TypeOK, Ops, Open, Call, diskVars, histVars
  <2>2. Rotating'
    BY <1>1, <1>0 DEF TypeOK, Rotating, Open, Call, histVars
  <2>3. InOrder(file, backup, next)'
    BY <2>0, SameFilesInOrder
  <2> QED
    BY <1>1, <2>1, <2>2, <2>3 DEF Open
<1>4. CASE Refuse
  <2>1. next \in 1..MaxEvents
    BY <1>4, <1>0, StorageAssumption DEF Refuse, TypeOK
  <2>2. TypeOK'
    BY <1>4, <1>0, <2>1, StorageAssumption, SMTT(30) DEF TypeOK, Ops, Refuse, diskVars, memVars
  <2>3. Rotating'
    BY <1>4, <1>0 DEF Rotating, Refuse, memVars
  <2>4. InOrder(file, backup, next + 1)
    BY <1>0, <2>1, RefuseInOrder DEF TypeOK
  <2>5. InOrder(file, backup, next)'
    BY <1>4, <2>4 DEF Refuse, diskVars
  <2> QED
    BY <1>4, <2>2, <2>3, <2>5 DEF Refuse
<1>5. ASSUME NEW h \in Heights, Insert(h) \/ InsertFails(h) \/ InsertIgnored(h)
      PROVE  OrderInv'
  <2>1. Counted(h) /\ h \in Nat \ {0}
    BY <1>5, StorageAssumption DEF Insert, InsertFails, InsertIgnored
  <2>2. \/ UNCHANGED <<file, damaged>>
        \/ \E p \in Part : Written(p)
    BY <1>5, <2>1, PartTypes DEF Insert, InsertFails, InsertIgnored
  <2>3. next \in 1..MaxEvents /\ next' = next + 1 /\ next <= MaxEvents /\ backup' = backup
    BY <1>0, <2>1, StorageAssumption DEF Counted, TypeOK
  <2>4. /\ file' \in Seq(Line)
        /\ next' \in 1..MaxEvents + 1
        /\ InOrder(file, backup, next)'
        /\ damaged' \in SUBSET (1..MaxEvents)
    <3>1. CASE UNCHANGED <<file, damaged>>
      <4>1. InOrder(file, backup, next + 1)
        BY <1>0, <2>3, RefuseInOrder DEF TypeOK
      <4> QED
        BY <1>0, <2>3, <3>1, <4>1, StorageAssumption DEF TypeOK
    <3>2. CASE \E p \in Part : Written(p)
      <4>1. PICK p \in Part : Written(p)
        BY <3>2
      <4>2. file' = AppendText(file, next, p) /\ damaged' = damaged \union Hit(file, next, p)
        BY <4>1 DEF Written
      <4>3. Hit(file, next, p) \subseteq 1..MaxEvents
        BY <2>3, HitEvents
      <4>4. /\ file' \in Seq(Line)
            /\ next' \in 1..MaxEvents + 1
            /\ InOrder(file, backup, next)'
        BY <2>3, <4>2, WriteInOrder
      <4> QED
        BY <1>0, <4>2, <4>3, <4>4 DEF TypeOK
    <3> QED
      BY <2>2, <3>1, <3>2
  <2>5. op' \in Ops /\ op' # "shift" /\ op' # "prune" /\ (op' = "remove" => maxFiles > 0)
    BY <2>1 DEF Counted, Ops
  <2>6. bytes' \in Nat /\ count' \in Nat /\ breaks' \in Nat
    <3>1. bytes \in Nat /\ count \in Nat /\ breaks \in Nat
      BY <1>0 DEF TypeOK
    <3>2. bytes' = bytes + h /\ count' = count + 1 /\ breaks' = breaks + h - 1
      BY <2>1 DEF Counted
    <3> QED
      BY <2>1, <3>1, <3>2
  <2>7. bad' \in BOOLEAN /\ torn' \in Nat /\ unwritten' \in SUBSET (1..MaxEvents)
    <3>1. bad \in BOOLEAN /\ torn \in Nat /\ unwritten \in SUBSET (1..MaxEvents)
      BY <1>0 DEF TypeOK
    <3>2. /\ bad' = bad \/ bad' = TRUE
          /\ torn' = torn \/ torn' = torn + 1
          /\ unwritten' = unwritten \/ unwritten' = unwritten \union {next}
      BY <1>5 DEF Insert, InsertFails, InsertIgnored
    <3>3. torn' \in Nat
      BY <3>1, <3>2
    <3>4. bad' \in BOOLEAN
      BY <3>1, <3>2, Zenon
    <3>5. unwritten' \in SUBSET (1..MaxEvents)
      BY <2>3, <3>1, <3>2
    <3> QED
      BY <3>3, <3>4, <3>5
  <2>8. UNCHANGED <<backup, tmp, arg, isOpen, maxFiles, discarded, refused, failed,
                    crashes, calls>>
    BY <2>1 DEF Counted
  <2>9. TypeOK'
    BY <1>0, <2>4, <2>5, <2>6, <2>7, <2>8 DEF TypeOK
  <2>10. Rotating'
    BY <1>0, <2>5, <2>8 DEF Rotating
  <2> QED
    BY <2>4, <2>5, <2>9, <2>10
<1>6. CASE RotateRemove
  <2>1. maxFiles \in 1..MaxBackups
    BY <1>6, RotationIndex DEF RotateRemove
  <2>2. backup' = backup \/ backup' = [backup EXCEPT ![maxFiles] = <<>>]
    BY <1>6 DEF RotateRemove
  <2>3. InOrder(file, backup, next)'
    <3>1. InOrder(file, [backup EXCEPT ![maxFiles] = <<>>], next)
      BY <1>0, <2>1, RemoveInOrder DEF TypeOK
    <3>2. UNCHANGED <<file, next>>
      BY <1>6 DEF RotateRemove
    <3> QED
      BY <2>2, <3>1, <3>2
  <2>4. discarded' \in SUBSET (1..MaxEvents)
    <3>1. backup[maxFiles] \in Seq(Line)
      BY <1>0, <2>1 DEF TypeOK
    <3>2. Events(backup[maxFiles]) \subseteq 1..MaxEvents
      BY <3>1, LineFields DEF Events
    <3> QED
      BY <1>6, <1>0, <3>2 DEF RotateRemove, TypeOK
  <2>5. backup' \in [1..MaxBackups -> Seq(Line)]
    <3>1. <<>> \in Seq(Line)
      OBVIOUS
    <3> QED
      BY <1>0, <2>1, <2>2, <3>1, ReplaceBackup, ZenonT(30) DEF TypeOK
  <2>6. TypeOK'
    <3>1. arg' \in Nat /\ isOpen' = FALSE /\ op' \in Ops
      BY <1>6, <2>1, MaxBackupsNat DEF RotateRemove, Ops
    <3>2. failed' \in BOOLEAN
      BY <1>6, <1>0 DEF RotateRemove, TypeOK
    <3>3. UNCHANGED <<file, tmp, bad, bytes, count, maxFiles, next, damaged, refused,
                      unwritten, torn, breaks, crashes, calls>>
      BY <1>6 DEF RotateRemove
    <3> QED
      BY <1>0, <2>4, <2>5, <3>1, <3>2, <3>3 DEF TypeOK
  <2>7. Rotating'
    BY <1>6, <1>0, <2>1, MaxBackupsNat DEF RotateRemove, Rotating
  <2> QED
    BY <1>6, <2>3, <2>6, <2>7 DEF RotateRemove
<1>7. CASE RotateShift
  <2>1. arg \in 1..MaxBackups /\ arg + 1 \in 1..MaxBackups
    BY <1>7, RotationIndex DEF RotateShift
  <2>2. backup' = backup \/ backup' = Renamed(backup, arg)
    BY <1>7 DEF RotateShift
  <2>3. InOrder(file, backup, next)'
    <3>1. InOrder(file, Renamed(backup, arg), next)
      BY <1>0, <2>1, RenameInOrder DEF TypeOK
    <3>2. UNCHANGED <<file, next>>
      BY <1>7 DEF RotateShift
    <3> QED
      BY <2>2, <3>1, <3>2
  <2>4. backup' \in [1..MaxBackups -> Seq(Line)]
    BY <1>0, <2>1, <2>2, RenamedType DEF TypeOK
  <2>5. TypeOK'
    <3>1. arg' \in Nat
      BY <1>7, <2>1, MaxBackupsNat DEF RotateShift
    <3>2. failed' \in BOOLEAN
      BY <1>7, <1>0 DEF RotateShift, TypeOK
    <3>3. UNCHANGED <<file, tmp, op, memVars, next, discarded, damaged, refused,
                      unwritten, torn, breaks, crashes, calls>>
      BY <1>7 DEF RotateShift
    <3> QED
      BY <1>0, <2>4, <3>1, <3>2, <3>3 DEF TypeOK, memVars
  <2>6. Rotating'
    <3>1. arg \in Nat /\ maxFiles \in Nat
      BY <1>0, StorageAssumption DEF TypeOK
    <3> QED
      BY <1>7, <1>0, <3>1 DEF RotateShift, Rotating, memVars
  <2> QED
    BY <1>7, <2>3, <2>5, <2>6 DEF RotateShift
<1>8. CASE RotateFirst
  <2>1. 1 \in 1..MaxBackups
    BY <1>8, RotationIndex, MaxBackupsNat DEF RotateFirst
  <2>2. \/ file' = <<>> /\ backup' = [backup EXCEPT ![1] = file]
        \/ file' = file /\ backup' = backup
    BY <1>8 DEF RotateFirst
  <2>3. InOrder(file, backup, next)'
    <3>1. InOrder(<<>>, [backup EXCEPT ![1] = file], next)
      BY <1>0, <2>1, FirstInOrder DEF TypeOK
    <3>2. UNCHANGED next
      BY <1>8 DEF RotateFirst
    <3> QED
      BY <2>2, <3>1, <3>2
  <2>4. backup' \in [1..MaxBackups -> Seq(Line)] /\ file' \in Seq(Line)
    <3>1. <<>> \in Seq(Line)
      OBVIOUS
    <3> QED
      BY <1>0, <2>1, <2>2, <3>1, ReplaceBackup DEF TypeOK
  <2>5. TypeOK'
    BY <1>8, <1>0, <2>4 DEF RotateFirst, TypeOK, Ops, memVars
  <2>6. Rotating'
    BY <1>8, <1>0 DEF RotateFirst, Rotating
  <2> QED
    BY <1>8, <2>3, <2>5, <2>6 DEF RotateFirst
<1>10. CASE \E n \in PruneTo : PruneCopy(n)
  <2>1. PICK n \in PruneTo : PruneCopy(n)
    BY <1>10
  <2>2. n \in Nat
    BY StorageAssumption
  <2>3. tmp' \in Seq(Line) /\ Copied(file, count, n, tmp')
    <3>1. file \in Seq(Line) /\ Ordered(file) /\ count \in Nat /\ count > n
      BY <1>0, <2>1 DEF TypeOK, InOrder, PruneCopy
    <3>2. PICK k \in Cut(count - n) :
            tmp' \in {Kept(k, count - n)} \union ShortCopies(Kept(k, count - n))
      BY <2>1, Zenon DEF PruneCopy
    <3> QED
      BY <2>2, <3>1, <3>2, CopyMade
  <2>4. UNCHANGED <<file, backup, next>>
    BY <2>1 DEF PruneCopy
  <2>5. TypeOK'
    BY <1>0, <2>1, <2>2, <2>3, StorageAssumption, SMTT(30)
    DEF PruneCopy, Call, TypeOK, Ops, memVars, histVars
  <2>6. Rotating'
    BY <1>0, <2>1 DEF PruneCopy, Call, Rotating, histVars
  <2>7. InOrder(file, backup, next)'
    BY <2>4, SameFilesInOrder
  <2>8. Copied(file, count, arg, tmp)'
    <3>1. count' = count /\ arg' = n
      BY <2>1 DEF PruneCopy, memVars
    <3> QED
      BY <2>3, <2>4, <3>1 DEF Copied, Cut, Kept
  <2> QED
    BY <2>5, <2>6, <2>7, <2>8
<1>11. CASE PruneSwap
  <2>1. Copied(file, count, arg, tmp) /\ CopyOf(tmp, file)
    BY <1>11 DEF PruneSwap, Copied
  <2>2. UNCHANGED <<backup, arg, maxFiles, next, refused, breaks, crashes, calls>>
        /\ op' = "idle" /\ tmp' = <<>> /\ isOpen' \in BOOLEAN /\ bad' \in BOOLEAN
    BY <1>11 DEF PruneSwap, Reopened
  <2>3. /\ file' \in Seq(Line)
        /\ InOrder(file, backup, next)'
        /\ bytes' \in Nat /\ count' \in Nat /\ torn' \in Nat /\ failed' \in BOOLEAN
        /\ discarded' \in SUBSET (1..MaxEvents)
        /\ unwritten' \in SUBSET (1..MaxEvents)
        /\ damaged' \in SUBSET (1..MaxEvents)
    <3>1. CASE \E k \in Cut(count - arg) : Swapped(k, count - arg)
      <4>1. PICK k \in Cut(count - arg) : Swapped(k, count - arg)
        BY <3>1
      <4> DEFINE f == Kept(k, count - arg)
      <4>2. /\ file' = tmp /\ bytes' = Bytes(f) /\ count' = arg /\ failed' = failed
            /\ discarded' = discarded \union (Intact(file) \ Intact(f))
            /\ unwritten' = unwritten \union (Intact(f) \ Events(tmp))
            /\ damaged' = damaged \union ((Intact(f) \intersect Events(tmp)) \ Intact(tmp))
            /\ torn' = IF tmp = f THEN torn ELSE torn + 1
        BY <4>1 DEF Swapped
      <4>3. file \in Seq(Line) /\ tmp \in Seq(Line) /\ InOrder(file, backup, next)
            /\ Ordered(file) /\ count - arg \in Nat \ {0}
        BY <1>0, <2>1 DEF TypeOK, InOrder, Copied
      <4>4. f \in Seq(Line) /\ Ordered(f)
        BY <4>3, KeptShape
      <4> HIDE DEF f
      <4>5. Bytes(f) \in Nat
        BY <4>4, BytesLast
      <4>6. Intact(f) \subseteq 1..MaxEvents /\ Intact(file) \subseteq 1..MaxEvents
        BY <4>3, <4>4, LineFields DEF Intact
      <4>7. InOrder(tmp, backup, next)
        BY <1>0, <2>1, CopyInOrder DEF TypeOK
      <4> QED
        <5>1. /\ torn \in Nat /\ arg \in Nat /\ failed \in BOOLEAN
              /\ discarded \in SUBSET (1..MaxEvents)
              /\ unwritten \in SUBSET (1..MaxEvents)
              /\ damaged \in SUBSET (1..MaxEvents)
          BY <1>0 DEF TypeOK
        <5>2. torn' \in Nat
          BY <4>2, <5>1
        <5>3. /\ discarded' \in SUBSET (1..MaxEvents)
              /\ unwritten' \in SUBSET (1..MaxEvents)
              /\ damaged' \in SUBSET (1..MaxEvents)
          BY <4>2, <4>6, <5>1
        <5>4. InOrder(file, backup, next)'
          BY <2>2, <4>2, <4>7
        <5>5. file' \in Seq(Line) /\ bytes' \in Nat /\ count' \in Nat /\ failed' \in BOOLEAN
          BY <4>2, <4>3, <4>5, <5>1
        <5> QED
          BY <5>2, <5>3, <5>4, <5>5
    <3>2. CASE failed' = TRUE /\ UNCHANGED <<file, bytes, count, discarded, damaged, unwritten, torn>>
      BY <1>0, <2>2, <3>2 DEF TypeOK
    <3> QED
      BY <1>11, <3>1, <3>2 DEF PruneSwap
  <2>4. TypeOK'
    <3>1. <<>> \in Seq(Line)
      OBVIOUS
    <3> QED
      BY <1>0, <2>2, <2>3, <3>1 DEF TypeOK, Ops
  <2>5. Rotating'
    BY <1>0, <2>2 DEF Rotating
  <2> QED
    BY <2>2, <2>3, <2>4, <2>5
<1>13. ASSUME NEW h \in Heights, CrashInInsert(h)
       PROVE  OrderInv'
  <2>0. h \in Nat \ {0}
    BY StorageAssumption
  <2>1. PICK p \in Part : Written(p)
    BY <1>13, <2>0, PartTypes DEF CrashInInsert
  <2>2. file' = AppendText(file, next, p) /\ damaged' = damaged \union Hit(file, next, p)
        /\ next <= MaxEvents /\ next' = next + 1 /\ backup' = backup
    BY <1>13, <2>1 DEF CrashInInsert, Written
  <2>3. /\ file' \in Seq(Line)
        /\ next' \in 1..MaxEvents + 1
        /\ InOrder(file, backup, next)'
    BY <2>2, WriteInOrder
  <2>4. damaged' \in SUBSET (1..MaxEvents)
    <3>1. Hit(file, next, p) \subseteq 1..MaxEvents
      BY <2>2, HitEvents
    <3> QED
      BY <1>0, <2>2, <3>1 DEF TypeOK
  <2>5. TypeOK'
    <3>1. crashes' \in 0..MaxCrashes /\ torn' \in Nat
      BY <1>0, <1>13, StorageAssumption DEF CrashInInsert, Die, TypeOK
    <3> QED
      BY <1>0, <1>13, <2>3, <2>4, <3>1 DEF CrashInInsert, Die, TypeOK, Ops
  <2>6. Rotating'
    BY <1>13 DEF CrashInInsert, Die, Rotating
  <2> QED
    BY <1>13, <2>3, <2>5, <2>6 DEF CrashInInsert, Die
<1>14. CASE UNCHANGED vars \/ Rest
  <2>1. UNCHANGED vars
    BY <1>14 DEF Rest
  <2>2. TypeOK' /\ Rotating'
    BY <1>0, <2>1 DEF TypeOK, Rotating, vars, diskVars, memVars, histVars
  <2>3. InOrder(file, backup, next)'
    BY <2>1, SameFilesInOrder DEF vars, diskVars
  <2>4. (op = "prune" => Copied(file, count, arg, tmp))'
    BY <2>1 DEF vars, diskVars, memVars, Copied, Cut, Kept
  <2> QED
    BY <2>2, <2>3, <2>4
<1> QED
  BY <1>1, <1>2, <1>3, <1>4, <1>5, <1>6, <1>7, <1>8, <1>9, <1>10, <1>11, <1>12,
     <1>13, <1>14 DEF Next

(***************************************************************************)
(* In every reachable state, whatever fails and whenever the process dies, *)
(* the state has its type and the active file and the backups are in       *)
(* order.                                                                  *)
(***************************************************************************)
THEOREM StorageOrder == Spec => []OrderInv
BY OrderInit, OrderStep, PTL DEF Spec

(***************************************************************************)
(* The property the run checks: each event is in one place, and a backup   *)
(* with a higher number is older (maybe_rotate_locked, prune, insert).     *)
(***************************************************************************)
THEOREM StorageInOrder == Spec => []BackupsInOrder
<1>1. OrderInv => BackupsInOrder
  <2> SUFFICES ASSUME OrderInv
               PROVE  BackupsInOrder
    OBVIOUS
  <2>1. InOrder(file, backup, next) /\ MaxBackups \in Nat
    BY MaxBackupsNat DEF OrderInv
  <2> DEFINE F == Files
  <2>2. DOMAIN F = 0..MaxBackups /\ F[0] = file /\ \A i \in 1..MaxBackups : F[i] = backup[i]
    BY <2>1 DEF Files
  <2> HIDE DEF F
  <2>3. ASSUME NEW i \in DOMAIN F, NEW j \in DOMAIN F, i < j
        PROVE  \A x \in Events(F[i]), y \in Events(F[j]) : y < x
    <3>1. j \in 1..MaxBackups /\ (i = 0 \/ i \in 1..MaxBackups)
      BY <2>1, <2>2, <2>3
    <3>2. Older(F[j], F[i])
      BY <2>1, <2>2, <2>3, <3>1 DEF InOrder
    <3> QED
      BY <3>2 DEF Older, Events
  <2>4. ASSUME NEW i \in DOMAIN F
        PROVE  \A a, b \in DOMAIN F[i] : a < b => F[i][a].ev < F[i][b].ev
    <3>1. i = 0 \/ i \in 1..MaxBackups
      BY <2>1, <2>2
    <3>2. Ordered(F[i])
      BY <2>1, <2>2, <3>1 DEF InOrder
    <3> QED
      BY <3>2 DEF Ordered
  <2> QED
    BY <2>3, <2>4 DEF BackupsInOrder, F
<1> QED
  BY <1>1, StorageOrder, PTL

-----------------------------------------------------------------------------
(* No event is lost.                                                       *)

\* The events a file holds intact, by their lines.
LEMMA IntactLines ==
  ASSUME NEW f, NEW e
  PROVE  /\ e \in Intact(f) <=> \E a \in DOMAIN f : f[a].ok /\ f[a].ev = e
         /\ e \in Events(f) <=> \E a \in DOMAIN f : f[a].ev = e
BY DEF Intact, Events

\* A write loses no event but those it damages, and its own event is there.
LEMMA AppendIntact ==
  ASSUME NEW f \in Seq(Line), Ordered(f), NEW e \in 1..MaxEvents,
         NEW p \in Part
  PROVE  /\ \A x \in Intact(f) : x \in Intact(AppendText(f, e, p)) \/ x \in Hit(f, e, p)
         /\ e \in Intact(AppendText(f, e, p)) \/ e \in Hit(f, e, p)
<1> DEFINE g == AppendText(f, e, p)
<1> HIDE DEF g
<1>0. g = AppendText(f, e, p)
  BY DEF g
<1>1. /\ g \in Seq(Line)
      /\ g # <<>>
      /\ \/ /\ f = <<>> \/ f[Len(f)].nl
            /\ Len(g) = Len(f) + 1
            /\ \A a \in 1..Len(f) : g[a] = f[a]
            /\ g[Len(g)] = [ev |-> e, ok |-> p.ok, nl |-> p.nl, end |-> Bytes(f) + p.lines]
         \/ /\ f # <<>> /\ ~f[Len(f)].nl
            /\ Len(g) = Len(f)
            /\ \A a \in 1..Len(f) - 1 : g[a] = f[a]
            /\ g[Len(g)] = [ev |-> f[Len(f)].ev, ok |-> FALSE, nl |-> p.nl,
                            end |-> f[Len(f)].end + p.lines - 1]
  BY <1>0, AppendTextShape, SMTT(30)
<1>2. DOMAIN f = 1..Len(f) /\ DOMAIN g = 1..Len(g) /\ Len(f) \in Nat /\ Len(g) \in DOMAIN g
  BY <1>1
<1>3. CASE /\ f = <<>> \/ f[Len(f)].nl
           /\ Len(g) = Len(f) + 1
           /\ \A a \in 1..Len(f) : g[a] = f[a]
           /\ g[Len(g)] = [ev |-> e, ok |-> p.ok, nl |-> p.nl, end |-> Bytes(f) + p.lines]
  <2>1. \A a \in DOMAIN f : a \in DOMAIN g /\ g[a] = f[a]
    BY <1>2, <1>3
  <2>2. \A x \in Intact(f) : x \in Intact(g)
    BY <2>1, IntactLines
  <2>3. g[Len(g)].ev = e /\ g[Len(g)].ok = p.ok
    BY <1>3
  <2>4. CASE p.ok
    <3>1. e \in Intact(g)
      BY <1>2, <2>3, <2>4, IntactLines
    <3> QED
      BY <1>0, <2>2, <3>1
  <2>5. CASE ~p.ok
    <3>1. e \in Hit(f, e, p)
      BY <1>3, <2>5 DEF Hit
    <3> QED
      BY <1>0, <2>2, <3>1
  <2> QED
    BY <2>4, <2>5 DEF Part
<1>4. CASE /\ f # <<>> /\ ~f[Len(f)].nl
           /\ Len(g) = Len(f)
           /\ \A a \in 1..Len(f) - 1 : g[a] = f[a]
           /\ g[Len(g)] = [ev |-> f[Len(f)].ev, ok |-> FALSE, nl |-> p.nl,
                           end |-> f[Len(f)].end + p.lines - 1]
  <2>1. \A a \in DOMAIN f : a # Len(f) => a \in DOMAIN g /\ g[a] = f[a]
    BY <1>2, <1>4
  <2>2. Hit(f, e, p) = {e, f[Len(f)].ev}
    BY <1>4 DEF Hit
  <2>3. ASSUME NEW x \in Intact(f)
        PROVE  x \in Intact(g) \/ x \in Hit(f, e, p)
    <3>1. PICK a \in DOMAIN f : f[a].ok /\ f[a].ev = x
      BY IntactLines
    <3>2. CASE a = Len(f)
      BY <2>2, <3>1, <3>2
    <3>3. CASE a # Len(f)
      BY <2>1, <3>1, <3>3, IntactLines
    <3> QED
      BY <3>2, <3>3
  <2> QED
    BY <1>0, <2>2, <2>3
<1> QED
  BY <1>1, <1>3, <1>4

LEMMA EmptyIntact == \A e : e \notin Intact(<<>>)
BY IntactLines

\* Removing, shifting and renaming the files loses no event, as long as a
\* rename meets no file in its place.
LEMMA RemoveStored ==
  ASSUME NEW f, NEW b \in [1..MaxBackups -> Seq(Line)], NEW k \in 1..MaxBackups,
         NEW e, Stored(e, f, b)
  PROVE  Stored(e, f, [b EXCEPT ![k] = <<>>]) \/ e \in Events(b[k])
<1> DEFINE c == [b EXCEPT ![k] = <<>>]
<1>1. \A i \in 1..MaxBackups : i # k => c[i] = b[i]
  OBVIOUS
<1> HIDE DEF c
<1>2. \A g : e \in Intact(g) => e \in Events(g)
  BY IntactLines
<1>3. Stored(e, f, c) \/ e \in Events(b[k])
  BY <1>1, <1>2 DEF Stored
<1> QED
  BY <1>3 DEF c

LEMMA RenameStored ==
  ASSUME NEW f, NEW b \in [1..MaxBackups -> Seq(Line)], NEW k \in 1..MaxBackups,
         k + 1 \in 1..MaxBackups, b[k + 1] = <<>>, NEW e, Stored(e, f, b)
  PROVE  Stored(e, f, Renamed(b, k))
<1>1. CASE b[k] = <<>>
  BY <1>1 DEF Renamed
<1>2. CASE b[k] # <<>>
  <2> DEFINE c == [b EXCEPT ![k] = <<>>, ![k + 1] = b[k]]
  <2>1. c[k + 1] = b[k] /\ \A i \in 1..MaxBackups : i # k /\ i # k + 1 => c[i] = b[i]
    OBVIOUS
  <2> HIDE DEF c
  <2>2. Stored(e, f, c)
    BY <2>1, EmptyIntact DEF Stored
  <2> QED
    BY <1>2, <2>2 DEF Renamed, c
<1> QED
  BY <1>1, <1>2

LEMMA FirstStored ==
  ASSUME NEW f \in Seq(Line), NEW b \in [1..MaxBackups -> Seq(Line)],
         1 \in 1..MaxBackups, b[1] = <<>>, NEW e, Stored(e, f, b)
  PROVE  Stored(e, <<>>, [b EXCEPT ![1] = f])
<1> DEFINE c == [b EXCEPT ![1] = f]
<1>1. c[1] = f /\ \A i \in 1..MaxBackups : i # 1 => c[i] = b[i]
  OBVIOUS
<1> HIDE DEF c
<1>2. Stored(e, <<>>, c)
  BY <1>1, EmptyIntact DEF Stored
<1> QED
  BY <1>2 DEF c

\* A rename empties the place the next one fills.
LEMMA RenameEmpties ==
  ASSUME NEW b \in [1..MaxBackups -> Seq(Line)], NEW k \in 1..MaxBackups,
         k + 1 \in 1..MaxBackups
  PROVE  Renamed(b, k)[k] = <<>>
<1>1. k # k + 1
  BY MaxBackupsNat
<1> QED
  BY <1>1 DEF Renamed

LEMMA LossInit == Init => LossInv
BY DEF Init, LossInv, Gone

\* A step of the storage that moves no file.
LEMMA LossElsewhere ==
  ASSUME LossInv, UNCHANGED <<file, backup, next, discarded, damaged, refused, unwritten, failed>>,
         op' # "shift"
  PROVE  LossInv'
BY DEF LossInv, Gone, Stored

\* A write, complete or torn.
LEMMA LossWrite ==
  ASSUME OrderInv, LossInv, next <= MaxEvents, next' = next + 1,
         NEW p \in Part,
         file' = AppendText(file, next, p),
         damaged' = damaged \union Hit(file, next, p),
         UNCHANGED <<backup, discarded, refused, unwritten, failed>>, op' # "shift"
  PROVE  LossInv'
<1>0. file \in Seq(Line) /\ Ordered(file) /\ next \in 1..MaxEvents
  BY StorageAssumption DEF OrderInv, TypeOK, InOrder
<1>1. Gone' = Gone \union Hit(file, next, p) /\ Gone \subseteq 1..next - 1
  BY DEF Gone, LossInv
<1>2. Hit(file, next, p) \subseteq 1..next
  BY HitEvents
<1>3. (Gone \subseteq 1..next - 1)'
  <2>1. 1..next' - 1 = 1..next /\ 1..next - 1 \subseteq 1..next
    BY <1>0
  <2> QED
    BY <1>1, <1>2, <2>1
<1>4. ASSUME ~failed', NEW e \in 1..next' - 1
      PROVE  e \in Gone' \/ Stored(e, file', backup')
  <2>1. /\ \A x \in Intact(file) : x \in Intact(file') \/ x \in Hit(file, next, p)
        /\ next \in Intact(file') \/ next \in Hit(file, next, p)
    BY <1>0, AppendIntact
  <2>2. e = next \/ e \in 1..next - 1
    BY <1>0
  <2>3. CASE e = next
    BY <1>1, <2>1, <2>3 DEF Stored
  <2>4. CASE e \in 1..next - 1
    <3>1. e \in Gone \/ Stored(e, file, backup)
      BY <1>4, <2>4 DEF LossInv
    <3> QED
      BY <1>1, <2>1, <3>1 DEF Stored
  <2> QED
    BY <2>2, <2>3, <2>4
<1> QED
  BY <1>3, <1>4 DEF LossInv

\* The next event is refused or swallowed.
LEMMA LossMissing ==
  ASSUME OrderInv, LossInv, next' = next + 1, Gone' = Gone \union {next},
         UNCHANGED <<file, backup, failed>>, op' # "shift"
  PROVE  LossInv'
<1>0. next \in 1..MaxEvents + 1
  BY DEF OrderInv, TypeOK
<1>1. (Gone \subseteq 1..next - 1)'
  BY <1>0 DEF LossInv
<1>2. \A e \in 1..next' - 1 : e = next \/ e \in 1..next - 1
  BY <1>0
<1> QED
  BY <1>1, <1>2 DEF LossInv

\* What prune() keeps complete was complete.
LEMMA KeptIntact ==
  ASSUME file \in Seq(Line), Ordered(file), NEW s \in Nat \ {0}, NEW k \in Cut(s)
  PROVE  \A e \in Intact(Kept(k, s)) : e \in Intact(file)
<1> DEFINE f == Kept(k, s)
<1>1. /\ k \in 0..Len(file)
      /\ f \in Seq(Line)
      /\ Len(f) = Len(file) - k
      /\ \A a \in 1..Len(f) :
           f[a].ev = file[a + k].ev /\ (f[a].ok => file[a + k].ok)
  BY KeptShape
<1> HIDE DEF f
<1> SUFFICES ASSUME NEW e \in Intact(f)
             PROVE  e \in Intact(file)
  BY DEF f
<1>2. PICK a \in DOMAIN f : f[a].ok /\ f[a].ev = e
  BY IntactLines
<1>3. a + k \in DOMAIN file /\ file[a + k].ok /\ file[a + k].ev = e
  BY <1>1, <1>2
<1> QED
  BY <1>3, IntactLines

LEMMA LossStep == OrderInv /\ LossInv /\ [Next]_vars => LossInv'
<1> SUFFICES ASSUME OrderInv, LossInv, [Next]_vars
             PROVE  LossInv'
  OBVIOUS
<1>0. /\ file \in Seq(Line)
      /\ tmp \in Seq(Line)
      /\ backup \in [1..MaxBackups -> Seq(Line)]
      /\ next \in 1..MaxEvents + 1
      /\ InOrder(file, backup, next)
  BY DEF OrderInv, TypeOK
<1>1. CASE Open
  BY <1>1, LossElsewhere DEF Open, diskVars, histVars
<1>2. CASE Close
  BY <1>2, LossElsewhere DEF Close, diskVars, histVars
<1>3. CASE \E n \in FileCounts : ConfigureRotation(n)
  BY <1>3, LossElsewhere DEF ConfigureRotation, diskVars, histVars
<1>4. CASE Refuse
  BY <1>4, LossMissing DEF Refuse, Gone, diskVars
<1>5. ASSUME NEW h \in Heights, Insert(h) \/ InsertFails(h) \/ InsertIgnored(h)
      PROVE  LossInv'
  <2>1. Counted(h) /\ h \in Nat \ {0}
    BY <1>5, StorageAssumption DEF Insert, InsertFails, InsertIgnored
  <2>2. op' # "shift" /\ next' = next + 1 /\ next <= MaxEvents
        /\ UNCHANGED <<backup, discarded, refused, failed>>
    BY <2>1 DEF Counted
  <2>3. \/ UNCHANGED <<file, damaged>> /\ unwritten' = unwritten \union {next}
        \/ UNCHANGED unwritten /\ \E p \in Part : Written(p)
    BY <1>5, <2>1, PartTypes DEF Insert, InsertFails, InsertIgnored
  <2>4. CASE UNCHANGED <<file, damaged>> /\ unwritten' = unwritten \union {next}
    BY <2>2, <2>4, LossMissing DEF Gone
  <2>5. CASE UNCHANGED unwritten /\ \E p \in Part : Written(p)
    BY <2>2, <2>5, LossWrite DEF Written
  <2> QED
    BY <2>3, <2>4, <2>5
<1>6. CASE RotateRemove
  <2>1. maxFiles \in 1..MaxBackups /\ MaxBackups \in Nat
    BY <1>6, RotationIndex, MaxBackupsNat DEF RotateRemove
  <2>2. UNCHANGED <<file, next, refused, damaged, unwritten>> /\ op' = "shift" /\ arg' + 1 = maxFiles
    BY <1>6, <2>1 DEF RotateRemove
  <2>3. CASE /\ backup' = [backup EXCEPT ![maxFiles] = <<>>]
             /\ discarded' = discarded \union Events(backup[maxFiles])
             /\ failed' = failed
    <3>1. Gone' = Gone \union Events(backup[maxFiles])
      BY <2>2, <2>3 DEF Gone
    <3>2. Events(backup[maxFiles]) \subseteq 1..next - 1
      <4>1. backup[maxFiles] \in Seq(Line) /\ Before(backup[maxFiles], next)
        BY <1>0, <2>1 DEF InOrder
      <4>2. \A a \in DOMAIN backup[maxFiles] : backup[maxFiles][a].ev \in 1..next - 1
        BY <1>0, <4>1, LineFields DEF Before
      <4> QED
        BY <4>2 DEF Events
    <3>3. (Gone \subseteq 1..next - 1)'
      BY <2>2, <3>1, <3>2 DEF LossInv
    <3>4. backup'[arg' + 1] = <<>>
      BY <1>0, <2>1, <2>2, <2>3
    <3>5. \A e : Stored(e, file, backup)
                   => Stored(e, file, backup') \/ e \in Events(backup[maxFiles])
      BY <1>0, <2>1, <2>3, RemoveStored
    <3>6. ~failed' => \A e \in 1..next' - 1 : e \in Gone' \/ Stored(e, file', backup')
      BY <2>2, <2>3, <3>1, <3>5 DEF LossInv
    <3> QED
      BY <3>3, <3>4, <3>6 DEF LossInv
  <2>4. CASE failed' = TRUE /\ UNCHANGED <<backup, discarded>>
    BY <2>2, <2>4 DEF LossInv, Gone
  <2> QED
    BY <1>6, <2>3, <2>4 DEF RotateRemove
<1>7. CASE RotateShift
  <2>1. arg \in 1..MaxBackups /\ arg + 1 \in 1..MaxBackups /\ MaxBackups \in Nat
    BY <1>7, RotationIndex, MaxBackupsNat DEF RotateShift
  <2>2. /\ UNCHANGED <<file, next, refused, damaged, discarded, unwritten>>
        /\ op = "shift" /\ op' = "shift" /\ arg' = arg - 1 /\ arg' + 1 = arg
    BY <1>7, <2>1 DEF RotateShift
  <2>3. CASE backup' = Renamed(backup, arg) /\ failed' = failed
    <3>1. (Gone \subseteq 1..next - 1)'
      BY <2>2 DEF LossInv, Gone
    <3>2. backup'[arg' + 1] = <<>>
      BY <1>0, <2>1, <2>2, <2>3, RenameEmpties
    <3>3. ASSUME ~failed', NEW e \in 1..next' - 1
          PROVE  e \in Gone' \/ Stored(e, file', backup')
      <4>1. backup[arg + 1] = <<>>
        BY <2>2, <2>3, <3>3 DEF LossInv
      <4>2. e \in Gone \/ Stored(e, file, backup)
        BY <2>2, <2>3, <3>3 DEF LossInv
      <4>3. Stored(e, file, backup) => Stored(e, file, Renamed(backup, arg))
        BY <1>0, <2>1, <4>1, RenameStored
      <4> QED
        BY <2>2, <2>3, <4>2, <4>3 DEF Gone
    <3> QED
      BY <3>1, <3>2, <3>3 DEF LossInv
  <2>4. CASE failed' = TRUE
    BY <2>2, <2>4 DEF LossInv, Gone
  <2> QED
    BY <1>7, <2>3, <2>4 DEF RotateShift
<1>8. CASE RotateFirst
  <2>1. 1 \in 1..MaxBackups /\ arg + 1 = 1
    BY <1>8, RotationIndex, MaxBackupsNat DEF RotateFirst
  <2>2. /\ UNCHANGED <<next, refused, damaged, discarded, unwritten>>
        /\ op = "shift" /\ op' = "reopen"
    BY <1>8 DEF RotateFirst
  <2>3. (Gone \subseteq 1..next - 1)'
    BY <2>2 DEF LossInv, Gone
  <2>4. CASE backup' = [backup EXCEPT ![1] = file] /\ file' = <<>> /\ failed' = failed
    <3>1. ASSUME ~failed', NEW e \in 1..next' - 1
          PROVE  e \in Gone' \/ Stored(e, file', backup')
      <4>1. backup[1] = <<>>
        BY <2>1, <2>2, <2>4, <3>1 DEF LossInv
      <4>2. e \in Gone \/ Stored(e, file, backup)
        BY <2>2, <2>4, <3>1 DEF LossInv
      <4>3. Stored(e, file, backup) => Stored(e, <<>>, [backup EXCEPT ![1] = file])
        BY <1>0, <2>1, <4>1, FirstStored
      <4> QED
        BY <2>2, <2>4, <4>2, <4>3 DEF Gone
    <3> QED
      BY <2>2, <2>3, <3>1 DEF LossInv
  <2>5. CASE failed' = TRUE
    BY <2>2, <2>3, <2>5 DEF LossInv
  <2> QED
    BY <1>8, <2>4, <2>5 DEF RotateFirst
<1>9. CASE RotateReopen
  BY <1>9, LossElsewhere DEF RotateReopen, diskVars, histVars
<1>10. CASE \E n \in PruneTo : PruneCopy(n)
  BY <1>10, LossElsewhere DEF PruneCopy, histVars
<1>11. CASE PruneSwap
  <2>1. Copied(file, count, arg, tmp) /\ Ordered(file) /\ count \in Nat /\ arg \in Nat
    BY <1>11, <1>0 DEF PruneSwap, OrderInv, InOrder, TypeOK
  <2>2. UNCHANGED <<backup, next, refused>> /\ op' = "idle"
    BY <1>11 DEF PruneSwap
  <2>3. CASE \E k \in Cut(count - arg) : Swapped(k, count - arg)
    <3>1. PICK k \in Cut(count - arg) : Swapped(k, count - arg)
      BY <2>3
    <3> DEFINE f == Kept(k, count - arg)
    <3>2. count - arg \in Nat \ {0}
      BY <2>1 DEF Copied
    <3>3. \A e \in Intact(f) : e \in Intact(file)
      BY <1>0, <2>1, <3>2, KeptIntact
    <3>4. /\ file' = tmp /\ failed' = failed
          /\ discarded' = discarded \union (Intact(file) \ Intact(f))
          /\ unwritten' = unwritten \union (Intact(f) \ Events(tmp))
          /\ damaged' = damaged \union ((Intact(f) \intersect Events(tmp)) \ Intact(tmp))
      BY <3>1 DEF Swapped
    <3> HIDE DEF f
    <3>5. \A e : e \in Gone' => e \in Gone \/ e \in Intact(file)
      BY <2>2, <3>3, <3>4 DEF Gone
    <3>6. \A e : (e \in Gone => e \in Gone') /\ (e \in Intact(file) => e \in Gone' \/ e \in Intact(tmp))
      BY <2>2, <3>4 DEF Gone
    <3>7. Intact(file) \subseteq 1..next - 1
      <4>1. \A a \in DOMAIN file : file[a].ev \in 1..next - 1
        BY <1>0, LineFields DEF Before, InOrder
      <4> QED
        BY <4>1, IntactLines
    <3>8. (Gone \subseteq 1..next - 1)'
      BY <2>2, <3>5, <3>7 DEF LossInv
    <3>9. ~failed' => \A e \in 1..next' - 1 : e \in Gone' \/ Stored(e, file', backup')
      BY <2>2, <3>4, <3>6 DEF LossInv, Stored
    <3> QED
      BY <2>2, <3>8, <3>9 DEF LossInv
  <2>4. CASE failed' = TRUE /\ UNCHANGED <<discarded, damaged, unwritten>>
    BY <2>2, <2>4 DEF LossInv, Gone
  <2> QED
    BY <1>11, <2>3, <2>4 DEF PruneSwap
<1>12. CASE Crash
  BY <1>12, LossElsewhere DEF Crash, Die, diskVars, histVars
<1>13. ASSUME NEW h \in Heights, CrashInInsert(h)
       PROVE  LossInv'
  <2>1. PICK p \in Part : Written(p)
    BY <1>13, StorageAssumption, PartTypes DEF CrashInInsert
  <2> QED
    BY <1>13, <2>1, LossWrite DEF CrashInInsert, Die, Written
<1>14. CASE UNCHANGED vars \/ Rest
  BY <1>14 DEF Rest, vars, diskVars, histVars, LossInv, Gone, Stored
<1> QED
  BY <1>1, <1>2, <1>3, <1>4, <1>5, <1>6, <1>7, <1>8, <1>9, <1>10, <1>11, <1>12,
     <1>13, <1>14 DEF Next

\* A complete text written to a file whose lines are all terminated adds its
\* lines and damages nothing.
LEMMA AppendCounts ==
  ASSUME NEW f \in Seq(Line), Ordered(f), NEW e \in 1..MaxEvents,
         NEW h \in Nat \ {0}, \A a \in DOMAIN f : f[a].nl = TRUE
  PROVE  LET g == AppendText(f, e, Whole(h))
         IN  /\ Bytes(g) = Bytes(f) + h
             /\ \A a \in DOMAIN g : g[a].nl = TRUE
             /\ Hit(f, e, Whole(h)) = {}
<1> DEFINE g == AppendText(f, e, Whole(h))
           l == [ev |-> e, ok |-> TRUE, nl |-> TRUE, end |-> Bytes(f) + h]
<1>1. f = <<>> \/ f[Len(f)].nl
  OBVIOUS
<1>2. g = Append(f, l)
  BY <1>1 DEF AppendText, Whole
<1>3. l.nl = TRUE /\ l.end = Bytes(f) + h
  OBVIOUS
<1>7. Hit(f, e, Whole(h)) = {}
  BY <1>1 DEF Hit, Whole
<1> HIDE DEF l, g
<1>4. /\ Len(g) = Len(f) + 1
      /\ DOMAIN g = 1..Len(f) + 1
      /\ g[Len(f) + 1] = l
      /\ \A a \in 1..Len(f) : g[a] = f[a]
      /\ g # <<>>
  BY <1>2
<1>5. Bytes(g) = Bytes(f) + h
  BY <1>3, <1>4 DEF Bytes
<1>6. \A a \in DOMAIN g : g[a].nl = TRUE
  BY <1>3, <1>4
<1> QED
  BY <1>5, <1>6, <1>7 DEF g

\* A complete copy.
LEMMA WholeCopy ==
  ASSUME OrderInv, op = "prune", NEW k \in Cut(count - arg), tmp = Kept(k, count - arg)
  PROVE  /\ \A a \in DOMAIN tmp : tmp[a].nl = TRUE
         /\ Intact(tmp) \subseteq Events(tmp)
<1>1. file \in Seq(Line) /\ Ordered(file) /\ count - arg \in Nat \ {0}
  BY DEF OrderInv, TypeOK, InOrder, Copied
<1>2. tmp \in Seq(Line) /\ \A a \in 1..Len(tmp) : tmp[a].nl = TRUE
  BY <1>1, KeptShape
<1>3. Intact(tmp) \subseteq Events(tmp)
  BY DEF Intact, Events
<1> QED
  BY <1>2, <1>3

LEMMA CleanInit == Init => CleanInv
BY DEF Init, CleanInv

LEMMA CleanStep == OrderInv /\ CleanInv /\ [Next]_vars => CleanInv'
<1> SUFFICES ASSUME OrderInv, CleanInv, [Next]_vars, torn' = 0
             PROVE  /\ \A a \in DOMAIN file' : file'[a].nl = TRUE
                    /\ bad' = FALSE
                    /\ damaged' = {}
                    /\ unwritten' = {}
  BY DEF CleanInv
<1>0. /\ file \in Seq(Line) /\ Ordered(file)
      /\ torn \in Nat /\ MaxEvents \in Nat /\ next \in 1..MaxEvents + 1
  BY StorageAssumption DEF OrderInv, TypeOK, InOrder
<1>1. CASE \/ Open \/ Close \/ RotateReopen \/ Crash
           \/ \E n \in FileCounts : ConfigureRotation(n)
           \/ \E n \in PruneTo : PruneCopy(n)
  BY <1>1 DEF Open, Close, ConfigureRotation, RotateReopen, Crash, Die, PruneCopy,
              CleanInv, diskVars, memVars, histVars
<1>4. CASE Refuse
  BY <1>4 DEF Refuse, CleanInv, diskVars, memVars
<1>5. ASSUME NEW h \in Heights, Insert(h)
      PROVE  /\ \A a \in DOMAIN file' : file'[a].nl = TRUE
             /\ bad' = FALSE /\ damaged' = {} /\ unwritten' = {}
  <2>1. /\ file' = AppendText(file, next, Whole(h))
        /\ damaged' = damaged \union Hit(file, next, Whole(h))
        /\ UNCHANGED <<bad, unwritten, torn>> /\ next <= MaxEvents
    BY <1>5 DEF Insert, Written, Counted
  <2>2. h \in Nat \ {0} /\ next \in 1..MaxEvents
    BY <1>0, <2>1, StorageAssumption
  <2>3. /\ \A a \in DOMAIN file : file[a].nl = TRUE
        /\ bad = FALSE /\ damaged = {} /\ unwritten = {}
    BY <2>1 DEF CleanInv
  <2>4. /\ \A a \in DOMAIN file' : file'[a].nl = TRUE
        /\ Hit(file, next, Whole(h)) = {}
    BY <1>0, <2>1, <2>2, <2>3, AppendCounts
  <2> QED
    BY <2>1, <2>3, <2>4
<1>51. ASSUME NEW h \in Heights, InsertFails(h) \/ InsertIgnored(h) \/ CrashInInsert(h)
       PROVE  FALSE
  BY <1>0, <1>51 DEF InsertFails, InsertIgnored, CrashInInsert, CleanInv
<1>6. CASE RotateRemove
  BY <1>6 DEF RotateRemove, CleanInv
<1>7. CASE RotateShift
  BY <1>7 DEF RotateShift, CleanInv, memVars
<1>8. CASE RotateFirst
  BY <1>8 DEF RotateFirst, CleanInv, memVars
<1>11. CASE PruneSwap
  <2>1. CASE \E k \in Cut(count - arg) : Swapped(k, count - arg)
    <3>1. PICK k \in Cut(count - arg) : Swapped(k, count - arg)
      BY <2>1
    <3>2. tmp = Kept(k, count - arg) /\ torn = 0
      BY <1>0, <3>1 DEF Swapped
    <3>3. /\ \A a \in DOMAIN tmp : tmp[a].nl = TRUE
          /\ Intact(tmp) \subseteq Events(tmp)
      BY <1>11, <3>2, WholeCopy DEF PruneSwap
    <3>4. /\ file' = tmp
          /\ unwritten' = unwritten \union (Intact(tmp) \ Events(tmp))
          /\ damaged' = damaged \union ((Intact(tmp) \intersect Events(tmp)) \ Intact(tmp))
      BY <3>1, <3>2 DEF Swapped
    <3>5. damaged = {} /\ unwritten = {}
      BY <3>2 DEF CleanInv
    <3> QED
      BY <1>11, <3>3, <3>4, <3>5 DEF PruneSwap
  <2>2. CASE UNCHANGED <<file, damaged, unwritten, torn>>
    BY <1>11, <2>2 DEF PruneSwap, CleanInv
  <2> QED
    BY <1>11, <2>1, <2>2 DEF PruneSwap
<1>14. CASE UNCHANGED vars \/ Rest
  BY <1>14 DEF Rest, vars, diskVars, memVars, histVars, CleanInv
<1> QED
  BY <1>1, <1>4, <1>5, <1>51, <1>6, <1>7, <1>8, <1>11, <1>14 DEF Next

(***************************************************************************)
(* Every event handed to insert() is accounted for in every state between  *)
(* two file-system calls, so after a crash at any point of a rotation or a *)
(* prune, as long as no remove or rename failed; and nothing is torn or    *)
(* swallowed unless a write failed or was cut short.  The strengthenings   *)
(* are that the place a rename is about to fill is empty, and that without *)
(* such a write every line of the active file is terminated.               *)
(***************************************************************************)
THEOREM StorageLosesNone == Spec => []NoEventLost
<1>1. OrderInv /\ LossInv /\ CleanInv => NoEventLost
  <2> SUFFICES ASSUME OrderInv, LossInv, CleanInv, ~failed
               PROVE  1..next - 1 = refused \union discarded \union damaged
                        \union unwritten \union (Intact(file)
                        \union UNION {Intact(backup[i]) : i \in DOMAIN backup})
    BY DEF NoEventLost, Held, CleanInv
  <2> DEFINE U == UNION {Intact(backup[i]) : i \in DOMAIN backup}
  <2>0. /\ file \in Seq(Line)
        /\ backup \in [1..MaxBackups -> Seq(Line)]
        /\ next \in 1..MaxEvents + 1
        /\ InOrder(file, backup, next)
    BY DEF OrderInv, TypeOK
  <2>1. \A e : e \in U <=> \E i \in 1..MaxBackups : e \in Intact(backup[i])
    BY <2>0
  <2>2. Intact(file) \subseteq 1..next - 1
    <3>1. \A a \in DOMAIN file : file[a].ev \in 1..next - 1
      BY <2>0, LineFields DEF Before, InOrder
    <3> QED
      BY <3>1, IntactLines
  <2>3. ASSUME NEW i \in 1..MaxBackups
        PROVE  Intact(backup[i]) \subseteq 1..next - 1
    <3>1. backup[i] \in Seq(Line) /\ Before(backup[i], next)
      BY <2>0 DEF InOrder
    <3>2. \A a \in DOMAIN backup[i] : backup[i][a].ev \in 1..next - 1
      BY <2>0, <3>1, LineFields DEF Before
    <3> QED
      BY <3>2, IntactLines
  <2> HIDE DEF U
  <2>4. U \subseteq 1..next - 1
    BY <2>1, <2>3
  <2>5. 1..next - 1 \subseteq Gone \union Intact(file) \union U
    BY <2>1 DEF LossInv, Stored
  <2> QED
    BY <2>2, <2>4, <2>5 DEF LossInv, Gone, U
<1>2. Init => OrderInv /\ LossInv /\ CleanInv
  BY OrderInit, LossInit, CleanInit
<1>3. OrderInv /\ LossInv /\ CleanInv /\ [Next]_vars => (OrderInv /\ LossInv /\ CleanInv)'
  BY OrderStep, LossStep, CleanStep
<1> QED
  BY <1>1, <1>2, <1>3, PTL DEF Spec

-----------------------------------------------------------------------------
(* The counters.                                                           *)

LEMMA CounterInit == Init => CounterInv
BY DEF Init, CounterInv

\* prune() leaves out exactly the lines it means to.
LEMMA KeptBytes ==
  ASSUME file \in Seq(Line), Ordered(file), NEW s \in Nat \ {0}, NEW k \in Cut(s),
         s <= Bytes(file)
  PROVE  Bytes(Kept(k, s)) = Bytes(file) - s
<1> DEFINE f == Kept(k, s)
<1>1. /\ k \in 0..Len(file)
      /\ f \in Seq(Line)
      /\ Len(f) = Len(file) - k
      /\ \A a \in 1..Len(f) : f[a].end = file[a + k].end - s
  BY KeptShape
<1> HIDE DEF f
<1>2. Bytes(file) \in Nat /\ file # <<>> /\ Bytes(file) = file[Len(file)].end
  BY BytesLast DEF Bytes
<1>3. CASE k = Len(file)
  <2>1. file[k].end <= s
    BY <1>2, <1>3 DEF Cut
  <2>2. f = <<>>
    BY <1>1, <1>3
  <2> QED
    BY <1>2, <1>3, <2>1, <2>2 DEF f, Bytes
<1>4. CASE k # Len(file)
  <2>1. Len(f) \in 1..Len(f) /\ Len(f) + k = Len(file) /\ f # <<>>
    BY <1>1, <1>4
  <2>2. f[Len(f)].end = file[Len(file)].end - s
    BY <1>1, <2>1
  <2> QED
    BY <1>2, <2>1, <2>2 DEF f, Bytes
<1> QED
  BY <1>3, <1>4

LEMMA CounterStep == OrderInv /\ CleanInv /\ CounterInv /\ [Next]_vars => CounterInv'
<1> SUFFICES ASSUME OrderInv, CleanInv, CounterInv, [Next]_vars, ~failed', torn' = 0
             PROVE  /\ op' \in {"down", "idle", "prune"}
                         => Exact(file)' \/ (isOpen' = FALSE /\ count' = 0)
                    /\ op' = "reopen" => file' = <<>>
  BY DEF CounterInv
<1>0. /\ file \in Seq(Line) /\ Ordered(file)
      /\ bytes \in Nat /\ count \in Nat /\ torn \in Nat /\ arg \in Nat /\ breaks \in Nat
      /\ isOpen \in BOOLEAN /\ failed \in BOOLEAN
      /\ MaxEvents \in Nat /\ next \in 1..MaxEvents + 1
      /\ Bytes(file) \in Nat
  BY StorageAssumption, BytesLast DEF OrderInv, TypeOK, InOrder
<1>1. CASE Open
  BY <1>0, <1>1 DEF Open, Exact, CounterInv, diskVars, histVars
<1>2. CASE Close
  BY <1>2 DEF Close, Exact, CounterInv, diskVars, histVars
<1>3. CASE \E n \in FileCounts : ConfigureRotation(n)
  BY <1>3 DEF ConfigureRotation, Exact, CounterInv, diskVars, histVars
<1>4. CASE Refuse
  BY <1>4 DEF Refuse, Exact, CounterInv, diskVars, memVars
<1>5. ASSUME NEW h \in Heights, Insert(h)
      PROVE  Exact(file)' /\ op' # "reopen"
  <2>1. /\ ~failed /\ torn = 0 /\ op = "idle" /\ isOpen /\ op' # "reopen"
        /\ count' = count + 1 /\ bytes' = bytes + h /\ breaks' = breaks + h - 1
        /\ file' = AppendText(file, next, Whole(h)) /\ next <= MaxEvents
    BY <1>5 DEF Insert, Counted, Written
  <2>2. h \in Nat \ {0} /\ next \in 1..MaxEvents
    BY <1>0, <2>1, StorageAssumption
  <2>3. Exact(file) /\ \A a \in DOMAIN file : file[a].nl = TRUE
    BY <2>1 DEF CounterInv, CleanInv
  <2>4. Bytes(file') = Bytes(file) + h
    BY <1>0, <2>1, <2>2, <2>3, AppendCounts
  <2>5. Exact(file)'
    BY <1>0, <2>1, <2>2, <2>3, <2>4 DEF Exact
  <2> QED
    BY <2>1, <2>5
<1>51. ASSUME NEW h \in Heights, InsertFails(h) \/ InsertIgnored(h) \/ CrashInInsert(h)
       PROVE  FALSE
  BY <1>0, <1>51 DEF InsertFails, InsertIgnored, CrashInInsert, CleanInv
<1>6. CASE RotateRemove
  BY <1>6 DEF RotateRemove, CounterInv
<1>7. CASE RotateShift
  BY <1>7 DEF RotateShift, CounterInv
<1>8. CASE RotateFirst
  BY <1>8 DEF RotateFirst, CounterInv
<1>9. CASE RotateReopen
  <2>1. file' = <<>> /\ op' = "idle" /\ bytes' = 0 /\ count' = 0 /\ breaks' = breaks
    BY <1>9 DEF RotateReopen, CounterInv, diskVars, histVars
  <2> QED
    BY <1>0, <2>1 DEF Exact, Bytes
<1>10. CASE \E n \in PruneTo : PruneCopy(n)
  BY <1>10 DEF PruneCopy, Exact, CounterInv, memVars, histVars
<1>11. CASE PruneSwap
  <2>1. PICK k \in Cut(count - arg) : Swapped(k, count - arg)
    BY <1>11 DEF PruneSwap
  <2>2. /\ tmp = Kept(k, count - arg) /\ file' = tmp /\ bytes' = Bytes(tmp) /\ count' = arg
        /\ ~failed /\ torn = 0
    BY <1>0, <2>1 DEF Swapped
  <2>3. op = "prune" /\ op' = "idle" /\ breaks' = breaks /\ count > arg
    BY <1>11 DEF PruneSwap, OrderInv, Copied
  <2>4. Exact(file)
    BY <1>0, <2>2, <2>3 DEF CounterInv
  <2>5. count - arg \in Nat \ {0} /\ count - arg <= Bytes(file)
    BY <1>0, <2>3, <2>4 DEF Exact
  <2>6. Bytes(tmp) = Bytes(file) - (count - arg)
    BY <1>0, <2>2, <2>5, KeptBytes
  <2>7. Exact(file)'
    BY <1>0, <2>2, <2>3, <2>4, <2>6 DEF Exact
  <2> QED
    BY <2>3, <2>7
<1>12. CASE Crash
  BY <1>12 DEF Crash, Die, CounterInv, diskVars, histVars
<1>14. CASE UNCHANGED vars \/ Rest
  BY <1>14 DEF Rest, vars, diskVars, memVars, histVars, CounterInv, Exact
<1> QED
  BY <1>1, <1>2, <1>3, <1>4, <1>5, <1>51, <1>6, <1>7, <1>8, <1>9, <1>10, <1>11, <1>12,
     <1>14 DEF Next

(***************************************************************************)
(* While the storage is open and no write, remove or rename has failed or  *)
(* been cut short, the byte counter is the size of the active file, and    *)
(* count() misses no line but those that line breaks within events add:    *)
(* for every sequence of open, insert, rotation, prune and close, and      *)
(* crashes between operations.                                             *)
(***************************************************************************)
THEOREM StorageCounts == Spec => []CountersMatchFile
<1>1. CounterInv => CountersMatchFile
  BY DEF CounterInv, CountersMatchFile, Exact
<1>2. Init => OrderInv /\ CleanInv /\ CounterInv
  BY OrderInit, CleanInit, CounterInit
<1>3. OrderInv /\ CleanInv /\ CounterInv /\ [Next]_vars
        => (OrderInv /\ CleanInv /\ CounterInv)'
  BY OrderStep, CleanStep, CounterStep
<1> QED
  BY <1>1, <1>2, <1>3, PTL DEF Spec

-----------------------------------------------------------------------------
(* The damage a crash does.                                                *)

LEMMA FiniteDamage ==
  ASSUME NEW d, d \subseteq 1..MaxEvents
  PROVE  IsFiniteSet(d) /\ Cardinality(d) \in Nat
<1>1. 1 \in Int /\ MaxEvents \in Int
  BY StorageAssumption
<1>2. IsFiniteSet(1..MaxEvents)
  BY <1>1, FS_Interval
<1>3. IsFiniteSet(d)
  BY <1>2, FS_Subset
<1> QED
  BY <1>3, FS_CardinalityType

LEMMA DamageInit == Init => DamageInv
BY FS_EmptySet DEF Init, DamageInv, Debt

LEMMA DebtType ==
  ASSUME NEW f, NEW d
  PROVE  Debt(f, d) \in Nat
BY DEF Debt

\* The damage of one write, and what is still owed after it: a write that fails
\* or is cut short may add two to both together, a complete one nothing.
LEMMA WriteDamage ==
  ASSUME NEW f \in Seq(Line), Ordered(f), NEW e \in 1..MaxEvents, NEW p \in Part,
         NEW d, IsFiniteSet(d)
  PROVE  LET g == AppendText(f, e, p)
             h == d \union Hit(f, e, p)
         IN  Cardinality(h) + Debt(g, h)
               <= Cardinality(d) + Debt(f, d) + (IF p.ok /\ p.nl THEN 0 ELSE 2)
<1> DEFINE g == AppendText(f, e, p)
           h == d \union Hit(f, e, p)
<1> HIDE DEF g
<1>0. g = AppendText(f, e, p)
  BY DEF g
<1>1. /\ g \in Seq(Line)
      /\ g # <<>>
      /\ \/ /\ f = <<>> \/ f[Len(f)].nl
            /\ Len(g) = Len(f) + 1
            /\ \A a \in 1..Len(f) : g[a] = f[a]
            /\ g[Len(g)] = [ev |-> e, ok |-> p.ok, nl |-> p.nl, end |-> Bytes(f) + p.lines]
         \/ /\ f # <<>> /\ ~f[Len(f)].nl
            /\ Len(g) = Len(f)
            /\ \A a \in 1..Len(f) - 1 : g[a] = f[a]
            /\ g[Len(g)] = [ev |-> f[Len(f)].ev, ok |-> FALSE, nl |-> p.nl,
                            end |-> f[Len(f)].end + p.lines - 1]
  BY <1>0, AppendTextShape
<1>2. /\ Cardinality(d) \in Nat
      /\ \A x : /\ IsFiniteSet(d \union {x})
                /\ Cardinality(d \union {x}) = IF x \in d THEN Cardinality(d)
                                               ELSE Cardinality(d) + 1
  BY FS_CardinalityType, FS_AddElement
<1>3. CASE /\ f = <<>> \/ f[Len(f)].nl
           /\ g[Len(g)] = [ev |-> e, ok |-> p.ok, nl |-> p.nl, end |-> Bytes(f) + p.lines]
  <2>1. g[Len(g)].ev = e /\ g[Len(g)].nl = p.nl
    BY <1>3
  <2>2. Debt(f, d) = 0
    BY <1>3 DEF Debt
  <2>3. CASE p.ok
    <3>1. Hit(f, e, p) = {} /\ h = d
      BY <1>3, <2>3 DEF Hit
    <3>2. p.nl => Debt(g, d) = 0
      BY <2>1 DEF Debt
    <3>3. Debt(g, d) <= 2 /\ Debt(g, d) \in Nat
      BY DEF Debt
    <3>4. Cardinality(d) + Debt(g, d)
            <= Cardinality(d) + Debt(f, d) + (IF p.ok /\ p.nl THEN 0 ELSE 2)
      BY <1>2, <2>2, <2>3, <3>2, <3>3
    <3> QED
      BY <1>0, <3>1, <3>4
  <2>4. CASE ~p.ok
    <3>1. h = d \union {e}
      BY <1>3, <2>4 DEF Hit
    <3> HIDE DEF h
    <3>2. Debt(g, h) <= 1 /\ Debt(g, h) \in Nat
      BY <2>1, <3>1 DEF Debt
    <3>3. Cardinality(h) <= Cardinality(d) + 1 /\ Cardinality(h) \in Nat
      <4>1. Cardinality(h) = IF e \in d THEN Cardinality(d) ELSE Cardinality(d) + 1
        BY <1>2, <3>1
      <4> QED
        BY <1>2, <4>1
    <3>4. Cardinality(h) + Debt(g, h)
            <= Cardinality(d) + Debt(f, d) + (IF p.ok /\ p.nl THEN 0 ELSE 2)
      BY <1>2, <2>2, <2>4, <3>2, <3>3
    <3> QED
      BY <1>0, <3>4 DEF h
  <2> QED
    BY <2>3, <2>4
<1>4. CASE /\ f # <<>> /\ ~f[Len(f)].nl
           /\ g[Len(g)] = [ev |-> f[Len(f)].ev, ok |-> FALSE, nl |-> p.nl,
                           end |-> f[Len(f)].end + p.lines - 1]
  <2> DEFINE v == f[Len(f)].ev
  <2>1. g[Len(g)].ev = v /\ g[Len(g)].nl = p.nl
    BY <1>4
  <2>2. h = (d \union {v}) \union {e} /\ v \in h
    BY <1>4 DEF Hit
  <2>3. Debt(f, d) = IF v \in d THEN 1 ELSE 2
    BY <1>4 DEF Debt
  <2> HIDE DEF v, h
  <2>4. (p.nl => Debt(g, h) = 0) /\ Debt(g, h) <= 1 /\ Debt(g, h) \in Nat
    BY <2>1, <2>2 DEF Debt
  <2> DEFINE dv == d \union {v}
  <2>7. IsFiniteSet(dv) /\ Cardinality(dv) = IF v \in d THEN Cardinality(d)
                                             ELSE Cardinality(d) + 1
    BY <1>2
  <2> HIDE DEF dv
  <2>8. Cardinality(dv \union {e}) = IF e \in dv THEN Cardinality(dv)
                                     ELSE Cardinality(dv) + 1
    BY <2>7, FS_AddElement
  <2>9. h = dv \union {e}
    BY <2>2 DEF dv
  <2>10. Cardinality(h) <= Cardinality(d) + Debt(f, d) /\ Cardinality(h) \in Nat
    BY <1>2, <2>3, <2>7, <2>8, <2>9
  <2>11. Debt(f, d) \in Nat
    BY <2>3
  <2>12. Cardinality(h) + Debt(g, h)
           <= Cardinality(d) + Debt(f, d) + (IF p.ok /\ p.nl THEN 0 ELSE 2)
    BY <1>2, <2>4, <2>10, <2>11
  <2> QED
    BY <1>0, <2>12 DEF h
<1> QED
  BY <1>1, <1>3, <1>4

\* A step that damages nothing, and leaves the file or replaces it by one whose
\* last line is terminated.
LEMMA DamageElsewhere ==
  ASSUME OrderInv, DamageInv, damaged' = damaged, torn' = torn \/ torn' = torn + 1,
         file' = file \/ file' = <<>> \/ file'[Len(file')].nl
  PROVE  DamageInv'
<1>1. torn \in Nat /\ Cardinality(damaged) \in Nat
  <2>1. damaged \subseteq 1..MaxEvents /\ torn \in Nat
    BY DEF OrderInv, TypeOK
  <2> QED
    BY <2>1, FiniteDamage
<1>2. Debt(file, damaged) \in Nat
  BY DebtType
<1>3. Debt(file', damaged') = Debt(file, damaged) \/ Debt(file', damaged') = 0
  BY DEF Debt
<1> QED
  BY <1>1, <1>2, <1>3 DEF DamageInv

\* A step that writes a text or a part of one.
LEMMA DamageWritten ==
  ASSUME OrderInv, DamageInv, next <= MaxEvents, NEW p \in Part, Written(p),
         damaged' \in SUBSET (1..MaxEvents),
         \/ torn' = torn + 1
         \/ p.ok /\ p.nl /\ torn' = torn
  PROVE  DamageInv'
<1>1. /\ file \in Seq(Line) /\ Ordered(file) /\ torn \in Nat
      /\ next \in 1..MaxEvents /\ damaged \subseteq 1..MaxEvents
  BY StorageAssumption DEF OrderInv, TypeOK, InOrder
<1>2. IsFiniteSet(damaged) /\ Cardinality(damaged) \in Nat /\ Cardinality(damaged') \in Nat
  BY <1>1, FiniteDamage
<1>3. Cardinality(damaged') + Debt(file', damaged')
        <= Cardinality(damaged) + Debt(file, damaged) + (IF p.ok /\ p.nl THEN 0 ELSE 2)
  BY <1>1, <1>2, WriteDamage DEF Written
<1>4. Debt(file, damaged) \in Nat /\ Debt(file', damaged') \in Nat
  BY DebtType
<1>5. Cardinality(damaged) + Debt(file, damaged) <= 2 * torn
  BY DEF DamageInv
<1>6. Cardinality(damaged') + Debt(file', damaged') <= 2 * torn'
  BY <1>1, <1>2, <1>3, <1>4, <1>5
<1> QED
  BY <1>6 DEF DamageInv

\* A copy of prune() that replaces the file.
LEMMA DamageSwapped ==
  ASSUME OrderInv, DamageInv, op = "prune", NEW k \in Cut(count - arg),
         Swapped(k, count - arg)
  PROVE  DamageInv'
<1> DEFINE f == Kept(k, count - arg)
<1>1. /\ file \in Seq(Line) /\ Ordered(file) /\ torn \in Nat /\ tmp \in Seq(Line)
      /\ damaged \subseteq 1..MaxEvents /\ count - arg \in Nat \ {0}
  BY DEF OrderInv, TypeOK, InOrder, Copied
<1>2. CopyUpTo(tmp, f)
  BY DEF OrderInv, Copied
<1>3. f \in Seq(Line) /\ Ordered(f) /\ \A a \in 1..Len(f) : f[a].nl = TRUE
  BY <1>1, KeptShape
<1>4. /\ file' = tmp
      /\ damaged' = damaged \union ((Intact(f) \intersect Events(tmp)) \ Intact(tmp))
      /\ torn' = IF tmp = f THEN torn ELSE torn + 1
  BY DEF Swapped
<1> HIDE DEF f
<1>5. CASE tmp = f
  <2>1. damaged' = damaged /\ torn' = torn
    BY <1>4, <1>5
  <2>2. tmp = <<>> \/ tmp[Len(tmp)].nl
    BY <1>3, <1>5
  <2> QED
    BY <1>4, <2>1, <2>2, DamageElsewhere
<1>6. CASE tmp # f
  <2> DEFINE D == (Intact(f) \intersect Events(tmp)) \ Intact(tmp)
             v == tmp[Len(tmp)].ev
  <2>1. ASSUME NEW e \in D
        PROVE  tmp # <<>> /\ e = v
    <3>1. PICK a \in DOMAIN tmp : tmp[a].ev = e
      BY IntactLines
    <3>2. PICK c \in DOMAIN f : f[c].ok /\ f[c].ev = e
      BY IntactLines
    <3>3. /\ a \in DOMAIN f /\ a \in 1..Len(tmp) /\ tmp[a].ev = f[a].ev
          /\ a < Len(tmp) => tmp[a].ok = f[a].ok
      BY <1>1, <1>2, <1>3, <3>1 DEF CopyUpTo
    <3>4. a = c
      <4>1. a \in Nat /\ c \in Nat /\ f[a].ev \in Nat /\ f[c].ev \in Nat
        BY <1>3, <3>2, <3>3, LineFields
      <4>2. f[a].ev = f[c].ev
        BY <3>1, <3>2, <3>3
      <4> QED
        BY <1>3, <3>2, <3>3, <4>1, <4>2 DEF Ordered
    <3>5. ~(a < Len(tmp))
      BY <3>1, <3>2, <3>3, <3>4, IntactLines
    <3>6. a = Len(tmp)
      BY <1>1, <3>3, <3>5
    <3> QED
      BY <3>1, <3>6
  <2>2. damaged' = damaged \union D /\ torn' = torn + 1
    BY <1>4, <1>6
  <2> HIDE DEF D
  <2>3. IsFiniteSet(damaged) /\ Cardinality(damaged) \in Nat
    BY <1>1, FiniteDamage
  <2>4. Cardinality(damaged) <= 2 * torn
    <3>1. Debt(file, damaged) \in Nat
      BY DebtType
    <3> QED
      BY <1>1, <2>3, <3>1 DEF DamageInv
  <2>5. Debt(tmp, damaged') \in Nat /\ Debt(tmp, damaged') <= 2
    BY DEF Debt
  <2>6. CASE D = {}
    <3>1. damaged' = damaged
      BY <2>2, <2>6
    <3> QED
      <4>1. Cardinality(damaged') = Cardinality(damaged)
        BY <3>1
      <4>2. Cardinality(damaged') + Debt(tmp, damaged') <= 2 * torn'
        BY <1>1, <2>2, <2>3, <2>4, <2>5, <4>1
      <4> QED
        BY <1>4, <4>2 DEF DamageInv
  <2>7. CASE D # {}
    <3>1. tmp # <<>> /\ D = {v}
      BY <2>1, <2>7
    <3>2. damaged' = damaged \union {v} /\ v \in damaged'
      BY <2>2, <3>1
    <3>3. Debt(tmp, damaged') <= 1
      BY <3>2 DEF Debt
    <3> HIDE DEF v
    <3>4. Cardinality(damaged') = IF v \in damaged THEN Cardinality(damaged)
                                  ELSE Cardinality(damaged) + 1
      BY <2>3, <3>2, FS_AddElement
    <3> QED
      <4>1. torn' \in Nat /\ Cardinality(damaged') <= 2 * torn' - 1
        BY <1>1, <2>2, <2>3, <2>4, <3>4
      <4>2. Cardinality(damaged') + Debt(tmp, damaged') <= 2 * torn'
        BY <1>1, <2>2, <2>3, <2>4, <2>5, <3>3, <3>4
      <4> QED
        BY <1>4, <4>1, <4>2 DEF DamageInv
  <2> QED
    BY <2>6, <2>7
<1> QED
  BY <1>5, <1>6

LEMMA DamageStep == OrderInv /\ DamageInv /\ [Next]_vars => DamageInv'
<1> SUFFICES ASSUME OrderInv, DamageInv, [Next]_vars
             PROVE  DamageInv'
  OBVIOUS
<1>0. damaged' \in SUBSET (1..MaxEvents)
  BY OrderStep DEF OrderInv, TypeOK
<1>5. ASSUME NEW h \in Heights, Insert(h)
      PROVE  DamageInv'
  <2>1. Whole(h) \in Part /\ Whole(h).ok /\ Whole(h).nl
    BY StorageAssumption, PartTypes DEF Whole
  <2> QED
    BY <1>0, <1>5, <2>1, DamageWritten DEF Insert, Counted
<1>51. ASSUME NEW h \in Heights, InsertFails(h)
       PROVE  DamageInv'
  <2>1. torn' = torn + 1 /\ next <= MaxEvents
        /\ (UNCHANGED <<file, damaged>> \/ \E p \in Part : Written(p))
    BY <1>51, StorageAssumption, PartTypes DEF InsertFails, Counted
  <2> QED
    BY <1>0, <2>1, DamageElsewhere, DamageWritten
<1>52. ASSUME NEW h \in Heights, InsertIgnored(h)
       PROVE  DamageInv'
  BY <1>52, DamageElsewhere DEF InsertIgnored
<1>13. ASSUME NEW h \in Heights, CrashInInsert(h)
       PROVE  DamageInv'
  <2>1. torn' = torn + 1 /\ next <= MaxEvents /\ \E p \in Part : Written(p)
    BY <1>13, StorageAssumption, PartTypes DEF CrashInInsert
  <2> QED
    BY <1>0, <2>1, DamageWritten
<1>11. CASE PruneSwap
  <2>1. CASE \E k \in Cut(count - arg) : Swapped(k, count - arg)
    BY <1>11, <2>1, DamageSwapped DEF PruneSwap
  <2>2. CASE UNCHANGED <<file, damaged, torn>>
    BY <2>2, DamageElsewhere
  <2> QED
    BY <1>11, <2>1, <2>2 DEF PruneSwap
<1>1. CASE Open
  BY <1>1, DamageElsewhere DEF Open, diskVars, histVars
<1>2. CASE Close
  BY <1>2, DamageElsewhere DEF Close, diskVars, histVars
<1>3. CASE \E n \in FileCounts : ConfigureRotation(n)
  BY <1>3, DamageElsewhere DEF ConfigureRotation, diskVars, histVars
<1>4. CASE Refuse
  BY <1>4, DamageElsewhere DEF Refuse, diskVars
<1>6. CASE RotateRemove
  BY <1>6, DamageElsewhere DEF RotateRemove
<1>7. CASE RotateShift
  BY <1>7, DamageElsewhere DEF RotateShift
<1>8. CASE RotateFirst
  BY <1>8, DamageElsewhere DEF RotateFirst
<1>9. CASE RotateReopen
  BY <1>9, DamageElsewhere DEF RotateReopen, diskVars, histVars
<1>10. CASE \E n \in PruneTo : PruneCopy(n)
  BY <1>10, DamageElsewhere DEF PruneCopy, histVars
<1>12. CASE Crash
  BY <1>12, DamageElsewhere DEF Crash, diskVars, histVars
<1>14. CASE UNCHANGED vars \/ Rest
  BY <1>14, DamageElsewhere DEF Rest, vars, diskVars, histVars
<1> QED
  BY <1>1, <1>2, <1>3, <1>4, <1>5, <1>51, <1>52, <1>6, <1>7, <1>8, <1>9, <1>10,
     <1>11, <1>12, <1>13, <1>14 DEF Next

(***************************************************************************)
(* Writes that fail or are cut short damage at most two events each,       *)
(* however many follow one another and whatever is inserted, rotated or    *)
(* pruned between them.  The strengthening counts the events that an       *)
(* unterminated last line still puts at risk.                              *)
(***************************************************************************)
THEOREM StorageDamage == Spec => []CrashDamageBounded
<1>1. OrderInv /\ DamageInv => CrashDamageBounded
  <2> SUFFICES ASSUME OrderInv, DamageInv
               PROVE  Cardinality(damaged) <= 2 * torn
    BY DEF CrashDamageBounded
  <2>1. damaged \subseteq 1..MaxEvents /\ torn \in Nat
    BY StorageAssumption DEF OrderInv, TypeOK
  <2>3. Cardinality(damaged) \in Nat
    BY <2>1, FiniteDamage
  <2>4. Debt(file, damaged) \in Nat
    BY DebtType
  <2> QED
    BY <2>1, <2>3, <2>4 DEF DamageInv
<1>2. Init => OrderInv /\ DamageInv
  BY OrderInit, DamageInit
<1>3. OrderInv /\ DamageInv /\ [Next]_vars => (OrderInv /\ DamageInv)'
  BY OrderStep, DamageStep
<1> QED
  BY <1>1, <1>2, <1>3, PTL DEF Spec
-----------------------------------------------------------------------------
(* FileStorage implements EventLog.                                        *)

LEMMA HeldStored ==
  ASSUME NEW f, NEW b \in [1..MaxBackups -> Seq(Line)], NEW e
  PROVE  e \in Intact(f) \union UNION {Intact(b[i]) : i \in DOMAIN b} <=> Stored(e, f, b)
BY DEF Stored

\* Stored events are numbers.
LEMMA StoredNumber ==
  ASSUME NEW f \in Seq(Line), NEW b \in [1..MaxBackups -> Seq(Line)], NEW e,
         Stored(e, f, b)
  PROVE  e \in Nat
<1>1. ASSUME NEW g \in Seq(Line), e \in Intact(g)
      PROVE  e \in Nat
  BY <1>1, IntactLines, LineFields
<1> QED
  BY <1>1 DEF Stored

\* What lies between two events of a backup is in no other file.
LEMMA BackupAlone ==
  ASSUME NEW f \in Seq(Line), NEW b \in [1..MaxBackups -> Seq(Line)], NEW n,
         InOrder(f, b, n), NEW k \in 1..MaxBackups,
         NEW x \in Intact(b[k]), NEW y \in Intact(b[k]), NEW z, x <= z, z <= y
  PROVE  z \notin Intact(f) /\ \A i \in 1..MaxBackups : i # k => z \notin Intact(b[i])
<1>0. b[k] \in Seq(Line) /\ MaxBackups \in Nat
  BY MaxBackupsNat
<1>1. PICK p \in DOMAIN b[k] : b[k][p].ev = x
  BY IntactLines
<1>2. PICK q \in DOMAIN b[k] : b[k][q].ev = y
  BY IntactLines
<1>3. x \in Nat /\ y \in Nat
  BY <1>0, <1>1, <1>2, LineFields
<1>4. ASSUME z \in Intact(f)
      PROVE  FALSE
  <2>1. PICK a \in DOMAIN f : f[a].ev = z
    BY <1>4, IntactLines
  <2>2. z \in Nat
    BY <2>1, LineFields
  <2>3. y < z
    BY <1>2, <2>1 DEF InOrder, Older
  <2> QED
    BY <1>3, <2>2, <2>3
<1>5. ASSUME NEW i \in 1..MaxBackups, i # k, z \in Intact(b[i])
      PROVE  FALSE
  <2>0. b[i] \in Seq(Line)
    OBVIOUS
  <2>1. PICK a \in DOMAIN b[i] : b[i][a].ev = z
    BY <1>5, IntactLines
  <2>2. z \in Nat
    BY <2>0, <2>1, LineFields
  <2>3. CASE i < k
    <3>1. Older(b[k], b[i])
      BY <2>3 DEF InOrder
    <3>2. y < z
      BY <1>2, <2>1, <3>1 DEF Older
    <3> QED
      BY <1>3, <2>2, <3>2
  <2>4. CASE k < i
    <3>1. Older(b[i], b[k])
      BY <2>4 DEF InOrder
    <3>2. z < x
      BY <1>1, <2>1, <3>1 DEF Older
    <3> QED
      BY <1>3, <2>2, <3>2
  <2> QED
    BY <1>0, <1>5, <2>3, <2>4
<1> QED
  BY <1>4, <1>5

\* Of what f and b hold, g and c hold only events before the n-th, and all of them
\* but a stretch of neighbours.
ForgetsFrom(n, f, b, g, c) ==
  /\ \A e : Stored(e, g, c) => Stored(e, f, b) /\ e < n
  /\ \A x, y, z :
       /\ Stored(x, f, b) /\ ~Stored(x, g, c)
       /\ Stored(y, f, b) /\ ~Stored(y, g, c)
       /\ Stored(z, f, b) /\ x <= z /\ z <= y /\ y < n
       => ~Stored(z, g, c)
Forgets(n, f, b, g, c) == \E m \in 1..n : ForgetsFrom(m, f, b, g, c)

\* The files after one that loses just the backup k.
Drops(f, b, g, c, k) ==
  \A e : Stored(e, g, c) <=>
           e \in Intact(f) \/ \E i \in 1..MaxBackups : i # k /\ e \in Intact(b[i])

\* Everything stored is older than the next event.
LEMMA StoredBefore ==
  ASSUME NEW f \in Seq(Line), NEW b \in [1..MaxBackups -> Seq(Line)], NEW n,
         InOrder(f, b, n), NEW e, Stored(e, f, b)
  PROVE  e < n
<1>1. CASE e \in Intact(f)
  BY <1>1, IntactLines DEF InOrder, Before
<1>2. CASE \E i \in 1..MaxBackups : e \in Intact(b[i])
  BY <1>2, IntactLines DEF InOrder, Before
<1> QED
  BY <1>1, <1>2 DEF Stored

LEMMA DropForgets ==
  ASSUME NEW f \in Seq(Line), NEW b \in [1..MaxBackups -> Seq(Line)], NEW n \in Nat \ {0},
         InOrder(f, b, n), NEW k \in 1..MaxBackups, NEW g, NEW c, Drops(f, b, g, c, k)
  PROVE  Forgets(n, f, b, g, c)
<1>1. \A e : Stored(e, g, c) => Stored(e, f, b) /\ e < n
  BY StoredBefore DEF Drops, Stored
<1>2. \A e : Stored(e, f, b) /\ ~Stored(e, g, c) => e \in Intact(b[k])
  BY DEF Drops, Stored
<1>3. ASSUME NEW x, NEW y, NEW z, Stored(x, f, b), ~Stored(x, g, c),
             Stored(y, f, b), ~Stored(y, g, c), x <= z, z <= y
      PROVE  ~Stored(z, g, c)
  <2>1. x \in Intact(b[k]) /\ y \in Intact(b[k])
    BY <1>2, <1>3
  <2>2. z \notin Intact(f) /\ \A i \in 1..MaxBackups : i # k => z \notin Intact(b[i])
    BY <1>3, <2>1, BackupAlone
  <2> QED
    BY <2>2 DEF Drops
<1>4. ForgetsFrom(n, f, b, g, c)
  BY <1>1, <1>3, Zenon DEF ForgetsFrom
<1> QED
  BY <1>4 DEF Forgets

LEMMA SameForgets ==
  ASSUME NEW f \in Seq(Line), NEW b \in [1..MaxBackups -> Seq(Line)], NEW n \in Nat \ {0},
         InOrder(f, b, n)
  PROVE  Forgets(n, f, b, f, b)
<1>1. \A e : Stored(e, f, b) => e < n
  BY StoredBefore
<1>2. ForgetsFrom(n, f, b, f, b)
  BY <1>1 DEF ForgetsFrom
<1> QED
  BY <1>2 DEF Forgets

\* remove: the backup k goes.
LEMMA RemoveForgets ==
  ASSUME NEW f \in Seq(Line), NEW b \in [1..MaxBackups -> Seq(Line)], NEW n \in Nat \ {0},
         InOrder(f, b, n), NEW k \in 1..MaxBackups
  PROVE  Forgets(n, f, b, f, [b EXCEPT ![k] = <<>>])
<1> DEFINE c == [b EXCEPT ![k] = <<>>]
<1>1. c[k] = <<>> /\ \A i \in 1..MaxBackups : i # k => c[i] = b[i]
  OBVIOUS
<1> HIDE DEF c
<1>2. Drops(f, b, f, c, k)
  BY <1>1, EmptyIntact DEF Drops, Stored
<1> QED
  BY <1>2, DropForgets DEF c

\* rename: the backup in the new place, if there is one, goes.
LEMMA RenameForgets ==
  ASSUME NEW f \in Seq(Line), NEW b \in [1..MaxBackups -> Seq(Line)], NEW n \in Nat \ {0},
         InOrder(f, b, n), NEW k \in 1..MaxBackups, k + 1 \in 1..MaxBackups
  PROVE  Forgets(n, f, b, f, Renamed(b, k))
<1>1. CASE b[k] = <<>>
  BY <1>1, SameForgets DEF Renamed
<1>2. CASE b[k] # <<>>
  <2> DEFINE c == [b EXCEPT ![k] = <<>>, ![k + 1] = b[k]]
  <2>0. k # k + 1
    BY MaxBackupsNat
  <2>1. /\ c[k] = <<>> /\ c[k + 1] = b[k]
        /\ \A i \in 1..MaxBackups : i # k /\ i # k + 1 => c[i] = b[i]
    BY <2>0
  <2> HIDE DEF c
  <2>2. Drops(f, b, f, c, k + 1)
    BY <2>0, <2>1, EmptyIntact DEF Drops, Stored
  <2>3. Forgets(n, f, b, f, c)
    BY <2>2, DropForgets
  <2> QED
    BY <1>2, <2>3 DEF Renamed, c
<1> QED
  BY <1>1, <1>2

LEMMA FirstForgets ==
  ASSUME NEW f \in Seq(Line), NEW b \in [1..MaxBackups -> Seq(Line)], NEW n \in Nat \ {0},
         InOrder(f, b, n), 1 \in 1..MaxBackups
  PROVE  Forgets(n, f, b, <<>>, [b EXCEPT ![1] = f])
<1> DEFINE c == [b EXCEPT ![1] = f]
<1>1. c[1] = f /\ \A i \in 1..MaxBackups : i # 1 => c[i] = b[i]
  OBVIOUS
<1> HIDE DEF c
<1>2. Drops(f, b, <<>>, c, 1)
  BY <1>1, EmptyIntact DEF Drops, Stored
<1> QED
  BY <1>2, DropForgets DEF c

\* prune: the first lines of the active file go, and the last ones when the copy
\* failed.
LEMMA CopyForgets ==
  ASSUME NEW f \in Seq(Line), NEW b \in [1..MaxBackups -> Seq(Line)], NEW n \in Nat \ {0},
         InOrder(f, b, n), NEW g \in Seq(Line), CopyOf(g, f)
  PROVE  Forgets(n, f, b, g, b)
<1>1. PICK k \in 0..Len(f) :
        /\ Len(g) <= Len(f) - k
        /\ \A a \in 1..Len(g) :
             /\ g[a].ev = f[a + k].ev
             /\ g[a].ok => f[a + k].ok
             /\ 1 < a /\ a < Len(g) => g[a].ok = f[a + k].ok
  BY DEF CopyOf
<1> DEFINE M == Len(g)
           m == IF M = 0 THEN n ELSE IF g[M].ok THEN g[M].ev + 1 ELSE g[M].ev
<1>0. M \in Nat /\ k \in Nat /\ DOMAIN g = 1..M /\ DOMAIN f = 1..Len(f) /\ Len(f) \in Nat
  OBVIOUS
<1>2. \A a \in 1..M : a + k \in DOMAIN f /\ g[a].ev = f[a + k].ev
  BY <1>1, <1>0
<1>3. /\ \A a \in DOMAIN f : f[a].ev \in Nat \ {0} /\ f[a].ev < n
      /\ \A a \in DOMAIN g : g[a].ev \in Nat \ {0} /\ g[a].ev < n
  <2>1. \A a \in DOMAIN f : f[a].ev \in Nat \ {0} /\ f[a].ev < n
    BY LineFields DEF InOrder, Before
  <2> QED
    BY <1>0, <1>2, <2>1
<1>4. m \in 1..n
  <2>1. CASE M = 0
    BY <2>1
  <2>2. CASE M # 0
    BY <1>0, <1>3, <2>2
  <2> QED
    BY <2>1, <2>2
<1>5. ASSUME NEW a \in 1..M, NEW c \in 1..M, a < c
      PROVE  g[a].ev < g[c].ev
  BY <1>5, <1>0 DEF CopyOf, Ordered
<1>6. ASSUME NEW e, Stored(e, g, b)
      PROVE  Stored(e, f, b) /\ e < m
  <2>1. CASE e \in Intact(g)
    <3>1. PICK a \in 1..M : g[a].ok /\ g[a].ev = e
      BY <1>0, <2>1, IntactLines
    <3>2. a + k \in DOMAIN f /\ f[a + k].ok /\ f[a + k].ev = e
      BY <1>1, <1>2, <3>1
    <3>3. e \in Intact(f)
      BY <3>2, IntactLines
    <3>4. M # 0 /\ e < m
      <4>1. M # 0 /\ (a = M \/ a < M) /\ M \in 1..M
        <5>1. a \in 1..M /\ M \in Nat
          BY <1>0, <3>1
        <5> HIDE DEF M
        <5> QED
          BY <5>1
      <4>2. CASE a = M
        BY <1>0, <1>3, <3>1, <4>1, <4>2
      <4>3. CASE a < M
        <5>1. g[a].ev < g[M].ev
          BY <1>5, <4>1, <4>3
        <5>2. g[a].ev \in Nat /\ g[M].ev \in Nat
          BY <1>0, <1>3, <4>1
        <5> QED
          BY <3>1, <4>1, <5>1, <5>2
      <4> QED
        BY <4>1, <4>2, <4>3
    <3> QED
      BY <3>3, <3>4 DEF Stored
  <2>2. CASE \E i \in 1..MaxBackups : e \in Intact(b[i])
    <3>1. Stored(e, f, b)
      BY <2>2 DEF Stored
    <3>2. PICK i \in 1..MaxBackups : e \in Intact(b[i])
      BY <2>2
    <3>3. PICK c \in DOMAIN b[i] : b[i][c].ev = e
      BY <3>2, IntactLines
    <3>4. e < n /\ e \in Nat
      BY <3>1, StoredBefore, StoredNumber
    <3>5. CASE M = 0
      BY <3>1, <3>4, <3>5
    <3>6. CASE M # 0
      <4>1. M \in 1..M
        BY <1>0, <3>6
      <4>2. M + k \in DOMAIN f /\ g[M].ev = f[M + k].ev
        BY <1>2, <4>1
      <4>3. e < g[M].ev
        BY <3>3, <4>2 DEF InOrder, Older
      <4>4. g[M].ev \in Nat
        BY <1>0, <1>3, <4>1
      <4> QED
        BY <3>1, <3>4, <3>6, <4>3, <4>4
    <3> QED
      BY <3>5, <3>6
  <2> QED
    BY <1>6, <2>1, <2>2 DEF Stored
<1>7. ASSUME NEW y, Stored(y, f, b), ~Stored(y, g, b), y < m, NEW q \in DOMAIN f,
             f[q].ok, f[q].ev = y, M # 0
      PROVE  q <= k + 1
  <2>1. SUFFICES ASSUME q > k + 1
                 PROVE  FALSE
    BY <1>0
  <2>2. M \in 1..M /\ M + k \in DOMAIN f /\ g[M].ev = f[M + k].ev /\ g[M].ev \in Nat
    BY <1>0, <1>2, <1>3, <1>7
  <2>3. y <= g[M].ev /\ (~g[M].ok => y < g[M].ev) /\ y \in Nat
    BY <1>3, <1>7, <2>2
  <2>4. q <= M + k
    <3>1. CASE q > M + k
      <4>1. f[M + k].ev < f[q].ev
        BY <2>2, <3>1 DEF InOrder, Ordered
      <4> QED
        BY <1>7, <2>2, <2>3, <4>1
    <3> QED
      BY <1>0, <2>2, <3>1
  <2>5. q - k \in 1..M /\ (q - k) + k = q /\ 1 < q - k
    BY <1>0, <2>1, <2>4
  <2>6. g[q - k].ev = y
    BY <1>2, <1>7, <2>5
  <2>7. g[q - k].ok
    <3>1. CASE q - k < M
      <4>1. g[q - k].ok = f[(q - k) + k].ok
        BY <1>1, <2>5, <3>1
      <4> QED
        BY <1>7, <2>5, <4>1
    <3>2. CASE q - k = M
      BY <2>3, <2>6, <3>2
    <3> QED
      BY <1>0, <2>5, <3>1, <3>2
  <2>8. y \in Intact(g)
    BY <1>0, <2>5, <2>6, <2>7, IntactLines
  <2> QED
    BY <1>7, <2>8 DEF Stored
<1> HIDE DEF m
<1>8. ASSUME NEW x, NEW y, NEW z, Stored(x, f, b), ~Stored(x, g, b),
             Stored(y, f, b), ~Stored(y, g, b), x <= z, z <= y, y < m, Stored(z, g, b)
      PROVE  FALSE
  <2>1. x \in Intact(f) /\ y \in Intact(f)
    BY <1>8 DEF Stored
  <2>2. PICK p \in DOMAIN f : f[p].ok /\ f[p].ev = x
    BY <2>1, IntactLines
  <2>3. PICK q \in DOMAIN f : f[q].ok /\ f[q].ev = y
    BY <2>1, IntactLines
  <2>6. x \in Nat /\ y \in Nat
    BY <1>3, <2>2, <2>3
  <2>7. ASSUME z \in Intact(g)
        PROVE  FALSE
    <3>1. PICK a \in 1..M : g[a].ok /\ g[a].ev = z
      BY <1>0, <2>7, IntactLines
    <3>2. a + k \in DOMAIN f /\ f[a + k].ev = z /\ M # 0 /\ z \in Nat
      BY <1>0, <1>2, <1>3, <3>1
    <3>3. q <= k + 1
      BY <1>7, <1>8, <2>3, <3>2
    <3>4. q = a + k \/ q < a + k
      BY <1>0, <3>1, <3>3
    <3>5. CASE q = a + k
      BY <1>8, <2>3, <3>2, <3>5
    <3>6. CASE q < a + k
      <4>1. y < z
        BY <2>3, <3>2, <3>6 DEF InOrder, Ordered
      <4> QED
        BY <1>8, <2>6, <3>2, <4>1
    <3> QED
      BY <3>4, <3>5, <3>6
  <2>8. ASSUME NEW i \in 1..MaxBackups, z \in Intact(b[i])
        PROVE  FALSE
    <3>0. b[i] \in Seq(Line)
      OBVIOUS
    <3>1. PICK a \in DOMAIN b[i] : b[i][a].ev = z
      BY <2>8, IntactLines
    <3>2. z < x
      BY <2>2, <3>1 DEF InOrder, Older
    <3>3. z \in Nat
      BY <3>0, <3>1, LineFields
    <3> QED
      BY <1>8, <2>6, <3>2, <3>3
  <2> QED
    BY <1>8, <2>7, <2>8 DEF Stored
<1>9. ForgetsFrom(m, f, b, g, b)
  BY <1>6, <1>8 DEF ForgetsFrom
<1> QED
  BY <1>4, <1>9 DEF Forgets

\* A write adds its event, or adds none and costs at most the last one.
LEMMA AppendHolds ==
  ASSUME NEW f \in Seq(Line), Ordered(f), NEW e \in 1..MaxEvents,
         NEW p \in Part
  PROVE  LET g == AppendText(f, e, p)
         IN  \/ \A x : x \in Intact(g) <=> x \in Intact(f) \/ x = e
             \/ /\ \A x : x \in Intact(g) => x \in Intact(f)
                /\ \A x : x \in Intact(f) /\ x \notin Intact(g)
                            => f # <<>> /\ x = f[Len(f)].ev
<1> DEFINE g == AppendText(f, e, p)
<1> HIDE DEF g
<1>0. g = AppendText(f, e, p)
  BY DEF g
<1>1. /\ g \in Seq(Line)
      /\ g # <<>>
      /\ \/ /\ f = <<>> \/ f[Len(f)].nl
            /\ Len(g) = Len(f) + 1
            /\ \A a \in 1..Len(f) : g[a] = f[a]
            /\ g[Len(g)] = [ev |-> e, ok |-> p.ok, nl |-> p.nl, end |-> Bytes(f) + p.lines]
         \/ /\ f # <<>> /\ ~f[Len(f)].nl
            /\ Len(g) = Len(f)
            /\ \A a \in 1..Len(f) - 1 : g[a] = f[a]
            /\ g[Len(g)] = [ev |-> f[Len(f)].ev, ok |-> FALSE, nl |-> p.nl,
                            end |-> f[Len(f)].end + p.lines - 1]
  BY <1>0, AppendTextShape, SMTT(30)
<1>2. DOMAIN f = 1..Len(f) /\ DOMAIN g = 1..Len(g) /\ Len(f) \in Nat /\ Len(g) \in DOMAIN g
  BY <1>1
<1>3. CASE /\ f = <<>> \/ f[Len(f)].nl
           /\ Len(g) = Len(f) + 1
           /\ \A a \in 1..Len(f) : g[a] = f[a]
           /\ g[Len(g)] = [ev |-> e, ok |-> p.ok, nl |-> p.nl, end |-> Bytes(f) + p.lines]
  <2>1. \A a \in DOMAIN f : a \in DOMAIN g /\ g[a] = f[a]
    BY <1>2, <1>3
  <2>2. \A a \in DOMAIN g : a \in DOMAIN f \/ a = Len(g)
    BY <1>2, <1>3
  <2>3. g[Len(g)].ev = e /\ g[Len(g)].ok = p.ok
    BY <1>3
  <2>4. \A x : x \in Intact(f) => x \in Intact(g)
    BY <2>1, IntactLines
  <2>5. \A x : x \in Intact(g) => x \in Intact(f) \/ (p.ok /\ x = e)
    BY <2>1, <2>2, <2>3, IntactLines
  <2>6. p.ok => e \in Intact(g)
    BY <1>2, <2>3, IntactLines
  <2> QED
    BY <1>0, <2>4, <2>5, <2>6
<1>4. CASE /\ f # <<>> /\ ~f[Len(f)].nl
           /\ Len(g) = Len(f)
           /\ \A a \in 1..Len(f) - 1 : g[a] = f[a]
           /\ g[Len(g)] = [ev |-> f[Len(f)].ev, ok |-> FALSE, nl |-> p.nl,
                           end |-> f[Len(f)].end + p.lines - 1]
  <2>1. \A a \in DOMAIN f : a # Len(f) => a \in DOMAIN g /\ g[a] = f[a]
    BY <1>2, <1>4
  <2>2. \A a \in DOMAIN g : a # Len(f) => a \in DOMAIN f /\ g[a] = f[a]
    BY <1>2, <1>4
  <2>3. ~g[Len(f)].ok
    BY <1>4
  <2>4. \A x : x \in Intact(g) => x \in Intact(f)
    BY <2>2, <2>3, IntactLines
  <2>5. \A x : x \in Intact(f) /\ x \notin Intact(g) => x = f[Len(f)].ev
    BY <2>1, IntactLines
  <2> QED
    BY <1>0, <1>4, <2>4, <2>5
<1> QED
  BY <1>1, <1>3, <1>4

\* The last event of the active file is the newest one stored.
LEMMA LastIsNewest ==
  ASSUME NEW f \in Seq(Line), NEW b \in [1..MaxBackups -> Seq(Line)], NEW n,
         InOrder(f, b, n), f # <<>>, NEW y, Stored(y, f, b)
  PROVE  y <= f[Len(f)].ev
<1>0. Len(f) \in DOMAIN f /\ f[Len(f)].ev \in Nat
  BY LineFields
<1>1. CASE y \in Intact(f)
  <2>1. PICK a \in DOMAIN f : f[a].ev = y
    BY <1>1, IntactLines
  <2>2. a = Len(f) \/ a < Len(f)
    BY <2>1
  <2>3. y \in Nat
    BY <2>1, LineFields
  <2> QED
    BY <1>0, <2>1, <2>2, <2>3 DEF InOrder, Ordered
<1>2. CASE \E i \in 1..MaxBackups : y \in Intact(b[i])
  <2>1. PICK i \in 1..MaxBackups : y \in Intact(b[i])
    BY <1>2
  <2>2. PICK a \in DOMAIN b[i] : b[i][a].ev = y
    BY <2>1, IntactLines
  <2>3. y < f[Len(f)].ev
    BY <1>0, <2>2 DEF InOrder, Older
  <2>4. y \in Nat
    BY StoredNumber
  <2> QED
    BY <1>0, <2>3, <2>4
<1> QED
  BY <1>1, <1>2 DEF Stored

\* A write, complete or torn, is a step of the log.
LEMMA LogWrite ==
  ASSUME OrderInv, next <= MaxEvents, next' = next + 1,
         NEW p \in Part,
         file' = AppendText(file, next, p), UNCHANGED backup
  PROVE  Log!Store \/ Log!Fail
<1>0. /\ file \in Seq(Line) /\ Ordered(file) /\ next \in 1..MaxEvents
      /\ backup \in [1..MaxBackups -> Seq(Line)] /\ InOrder(file, backup, next)
  BY StorageAssumption DEF OrderInv, TypeOK, InOrder
<1>1. \A e : e \in Held <=> Stored(e, file, backup)
  BY <1>0, HeldStored DEF Held
<1>2. \A e : e \in Held' <=> Stored(e, file', backup)
  BY <1>0, HeldStored, ZenonT(30) DEF Held
<1>3. CASE \A x : x \in Intact(file') <=> x \in Intact(file) \/ x = next
  <2>1. \A e : e \in Held' <=> e \in Held \/ e = next
    BY <1>1, <1>2, <1>3 DEF Stored
  <2> QED
    BY <2>1 DEF Log!Store
<1>4. CASE /\ \A x : x \in Intact(file') => x \in Intact(file)
           /\ \A x : x \in Intact(file) /\ x \notin Intact(file')
                       => file # <<>> /\ x = file[Len(file)].ev
  <2>1. Held' \subseteq Held
    BY <1>1, <1>2, <1>4 DEF Stored
  <2>2. ASSUME NEW x \in Held, x \notin Held', NEW y \in Held
        PROVE  y <= x
    <3>1. x \in Intact(file) /\ x \notin Intact(file')
      BY <1>1, <1>2, <2>2 DEF Stored
    <3>2. file # <<>> /\ x = file[Len(file)].ev
      BY <1>4, <3>1
    <3>3. Stored(y, file, backup)
      BY <1>1, <2>2
    <3> QED
      BY <1>0, <3>2, <3>3, LastIsNewest
  <2> QED
    BY <2>1, <2>2 DEF Log!Fail, Log!Lost
<1> QED
  BY <1>0, <1>3, <1>4, AppendHolds

\* A step that takes the files apart is retention.
LEMMA LogForget ==
  ASSUME OrderInv, OrderInv', next' = next, Forgets(next, file, backup, file', backup')
  PROVE  \E n \in 1..next : Log!Forget(n)
<1>1. \A e : e \in Held <=> Stored(e, file, backup)
  <2>1. backup \in [1..MaxBackups -> Seq(Line)]
    BY DEF OrderInv, TypeOK
  <2> QED
    BY <2>1, HeldStored DEF Held
<1>2. \A e : e \in Held' <=> Stored(e, file', backup')
  <2>1. backup' \in [1..MaxBackups -> Seq(Line)]
    BY DEF OrderInv, TypeOK
  <2> QED
    BY <2>1, HeldStored DEF Held
<1>3. PICK n \in 1..next : ForgetsFrom(n, file, backup, file', backup')
  BY DEF Forgets
<1> QED
  BY <1>1, <1>2, <1>3 DEF Log!Forget, Log!Lost, ForgetsFrom

LEMMA LogElsewhere ==
  ASSUME UNCHANGED <<file, backup, next>>
  PROVE  UNCHANGED Log!vars
BY DEF Log!vars, Held

LEMMA LogStep == OrderInv /\ OrderInv' /\ [Next]_vars => [Log!Next]_(Log!vars)
<1> SUFFICES ASSUME OrderInv, OrderInv', [Next]_vars
             PROVE  [Log!Next]_(Log!vars)
  OBVIOUS
<1>0. /\ file \in Seq(Line)
      /\ tmp \in Seq(Line)
      /\ backup \in [1..MaxBackups -> Seq(Line)]
      /\ InOrder(file, backup, next)
      /\ next \in Nat \ {0}
  BY DEF OrderInv, TypeOK
<1>1. CASE Open \/ Close \/ \E n \in FileCounts : ConfigureRotation(n)
  BY <1>1, LogElsewhere DEF Open, Close, ConfigureRotation, diskVars
<1>2. CASE RotateReopen \/ (\E n \in PruneTo : PruneCopy(n)) \/ Crash
  BY <1>2, LogElsewhere DEF RotateReopen, PruneCopy, Crash, diskVars
<1>3. CASE UNCHANGED vars \/ Rest
  BY <1>3, LogElsewhere DEF Rest, vars, diskVars
<1>4. CASE Refuse
  <2>1. next' = next + 1 /\ Held' = Held
    BY <1>4 DEF Refuse, diskVars, Held
  <2> QED
    BY <2>1 DEF Log!Next, Log!Fail, Log!Lost
<1>5. ASSUME NEW h \in Heights, Insert(h) \/ InsertFails(h) \/ InsertIgnored(h)
      PROVE  Log!Next
  <2>1. /\ next' = next + 1 /\ next <= MaxEvents /\ backup' = backup
        /\ file' = file \/ \E p \in Part : Written(p)
    BY <1>5, StorageAssumption, PartTypes DEF Insert, InsertFails, InsertIgnored, Counted
  <2>2. CASE file' = file
    <3>1. Held' = Held
      BY <2>1, <2>2 DEF Held
    <3> QED
      BY <2>1, <3>1 DEF Log!Next, Log!Fail, Log!Lost
  <2>3. CASE \E p \in Part : Written(p)
    BY <2>1, <2>3, LogWrite DEF Written, Log!Next
  <2> QED
    BY <2>1, <2>2, <2>3
<1>6. ASSUME NEW h \in Heights, CrashInInsert(h)
      PROVE  Log!Next
  <2>1. PICK p \in Part : Written(p)
    BY <1>6, StorageAssumption, PartTypes DEF CrashInInsert
  <2> QED
    BY <1>6, <2>1, LogWrite DEF CrashInInsert, Written, Log!Next
<1>7. CASE RotateRemove
  <2>1. maxFiles \in 1..MaxBackups
    BY <1>7, RotationIndex, MaxBackupsNat DEF RotateRemove
  <2>2. /\ UNCHANGED <<file, next>>
        /\ backup' = [backup EXCEPT ![maxFiles] = <<>>] \/ backup' = backup
    BY <1>7 DEF RotateRemove
  <2>3. Forgets(next, file, backup, file', backup')
    <3>1. /\ Forgets(next, file, backup, file, [backup EXCEPT ![maxFiles] = <<>>])
          /\ Forgets(next, file, backup, file, backup)
      BY <1>0, <2>1, RemoveForgets, SameForgets
    <3> QED
      BY <2>2, <3>1
  <2> QED
    BY <2>2, <2>3, LogForget DEF Log!Next
<1>8. CASE RotateShift
  <2>1. arg \in 1..MaxBackups /\ arg + 1 \in 1..MaxBackups
    BY <1>8, RotationIndex, MaxBackupsNat DEF RotateShift
  <2>2. /\ UNCHANGED <<file, next>>
        /\ backup' = Renamed(backup, arg) \/ backup' = backup
    BY <1>8 DEF RotateShift
  <2>3. Forgets(next, file, backup, file', backup')
    BY <1>0, <2>1, <2>2, RenameForgets, SameForgets
  <2> QED
    BY <2>2, <2>3, LogForget DEF Log!Next
<1>9. CASE RotateFirst
  <2>1. 1 \in 1..MaxBackups
    BY <1>9, RotationIndex, MaxBackupsNat DEF RotateFirst
  <2>2. /\ next' = next
        /\ \/ file' = <<>> /\ backup' = [backup EXCEPT ![1] = file]
           \/ file' = file /\ backup' = backup
    BY <1>9 DEF RotateFirst
  <2>3. Forgets(next, file, backup, file', backup')
    <3>1. /\ Forgets(next, file, backup, <<>>, [backup EXCEPT ![1] = file])
          /\ Forgets(next, file, backup, file, backup)
      BY <1>0, <2>1, FirstForgets, SameForgets
    <3> QED
      BY <2>2, <3>1
  <2> QED
    BY <2>2, <2>3, LogForget DEF Log!Next
<1>10. CASE PruneSwap
  <2>1. CopyOf(tmp, file)
    BY <1>10 DEF PruneSwap, OrderInv, Copied
  <2>2. UNCHANGED <<backup, next>> /\ (file' = tmp \/ file' = file)
    BY <1>10 DEF PruneSwap, Swapped
  <2>3. Forgets(next, file, backup, file', backup')
    BY <1>0, <2>1, <2>2, CopyForgets, SameForgets
  <2> QED
    BY <2>2, <2>3, LogForget DEF Log!Next
<1> QED
  BY <1>1, <1>2, <1>3, <1>4, <1>5, <1>6, <1>7, <1>8, <1>9, <1>10 DEF Next

(***************************************************************************)
(* FileStorage implements the abstract event log: for every rotation size, *)
(* number of backups and sequence of calls, whatever renames and writes    *)
(* fail and wherever the process dies, an event enters only while it is    *)
(* the newest, never comes back, a write costs at most the newest event    *)
(* held, and what rotation or prune drops is a stretch of neighbours, and  *)
(* perhaps the newest events.  It rests on the order of the files: without *)
(* it the events of an overwritten backup could lie between those of       *)
(* another.                                                                *)
(***************************************************************************)
THEOREM StorageIsLog == Spec => ImplementsLog
<1>1. Init => Log!Init
  <2> SUFFICES ASSUME Init
               PROVE  Log!Init
    OBVIOUS
  <2>1. file = <<>> /\ backup = [i \in 1..MaxBackups |-> <<>>] /\ next = 1
    BY DEF Init
  <2>2. \A i \in DOMAIN backup : backup[i] = <<>>
    BY <2>1
  <2>3. Held = {}
    BY <2>1, <2>2, EmptyIntact DEF Held
  <2> QED
    BY <2>1, <2>3 DEF Log!Init
<1>2. OrderInv /\ OrderInv' /\ [Next]_vars => [Log!Next]_(Log!vars)
  BY LogStep
<1> QED
  BY <1>1, <1>2, StorageOrder, PTL DEF Spec, ImplementsLog, Log!Spec
=============================================================================
