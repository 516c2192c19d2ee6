------------------------- MODULE AllMonitors_proofs -------------------------
(***************************************************************************)
(* Proofs about the monitors, for every set of items, contents, mounts and *)
(* thresholds, and for unbounded behaviours of each.                       *)
(***************************************************************************)
EXTENDS AllMonitors, TLAPS

-----------------------------------------------------------------------------
(* DiskSpaceMonitor.                                                       *)

\* What was announced, or was there from the silent first scan on, is exactly
\* what the last tick saw reached.
LevelsKnown ==
  \A m \in Mount : alarmed[m] \union quiet[m] = Reached(previousState[m])

\* Before the first scan nothing is remembered.
NothingBefore ==
  diskFirst => \A m \in Mount : previousState[m] = Unmounted

DiskInv ==
  /\ DiskTypeOK
  /\ LevelsKnown
  /\ NothingBefore
  /\ ~repeated

\* No threshold is at or below zero, where an empty or unmounted disk is.
LEMMA NothingReached ==
  ASSUME DiskTypeOK
  PROVE  Reached(0) = {} /\ Reached(Unmounted) = {}
BY DiskAssumption DEF DiskTypeOK, Reached, Unmounted, Level

LEMMA DiskInvInit == DiskInit => DiskInv
<1> SUFFICES ASSUME DiskInit PROVE DiskInv
  OBVIOUS
<1>1. DiskTypeOK
  BY DEF DiskInit, DiskTypeOK
<1>2. LevelsKnown
  BY <1>1, NothingReached DEF DiskInit, LevelsKnown
<1>3. QED
  BY <1>1, <1>2 DEF DiskInit, DiskInv, NothingBefore

\* A tick announces what was newly reached, and nothing that was reached before.
LEMMA AnnouncedIsNew ==
  ASSUME DiskTypeOK, NEW m \in Mount, NEW u \in Usage \union {Unmounted}
  PROVE  /\ (Reached(PrevUsage(m)) \intersect Reached(u))
              \union Announces(DiskEvent(m, u), u) = Reached(u)
         /\ DiskEvent(m, u) \notin Reached(PrevUsage(m))
         /\ Announces(DiskEvent(m, u), u) \in SUBSET Level
<1>1. Reached(u) \subseteq Level
  BY DEF Reached
<1>2. Reached(Unmounted) = {}
  BY NothingReached
<1>3. QED
  BY <1>1, <1>2 DEF DiskEvent, Announces, Level, Reached

LEMMA DiskTickKeepsInv ==
  ASSUME DiskInv, NEW failed \in SUBSET Mount, DiskTick(failed)
  PROVE  DiskInv'
<1> DEFINE now == ScanDiskSpace(failed)
<1>1. now \in [Mount -> Usage \union {Unmounted}]
  BY DEF DiskInv, DiskTypeOK, ScanDiskSpace
<1>2. /\ previousState' = now /\ diskFirst' = FALSE
      /\ UNCHANGED <<threshold, usage, diskRunning>>
  BY DEF DiskTick
<1>3. \A u : Reached(u)' = Reached(u)
  BY <1>2 DEF Reached
<1>4. \A m \in Mount : Reached(PrevUsage(m)) = Reached(previousState[m])
  BY NothingReached DEF DiskInv, PrevUsage
<1> HIDE DEF now
<1>5. CASE diskFirst
  <2>1. quiet' = [m \in Mount |-> Reached(now[m])] /\ UNCHANGED <<alarmed, repeated>>
    BY <1>5 DEF DiskTick, now
  <2>2. \A m \in Mount : alarmed[m] = {}
    BY <1>5, NothingReached DEF DiskInv, LevelsKnown, NothingBefore
  <2>3. DiskTypeOK'
    BY <1>1, <1>2, <2>1 DEF DiskInv, DiskTypeOK, Reached
  <2>4. LevelsKnown'
    BY <1>2, <1>3, <2>1, <2>2 DEF LevelsKnown
  <2>5. QED
    BY <1>2, <2>1, <2>3, <2>4 DEF DiskInv, NothingBefore
<1>6. CASE ~diskFirst
  <2> DEFINE told(m) == DiskEvent(m, now[m])
  <2>1. /\ alarmed' = [m \in Mount |->
              (alarmed[m] \intersect Reached(now[m])) \union Announces(told(m), now[m])]
        /\ quiet' = [m \in Mount |-> quiet[m] \intersect Reached(now[m])]
        /\ repeated' = (repeated \/ \E m \in Mount : told(m) \in alarmed[m] \union quiet[m])
    BY <1>6 DEF DiskTick, now
  <2>2. \A m \in Mount :
          /\ (Reached(previousState[m]) \intersect Reached(now[m]))
               \union Announces(told(m), now[m]) = Reached(now[m])
          /\ told(m) \notin Reached(previousState[m])
          /\ Announces(told(m), now[m]) \in SUBSET Level
    BY <1>1, <1>4, AnnouncedIsNew DEF DiskInv
  <2> HIDE DEF told
  <2>3. DiskTypeOK'
    <3>1. alarmed' \in [Mount -> SUBSET Level] /\ quiet' \in [Mount -> SUBSET Level]
      BY <2>1, <2>2 DEF DiskInv, DiskTypeOK
    <3>2. QED
      BY <1>1, <1>2, <2>1, <3>1 DEF DiskInv, DiskTypeOK
  <2>4. LevelsKnown'
    BY <1>2, <1>3, <2>1, <2>2 DEF LevelsKnown, DiskInv
  <2>5. ~repeated'
    BY <2>1, <2>2 DEF DiskInv, LevelsKnown
  <2>6. QED
    BY <1>2, <2>3, <2>4, <2>5 DEF DiskInv, NothingBefore
<1>7. QED
  BY <1>5, <1>6

LEMMA DiskInvStep == DiskInv /\ [DiskNext]_diskVars => DiskInv'
<1> SUFFICES ASSUME DiskInv, [DiskNext]_diskVars PROVE DiskInv'
  OBVIOUS
<1> USE DEF DiskInv, DiskTypeOK, LevelsKnown, NothingBefore
<1>1. ASSUME NEW m \in Mount, NEW u \in Usage \union {Unmounted}, DiskChange(m, u)
      PROVE  DiskInv'
  BY <1>1 DEF DiskChange, Reached
<1>2. CASE DiskStartStop
  BY <1>2 DEF DiskStartStop, Reached
<1>3. CASE DiskNewObject
  <2>1. DiskTypeOK'
    BY <1>3 DEF DiskNewObject
  <2>2. Reached(Unmounted)' = {}
    BY <1>3, NothingReached DEF DiskNewObject, Reached
  <2>3. QED
    BY <1>3, <2>1, <2>2 DEF DiskNewObject, Reached
<1>4. ASSUME NEW failed \in SUBSET Mount, DiskTick(failed)
      PROVE  DiskInv'
  BY <1>4, DiskTickKeepsInv
<1>5. CASE UNCHANGED diskVars
  BY <1>5 DEF diskVars, Reached
<1>6. QED
  BY <1>1, <1>2, <1>3, <1>4, <1>5 DEF DiskNext

-----------------------------------------------------------------------------
(* SnapshotMonitor: the events reproduce what was seen.                    *)

\* The variables that matter for what is recorded and believed.
SnapType ==
  /\ kind \in Monitors
  /\ first \in BOOLEAN
  /\ previous \in [Key -> Recorded]
  /\ current \in [Key -> Recorded]
  /\ view \in [Key -> Recorded]
  /\ world \in [Key -> Item \union {Absent}]

\* Once there is a snapshot to compare with, the consumer agrees with it, also
\* while the monitor is stopped.
Believed == ~first => \A k \in Key : Agrees(k, previous[k])

ReplayInv ==
  /\ SnapType
  /\ kind.baseline = "never" => ~first
  /\ Believed

\* Every monitor reports what has been added.
LEMMA AddedReported ==
  ASSUME kind \in Monitors
  PROVE  /\ "added" \in kind.reports
         /\ kind.baseline \in {"start", "object", "never"}
BY DEF Monitors, FilesystemMonitor, ProcessMonitor, NetworkMonitor, SystemConfigMonitor,
       UserActivityMonitor, ServiceMonitor, FileIntegrityMonitor, UsbDeviceMonitor,
       PortMonitor, PackageMonitor, EnvironmentMonitor

LEMMA EmptyRecorded == Empty \in [Key -> Recorded]
BY DEF Empty, Recorded, Absent

LEMMA FoundRecorded ==
  ASSUME SnapType, NEW k \in Key
  PROVE  Found(k) \in Recorded
BY DEF SnapType, Found, Recorded, Seen, Item, Absent

LEMMA ReplayInit == Init => ReplayInv
<1> SUFFICES ASSUME Init PROVE ReplayInv
  OBVIOUS
<1>1. SnapType
  BY EmptyRecorded DEF Init, SnapType
<1>2. Believed
  BY DEF Init, Believed, Agrees, Empty, Absent
<1>3. QED
  BY <1>1, <1>2 DEF Init, ReplayInv

\* Whoever follows the events of a tick knows the new snapshot.
LEMMA TickBelieved ==
  ASSUME ReplayInv, EndTick
  PROVE  \A k \in Key : Agrees(k, previous[k])'
<1> SUFFICES ASSUME NEW k \in Key PROVE Agrees(k, previous[k])'
  OBVIOUS
<1>1. /\ previous' = current /\ kind' = kind
      /\ view'[k] = IF k \in Reported THEN current[k] ELSE view[k]
  BY DEF EndTick, EndScan
<1>2. Agrees(k, previous[k])
  BY DEF ReplayInv, Believed, EndTick
<1>3. CASE k \in Reported
  BY <1>1, <1>3 DEF Agrees
<1>4. CASE k \notin Reported
  <2>1. \A class \in kind.reports : k \notin Difference(class)
    BY <1>4 DEF Reported
  <2>2. previous[k] = Absent => current[k] = Absent
    BY <2>1, AddedReported DEF Difference, ReplayInv, SnapType
  <2>3. "changed" \in kind.reports /\ previous[k] # Absent /\ current[k] # Absent
          => previous[k].data = current[k].data
    BY <2>1 DEF Difference
  <2>4. "removed" \in kind.reports /\ current[k] = Absent => previous[k] = Absent
    BY <2>1 DEF Difference
  <2>5. QED
    BY <1>1, <1>2, <1>4, <2>2, <2>3, <2>4 DEF Agrees
<1>5. QED
  BY <1>3, <1>4

LEMMA ReplayStep == ReplayInv /\ [Next]_vars => ReplayInv'
<1> SUFFICES ASSUME ReplayInv, [Next]_vars PROVE ReplayInv'
  OBVIOUS
<1> USE DEF ReplayInv, SnapType
<1>1. ASSUME NEW k \in Key, NEW to \in Item \union {Absent}, ChangeWorld(k, to)
      PROVE  ReplayInv'
  BY <1>1 DEF ChangeWorld, Believed, Agrees, scanVars
<1>2. CASE Start
  BY <1>2 DEF Start, Believed, Agrees, scanVars
<1>3. CASE Stop
  BY <1>3 DEF Stop, Believed, Agrees, scanVars
<1>4. CASE NewObject
  <2>1. SnapType'
    BY <1>4, EmptyRecorded DEF NewObject, scanVars
  <2>2. first' = (kind.baseline # "never") /\ kind' = kind
    BY <1>4 DEF NewObject
  <2>3. ~first' => previous' = previous /\ view' = view /\ ~first
    BY <1>4, <2>2 DEF NewObject
  <2>4. QED
    BY <2>1, <2>2, <2>3 DEF Believed, Agrees
<1>5. CASE BeginTick
  BY <1>5, EmptyRecorded DEF BeginTick, Believed, Agrees
<1>6. ASSUME NEW k \in Key, ListItem(k)
      PROVE  ReplayInv'
  BY <1>6 DEF ListItem, Believed, Agrees
<1>7. ASSUME NEW k \in Key, ReadItem(k)
      PROVE  ReplayInv'
  BY <1>7, FoundRecorded DEF ReadItem, Believed, Agrees
<1>8. CASE EnterFails
  BY <1>8 DEF EnterFails, Believed, Agrees
<1>9. CASE EndBaseline
  <2>1. SnapType' /\ kind' = kind /\ previous' = current /\ view' = current /\ ~first'
    BY <1>9, EmptyRecorded DEF EndBaseline, EndScan
  <2>2. QED
    BY <2>1 DEF Believed, Agrees
<1>10. CASE EndTick
  <2>1. SnapType'
    BY <1>10, EmptyRecorded DEF EndTick, EndScan
  <2>2. kind' = kind /\ first' = first
    BY <1>10 DEF EndTick, EndScan
  <2>3. QED
    BY <1>10, <2>1, <2>2, TickBelieved DEF Believed
<1>11. CASE Rest \/ UNCHANGED vars
  BY <1>11 DEF Rest, vars, scanVars, Believed, Agrees
<1>12. QED
  BY <1>1, <1>2, <1>3, <1>4, <1>5, <1>6, <1>7, <1>8, <1>9, <1>10, <1>11 DEF Next, Tick

-----------------------------------------------------------------------------
(* SnapshotMonitor: no event without a change.                             *)

\* What a scan that is not disturbed records of item k.
Expected(k) ==
  IF world[k] # Absent THEN Seen(world[k])
  ELSE IF kind.fixed THEN [data |-> "missing", perm |-> "none"] ELSE Absent

\* An item that has not changed since it was read is recorded as it is: in the
\* new snapshot once this tick has read it, in the old one until then.
CleanIsKnown ==
  \A k \in Key \ dirty :
    /\ ~first /\ (scanning => k \in todo) => previous[k] = Expected(k)
    /\ scanning /\ k \notin todo => current[k] = Expected(k)
    /\ k \in listed => world[k] # Absent

\* What this tick has read unchanged is in both snapshots alike.
UnchangedAlike ==
  scanning /\ ~first => \A k \in Key \ (todo \union fresh) : current[k] = previous[k]

ScanInv ==
  /\ SnapType
  /\ scanning \in BOOLEAN
  /\ todo \subseteq Key /\ listed \subseteq todo
  /\ ~scanning => todo = {}
  /\ kind.baseline # "never" /\ ~kind.walks =>
       first \in BOOLEAN /\ CleanIsKnown /\ UnchangedAlike /\ spurious = {}

LEMMA ScanInit == Init => ScanInv
<1> SUFFICES ASSUME Init PROVE ScanInv
  OBVIOUS
<1>1. SnapType
  BY EmptyRecorded DEF Init, SnapType
<1>2. QED
  BY <1>1 DEF Init, ScanInv, CleanIsKnown, UnchangedAlike

\* A change of permissions only is none to the monitors, and an item is there if
\* its contents are.
LEMMA SameData ==
  ASSUME NEW x \in Item \union {Absent}, NEW y \in Item \union {Absent}, x.data = y.data
  PROVE  (x = Absent <=> y = Absent) /\ Seen(x) = Seen(y)
BY MonitorAssumption DEF Item, Absent, Seen

LEMMA ScanStep == ScanInv /\ [Next]_vars => ScanInv'
<1> SUFFICES ASSUME ScanInv, [Next]_vars PROVE ScanInv'
  OBVIOUS
<1> USE DEF ScanInv, SnapType
<1>1. ASSUME NEW k \in Key, NEW to \in Item \union {Absent}, ChangeWorld(k, to)
      PROVE  ScanInv'
  <2>1. /\ world' = [world EXCEPT ![k] = to]
        /\ dirty' = IF to.data # world[k].data THEN dirty \union {k} ELSE dirty
        /\ UNCHANGED <<kind, first, previous, scanning, current, todo, listed, view, fresh,
                       spurious>>
    BY <1>1 DEF ChangeWorld, scanVars
  <2>2. \A q \in Key \ dirty' : (world'[q] = Absent <=> world[q] = Absent)
                              /\ Expected(q)' = Expected(q)
    <3> SUFFICES ASSUME NEW q \in Key \ dirty'
                 PROVE  /\ world'[q] = Absent <=> world[q] = Absent
                        /\ Expected(q)' = Expected(q)
      OBVIOUS
    <3>1. CASE q # k
      BY <2>1, <3>1 DEF Expected
    <3>2. CASE q = k
      BY <2>1, <3>2, SameData DEF Expected
    <3>3. QED
      BY <3>1, <3>2
  <2>3. CleanIsKnown => CleanIsKnown'
    BY <2>1, <2>2 DEF CleanIsKnown
  <2>4. QED
    BY <2>1, <2>3 DEF UnchangedAlike
<1>2. CASE Start
  BY <1>2 DEF Start, CleanIsKnown, UnchangedAlike, Expected, scanVars, histVars
<1>3. CASE Stop
  BY <1>3 DEF Stop, CleanIsKnown, UnchangedAlike, Expected, scanVars, histVars
<1>4. CASE NewObject
  BY <1>4, EmptyRecorded
     DEF NewObject, CleanIsKnown, UnchangedAlike, Expected, scanVars, histVars
<1>5. CASE BeginTick
  BY <1>5, EmptyRecorded DEF BeginTick, CleanIsKnown, UnchangedAlike, Expected, histVars
<1>6. ASSUME NEW k \in Key, ListItem(k)
      PROVE  ScanInv'
  BY <1>6 DEF ListItem, CleanIsKnown, UnchangedAlike, Expected, histVars
<1>7. ASSUME NEW k \in Key, ReadItem(k)
      PROVE  ScanInv'
  <2>1. /\ k \in todo
        /\ current' = [current EXCEPT ![k] = Found(k)]
        /\ todo' = todo \ {k} /\ listed' = listed \ {k}
        /\ fresh' = fresh \union (dirty \intersect {k})
        /\ dirty' = IF k \in listed /\ world[k] = Absent THEN dirty ELSE dirty \ {k}
        /\ UNCHANGED <<kind, world, first, previous, scanning, view, spurious>>
    BY <1>7 DEF ReadItem
  <2>2. SnapType' /\ scanning
    BY <2>1, FoundRecorded
  <2>3. \A q : Expected(q)' = Expected(q)
    BY <2>1 DEF Expected
  <2>4. k \notin listed \/ world[k] # Absent => Found(k) = Expected(k)
    BY DEF Found, Expected
  <2>5. CleanIsKnown => CleanIsKnown'
    <3> SUFFICES ASSUME CleanIsKnown, NEW q \in Key \ dirty'
                 PROVE  /\ ~first' /\ (scanning' => q \in todo') => previous'[q] = Expected(q)'
                        /\ scanning' /\ q \notin todo' => current'[q] = Expected(q)'
                        /\ q \in listed' => world'[q] # Absent
      BY DEF CleanIsKnown
    <3>1. CASE q = k
      <4>1. k \notin listed \/ world[k] # Absent
        BY <2>1, <3>1 DEF CleanIsKnown
      <4>2. QED
        BY <2>1, <2>2, <2>3, <2>4, <3>1, <4>1
    <3>2. CASE q # k
      BY <2>1, <2>2, <2>3, <3>2 DEF CleanIsKnown
    <3>3. QED
      BY <3>1, <3>2
  <2>6. CleanIsKnown /\ UnchangedAlike => UnchangedAlike'
    BY <2>1, <2>2, <2>4 DEF CleanIsKnown, UnchangedAlike
  <2>7. QED
    BY <2>1, <2>2, <2>5, <2>6
<1>8. CASE EnterFails
  BY <1>8 DEF EnterFails
<1>9. CASE EndBaseline
  <2>1. SnapType'
    BY <1>9, EmptyRecorded DEF EndBaseline, EndScan
  <2>2. QED
    BY <1>9, <2>1 DEF EndBaseline, EndScan, CleanIsKnown, UnchangedAlike, Expected
<1>10. CASE EndTick
  <2>1. SnapType'
    BY <1>10, EmptyRecorded DEF EndTick, EndScan
  <2>2. /\ ~first /\ scanning /\ todo = {} /\ scanning' = FALSE /\ previous' = current
        /\ spurious' = spurious \union (Reported \ fresh)
        /\ UNCHANGED <<kind, first, world, todo, listed, dirty>>
    BY <1>10 DEF EndTick, EndScan
  <2>3. UnchangedAlike => Reported \subseteq fresh
    BY <2>2 DEF UnchangedAlike, Reported, Difference
  <2>4. CleanIsKnown => CleanIsKnown'
    BY <2>2 DEF CleanIsKnown, Expected
  <2>5. QED
    BY <2>1, <2>2, <2>3, <2>4 DEF UnchangedAlike
<1>11. CASE Rest \/ UNCHANGED vars
  BY <1>11 DEF Rest, vars, scanVars, histVars, CleanIsKnown, UnchangedAlike, Expected
<1>12. QED
  BY <1>1, <1>2, <1>3, <1>4, <1>5, <1>6, <1>7, <1>8, <1>9, <1>10, <1>11 DEF Next, Tick

-----------------------------------------------------------------------------
(* LogMonitor: no line is skipped.                                         *)

LogType ==
  /\ exists \in BOOLEAN /\ pending \in BOOLEAN /\ stale \in BOOLEAN
  /\ text \in Seq(Half)
  /\ written \in 0..MaxLines
  /\ lastPosition \in Nat /\ currentSize \in Nat
  /\ inode \in Nat \ {0}
  /\ lastInode \in 0..inode /\ currentInode \in 0..inode
  /\ seen \in [Line -> Nat]
  /\ cut \subseteq Line

\* The halves of a line follow each other, but for the line that is being written
\* (when open holds) and the end of one that was begun in a file now gone (in torn).
PairedAt(t, i, open, torn) ==
  /\ t[i].part = 1 =>
       \/ i < Len(t) /\ t[i + 1].part = 2 /\ t[i + 1].line = t[i].line
       \/ i = Len(t) /\ open = TRUE
  /\ t[i].part = 2 =>
       \/ i > 1 /\ t[i - 1].part = 1 /\ t[i - 1].line = t[i].line
       \/ t[i].line \in torn

Paired == \A i \in 1..Len(text) : PairedAt(text, i, pending, cut)

\* The line being written is the last of the file, or torn.
PendingLast ==
  pending => /\ written \in Line
             /\ \/ text = <<>> /\ written \in cut
                \/ /\ text # <<>>
                   /\ text[Len(text)].part = 1 /\ text[Len(text)].line = written

\* The position is one in the file that the path names, as far as the monitor can tell.
Reliable == ~stale /\ lastInode \in {0, inode}

\* What lies before the position is dealt with, at every step of a tick and while
\* the file is moved away; and neither the position nor the size asked for lies
\* beyond the end.
BehindPosition ==
  Reliable =>
    /\ lastPosition <= Len(text)
    /\ logAt = "open" => currentSize <= Len(text)
    /\ \A i \in 1..Len(text) :
         i <= lastPosition => text[i].line \in cut \/ seen[text[i].line] > 0

LogInv == LogType /\ Paired /\ PendingLast /\ BehindPosition

LEMMA LogInvInit == LogInit => LogInv
<1> SUFFICES ASSUME LogInit PROVE LogInv
  OBVIOUS
<1>1. MaxLines \in Nat
  BY LogAssumption
<1>2. LogType
  <2>1. text \in Seq(Half) /\ written \in 0..MaxLines
    BY <1>1 DEF LogInit
  <2>2. seen \in [Line -> Nat]
    BY DEF LogInit
  <2>3. /\ lastPosition \in Nat /\ currentSize \in Nat /\ inode \in Nat \ {0}
        /\ lastInode \in 0..inode /\ currentInode \in 0..inode
    BY DEF LogInit
  <2>4. cut \subseteq Line
    BY DEF LogInit
  <2>5. exists \in BOOLEAN /\ pending \in BOOLEAN /\ stale \in BOOLEAN
    BY Zenon DEF LogInit
  <2>6. QED
    BY <2>1, <2>2, <2>3, <2>4, <2>5 DEF LogType
<1>3. Len(text) = 0 /\ pending = FALSE /\ lastPosition = 0 /\ logAt = "idle"
  BY DEF LogInit
<1>4. QED
  BY <1>2, <1>3 DEF LogInv, Paired, PendingLast, BehindPosition

\* Half lines at the end of a text: the end, and what stays.
LEMMA Appended ==
  ASSUME NEW s \in Seq(Half), NEW h \in Half
  PROVE  /\ s \o <<h>> \in Seq(Half)
         /\ Len(s \o <<h>>) = Len(s) + 1
         /\ \A i \in 1..Len(s) : (s \o <<h>>)[i] = s[i]
         /\ (s \o <<h>>)[Len(s) + 1] = h
OBVIOUS

LEMMA AppendedTwo ==
  ASSUME NEW s \in Seq(Half), NEW g \in Half, NEW h \in Half
  PROVE  /\ s \o <<g, h>> \in Seq(Half)
         /\ Len(s \o <<g, h>>) = Len(s) + 2
         /\ \A i \in 1..Len(s) : (s \o <<g, h>>)[i] = s[i]
         /\ (s \o <<g, h>>)[Len(s) + 1] = g
         /\ (s \o <<g, h>>)[Len(s) + 2] = h
OBVIOUS

\* Text at the end of a file leaves the pairs before it alone.
LEMMA PairedExtended ==
  ASSUME NEW s \in Seq(Half), NEW t \in Seq(Half), Len(t) >= Len(s),
         \A j \in 1..Len(s) : t[j] = s[j],
         NEW torn, NEW open, NEW i \in 1..Len(s), PairedAt(s, i, FALSE, torn)
  PROVE  PairedAt(t, i, open, torn)
<1>1. t[i] = s[i] /\ (i < Len(s) => t[i + 1] = s[i + 1]) /\ (i > 1 => t[i - 1] = s[i - 1])
  OBVIOUS
<1>2. QED
  BY <1>1 DEF PairedAt

\* Writing at the end of the file leaves what lies behind the position alone.
LEMMA WriteKeepsBehind ==
  ASSUME LogInv, text' \in Seq(Half), Len(text') >= Len(text),
         \A i \in 1..Len(text) : text'[i] = text[i],
         UNCHANGED <<exists, inode, watchVars, localVars, seen, countVars, lossVars>>
  PROVE  BehindPosition'
<1>1. UNCHANGED <<inode, lastPosition, lastInode, currentInode, currentSize, logAt, seen,
                  cut, stale>>
  BY DEF watchVars, localVars, lossVars
<1>2. ASSUME Reliable'
      PROVE  /\ lastPosition' <= Len(text')
             /\ logAt' = "open" => currentSize' <= Len(text')
             /\ \A i \in 1..Len(text') :
                  i <= lastPosition' => text'[i].line \in cut' \/ seen'[text'[i].line] > 0
  BY <1>1, <1>2, SMTT(30) DEF LogInv, LogType, BehindPosition, Reliable
<1>3. QED
  BY <1>2 DEF BehindPosition

LEMMA WritingKeepsInv ==
  ASSUME LogInv, WriteLine \/ WriteHalf \/ WriteRest
  PROVE  LogInv'
<1> DEFINE n == Len(text)
<1>1. MaxLines \in Nat /\ text \in Seq(Half) /\ n \in Nat
  BY LogAssumption DEF LogInv, LogType
<1>2. /\ UNCHANGED <<exists, inode, watchVars, localVars, seen, countVars, lossVars>>
      /\ UNCHANGED <<lastPosition, lastInode, currentInode, currentSize, cut, stale>>
  BY DEF WriteLine, WriteHalf, WriteRest, Write, watchVars, localVars, lossVars
<1>3. CASE WriteLine
  <2> DEFINE l == written + 1
  <2>1. /\ l \in Line /\ written' = l /\ pending = FALSE /\ pending' = FALSE
        /\ text' = text \o <<[line |-> l, part |-> 1], [line |-> l, part |-> 2]>>
    BY <1>1, <1>3 DEF WriteLine, Write, LogInv, LogType, Line
  <2>2. [line |-> l, part |-> 1] \in Half /\ [line |-> l, part |-> 2] \in Half
    BY <2>1 DEF Half
  <2> HIDE DEF l
  <2>3. /\ text' \in Seq(Half) /\ Len(text') = n + 2
        /\ \A i \in 1..n : text'[i] = text[i]
        /\ text'[n + 1] = [line |-> l, part |-> 1] /\ text'[n + 2] = [line |-> l, part |-> 2]
    BY <1>1, <2>1, <2>2, AppendedTwo
  <2>4. LogType'
    <3>1. written' \in 0..MaxLines
      BY <1>1, <2>1, <2>2 DEF Line
    <3>2. QED
      BY <1>2, <2>1, <2>3, <3>1 DEF LogInv, LogType
  <2>5. Paired'
    <3>1. \A i \in 1..n : PairedAt(text, i, FALSE, cut)
      BY <2>1 DEF LogInv, Paired
    <3>2. \A i \in 1..n : PairedAt(text', i, FALSE, cut)
      <4> SUFFICES ASSUME NEW i \in 1..n PROVE PairedAt(text', i, FALSE, cut)
        OBVIOUS
      <4>1. Len(text') >= Len(text)
        BY <1>1, <2>3
      <4> QED
        BY <1>1, <2>3, <3>1, <4>1, PairedExtended
    <3>3. PairedAt(text', n + 1, FALSE, cut) /\ PairedAt(text', n + 2, FALSE, cut)
      <4>1. /\ text'[n + 1].part = 1 /\ text'[n + 1].line = l
            /\ text'[n + 2].part = 2 /\ text'[n + 2].line = l
            /\ n + 1 + 1 = n + 2 /\ n + 2 - 1 = n + 1 /\ n + 1 < Len(text') /\ n + 2 > 1
        BY <1>1, <2>3
      <4> QED
        BY <4>1 DEF PairedAt
    <3>4. \A i \in 1..Len(text') : i \in 1..n \/ i = n + 1 \/ i = n + 2
      BY <1>1, <2>3
    <3>5. QED
      BY <1>2, <2>1, <3>2, <3>3, <3>4 DEF Paired
  <2>6. BehindPosition'
    BY <1>1, <1>2, <2>3, WriteKeepsBehind
  <2>7. QED
    BY <2>1, <2>4, <2>5, <2>6 DEF LogInv, PendingLast
<1>4. CASE WriteHalf
  <2> DEFINE l == written + 1
  <2>1. /\ l \in Line /\ written' = l /\ pending = FALSE /\ pending' = TRUE
        /\ text' = text \o <<[line |-> l, part |-> 1]>>
    BY <1>1, <1>4 DEF WriteHalf, Write, LogInv, LogType, Line
  <2>2. [line |-> l, part |-> 1] \in Half
    BY <2>1 DEF Half
  <2> HIDE DEF l
  <2>3. /\ text' \in Seq(Half) /\ Len(text') = n + 1
        /\ \A i \in 1..n : text'[i] = text[i]
        /\ text'[n + 1] = [line |-> l, part |-> 1]
    BY <1>1, <2>1, <2>2, Appended
  <2>4. LogType'
    <3>1. written' \in 0..MaxLines
      BY <1>1, <2>1, <2>2 DEF Line
    <3>2. QED
      BY <1>2, <2>1, <2>3, <3>1 DEF LogInv, LogType
  <2>5. Paired'
    <3>1. \A i \in 1..n : PairedAt(text, i, FALSE, cut)
      BY <2>1 DEF LogInv, Paired
    <3>2. \A i \in 1..n : PairedAt(text', i, TRUE, cut)
      <4> SUFFICES ASSUME NEW i \in 1..n PROVE PairedAt(text', i, TRUE, cut)
        OBVIOUS
      <4>1. Len(text') >= Len(text)
        BY <1>1, <2>3
      <4> QED
        BY <1>1, <2>3, <3>1, <4>1, PairedExtended
    <3>3. PairedAt(text', n + 1, TRUE, cut)
      <4>1. text'[n + 1].part = 1 /\ n + 1 = Len(text')
        BY <1>1, <2>3
      <4> QED
        BY <4>1 DEF PairedAt
    <3>4. \A i \in 1..Len(text') : i \in 1..n \/ i = n + 1
      BY <1>1, <2>3
    <3>5. QED
      BY <1>2, <2>1, <3>2, <3>3, <3>4 DEF Paired
  <2>6. BehindPosition'
    BY <1>1, <1>2, <2>3, WriteKeepsBehind
  <2>7. PendingLast'
    BY <1>1, <2>1, <2>3 DEF PendingLast
  <2>8. QED
    BY <2>4, <2>5, <2>6, <2>7 DEF LogInv
<1>5. CASE WriteRest
  <2>1. /\ written' = written /\ pending = TRUE /\ pending' = FALSE
        /\ text' = text \o <<[line |-> written, part |-> 2]>>
    BY <1>5 DEF WriteRest, Write, LogInv, LogType
  <2>2. written \in Line /\ [line |-> written, part |-> 2] \in Half
    BY <2>1 DEF Half, LogInv, PendingLast
  <2>3. /\ text' \in Seq(Half) /\ Len(text') = n + 1
        /\ \A i \in 1..n : text'[i] = text[i]
        /\ text'[n + 1] = [line |-> written, part |-> 2]
    BY <1>1, <2>1, <2>2, Appended
  <2>4. LogType'
    <3>1. written' \in 0..MaxLines
      BY <1>1, <2>1, <2>2 DEF Line
    <3>2. QED
      BY <1>2, <2>1, <2>3, <3>1 DEF LogInv, LogType
  <2>5. \/ n = 0 /\ written \in cut
        \/ n > 0 /\ text[n].part = 1 /\ text[n].line = written
    BY <1>1, <2>1 DEF LogInv, PendingLast
  <2>6. Paired'
    <3>1. ASSUME NEW i \in 1..n, i < n
          PROVE  PairedAt(text', i, FALSE, cut)
      <4>1. PairedAt(text, i, FALSE, cut)
        BY <1>1, <3>1 DEF LogInv, Paired, PairedAt
      <4>2. Len(text') >= Len(text)
        BY <1>1, <2>3
      <4> QED
        BY <1>1, <2>3, <4>1, <4>2, PairedExtended
    <3>2. ASSUME n > 0
          PROVE  PairedAt(text', n, FALSE, cut)
      <4>1. text'[n].part = 1 /\ text'[n].line = written /\ n < Len(text')
        BY <1>1, <2>3, <2>5, <3>2
      <4>2. text'[n + 1].part = 2 /\ text'[n + 1].line = written
        BY <2>3
      <4> QED
        BY <4>1, <4>2 DEF PairedAt
    <3>3. PairedAt(text', n + 1, FALSE, cut)
      <4>1. text'[n + 1].part = 2 /\ text'[n + 1].line = written /\ n + 1 - 1 = n
        BY <1>1, <2>3
      <4>2. n > 0 => n + 1 > 1 /\ text'[n].part = 1 /\ text'[n].line = written
        BY <1>1, <2>3, <2>5
      <4>3. n = 0 => written \in cut
        BY <1>1, <2>5
      <4> QED
        BY <1>1, <4>1, <4>2, <4>3 DEF PairedAt
    <3>4. \A i \in 1..Len(text') : (i \in 1..n /\ i < n) \/ (i = n /\ n > 0) \/ i = n + 1
      BY <1>1, <2>3
    <3>5. QED
      BY <1>2, <2>1, <3>1, <3>2, <3>3, <3>4 DEF Paired
  <2>7. BehindPosition'
    BY <1>1, <1>2, <2>3, WriteKeepsBehind
  <2>8. QED
    BY <2>1, <2>4, <2>6, <2>7 DEF LogInv, PendingLast
<1>6. QED
  BY <1>3, <1>4, <1>5

\* A file that is emptied, under the old inode or a new one: the line that was being
\* written is torn.
LEMMA TearKeepsInv ==
  ASSUME LogInv, CreateNew \/ Truncate
  PROVE  LogInv'
<1>1. /\ text' = <<>> /\ written' = written /\ pending' = pending
      /\ cut' = IF pending THEN cut \union {written} ELSE cut
      /\ UNCHANGED <<lastPosition, lastInode, logAt, currentInode, currentSize, seen>>
      /\ exists' = TRUE
      /\ inode' = inode \/ inode' = inode + 1
      /\ stale' \in BOOLEAN
  BY DEF CreateNew, Truncate, Tear, watchVars, localVars, LogInv, LogType
<1>2. text' \in Seq(Half) /\ Len(text') = 0
  BY <1>1
<1>3. pending => written \in Line
  BY DEF LogInv, PendingLast
<1>4. LogType'
  <2>1. cut' \subseteq Line
    BY <1>1, <1>3 DEF LogInv, LogType
  <2>2. inode' \in Nat \ {0} /\ lastInode' \in 0..inode' /\ currentInode' \in 0..inode'
    BY <1>1 DEF LogInv, LogType
  <2>3. QED
    BY <1>1, <1>2, <2>1, <2>2 DEF LogInv, LogType
<1>5. Paired' /\ PendingLast'
  BY <1>1, <1>2, <1>3 DEF LogInv, Paired, PendingLast
<1>6. BehindPosition'
  <2>0. ~PositionKept => lastPosition = 0 /\ (logAt = "open" => currentSize = 0)
    BY DEF PositionKept, LogInv, LogType
  <2>1. CASE CreateNew
    <3>1. /\ stale' = (stale \/ (lastInode = 0 /\ PositionKept))
          /\ inode' = inode + 1 /\ inode \in Nat \ {0} /\ lastInode \in 0..inode
      BY <2>1 DEF CreateNew, LogInv, LogType
    <3>2. lastInode' \in {0, inode'} => lastInode = 0
      BY <1>1, <3>1
    <3>3. ~stale' /\ lastInode' \in {0, inode'} => ~PositionKept
      BY <3>1, <3>2, Zenon
    <3>4. QED
      BY <1>1, <1>2, <2>0, <3>3 DEF BehindPosition, Reliable
  <2>2. CASE Truncate
    <3>1. stale' = (stale \/ PositionKept)
      BY <2>2 DEF Truncate
    <3>2. ~stale' => ~PositionKept
      BY <3>1, Zenon
    <3>3. QED
      BY <1>1, <1>2, <2>0, <3>2 DEF BehindPosition, Reliable
  <2>3. QED
    BY <2>1, <2>2
<1>7. QED
  BY <1>4, <1>5, <1>6 DEF LogInv

\* Reading to the end: every half that the new position leaves behind was seen whole
\* with its partner, was dealt with before, or is noted as cut.
LEMMA ReadKeepsBehind ==
  ASSUME LogInv, ReadToEnd, exists, Reliable,
         NEW i \in 1..Len(text), i <= currentSize
  PROVE  text[i].line \in cut' \/ seen'[text[i].line] > 0
<1> DEFINE l == text[i].line
<1>1. /\ text \in Seq(Half) /\ Len(text) \in Nat /\ lastPosition \in Nat /\ currentSize \in Nat
      /\ seen \in [Line -> Nat]
  BY DEF LogInv, LogType
<1>2. \A j \in 1..Len(text) : /\ text[j].line \in Line /\ text[j].part \in {1, 2}
                              /\ text[j] = [line |-> text[j].line, part |-> text[j].part]
  <2>1. \A j \in 1..Len(text) : text[j] \in Half
    BY <1>1
  <2>2. \A h \in Half : h.line \in Line /\ h.part \in {1, 2} /\ h = [line |-> h.line, part |-> h.part]
    BY DEF Half
  <2>3. QED
    BY <2>1, <2>2
<1>3. /\ seen' = [k \in Line |->
                    IF k \in WholeLines(lastPosition) THEN seen[k] + 1 ELSE seen[k]]
      /\ cut' = cut \union HalfAt(currentSize)
  BY DEF ReadToEnd
<1>4. \A k \in Line : k \in WholeLines(lastPosition) \/ seen[k] > 0 => seen'[k] > 0
  BY <1>1, <1>3
<1>5. /\ currentSize <= Len(text) /\ lastPosition <= Len(text)
      /\ \A j \in 1..Len(text) : j <= lastPosition => text[j].line \in cut \/ seen[text[j].line] > 0
  BY DEF LogInv, BehindPosition, ReadToEnd
<1>6. PairedAt(text, i, pending, cut)
  BY DEF LogInv, Paired
<1>7. l \in Line /\ text[i].part \in {1, 2}
  BY <1>2
<1>8. CASE i <= lastPosition
  BY <1>3, <1>4, <1>5, <1>7, <1>8
<1>9. CASE i > lastPosition /\ text[i].part = 1
  <2>1. CASE i = Len(text)
    <3>1. currentSize = Len(text) /\ currentSize > 0 /\ text[currentSize] = [line |-> l, part |-> 1]
      BY <1>1, <1>2, <1>5, <1>9, <2>1
    <3>2. QED
      BY <1>3, <1>7, <3>1 DEF HalfAt
  <2>2. CASE i < Len(text)
    <3>1. text[i + 1].part = 2 /\ text[i + 1].line = l
      BY <1>1, <1>6, <1>9, <2>2 DEF PairedAt
    <3>2. i + 1 \in 1..Len(text) /\ i \in lastPosition + 1..Len(text) - 1
      BY <1>1, <1>9, <2>2
    <3>3. text[i] = [line |-> l, part |-> 1] /\ text[i + 1] = [line |-> l, part |-> 2]
      BY <1>2, <1>9, <3>1, <3>2
    <3>4. l \in WholeLines(lastPosition)
      BY <1>7, <3>2, <3>3 DEF WholeLines
    <3>5. QED
      BY <1>4, <1>7, <3>4
  <2>3. QED
    BY <1>1, <2>1, <2>2
<1>10. CASE i > lastPosition /\ text[i].part = 2
  <2>1. CASE l \in cut
    BY <1>3, <2>1
  <2>2. CASE i > 1 /\ text[i - 1].part = 1 /\ text[i - 1].line = l
    <3>1. i - 1 \in 1..Len(text) /\ i - 1 + 1 = i
      BY <1>1, <2>2
    <3>2. text[i - 1] = [line |-> l, part |-> 1] /\ text[i] = [line |-> l, part |-> 2]
      BY <1>2, <1>10, <2>2, <3>1
    <3>3. CASE i - 1 > lastPosition
      <4>1. i - 1 \in lastPosition + 1..Len(text) - 1
        BY <1>1, <3>3
      <4>2. l \in WholeLines(lastPosition)
        BY <1>7, <3>1, <3>2, <4>1 DEF WholeLines
      <4>3. QED
        BY <1>4, <1>7, <4>2
    <3>4. CASE i - 1 <= lastPosition
      BY <1>3, <1>4, <1>5, <1>7, <2>2, <3>1, <3>4
    <3>5. QED
      BY <1>1, <3>1, <3>3, <3>4
  <2>3. QED
    BY <1>6, <1>10, <2>1, <2>2 DEF PairedAt
<1>11. QED
  BY <1>1, <1>7, <1>8, <1>9, <1>10

LEMMA LogInvStep == LogInv /\ [LogNext]_logVars => LogInv'
<1> SUFFICES ASSUME LogInv, [LogNext]_logVars PROVE LogInv'
  OBVIOUS
<1> USE DEF fileVars, watchVars, localVars, countVars, lossVars
<1>1. CASE WriteLine \/ WriteHalf \/ WriteRest
  BY <1>1, WritingKeepsInv
<1>2. CASE CreateNew \/ Truncate
  BY <1>2, TearKeepsInv
<1>3. CASE MoveAway
  <2>1. UNCHANGED <<inode, text, written, pending, lastPosition, lastInode, logAt, currentInode,
                    currentSize, seen, cut, stale>> /\ exists' = FALSE
    BY <1>3 DEF MoveAway
  <2>2. LogType'
    BY <2>1 DEF LogInv, LogType
  <2>3. QED
    BY <2>1, <2>2
       DEF LogInv, Paired, PairedAt, PendingLast, BehindPosition, Reliable
<1>4. CASE LogNewObject
  <2>1. /\ UNCHANGED <<exists, inode, text, written, pending, logAt, currentInode, currentSize,
                       seen, cut>>
        /\ lastPosition' = 0 /\ lastInode' = 0 /\ stale' = FALSE
    BY <1>4 DEF LogNewObject
  <2>2. LogType'
    <3>1. lastPosition' \in Nat /\ lastInode' \in 0..inode'
      BY <2>1 DEF LogInv, LogType
    <3>2. stale' \in BOOLEAN
      BY <2>1, Zenon
    <3>3. QED
      BY <2>1, <3>1, <3>2 DEF LogInv, LogType
  <2>3. Paired' /\ PendingLast'
    BY <2>1 DEF LogInv, Paired, PairedAt, PendingLast
  <2>4. BehindPosition'
    BY <1>4, <2>1 DEF LogNewObject, LogInv, LogType, BehindPosition, Reliable
  <2>5. QED
    BY <2>2, <2>3, <2>4 DEF LogInv
<1>5. CASE LogBeginTick
  <2>1. /\ UNCHANGED <<exists, inode, text, written, pending, lastPosition, lastInode,
                       currentInode, currentSize, seen, cut, stale>>
        /\ logAt' = "inode"
    BY <1>5 DEF LogBeginTick
  <2>2. LogType'
    BY <2>1 DEF LogInv, LogType
  <2>3. QED
    BY <2>1, <2>2
       DEF LogInv, Paired, PairedAt, PendingLast, BehindPosition, Reliable
<1>6. CASE StatInode
  <2>1. /\ UNCHANGED <<exists, inode, text, written, pending, lastPosition, lastInode,
                       currentSize, seen, cut, stale>>
        /\ currentInode' = (IF exists THEN inode ELSE 0) /\ logAt' = "size"
    BY <1>6 DEF StatInode
  <2>2. LogType'
    BY <2>1 DEF LogInv, LogType
  <2>3. BehindPosition'
    BY <2>1 DEF LogInv, LogType, BehindPosition, Reliable
  <2>4. Paired' /\ PendingLast'
    BY <2>1 DEF LogInv, Paired, PairedAt, PendingLast
  <2>5. QED
    BY <2>2, <2>3, <2>4 DEF LogInv
<1>7. CASE StatSize
  <2>1. /\ UNCHANGED <<exists, inode, text, written, pending, currentInode, seen, cut>>
        /\ logAt = "size" /\ logAt' = "open" /\ lastInode' = currentInode
        /\ currentSize' = IF exists THEN Len(text) ELSE 0
        /\ lastPosition' = IF Rotated \/ currentSize' < lastPosition THEN 0 ELSE lastPosition
        /\ stale' = /\ stale \/ currentInode = 0
                    /\ ~Rotated
                    /\ lastPosition > 0 /\ currentSize' >= lastPosition
    BY <1>7 DEF StatSize, NewPosition
  <2>2. /\ text \in Seq(Half) /\ Len(text) \in Nat /\ lastPosition \in Nat
        /\ currentSize' \in Nat /\ currentSize' <= Len(text)
    BY <2>1 DEF LogInv, LogType
  <2>3. LogType'
    <3>1. stale' \in BOOLEAN
      BY <2>1, Zenon
    <3>2. QED
      BY <2>1, <2>2, <3>1 DEF LogInv, LogType
  <2>4. BehindPosition'
    <3> SUFFICES ASSUME Reliable'
                 PROVE  /\ lastPosition' <= Len(text) /\ currentSize' <= Len(text)
                        /\ \A i \in 1..Len(text) :
                             i <= lastPosition' => text[i].line \in cut \/ seen[text[i].line] > 0
      BY <2>1 DEF BehindPosition
    <3>1. CASE lastPosition' = 0
      BY <2>2, <3>1
    <3>2. CASE lastPosition' # 0
      <4>1. ~Rotated /\ ~(currentSize' < lastPosition) /\ lastPosition' = lastPosition
        BY <2>1, <3>2
      <4>2. lastPosition > 0 /\ currentSize' >= lastPosition
        BY <2>2, <3>2, <4>1
      <4>3. ~stale /\ currentInode # 0
        BY <2>1, <4>1, <4>2, Zenon DEF Reliable
      <4>4. Reliable
        BY <2>1, <4>1, <4>3 DEF Rotated, Reliable
      <4>5. QED
        BY <2>2, <4>1, <4>3, <4>4 DEF LogInv, BehindPosition
    <3>3. QED
      BY <3>1, <3>2
  <2>5. Paired' /\ PendingLast'
    BY <2>1 DEF LogInv, Paired, PairedAt, PendingLast
  <2>6. QED
    BY <2>3, <2>4, <2>5 DEF LogInv
<1>8. CASE ReadToEnd /\ ~exists
  <2>1. /\ UNCHANGED <<exists, inode, text, written, pending, lastPosition, lastInode,
                       currentInode, currentSize, seen, cut, stale>>
        /\ logAt' = "idle"
    BY <1>8 DEF ReadToEnd
  <2>2. LogType'
    BY <2>1 DEF LogInv, LogType
  <2>3. QED
    BY <2>1, <2>2
       DEF LogInv, Paired, PairedAt, PendingLast, BehindPosition, Reliable
<1>9. CASE ReadToEnd /\ exists
  <2>1. /\ UNCHANGED <<exists, inode, text, written, pending, lastInode, currentInode,
                       currentSize, stale>>
        /\ logAt = "open" /\ logAt' = "idle" /\ lastPosition' = currentSize
        /\ seen' = [l \in Line |->
                      IF l \in WholeLines(lastPosition) THEN seen[l] + 1 ELSE seen[l]]
        /\ cut' = cut \union HalfAt(currentSize)
    BY <1>9 DEF ReadToEnd
  <2>2. cut' \subseteq Line
    BY <2>1 DEF LogInv, LogType, HalfAt
  <2>3. seen' \in [Line -> Nat]
    BY <2>1 DEF LogInv, LogType
  <2>4. LogType'
    BY <2>1, <2>2, <2>3 DEF LogInv, LogType
  <2>5. Paired' /\ PendingLast'
    BY <2>1 DEF LogInv, Paired, PairedAt, PendingLast
  <2>6. BehindPosition'
    <3> SUFFICES ASSUME Reliable'
                 PROVE  /\ lastPosition' <= Len(text')
                        /\ logAt' = "open" => currentSize' <= Len(text')
                        /\ \A i \in 1..Len(text') :
                             i <= lastPosition' => text'[i].line \in cut' \/ seen'[text'[i].line] > 0
      BY DEF BehindPosition
    <3>1. Reliable
      BY <2>1 DEF Reliable
    <3>2. currentSize <= Len(text)
      BY <2>1, <3>1 DEF LogInv, BehindPosition
    <3>3. QED
      BY <1>9, <2>1, <3>1, <3>2, ReadKeepsBehind
  <2>7. QED
    BY <2>4, <2>5, <2>6 DEF LogInv
<1>10. CASE UNCHANGED logVars
  <2>1. UNCHANGED <<exists, inode, text, written, pending, lastPosition, lastInode, logAt,
                    currentInode, currentSize, seen, cut, stale>>
    BY <1>10 DEF logVars
  <2>2. LogType'
    BY <2>1 DEF LogInv, LogType
  <2>3. QED
    BY <2>1, <2>2
       DEF LogInv, Paired, PairedAt, PendingLast, BehindPosition, Reliable
<1>11. QED
  BY <1>1, <1>2, <1>3, <1>4, <1>5, <1>6, <1>7, <1>8, <1>9, <1>10
     DEF LogNext, LogEnvironment, LogTick

-----------------------------------------------------------------------------
(* The theorems, for the composition of the monitors.                      *)

\* A step of the composition is a step of each monitor, or leaves it alone.
LEMMA StepOfEach ==
  [AllNext]_allVars => [Next]_vars /\ [LogNext]_logVars /\ [DiskNext]_diskVars
BY DEF AllNext, allVars

(***************************************************************************)
(* DiskSpaceMonitor::tick: a threshold that usage stays above is reported  *)
(* once, and one that is reached by a mount the monitor knows does not go  *)
(* unreported, whatever the thresholds, mounts and failing statvfs calls.  *)
(***************************************************************************)
THEOREM DiskCrossings == AllSpec => []CrossingsReportedOnce
<1>1. AllInit => DiskInv
  BY DiskInvInit DEF AllInit
<1>2. DiskInv /\ [AllNext]_allVars => DiskInv'
  BY DiskInvStep, StepOfEach
<1>3. DiskInv => CrossingsReportedOnce
  BY DEF DiskInv, LevelsKnown, CrossingsReportedOnce
<1>4. QED
  BY <1>1, <1>2, <1>3, PTL DEF AllSpec

(***************************************************************************)
(* The tick() of the eleven snapshot monitors: replaying the events of a   *)
(* monitor reproduces its last snapshot in everything the monitor reports, *)
(* for every set of keys and contents.                                     *)
(***************************************************************************)
THEOREM SnapshotReplay == AllSpec => []EventsReproduceSnapshot
<1>1. AllInit => ReplayInv
  BY ReplayInit DEF AllInit
<1>2. ReplayInv /\ [AllNext]_allVars => ReplayInv'
  BY ReplayStep, StepOfEach
<1>3. ReplayInv => EventsReproduceSnapshot
  BY DEF ReplayInv, Believed, EventsReproduceSnapshot
<1>4. QED
  BY <1>1, <1>2, <1>3, PTL DEF AllSpec

(***************************************************************************)
(* The same monitors, those with a silent first snapshot and a complete    *)
(* scan: no event for an item that did not change since it was read for    *)
(* the tick before, whatever happens to the others while they scan.        *)
(***************************************************************************)
THEOREM SnapshotQuiet == AllSpec => []NoSpuriousEvents
<1>1. AllInit => ScanInv
  BY ScanInit DEF AllInit
<1>2. ScanInv /\ [AllNext]_allVars => ScanInv'
  BY ScanStep, StepOfEach
<1>3. ScanInv => NoSpuriousEvents
  BY DEF ScanInv, NoSpuriousEvents
<1>4. QED
  BY <1>1, <1>2, <1>3, PTL DEF AllSpec

(***************************************************************************)
(* LogMonitor::process_log_file: no line before the remembered position is *)
(* skipped, for any number of lines, half-written ones, rotations and      *)
(* truncations between any two of the calls that a tick makes, as long as  *)
(* something shows that another text is there: not after an unnoticed      *)
(* truncation, nor after a rotation in which the inode was asked for in    *)
(* the moment between the two files.                                       *)
(***************************************************************************)
THEOREM LogSkipsNothing == AllSpec => []NoLineSkipped
<1>1. AllInit => LogInv
  BY LogInvInit DEF AllInit
<1>2. LogInv /\ [AllNext]_allVars => LogInv'
  BY LogInvStep, StepOfEach
<1>3. LogInv => NoLineSkipped
  <2>1. LogInv => DOMAIN text = 1..Len(text)
    BY DEF LogInv, LogType
  <2>2. QED
    BY <2>1 DEF LogInv, BehindPosition, Reliable, NoLineSkipped
<1>4. QED
  BY <1>1, <1>2, <1>3, PTL DEF AllSpec
=============================================================================
