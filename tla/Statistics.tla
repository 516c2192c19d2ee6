----------------------------- MODULE Statistics -----------------------------
(***************************************************************************)
(* stats/statistics.cpp: the counters every monitor's thread adds to.      *)
(*                                                                         *)
(* record() counts the total and the type before it takes the mutex, the   *)
(* source and the minute after it.  The type counts are a std::map: a      *)
(* thread that looks a type up while another adds a node to the map reads  *)
(* a tree in the middle of a change.  What comes of that is undefined;     *)
(* here the count arrives, or is lost, or the process ends (Session).      *)
(*                                                                         *)
(* Targets are counted as sources are, hours as minutes, categories as     *)
(* types (but the constructor makes five of their nodes): left out, as is  *)
(* reset(), which nothing calls.                                           *)
(***************************************************************************)
EXTENDS Integers, FiniteSets, Sequences

CONSTANTS
  Poller,     \* the monitors' threads; the source of an event is its monitor
  Kinds,      \* bound: the types of the events each monitor emits, in order
  Keep,       \* the minutes of minute_buckets_ to keep (120)
  MaxMinute   \* bound: the clock

ASSUME StatisticsAssumption ==
  /\ \A p \in Poller : Len(Kinds[p]) \in Nat /\ DOMAIN Kinds[p] = 1..Len(Kinds[p])
  /\ Keep \in Nat
  /\ MaxMinute \in Nat \ {0}

Minute == 1..MaxMinute
EventId == UNION {[mon : {p}, seq : DOMAIN Kinds[p]] : p \in Poller}
TypeOf(e) == Kinds[e.mon][e.seq]
EventType == {TypeOf(e) : e \in EventId}

VARIABLES
  minute,        \* the clock
  total,         \* total_events_
  typeCounts,    \* type_counts_; a type is in the map if its count is not 0
  sourceCounts,  \* source_counts_
  minuteBuckets, \* minute_buckets_
  statsHeld,     \* is mutex_ held beyond one step (by get_stats)?
  inserting,     \* threads that are adding a type to type_counts_
  looking,       \* threads that are in type_counts_
  torn,          \* history: was a thread in type_counts_ while it changed?
  seen           \* history: events recorded per minute, nothing pruned

statsVars == <<minute, total, typeCounts, sourceCounts, minuteBuckets, statsHeld,
               inserting, looking, torn, seen>>

StatsTypeOK ==
  /\ minute \in Minute
  /\ total \in Nat
  /\ typeCounts \in [EventType -> Nat]
  /\ sourceCounts \in [Poller -> Nat]
  /\ minuteBuckets \in [Minute -> Nat]
  /\ statsHeld \in BOOLEAN
  /\ inserting \subseteq looking
  /\ looking \subseteq Poller
  /\ torn \in BOOLEAN
  /\ seen \in [Minute -> Nat]

StatsInit ==
  /\ minute \in Minute
  /\ total = 0
  /\ typeCounts = [t \in EventType |-> 0]
  /\ sourceCounts = [p \in Poller |-> 0]
  /\ minuteBuckets = [m \in Minute |-> 0]
  /\ statsHeld = FALSE
  /\ inserting = {}
  /\ looking = {}
  /\ torn = FALSE
  /\ seen = [m \in Minute |-> 0]

MinutePasses ==
  /\ minute < MaxMinute
  /\ minute' = minute + 1
  /\ UNCHANGED <<total, typeCounts, sourceCounts, minuteBuckets, statsHeld, inserting,
                 looking, torn, seen>>

-----------------------------------------------------------------------------
(* record(), in three steps of the thread p that emitted event e, stamped  *)
(* with a minute.                                                          *)

\* total_events_++ and the beginning of type_counts_[event.type]++.
RecordBegin(p, e) ==
  /\ total' = total + 1
  /\ looking' = looking \cup {p}
  /\ inserting' = IF typeCounts[TypeOf(e)] = 0 THEN inserting \cup {p} ELSE inserting
  /\ torn' = (torn \/ inserting # {} \/ (inserting' # {} /\ looking # {}))
  /\ UNCHANGED <<minute, typeCounts, sourceCounts, minuteBuckets, statsHeld, seen>>

\* Its end.
RecordType(p, e) ==
  /\ \/ typeCounts' = [typeCounts EXCEPT ![TypeOf(e)] = @ + 1]
     \/ torn /\ UNCHANGED typeCounts
  /\ looking' = looking \ {p}
  /\ inserting' = inserting \ {p}
  /\ UNCHANGED <<minute, total, sourceCounts, minuteBuckets, statsHeld, torn, seen>>

Used(buckets) == {m \in Minute : buckets[m] # 0}

\* Mutant: the oldest minute to keep goes too.
MutantPruned(buckets) ==
  [m \in Minute |-> IF m <= minute - Keep THEN 0 ELSE buckets[m]]

\* prune_time_buckets
Pruned(buckets) ==
  [m \in Minute |-> IF m < minute - Keep THEN 0 ELSE buckets[m]]

\* The part under the mutex.
RecordLocked(e, stamp) ==
  LET counted == [minuteBuckets EXCEPT ![stamp] = @ + 1]
  IN  /\ ~statsHeld
      /\ sourceCounts' = [sourceCounts EXCEPT ![e.mon] = @ + 1]
      /\ minuteBuckets' = IF Cardinality(Used(counted)) > Keep THEN Pruned(counted) ELSE counted
      /\ seen' = [seen EXCEPT ![stamp] = @ + 1]
      /\ UNCHANGED <<minute, total, typeCounts, statsHeld, inserting, looking, torn>>

\* get_stats takes the mutex and, holding it, calls top_sources ...
GetStats ==
  /\ ~statsHeld
  /\ statsHeld' = TRUE
  /\ UNCHANGED <<minute, total, typeCounts, sourceCounts, minuteBuckets, inserting,
                 looking, torn, seen>>

\* ... which takes it again.  A std::mutex is not recursive: the thread waits
\* for itself.
TopSources ==
  /\ ~statsHeld
  /\ UNCHANGED statsVars

-----------------------------------------------------------------------------
(***************************************************************************)
(* When no thread is between record's two parts (recording is the set of   *)
(* those that are) and the type counts were never torn, the total, each    *)
(* type's and each source's count agree on what was recorded (begun is the *)
(* set of all events whose recording has begun); the minutes a report      *)
(* looks at are counted exactly, and the minutes kept stay bounded,        *)
(* whichever minute an event is late from (record, prune_time_buckets).    *)
(***************************************************************************)
CountersAgree(begun, recording) ==
  /\ recording = {} /\ ~torn =>
       /\ total = Cardinality(begun)
       /\ \A t \in EventType : typeCounts[t] = Cardinality({e \in begun : TypeOf(e) = t})
       /\ \A p \in Poller : sourceCounts[p] = Cardinality({e \in begun : e.mon = p})
  /\ \A m \in Minute : m >= minute - Keep => minuteBuckets[m] = seen[m]
  /\ Cardinality(Used(minuteBuckets)) <= Keep + 1

=============================================================================
