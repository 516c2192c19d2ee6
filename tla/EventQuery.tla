----------------------------- MODULE EventQuery -----------------------------
(***************************************************************************)
(* query/event_query.cpp: a reader pages through the stored events, newest *)
(* first, while the monitors go on storing.  Each page is a run of its own *)
(* over the whole file, with the offset moved on by the events it printed. *)
(* A query reads the current file only, and rotation is off, as it is      *)
(* unless storage.max_size_mb is set: the file only grows.                 *)
(***************************************************************************)
EXTENDS EventCodec, Integers, FiniteSets

CONSTANTS
  Pools,      \* bound: sets of events; a behaviour stores those of one set
  Options     \* the QueryOptions a reader may use

ASSUME QueryAssumption ==
  /\ \A e \in UNION Pools : IsEvent(e)
  /\ Options # {} /\ \A o \in Options : o.limit \in Int

VARIABLES
  pool,       \* the events still to happen
  file,       \* the text of the storage file
  stored,     \* history: the file read back, Iterated(file)
  written,    \* history: the events stored, in order
  options,    \* the reader's QueryOptions
  offset,     \* its --query-offset
  printed,    \* the positions in the file of the events printed so far
  base,       \* history: events in the file when the reader began
  reading     \* "no", "yes", or "done" once a page was empty

vars == <<pool, file, stored, written, options, offset, printed, base, reading>>
readerVars == <<options, offset, printed, base, reading>>

TypeOK ==
  /\ pool \in UNION {SUBSET p : p \in Pools}
  /\ ToSet(written) \in SUBSET (UNION Pools)
  /\ options \in Options
  /\ offset \in 0..Len(printed)
  /\ \A i \in DOMAIN printed : printed[i] \in DOMAIN stored
  /\ base \in 0..Len(stored)
  /\ reading \in {"no", "yes", "done"}

Init ==
  /\ pool \in Pools
  /\ file = <<>> /\ stored = <<>> /\ written = <<>>
  /\ options = CHOOSE o \in Options : TRUE
  /\ offset = 0 /\ printed = <<>> /\ base = 0 /\ reading = "no"

\* Mutant: the newline is forgotten.
MutantLine(e) == serialize_event(e)

\* FileStorage::insert writes the line and its newline.
Line(e) == Append(serialize_event(e), NL)

Insert(e) ==
  /\ pool' = pool \ {e}
  /\ file' = file \o Line(e)
  /\ stored' = Iterated(file')
  /\ written' = Append(written, e)
  /\ UNCHANGED readerVars

-----------------------------------------------------------------------------
LowerOf == [A |-> "a", PROCESS |-> "process"]
to_lower(c) == IF c \in DOMAIN LowerOf THEN LowerOf[c] ELSE c
LowerText(text) == [i \in DOMAIN text |-> to_lower(text[i])]

contains_ci(haystack, needle) ==
  needle = <<>> \/ Has(LowerText(haystack), LowerText(needle))

\* A category name that is not known filters nothing.
parse_category(name) ==
  LET n == to_lower(name)
  IN  IF n \in DOMAIN CategoryByName THEN CategoryByName[n]
      ELSE IF n = "systemconfig" THEN "SystemConfig" ELSE "Unknown"

Matches(e, o) ==
  /\ o.from > 0 => e.timestamp >= o.from
  /\ o.to > 0 => e.timestamp <= o.to
  /\ parse_category(o.category) \in {"Unknown", e.category}
  /\ contains_ci(e.source, o.source)
  /\ \E f \in {e.summary, e.target, e.source} : contains_ci(f, o.keyword)

\* The positions of the matching events.
Matching(o) ==
  {i \in DOMAIN stored : Matches(stored[i], o)}

\* std::sort by time, newest first: events of the same time stand in any order.
Sorted(S) ==
  {s \in SetToSeqs(S) :
     \A i \in 1..Len(s) - 1 : stored[s[i]].timestamp >= stored[s[i + 1]].timestamp}

PageEnd(skip, limit, total) ==
  IF limit <= 0 \/ skip + limit > total THEN total ELSE skip + limit

\* Mutant: the last match is never shown.
MutantPage(s, skip, limit) ==
  IF skip + 1 >= Len(s) THEN <<>>
  ELSE SubSeq(s, skip + 1, PageEnd(skip, limit, Len(s)))

\* One page out of the sorted matches.
Page(s, skip, limit) ==
  IF skip >= Len(s) THEN <<>>
  ELSE SubSeq(s, skip + 1, PageEnd(skip, limit, Len(s)))

BeginReading ==
  /\ reading = "no"
  /\ reading' = "yes"
  /\ options' \in Options
  /\ base' = Len(stored)
  /\ UNCHANGED <<pool, file, stored, written, offset, printed>>

NextPage ==
  /\ reading = "yes"
  /\ \E s \in Sorted(Matching(options)) :
       LET page == Page(s, offset, options.limit)
       IN  /\ printed' = printed \o page
           /\ offset' = offset + Len(page)
           /\ reading' = IF page = <<>> THEN "done" ELSE "yes"
  /\ UNCHANGED <<pool, file, stored, written, options, base>>

\* Nothing is left to store and the reader is done.
Rest ==
  /\ pool = {} /\ reading = "done"
  /\ UNCHANGED vars

Next ==
  \/ \E e \in pool : Insert(e)
  \/ BeginReading
  \/ NextPage
  \/ Rest

-----------------------------------------------------------------------------
\* An event read back alone from its line is the event stored, line breaks of
\* attributes and summary apart, exactly when none of its fields contains a
\* separator (serialize_event and parse_event, which escape nothing, and the
\* two tables of names).
RoundTripExactlyIfClean ==
  \A e \in pool : (Iterated(Line(e)) = << Flattened(e) >>) <=> Clean(e)

\* Whatever separators the events contain, the file is read back as one event
\* after the other would be if it were alone in the file, and a clean one as
\* itself: a line that is damaged never reaches into its neighbours (insert's
\* newline).
DamageStaysLocal ==
  /\ stored = FlattenSeq([i \in DOMAIN written |-> Iterated(Line(written[i]))])
  /\ \A i \in DOMAIN written :
       Clean(written[i]) => Iterated(Line(written[i])) = << Flattened(written[i]) >>

\* No other matching event has this one's time: its place among the sorted
\* matches is fixed.
Alone(i) ==
  \A j \in Matching(options) \ {i} : stored[j].timestamp # stored[i].timestamp

\* A reader that pages until a page is empty has been shown every match that
\* was stored when it began, however many events arrive between its pages and
\* in whatever order of their times (newest first, offset counted in events
\* printed), as long as the file is not rotated meanwhile.  Events that share
\* their time may change places.
PagingSkipsNothing ==
  reading = "done" =>
    \A i \in Matching(options) :
      i <= base /\ Alone(i) => i \in ToSet(printed)
=============================================================================
