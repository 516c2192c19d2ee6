----------------------------- MODULE LogMonitor -----------------------------
(***************************************************************************)
(* monitor/log/log_monitor.cpp: follows a growing log file.  A tick asks   *)
(* for the file's inode and for its size, decides from them whether the    *)
(* file was rotated or truncated, reads from the remembered position to    *)
(* the end and remembers the size it had asked for.  The file is written,  *)
(* rotated and truncated by others between any two of these steps.         *)
(*                                                                         *)
(* A line is two halves, the second ending in the newline; a writer may    *)
(* write it at once or half by half.  Matching a line against the patterns *)
(* is abstracted to having seen it whole.  Module AllMonitors composes     *)
(* this module with the other monitors.                                    *)
(***************************************************************************)
EXTENDS Naturals, Sequences

CONSTANTS
  MaxLines,      \* bound: lines written
  MaxRotations,  \* bound: rotations of the file
  MaxTruncations,\* bound: truncations (or replacements with the same inode)
  MaxObjects     \* bound: LogMonitor objects, one per MonitorEngine::initialize

ASSUME LogAssumption ==
  {MaxLines, MaxRotations, MaxTruncations, MaxObjects} \subseteq Nat

Line == 1..MaxLines
Half == [line : Line, part : {1, 2}]

VARIABLES
  \* The file.
  exists, inode, text,
  written,      \* lines begun so far
  pending,      \* is the second half of the last line still to be written?
  \* The monitor's LogWatch.
  lastPosition, lastInode,
  logAt,         \* the step the tick has reached
  currentInode, currentSize,
  \* History.
  seen,         \* how often each line was seen whole
  cut,          \* lines the remembered position, or an emptying of the file, cut in two
  stale,        \* is the position one in a text that is gone, and nothing shows it?
  rotations, truncations, objects

fileVars == <<exists, inode, text, written, pending>>
watchVars == <<lastPosition, lastInode>>
localVars == <<logAt, currentInode, currentSize>>
countVars == <<rotations, truncations, objects>>
lossVars == <<cut, stale>>
logVars == <<fileVars, watchVars, localVars, seen, countVars, lossVars>>

MaxSize == 2 * MaxLines

LogTypeOK ==
  /\ exists \in BOOLEAN
  /\ inode \in 1..MaxRotations + 1
  /\ text \in Seq(Half) /\ Len(text) <= MaxSize
  /\ written \in 0..MaxLines
  /\ pending \in BOOLEAN
  /\ lastPosition \in 0..MaxSize
  /\ lastInode \in 0..MaxRotations + 1
  /\ logAt \in {"idle", "inode", "size", "open"}
  /\ currentInode \in 0..MaxRotations + 1
  /\ currentSize \in 0..MaxSize
  /\ seen \in [Line -> Nat]
  /\ cut \subseteq Line
  /\ stale \in BOOLEAN
  /\ rotations \in 0..MaxRotations
  /\ truncations \in 0..MaxTruncations
  /\ objects \in 1..MaxObjects

LogInit ==
  /\ exists = TRUE
  /\ inode = 1
  /\ text = <<>>
  /\ written = 0
  /\ pending = FALSE
  /\ lastPosition = 0
  /\ lastInode = 0
  /\ logAt = "idle"
  /\ currentInode = 0
  /\ currentSize = 0
  /\ seen = [l \in Line |-> 0]
  /\ cut = {}
  /\ stale = FALSE
  /\ rotations = 0
  /\ truncations = 0
  /\ objects = 1

-----------------------------------------------------------------------------
(* The writer of the log, and logrotate.                                   *)

Write(halves) ==
  /\ exists
  /\ text' = text \o halves
  /\ UNCHANGED <<exists, inode, watchVars, localVars, seen, countVars, lossVars>>

WriteLine ==
  /\ ~pending
  /\ written < MaxLines
  /\ written' = written + 1
  /\ Write(<<[line |-> written', part |-> 1], [line |-> written', part |-> 2]>>)
  /\ UNCHANGED pending

WriteHalf ==
  /\ ~pending
  /\ written < MaxLines
  /\ written' = written + 1
  /\ pending' = TRUE
  /\ Write(<<[line |-> written', part |-> 1]>>)

WriteRest ==
  /\ pending
  /\ pending' = FALSE
  /\ Write(<<[line |-> written, part |-> 2]>>)
  /\ UNCHANGED written

\* The file is moved away ...
MoveAway ==
  /\ exists
  /\ rotations < MaxRotations
  /\ exists' = FALSE
  /\ UNCHANGED <<inode, text, written, pending, watchVars, localVars, seen, countVars,
                 lossVars>>

\* A line begun in the old file and finished in the emptied one is torn for good.
Tear == cut' = IF pending THEN cut \union {written} ELSE cut

\* Is there a position that the next tick goes on from?
PositionKept == lastPosition > 0 \/ (logAt = "open" /\ currentSize > 0)

\* ... and an empty one created in its place.  The next tick tells it from the old
\* one, unless it remembers no inode: the last tick found no file when it asked.
CreateNew ==
  /\ ~exists
  /\ exists' = TRUE
  /\ inode' = inode + 1
  /\ text' = <<>>
  /\ rotations' = rotations + 1
  /\ Tear
  /\ stale' = (stale \/ (lastInode = 0 /\ PositionKept))
  /\ UNCHANGED <<written, pending, watchVars, localVars, seen, truncations, objects>>

\* The file is emptied, or replaced by one with the same inode.  The next tick
\* notices, unless the file has grown past the position by then.
Truncate ==
  /\ exists
  /\ truncations < MaxTruncations
  /\ truncations' = truncations + 1
  /\ text' = <<>>
  /\ Tear
  /\ stale' = (stale \/ PositionKept)
  /\ UNCHANGED <<exists, inode, written, pending, watchVars, localVars, seen, rotations,
                 objects>>

LogEnvironment == WriteLine \/ WriteHalf \/ WriteRest \/ MoveAway \/ CreateNew \/ Truncate

-----------------------------------------------------------------------------
(* The monitor.                                                            *)

\* The engine is initialized again: a new object with a new LogWatch.
LogNewObject ==
  /\ logAt = "idle"
  /\ objects < MaxObjects
  /\ objects' = objects + 1
  /\ lastPosition' = 0
  /\ lastInode' = 0
  /\ stale' = FALSE
  /\ UNCHANGED <<fileVars, localVars, seen, rotations, truncations, cut>>

\* tick() finds the file readable.
LogBeginTick ==
  /\ logAt = "idle"
  /\ exists
  /\ logAt' = "inode"
  /\ UNCHANGED <<fileVars, watchVars, currentInode, currentSize, seen, countVars,
                 lossVars>>

\* get_file_inode(); 0 when there is no file.
StatInode ==
  /\ logAt = "inode"
  /\ currentInode' = IF exists THEN inode ELSE 0
  /\ logAt' = "size"
  /\ UNCHANGED <<fileVars, watchVars, currentSize, seen, countVars, cut, stale>>

\* Another file than the one remembered?
Rotated == currentInode # 0 /\ lastInode # 0 /\ currentInode # lastInode

\* Where to go on reading a file of that size.  (The Mutant definitions are
\* deliberately wrong variants of the definition that follows them; the README
\* says what they are for.)
MutantIgnoresRotation(size) == IF size < lastPosition THEN 0 ELSE lastPosition
MutantIgnoresTruncation(size) == IF Rotated THEN 0 ELSE lastPosition
NewPosition(size) == IF Rotated \/ size < lastPosition THEN 0 ELSE lastPosition

\* get_file_size(); 0 when there is no file.  A position that is kept although there
\* was no file when the inode was asked for is one in the file before.
StatSize ==
  /\ logAt = "size"
  /\ currentSize' = IF exists THEN Len(text) ELSE 0
  /\ lastPosition' = NewPosition(currentSize')
  /\ lastInode' = currentInode
  /\ logAt' = "open"
  /\ stale' = /\ stale \/ currentInode = 0
              /\ ~Rotated
              /\ lastPosition > 0 /\ currentSize' >= lastPosition
  /\ UNCHANGED <<fileVars, currentInode, seen, countVars, cut>>

\* The lines that getline() returns whole when reading starts after position p.
WholeLines(p) ==
  {l \in Line : \E i \in p + 1..Len(text) - 1 :
     text[i] = [line |-> l, part |-> 1] /\ text[i + 1] = [line |-> l, part |-> 2]}

\* The line that is only half there when the file is read to its end, n.
HalfAt(n) == {l \in Line : n = Len(text) /\ n > 0 /\ text[n] = [line |-> l, part |-> 1]}

\* Open, seek, read to the end.  tellg() fails at the end of the file, so what
\* is remembered is the size asked for before; when the file cannot be opened,
\* the position stays.
ReadToEnd ==
  /\ logAt = "open"
  /\ logAt' = "idle"
  /\ IF exists
     THEN /\ seen' = [l \in Line |->
                        IF l \in WholeLines(lastPosition) THEN seen[l] + 1 ELSE seen[l]]
          /\ lastPosition' = currentSize
          /\ cut' = cut \union HalfAt(currentSize)
     ELSE UNCHANGED <<seen, lastPosition, cut>>
  /\ UNCHANGED <<fileVars, lastInode, currentInode, currentSize, countVars, stale>>

LogTick == LogBeginTick \/ StatInode \/ StatSize \/ ReadToEnd

LogNext == LogEnvironment \/ LogNewObject \/ LogTick

-----------------------------------------------------------------------------
(* Properties.                                                             *)

(***************************************************************************)
(* Nothing is skipped: between two ticks every line that lies before the   *)
(* remembered position of the file it was taken from has been seen whole,  *)
(* unless the position once lay in the middle of it or the file was        *)
(* emptied between its halves; with rotations and truncations at any       *)
(* moment of the tick (process_log_file).  What the code cannot tell is    *)
(* left out (stale), until a size below the position, or another change of *)
(* inode, shows it: a file truncated and grown past the position again;    *)
(* and one at least as long as the position that replaced another in the   *)
(* moment before the tick asked for the inode, when there was none: then 0 *)
(* is remembered, and the new file, or the next, is taken for the old one. *)
(***************************************************************************)
NoLineSkipped ==
  ~stale /\ logAt = "idle" /\ exists /\ lastInode \in {0, inode} =>
    \A i \in DOMAIN text :
      i <= lastPosition => text[i].line \in cut \/ seen[text[i].line] > 0

(***************************************************************************)
(* Every line is eventually seen, unless a tick read the one half of it    *)
(* and the next the other, or the file is rotated away or truncated first, *)
(* or stale, as above, comes to hold.                                      *)
(***************************************************************************)
EventuallySeen ==
  \A l \in Line :
    (l \in WholeLines(0) \ cut /\ ~stale) ~>
      (seen[l] > 0 \/ l \notin WholeLines(0) \/ stale)

=============================================================================
