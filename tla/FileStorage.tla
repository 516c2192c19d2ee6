---------------------------- MODULE FileStorage -----------------------------
(***************************************************************************)
(* storage::FileStorage (src/storage/storage.cpp): events are appended as  *)
(* lines to an active file; when the file has grown to rotate_max_bytes_   *)
(* it is renamed to <path>.1 and the older backups are shifted; prune()    *)
(* rewrites the file without its oldest events.                            *)
(*                                                                         *)
(* Every operation holds mutex_ throughout, so operations do not overlap.  *)
(* But a rotation is a series of file-system calls whose errors are        *)
(* ignored, and the process can die between any two of them, or in the     *)
(* middle of a line: those are the steps here.  Writes can fail too, and   *)
(* nobody looks: the counters advance, and the stream, in its error state, *)
(* ignores every later write until it is opened again.                     *)
(*                                                                         *)
(* Sizes are counted in lines.  The text of an event takes one line, or    *)
(* several when its source or its target has line breaks; a torn line, and *)
(* what runs into it, count as one.                                        *)
(***************************************************************************)
EXTENDS Integers, Sequences, FiniteSets

CONSTANTS
  RotateBytes,  \* rotate_max_bytes_
  FileCounts,   \* the values configured for rotate_max_files_
  PruneTo,      \* the arguments of prune()
  Heights,      \* the numbers of lines that the text of an event may take
  MayFail,      \* may file-system calls and writes fail?
  MaxEvents,    \* bound: events inserted
  MaxCrashes,   \* bound: crashes
  MaxTorn,      \* bound: writes that fail or are cut short
  MaxCalls      \* bound: calls of open, close, configure_rotation and prune

ASSUME StorageAssumption ==
  /\ RotateBytes \in Nat \ {0}
  /\ FileCounts \subseteq Nat
  /\ \E n \in FileCounts : \A m \in FileCounts : m <= n
  /\ PruneTo \subseteq Nat
  /\ Heights \subseteq Nat \ {0}
  /\ MayFail \in BOOLEAN
  /\ {MaxEvents, MaxCrashes, MaxTorn, MaxCalls} \subseteq Nat

VARIABLES
  file,      \* the active file: its texts (<<>> also when there is none)
  backup,    \* <path>.1, <path>.2, ... (<<>> when there is none)
  tmp,       \* <path>.prune.tmp
  op,        \* what the process is executing
  arg,       \* its local variable: the loop index, or prune's max_events
  isOpen,    \* file_.is_open()
  bad,       \* is file_ in its error state?
  bytes,     \* bytes_written_
  count,     \* event_count_
  maxFiles,  \* rotate_max_files_ (0: no rotation)
  next,      \* the number of the next event
  \* History.
  discarded, \* events removed, or cut in two, by policy: with the oldest backup,
             \* or by prune
  damaged,   \* events whose text was torn, or ran into a torn line
  refused,   \* events ignored because the file was not open
  unwritten, \* events that a failed write, or the error state it left, swallowed
  torn,      \* writes that failed, or that a crash cut short
  breaks,    \* line breaks in the events inserted
  failed,    \* has a remove or a rename failed?
  crashes, calls

diskVars == <<file, backup, tmp>>
memVars == <<isOpen, bad, bytes, count, maxFiles>>
histVars == <<discarded, damaged, refused, unwritten, torn, breaks, failed>>
vars == <<diskVars, op, arg, memVars, next, histVars, crashes, calls>>

MaxBackups == CHOOSE n \in FileCounts : \A m \in FileCounts : m <= n

\* The text of an event.  ok: it is complete; nl: its last line is terminated;
\* end: the number of that line in the file.
Line == [ev : 1..MaxEvents, ok : BOOLEAN, nl : BOOLEAN, end : Nat]

Ops == {"down", "idle", "remove", "shift", "first", "reopen", "prune"}

TypeOK ==
  /\ file \in Seq(Line)
  /\ backup \in [1..MaxBackups -> Seq(Line)]
  /\ tmp \in Seq(Line)
  /\ op \in Ops
  /\ arg \in Nat
  /\ isOpen \in BOOLEAN
  /\ bad \in BOOLEAN
  /\ bytes \in Nat
  /\ count \in Nat
  /\ maxFiles \in FileCounts \union {0}
  /\ next \in 1..MaxEvents + 1
  /\ discarded \in SUBSET (1..MaxEvents)
  /\ damaged \in SUBSET (1..MaxEvents)
  /\ refused \in SUBSET (1..MaxEvents)
  /\ unwritten \in SUBSET (1..MaxEvents)
  /\ torn \in Nat
  /\ breaks \in Nat
  /\ failed \in BOOLEAN
  /\ crashes \in 0..MaxCrashes
  /\ calls \in 0..MaxCalls

Init ==
  /\ file = <<>>
  /\ backup = [i \in 1..MaxBackups |-> <<>>]
  /\ tmp = <<>>
  /\ op = "down"
  /\ arg = 0
  /\ isOpen = FALSE
  /\ bad = FALSE
  /\ bytes = 0
  /\ count = 0
  /\ maxFiles = 0
  /\ next = 1
  /\ discarded = {}
  /\ damaged = {}
  /\ refused = {}
  /\ unwritten = {}
  /\ torn = 0
  /\ breaks = 0
  /\ failed = FALSE
  /\ crashes = 0
  /\ calls = 0

-----------------------------------------------------------------------------
Events(f) == {f[i].ev : i \in DOMAIN f}
Intact(f) == {f[i].ev : i \in {j \in DOMAIN f : f[j].ok}}
\* The size of f, in lines.
Bytes(f) == IF f = <<>> THEN 0 ELSE f[Len(f)].end

\* What reaches the file of a text of h lines: all of it, ...
Whole(h) == [lines |-> h, ok |-> TRUE, nl |-> TRUE]

\* ... or a part, the last line perhaps complete but for its end.
Parts(h) ==
  {p \in [lines : 1..h, ok : BOOLEAN, nl : BOOLEAN] :
     IF p.ok THEN p.lines = h /\ ~p.nl ELSE p.nl => p.lines < h}

\* The file f after p, the text of event e or a part of it, was written to it: on
\* lines of its own, unless the last line of f is not terminated.
AppendText(f, e, p) ==
  IF f = <<>> \/ f[Len(f)].nl
  THEN Append(f, [ev |-> e, ok |-> p.ok, nl |-> p.nl, end |-> Bytes(f) + p.lines])
  ELSE [f EXCEPT ![Len(f)] =
         [ev |-> @.ev, ok |-> FALSE, nl |-> p.nl, end |-> @.end + p.lines - 1]]

\* The events that this damages.
Hit(f, e, p) ==
  IF f = <<>> \/ f[Len(f)].nl
  THEN IF p.ok THEN {} ELSE {e}
  ELSE {e, f[Len(f)].ev}

\* A call of the storage's interface, outside insert.
Call ==
  /\ calls < MaxCalls
  /\ calls' = calls + 1
  /\ UNCHANGED crashes

-----------------------------------------------------------------------------
(* open, close, configure_rotation                                         *)

\* May a file that is opened again fail to open?
Reopened == IF MayFail THEN BOOLEAN ELSE {TRUE}

\* open(): the counters are seeded from the file that is there, every line
\* counting for an event.
Open ==
  /\ op \in {"down", "idle"}
  /\ ~isOpen
  /\ Call
  /\ op' = "idle"
  /\ bad' = FALSE
  /\ \/ isOpen' = TRUE /\ bytes' = Bytes(file) /\ count' = Bytes(file)
     \/ MayFail /\ UNCHANGED <<isOpen, bytes, count>>
  /\ UNCHANGED <<diskVars, arg, maxFiles, next, histVars>>

Close ==
  /\ op = "idle"
  /\ isOpen
  /\ Call
  /\ isOpen' = FALSE
  /\ UNCHANGED <<diskVars, op, arg, bad, bytes, count, maxFiles, next, histVars>>

ConfigureRotation(n) ==
  /\ op = "idle"
  /\ Call
  /\ maxFiles' = n
  /\ UNCHANGED <<diskVars, op, arg, isOpen, bad, bytes, count, next, histVars>>

-----------------------------------------------------------------------------
(* insert() and the rotation at its end                                    *)

\* insert() into a storage that is not open.
Refuse ==
  /\ op = "idle"
  /\ ~isOpen
  /\ next <= MaxEvents
  /\ next' = next + 1
  /\ refused' = refused \union {next}
  /\ UNCHANGED <<diskVars, op, arg, memVars, discarded, damaged, unwritten, torn,
                 breaks, failed, crashes, calls>>

\* The bookkeeping of insert() for a text of h lines, whatever has become of it:
\* the counters advance, and maybe_rotate_locked() closes the file if they say
\* that it is large enough.
Counted(h) ==
  /\ op = "idle"
  /\ isOpen
  /\ next <= MaxEvents
  /\ next' = next + 1
  /\ bytes' = bytes + h
  /\ count' = count + 1
  /\ breaks' = breaks + h - 1
  /\ op' = IF maxFiles > 0 /\ bytes' >= RotateBytes THEN "remove" ELSE "idle"
  /\ UNCHANGED <<backup, tmp, arg, isOpen, maxFiles, discarded, refused, failed,
                 crashes, calls>>

\* p, the text of the next event or a part of it, reaches the active file.
Written(p) ==
  /\ file' = AppendText(file, next, p)
  /\ damaged' = damaged \union Hit(file, next, p)

\* (The Mutant definitions are deliberately wrong variants of the definition
\* that follows them; the README says what they are for.)
MutantUnterminated(h) ==
  /\ ~bad
  /\ Counted(h)
  /\ Written([Whole(h) EXCEPT !.nl = FALSE])
  /\ UNCHANGED <<bad, unwritten, torn>>

WriteMayFail == MayFail /\ torn < MaxTorn

\* The text is written and flushed.
Insert(h) ==
  /\ ~bad
  /\ Counted(h)
  /\ Written(Whole(h))
  /\ UNCHANGED <<bad, unwritten, torn>>

\* The write or the flush fails: nothing of the text reaches the file, or a
\* part, or yet all of it.
InsertFails(h) ==
  /\ WriteMayFail
  /\ ~bad
  /\ Counted(h)
  /\ bad' = TRUE
  /\ torn' = torn + 1
  /\ \/ UNCHANGED <<file, damaged>> /\ unwritten' = unwritten \union {next}
     \/ (\E p \in Parts(h) \union {Whole(h)} : Written(p)) /\ UNCHANGED unwritten

\* The stream is in its error state: it ignores the text.
InsertIgnored(h) ==
  /\ bad
  /\ Counted(h)
  /\ unwritten' = unwritten \union {next}
  /\ UNCHANGED <<file, damaged, bad, torn>>

\* remove(<path>.<max_files>)
RotateRemove ==
  /\ op = "remove"
  /\ isOpen' = FALSE
  /\ \/ /\ backup' = [backup EXCEPT ![maxFiles] = <<>>]
        /\ discarded' = discarded \union Events(backup[maxFiles])
        /\ UNCHANGED failed
     \/ /\ MayFail
        /\ backup[maxFiles] # <<>>
        /\ failed' = TRUE
        /\ UNCHANGED <<backup, discarded>>
  /\ arg' = maxFiles - 1
  /\ op' = "shift"
  /\ UNCHANGED <<file, tmp, bad, bytes, count, maxFiles, next, damaged, refused,
                 unwritten, torn, breaks, crashes, calls>>

\* The effect of renaming <path>.i to <path>.i+1.
Renamed(b, i) ==
  IF b[i] = <<>> THEN b ELSE [b EXCEPT ![i] = <<>>, ![i + 1] = b[i]]

MutantRotateShift ==
  /\ op = "shift"
  /\ arg > 0
  /\ arg' = arg - 1
  /\ backup' = IF arg > 1 THEN Renamed(backup, arg) ELSE backup
  /\ UNCHANGED <<file, tmp, op, memVars, next, histVars, crashes, calls>>

\* One iteration of the loop that shifts the backups, from the oldest down.
RotateShift ==
  /\ op = "shift"
  /\ arg > 0
  /\ arg' = arg - 1
  /\ \/ backup' = Renamed(backup, arg) /\ UNCHANGED failed
     \/ MayFail /\ backup[arg] # <<>> /\ failed' = TRUE /\ UNCHANGED backup
  /\ UNCHANGED <<file, tmp, op, memVars, next, discarded, damaged, refused,
                 unwritten, torn, breaks, crashes, calls>>

MutantRotateFirst ==
  /\ op = "shift"
  /\ arg = 0
  /\ backup' = [backup EXCEPT ![maxFiles] = file]
  /\ file' = <<>>
  /\ op' = "reopen"
  /\ UNCHANGED <<tmp, arg, memVars, next, histVars, crashes, calls>>

\* rename(<path>, <path>.1)
RotateFirst ==
  /\ op = "shift"
  /\ arg = 0
  /\ \/ /\ backup' = [backup EXCEPT ![1] = file]
        /\ file' = <<>>
        /\ UNCHANGED failed
     \/ MayFail /\ failed' = TRUE /\ UNCHANGED <<file, backup>>
  /\ op' = "reopen"
  /\ UNCHANGED <<tmp, arg, memVars, next, discarded, damaged, refused, unwritten,
                 torn, breaks, crashes, calls>>

MutantRotateReopen ==
  /\ op = "reopen"
  /\ op' = "idle"
  /\ isOpen' = TRUE
  /\ bad' = FALSE
  /\ bytes' = 0
  /\ UNCHANGED <<diskVars, arg, count, maxFiles, next, histVars, crashes, calls>>

\* A fresh file, and fresh counters.
RotateReopen ==
  /\ op = "reopen"
  /\ op' = "idle"
  /\ isOpen' \in Reopened
  /\ bad' = FALSE
  /\ bytes' = 0
  /\ count' = 0
  /\ UNCHANGED <<diskVars, arg, maxFiles, next, histVars, crashes, calls>>

-----------------------------------------------------------------------------
(* prune(max_events)                                                       *)

\* The number of texts that lie within the first s lines of the file.
Cut(s) ==
  {k \in 0..Len(file) : /\ k > 0 => file[k].end <= s
                        /\ k < Len(file) => s < file[k + 1].end}

\* What is left of the file without its first s lines, which hold k texts and
\* perhaps a part of another: the lines that prune() copies, each terminated.
Kept(k, s) ==
  [i \in 1..Len(file) - k |->
     [ev |-> file[i + k].ev,
      ok |-> file[i + k].ok /\ (i > 1 \/ (k > 0 /\ file[k].end = s)),
      nl |-> TRUE,
      end |-> file[i + k].end - s]]

\* What reaches a copy of f when a write fails: the texts before the m-th one,
\* and perhaps a part of that one.
Start(f, m) == SubSeq(f, 1, m - 1)
ShortCopies(f) ==
  UNION {{Start(f, m)} \union
           {AppendText(Start(f, m), f[m].ev, [p EXCEPT !.ok = @ /\ f[m].ok]) :
              p \in Parts(f[m].end - Bytes(Start(f, m)))} :
         m \in 1..Len(f)}

\* All but the first event_count_ - n lines are copied (at least one is left out:
\* prune returns early when event_count_ <= n).
PruneCopy(n) ==
  /\ op = "idle"
  /\ Call
  /\ count > n
  /\ \E k \in Cut(count - n) :
       LET f == Kept(k, count - n)
       IN  tmp' \in {f} \union (IF WriteMayFail THEN ShortCopies(f) ELSE {})
  /\ arg' = n
  /\ op' = "prune"
  /\ UNCHANGED <<file, backup, memVars, next, histVars>>

\* The copy replaces the file, whether or not it is complete, and the counters
\* are those of a complete one.
Swapped(k, s) ==
  LET f == Kept(k, s)
  IN  /\ file' = tmp
      /\ bytes' = Bytes(f)
      /\ count' = arg
      /\ discarded' = discarded \union (Intact(file) \ Intact(f))
      /\ unwritten' = unwritten \union (Intact(f) \ Events(tmp))
      /\ damaged' = damaged \union ((Intact(f) \intersect Events(tmp)) \ Intact(tmp))
      /\ torn' = IF tmp = f THEN torn ELSE torn + 1
      /\ UNCHANGED failed

\* When the rename fails the copy is removed.  Either way the file is opened
\* again, also if it was not open before.
PruneSwap ==
  /\ op = "prune"
  /\ op' = "idle"
  /\ tmp' = <<>>
  /\ isOpen' \in Reopened
  /\ bad' = FALSE
  /\ \/ \E k \in Cut(count - arg) : Swapped(k, count - arg)
     \/ /\ MayFail
        /\ failed' = TRUE
        /\ UNCHANGED <<file, bytes, count, discarded, damaged, unwritten, torn>>
  /\ UNCHANGED <<backup, arg, maxFiles, next, refused, breaks, crashes, calls>>

-----------------------------------------------------------------------------
(* The process dies; what it had in memory is gone.                        *)

Die ==
  /\ crashes < MaxCrashes
  /\ crashes' = crashes + 1
  /\ op' = "down"
  /\ isOpen' = FALSE
  /\ bad' = FALSE
  /\ bytes' = 0
  /\ count' = 0
  /\ maxFiles' = 0
  /\ arg' = 0

\* Between two file-system calls.
Crash ==
  /\ op # "down"
  /\ Die
  /\ UNCHANGED <<diskVars, next, histVars, calls>>

\* While a text of h lines is being written: part of it reaches the file.
CrashInInsert(h) ==
  /\ op = "idle"
  /\ isOpen
  /\ ~bad
  /\ next <= MaxEvents
  /\ torn < MaxTorn
  /\ Die
  /\ next' = next + 1
  /\ torn' = torn + 1
  /\ \E p \in Parts(h) : Written(p)
  /\ UNCHANGED <<backup, tmp, discarded, refused, unwritten, breaks, failed, calls>>

\* Nothing is asked of the storage any more.
Rest ==
  /\ op \in {"down", "idle"}
  /\ UNCHANGED vars

Next ==
  \/ Open \/ Close \/ \E n \in FileCounts : ConfigureRotation(n)
  \/ Refuse
  \/ \E h \in Heights : Insert(h) \/ InsertFails(h) \/ InsertIgnored(h)
  \/ RotateRemove \/ RotateShift \/ RotateFirst \/ RotateReopen
  \/ \E n \in PruneTo : PruneCopy(n)
  \/ PruneSwap
  \/ Crash \/ \E h \in Heights : CrashInInsert(h)
  \/ Rest

Spec == Init /\ [][Next]_vars

-----------------------------------------------------------------------------
(* Properties.                                                             *)

\* The events whose text is complete in the active file or in a backup.  (What a
\* reader makes of a text is the matter of EventCodec.)
Held == Intact(file) \union UNION {Intact(backup[i]) : i \in DOMAIN backup}

(***************************************************************************)
(* No event disappears without a reason: unless a remove or a rename       *)
(* failed, every event handed to insert() is complete in the active file   *)
(* or a backup, or was refused by a storage that was not open, fell to the *)
(* retention policy (oldest backup, prune), was torn, or was swallowed by  *)
(* a stream that could not write; and the last two happen only when a      *)
(* write failed or a crash cut one short.  Holds between any two           *)
(* file-system calls, so also after a crash at that point (insert,         *)
(* maybe_rotate_locked, prune).                                            *)
(***************************************************************************)
NoEventLost ==
  /\ ~failed =>
       1..next - 1 =
         refused \union discarded \union damaged \union unwritten \union Held
  /\ torn = 0 => damaged \union unwritten = {}

Files == [i \in 0..MaxBackups |-> IF i = 0 THEN file ELSE backup[i]]

(***************************************************************************)
(* The files stay in order, each event in one place: a backup with a       *)
(* higher number holds older events, the active file the newest, and each  *)
(* file has its own in insertion order; even when renames fail and the     *)
(* process dies half-way through a rotation (maybe_rotate_locked).         *)
(***************************************************************************)
BackupsInOrder ==
  \A i, j \in DOMAIN Files :
    /\ i < j => \A x \in Events(Files[i]), y \in Events(Files[j]) : y < x
    /\ i = j => \A a, b \in DOMAIN Files[i] :
                  a < b => Files[i][a].ev < Files[i][b].ev

(***************************************************************************)
(* The counters tell the truth as far as they can: while the storage is    *)
(* open and between operations, and as long as no remove, rename or write  *)
(* failed and no write was cut short, the byte counter is the size of the  *)
(* active file, and count() is the number of its lines but for the line    *)
(* breaks within events, which it misses until the file is opened again    *)
(* (open, insert, prune, maybe_rotate_locked).  With a failed write both   *)
(* run ahead of the file.                                                  *)
(***************************************************************************)
CountersMatchFile ==
  op = "idle" /\ isOpen /\ ~failed /\ torn = 0 =>
    /\ bytes = Bytes(file)
    /\ count <= Bytes(file)
    /\ Bytes(file) <= count + breaks

(***************************************************************************)
(* A write that fails, or that a crash cuts short, damages at most the     *)
(* event it was for and the one that is appended to the torn line later    *)
(* (insert, prune, open).                                                  *)
(***************************************************************************)
CrashDamageBounded == Cardinality(damaged) <= 2 * torn

(***************************************************************************)
(* FileStorage implements the event log, also when renames fail and the    *)
(* process dies at any point: no event comes back, a write costs at most   *)
(* the newest event held, and whatever a rotation or a prune drops or      *)
(* overwrites are neighbours, and perhaps the newest events when the copy  *)
(* failed (insert, maybe_rotate_locked, prune).                            *)
(***************************************************************************)
Log == INSTANCE EventLog WITH held <- Held
ImplementsLog == Log!Spec

=============================================================================
