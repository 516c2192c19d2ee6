-------------------------- MODULE SnapshotMonitor ---------------------------
(***************************************************************************)
(* The monitors that poll: every tick takes a snapshot of the system, item *)
(* by item while the system goes on changing, compares it with the one     *)
(* before and emits an event per difference.  Eleven monitors of           *)
(* src/monitor/ have this shape; what distinguishes them is a record each: *)
(*                                                                         *)
(*   reports   the differences the tick emits events for                   *)
(*   baseline  when a snapshot is taken silently: after every on_start     *)
(*             ("start"), once per object ("object"), or never ("never",   *)
(*             the previous snapshot being a function-static variable)     *)
(*   twoReads  is an item first listed and then looked at?  Then it can    *)
(*             vanish in between and is recorded without contents.         *)
(*   fixed     are the items a fixed list, an absent one being recorded as *)
(*             missing?                                                    *)
(*   walks     is a directory tree walked, the iterator ending early when  *)
(*             a directory it was about to enter is gone?                  *)
(*                                                                         *)
(* An item (a path, a process id, a connection, a package...) has contents *)
(* and permissions.                                                        *)
(***************************************************************************)
EXTENDS Naturals, FiniteSets

CONSTANTS
  Key,         \* the items
  Data,        \* contents an item can have
  Mode,        \* permissions an item can have
  Kinds,       \* the monitors a run looks at
  MaxChanges,  \* bound: changes of the system
  MaxStarts    \* bound: calls of start, stop and initialize

ASSUME MonitorAssumption ==
  /\ Data \intersect {"missing", "gone", "absent"} = {}
  /\ MaxChanges \in Nat
  /\ MaxStarts \in Nat

FilesystemMonitor ==
  [name |-> "filesystem", reports |-> {"added", "changed", "permission", "removed"},
   baseline |-> "start", twoReads |-> TRUE, fixed |-> FALSE, walks |-> TRUE]
ProcessMonitor ==
  [name |-> "process", reports |-> {"added", "removed"},
   baseline |-> "start", twoReads |-> FALSE, fixed |-> FALSE, walks |-> FALSE]
NetworkMonitor ==
  [name |-> "network", reports |-> {"added", "removed"},
   baseline |-> "start", twoReads |-> FALSE, fixed |-> FALSE, walks |-> FALSE]
SystemConfigMonitor ==
  [name |-> "system_config", reports |-> {"added", "changed"},
   baseline |-> "start", twoReads |-> FALSE, fixed |-> TRUE, walks |-> FALSE]
UserActivityMonitor ==
  [name |-> "user_activity", reports |-> {"added", "removed"},
   baseline |-> "start", twoReads |-> FALSE, fixed |-> FALSE, walks |-> FALSE]
ServiceMonitor ==
  [name |-> "service", reports |-> {"added", "changed"},
   baseline |-> "start", twoReads |-> FALSE, fixed |-> FALSE, walks |-> FALSE]
FileIntegrityMonitor ==
  [name |-> "file_integrity", reports |-> {"added", "changed", "removed"},
   baseline |-> "start", twoReads |-> TRUE, fixed |-> FALSE, walks |-> FALSE]
UsbDeviceMonitor ==
  [name |-> "usb_device", reports |-> {"added", "removed"},
   baseline |-> "object", twoReads |-> FALSE, fixed |-> FALSE, walks |-> FALSE]
PortMonitor ==
  [name |-> "port", reports |-> {"added", "changed", "removed"},
   baseline |-> "never", twoReads |-> FALSE, fixed |-> FALSE, walks |-> FALSE]
PackageMonitor ==
  [name |-> "package", reports |-> {"added", "changed", "removed"},
   baseline |-> "never", twoReads |-> FALSE, fixed |-> FALSE, walks |-> FALSE]
EnvironmentMonitor ==
  [name |-> "environment", reports |-> {"added", "changed", "removed"},
   baseline |-> "never", twoReads |-> FALSE, fixed |-> FALSE, walks |-> FALSE]

Monitors ==
  {FilesystemMonitor, ProcessMonitor, NetworkMonitor, SystemConfigMonitor,
   UserActivityMonitor, ServiceMonitor, FileIntegrityMonitor, UsbDeviceMonitor,
   PortMonitor, PackageMonitor, EnvironmentMonitor}

VARIABLES
  kind,      \* the monitor
  world,     \* the system
  running,   \* has the monitor been started?
  first,     \* first_scan_
  previous,  \* the snapshot of the tick before
  scanning,  \* is a tick in progress?
  current,   \* the snapshot it is taking
  todo,      \* the items it has still to read
  listed,    \* the items it has listed but not looked at
  at,        \* the item it has looked at last
  view,      \* what a consumer of the events believes
  \* History.
  dirty,     \* items that changed since they were last read
  fresh,     \* items that were dirty when this tick read them
  spurious,  \* items an event was emitted for although nothing had changed
  changes, starts

scanVars == <<scanning, current, todo, listed, at>>
histVars == <<dirty, fresh, spurious>>
vars == <<kind, world, running, first, previous, scanVars, view, histVars,
          changes, starts>>

Absent == [data |-> "absent", perm |-> "none"]
Item == [data : Data, perm : Mode]

\* What the monitors record: the contents, as far as a snapshot keeps them (a
\* hash; a size and a modification time in seconds; a version; a state).  No
\* snapshot function fills in permissions, FilesystemMonitor::snapshot_of included.
Seen(item) == [data |-> item.data, perm |-> "none"]
Recorded == [data : Data \union {"missing", "gone", "absent"}, perm : {"none"}]

Empty == [k \in Key |-> Absent]

TypeOK ==
  /\ kind \in Monitors
  /\ world \in [Key -> Item \union {Absent}]
  /\ running \in BOOLEAN
  /\ first \in BOOLEAN
  /\ previous \in [Key -> Recorded]
  /\ scanning \in BOOLEAN
  /\ current \in [Key -> Recorded]
  /\ todo \subseteq Key
  /\ listed \subseteq todo
  /\ at \in Key \union {"none"}
  /\ view \in [Key -> Recorded]
  /\ dirty \subseteq Key
  /\ fresh \subseteq Key
  /\ spurious \subseteq Key
  /\ changes \in 0..MaxChanges
  /\ starts \in 0..MaxStarts

Init ==
  /\ kind \in {m \in Monitors : m.name \in Kinds}
  /\ world \in [Key -> Item \union {Absent}]
  /\ running = FALSE
  /\ first = (kind.baseline # "never")
  /\ previous = Empty
  /\ scanning = FALSE
  /\ current = Empty
  /\ todo = {}
  /\ listed = {}
  /\ at = "none"
  /\ view = Empty
  /\ dirty = {}
  /\ fresh = {}
  /\ spurious = {}
  /\ changes = 0
  /\ starts = 0

-----------------------------------------------------------------------------
\* Something appears, vanishes or changes.
ChangeWorld(k, to) ==
  /\ changes < MaxChanges
  /\ to # world[k]
  /\ changes' = changes + 1
  /\ world' = [world EXCEPT ![k] = to]
  /\ dirty' = IF to.data # world[k].data THEN dirty \union {k} ELSE dirty
  /\ UNCHANGED <<kind, running, first, previous, scanVars, view, fresh,
                 spurious, starts>>

\* on_start()
Start ==
  /\ ~running
  /\ starts < MaxStarts
  /\ starts' = starts + 1
  /\ running' = TRUE
  /\ first' = IF kind.baseline = "start" THEN TRUE ELSE first
  /\ UNCHANGED <<kind, world, previous, scanVars, view, histVars, changes>>

\* on_stop() returns when no tick is in progress.
Stop ==
  /\ running
  /\ ~scanning
  /\ starts < MaxStarts
  /\ starts' = starts + 1
  /\ running' = FALSE
  /\ UNCHANGED <<kind, world, first, previous, scanVars, view, histVars, changes>>

\* The engine is initialized again: a new monitor object.
NewObject ==
  /\ ~running
  /\ starts < MaxStarts
  /\ starts' = starts + 1
  /\ first' = (kind.baseline # "never")
  /\ previous' = IF kind.baseline = "never" THEN previous ELSE Empty
  /\ UNCHANGED <<kind, world, running, scanVars, view, histVars, changes>>

-----------------------------------------------------------------------------
(* A tick.                                                                 *)

BeginTick ==
  /\ running
  /\ ~scanning
  /\ scanning' = TRUE
  /\ todo' = Key
  /\ current' = Empty
  /\ at' = "none"
  /\ UNCHANGED <<kind, world, running, first, previous, listed, view, histVars,
                 changes, starts>>

\* k is found in a directory or list.
ListItem(k) ==
  /\ kind.twoReads
  /\ k \in todo \ listed
  /\ world[k] # Absent
  /\ listed' = listed \union {k}
  /\ UNCHANGED <<kind, world, running, first, previous, scanning, current, todo,
                 at, view, histVars, changes, starts>>

\* The record of item k when it is looked at.
Found(k) ==
  IF world[k] # Absent THEN Seen(world[k])
  ELSE IF k \in listed THEN [data |-> "gone", perm |-> "none"]
  ELSE IF kind.fixed THEN [data |-> "missing", perm |-> "none"]
  ELSE Absent

\* k is looked at, or found not to be there.  (An item that was listed and has
\* vanished counts as changed for the next tick too, which finds it absent.)
ReadItem(k) ==
  /\ k \in todo
  /\ ~kind.twoReads \/ k \in listed \/ world[k] = Absent
  /\ current' = [current EXCEPT ![k] = Found(k)]
  /\ todo' = todo \ {k}
  /\ listed' = listed \ {k}
  /\ at' = k
  /\ fresh' = fresh \union (dirty \intersect {k})
  /\ dirty' = IF k \in listed /\ world[k] = Absent THEN dirty ELSE dirty \ {k}
  /\ UNCHANGED <<kind, world, running, first, previous, scanning, view, spurious,
                 changes, starts>>

\* The directory just looked at is gone when increment() enters it: the iterator
\* becomes the end iterator and the rest of the tree is not read.
EnterFails ==
  /\ kind.walks
  /\ todo # {}
  /\ at # "none"
  /\ current[at] # Absent
  /\ world[at] = Absent
  /\ todo' = {}
  /\ listed' = {}
  /\ UNCHANGED <<kind, world, running, first, previous, scanning, current, at, view,
                 dirty, fresh, spurious, changes, starts>>

\* The differences between the snapshots, by class.
Difference(class) ==
  {k \in Key :
     \/ class = "added" /\ previous[k] = Absent /\ current[k] # Absent
     \/ class = "removed" /\ previous[k] # Absent /\ current[k] = Absent
     \/ /\ previous[k] # Absent /\ current[k] # Absent
        /\ \/ class = "changed" /\ previous[k].data # current[k].data
           \/ class = "permission" /\ previous[k].perm # current[k].perm}

\* (The Mutant definitions are deliberately wrong variants of the definition
\* that follows them; the README says what they are for.)
MutantReported == UNION {Difference(class) : class \in kind.reports \ {"removed"}}

\* The items the tick emits an event for.
Reported == UNION {Difference(class) : class \in kind.reports}

EndScan ==
  /\ scanning
  /\ todo = {}
  /\ scanning' = FALSE
  /\ previous' = current
  /\ current' = Empty
  /\ fresh' = {}
  /\ UNCHANGED <<kind, world, running, todo, listed, at, dirty,
                 changes, starts>>

\* The first snapshot is only remembered; a consumer starts from it.
EndBaseline ==
  /\ first
  /\ EndScan
  /\ first' = FALSE
  /\ view' = current
  /\ UNCHANGED <<spurious>>

MutantEndTick ==
  /\ ~first
  /\ scanning
  /\ todo = {}
  /\ scanning' = FALSE
  /\ current' = Empty
  /\ fresh' = {}
  /\ view' = [k \in Key |-> IF k \in Reported THEN current[k] ELSE view[k]]
  /\ spurious' = spurious \union (Reported \ fresh)
  /\ UNCHANGED <<kind, world, running, first, previous, todo, listed, at,
                 dirty, changes, starts>>

\* Otherwise the events are emitted and the consumer follows them.
EndTick ==
  /\ ~first
  /\ EndScan
  /\ view' = [k \in Key |-> IF k \in Reported THEN current[k] ELSE view[k]]
  /\ spurious' = spurious \union (Reported \ fresh)
  /\ UNCHANGED first

Tick ==
  \/ BeginTick
  \/ \E k \in Key : ListItem(k) \/ ReadItem(k)
  \/ EnterFails
  \/ EndBaseline
  \/ EndTick

\* A stopped monitor may stay so.
Rest == ~running /\ UNCHANGED vars

Next ==
  \/ \E k \in Key, to \in Item \union {Absent} : ChangeWorld(k, to)
  \/ Start \/ Stop \/ NewObject \/ Rest
  \/ Tick

\* A monitor that was started keeps ticking (module Runner).
Spec == Init /\ [][Next]_vars /\ WF_vars(Tick)

-----------------------------------------------------------------------------
(* Properties.                                                             *)

\* Does the consumer's belief about k agree with the record r, as far as this
\* monitor reports at all?
Agrees(k, r) ==
  /\ r # Absent => /\ view[k] # Absent
                   /\ "changed" \in kind.reports => view[k].data = r.data
  /\ r = Absent /\ "removed" \in kind.reports => view[k] = Absent

(***************************************************************************)
(* The events are a faithful log: whoever applies them, in order, to the   *)
(* silent first snapshot knows after every tick what the monitor knows,    *)
(* although items appear, vanish and change while they are being read (the *)
(* tick of each monitor).                                                  *)
(***************************************************************************)
EventsReproduceSnapshot ==
  running /\ ~first => \A k \in Key : Agrees(k, previous[k])

(***************************************************************************)
(* A monitor with a silent first snapshot whose scans are complete emits   *)
(* an event for an item only if that item changed since it was read for    *)
(* the tick before.                                                        *)
(***************************************************************************)
NoSpuriousEvents == kind.baseline # "never" /\ ~kind.walks => spurious = {}

(***************************************************************************)
(* When the system has come to rest, a monitor that keeps running          *)
(* eventually has reported its state, and the consumer's picture stays     *)
(* right (PeriodicRunner's ticks; scan_and_diff, tick, poll).              *)
(***************************************************************************)
EventuallyConsistent ==
  <>[](running /\ changes = MaxChanges) =>
    <>[](\A k \in Key :
           LET r == IF world[k] = Absent /\ kind.fixed
                    THEN [data |-> "missing", perm |-> "none"] ELSE Seen(world[k])
           IN  Agrees(k, r))

(***************************************************************************)
(* An event means that something changed: README.md:17 promises events for *)
(* a file created, modified or deleted.                                    *)
(***************************************************************************)
EventsMeanChange == spurious = {}

=============================================================================
