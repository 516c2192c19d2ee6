-------------------------- MODULE DiskSpaceMonitor --------------------------
(***************************************************************************)
(* monitor/disk_space/disk_space_monitor.cpp: every tick asks each mounted *)
(* file system for its usage, in percent, and compares it with the one of  *)
(* the tick before and with two thresholds.  A mount whose statvfs fails   *)
(* is left out of the snapshot, as an unmounted one is.  The names of this *)
(* module begin with Disk or disk: module AllMonitors extends it together  *)
(* with the other monitors.                                                *)
(***************************************************************************)
EXTENDS Integers

CONSTANTS
  Mount,       \* mount points
  Usage,       \* percentages a file system can be at
  Thresholds,  \* configured pairs [warning, critical], in any order
  Step         \* the change that is reported (5.0 in the code)

ASSUME DiskAssumption ==
  /\ Usage \subseteq 0..100
  /\ Thresholds \subseteq [warning : 1..100, critical : 1..100]
  /\ Step \in Nat

VARIABLES
  threshold,      \* warning_threshold_ and critical_threshold_
  usage,          \* the file systems
  diskRunning,
  diskFirst,      \* first_scan_
  previousState,  \* previous_state_
  \* History, per mount and level:
  alarmed,        \* announced since it was last seen under the threshold
  quiet,          \* over the threshold since the silent first scan
  repeated        \* was a level reported again without having been left?

diskVars == <<threshold, usage, diskRunning, diskFirst, previousState, alarmed,
              quiet, repeated>>

Unmounted == -1
Level == {"warning", "critical"}

DiskTypeOK ==
  /\ threshold \in Thresholds
  /\ usage \in [Mount -> Usage \union {Unmounted}]
  /\ diskRunning \in BOOLEAN
  /\ diskFirst \in BOOLEAN
  /\ previousState \in [Mount -> Usage \union {Unmounted}]
  /\ alarmed \in [Mount -> SUBSET Level]
  /\ quiet \in [Mount -> SUBSET Level]
  /\ repeated \in BOOLEAN

DiskInit ==
  /\ threshold \in Thresholds
  /\ usage \in [Mount -> Usage \union {Unmounted}]
  /\ diskRunning = FALSE
  /\ diskFirst = TRUE
  /\ previousState = [m \in Mount |-> Unmounted]
  /\ alarmed = [m \in Mount |-> {}]
  /\ quiet = [m \in Mount |-> {}]
  /\ repeated = FALSE

\* Space is used or freed; a file system is mounted or unmounted.
DiskChange(m, u) ==
  /\ usage' = [usage EXCEPT ![m] = u]
  /\ UNCHANGED <<threshold, diskRunning, diskFirst, previousState, alarmed, quiet,
                 repeated>>

\* on_start() and on_stop(); first_scan_ and the snapshot stay as they are.
DiskStartStop ==
  /\ diskRunning' = ~diskRunning
  /\ UNCHANGED <<threshold, usage, diskFirst, previousState, alarmed, quiet, repeated>>

\* The engine is initialized again: a new object.
DiskNewObject ==
  /\ ~diskRunning
  /\ diskFirst' = TRUE
  /\ previousState' = [m \in Mount |-> Unmounted]
  /\ alarmed' = [m \in Mount |-> {}]
  /\ quiet' = [m \in Mount |-> {}]
  /\ UNCHANGED <<threshold, usage, diskRunning, repeated>>

\* scan_disk_space(), when statvfs fails for the mounts of failed.
ScanDiskSpace(failed) == [m \in Mount |-> IF m \in failed THEN Unmounted ELSE usage[m]]

Reached(u) == {level \in Level : u >= threshold[level]}

\* Usage of the tick before; a mount it did not see counts as empty.
PrevUsage(m) == IF previousState[m] = Unmounted THEN 0 ELSE previousState[m]

\* (The Mutant definitions are deliberately wrong variants of the definition
\* that follows them; the README says what they are for.)
MutantDiskEvent(m, u) ==
  IF "warning" \in Reached(u) \ Reached(PrevUsage(m)) THEN "warning"
  ELSE IF "critical" \in Reached(u) \ Reached(PrevUsage(m)) THEN "critical"
  ELSE "none"

\* The event tick() emits for mount m at usage u.
DiskEvent(m, u) ==
  IF u = Unmounted THEN "none"
  ELSE IF "critical" \in Reached(u) \ Reached(PrevUsage(m)) THEN "critical"
  ELSE IF "warning" \in Reached(u) \ Reached(PrevUsage(m)) THEN "warning"
  ELSE IF /\ previousState[m] # Unmounted
          /\ u - PrevUsage(m) >= Step \/ PrevUsage(m) - u >= Step
  THEN "changed" ELSE "none"

\* The levels an event announces: "critical" says that the disk is beyond
\* whatever it is beyond, "warning" only that.
Announces(event, u) ==
  IF event = "critical" THEN Reached(u) ELSE {event} \intersect Level

DiskTick(failed) ==
  LET current == ScanDiskSpace(failed)
      told(m) == DiskEvent(m, current[m])
  IN  /\ diskRunning
      /\ diskFirst' = FALSE
      /\ previousState' = current
      /\ IF diskFirst
         THEN /\ quiet' = [m \in Mount |-> Reached(current[m])]
              /\ UNCHANGED <<alarmed, repeated>>
         ELSE /\ alarmed' = [m \in Mount |->
                   (alarmed[m] \intersect Reached(current[m]))
                     \union Announces(told(m), current[m])]
              /\ quiet' = [m \in Mount |-> quiet[m] \intersect Reached(current[m])]
              /\ repeated' = (repeated \/ \E m \in Mount :
                   told(m) \in alarmed[m] \union quiet[m])
      /\ UNCHANGED <<threshold, usage, diskRunning>>

DiskNext ==
  \/ \E m \in Mount, u \in Usage \union {Unmounted} : DiskChange(m, u)
  \/ DiskStartStop
  \/ DiskNewObject
  \/ \E failed \in SUBSET Mount : DiskTick(failed)

-----------------------------------------------------------------------------
(* Properties.                                                             *)

(***************************************************************************)
(* Every threshold that the last tick saw a file system beyond has been    *)
(* announced since the file system was last seen under it, and by one      *)
(* event only.  The exception is what was beyond it at the silent first    *)
(* scan and has stayed there.  This holds through stop and start, for      *)
(* mounts that come and go, for jumps past both thresholds and back, and   *)
(* with a warning threshold above the critical one (tick).                 *)
(***************************************************************************)
CrossingsReportedOnce ==
  /\ ~repeated
  /\ \A m \in Mount :
       Reached(previousState[m]) \subseteq alarmed[m] \union quiet[m]

=============================================================================
