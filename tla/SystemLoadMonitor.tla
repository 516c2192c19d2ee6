------------------------- MODULE SystemLoadMonitor --------------------------
(***************************************************************************)
(* monitor/system_load/system_load_monitor.cpp: every tick reads the load  *)
(* average and the processor's time counters, and reports when the system  *)
(* becomes busy and when it is normal again.  The share of busy time is    *)
(* that since the last reading: the previous counters are function-static  *)
(* variables, which survive stop, start and a new object, so the first     *)
(* reading covers the time since boot.  Kept here are the counters'        *)
(* increments since the last reading.  All names begin with Load or load.  *)
(***************************************************************************)
EXTENDS Naturals

CONSTANTS
  CpuThreshold,    \* percent (system_load.cpu_threshold)
  MaxJiffies,      \* bound: units of processor time between two readings
  MaxLoadChanges,  \* bound: changes of the load
  MaxLoadStarts    \* bound: starts, stops and new objects

ASSUME LoadAssumption ==
  /\ CpuThreshold \in 1..100
  /\ {MaxJiffies, MaxLoadChanges, MaxLoadStarts} \subseteq Nat

VARIABLES
  loadOver,       \* is load_1min at or over load_threshold_?
  cpuBusy,        \* is the processor busy now?
  total, active,  \* increments of the counters since the last reading
  loadRunning,
  loadFirst,      \* first_scan_
  highLoadState,  \* high_load_state_
  loadStarted,    \* has there been no tick since on_start()?
  loadSays,       \* the last event of this object: what a consumer believes
  loadChanges, loadStarts

loadVars == <<loadOver, cpuBusy, total, active, loadRunning, loadFirst,
              highLoadState, loadStarted, loadSays, loadChanges, loadStarts>>
loadWorld == <<loadOver, cpuBusy, total, active>>

LoadTypeOK ==
  /\ loadOver \in BOOLEAN
  /\ cpuBusy \in BOOLEAN
  /\ total \in 0..MaxJiffies
  /\ active \in 0..total
  /\ loadRunning \in BOOLEAN
  /\ loadFirst \in BOOLEAN
  /\ highLoadState \in BOOLEAN
  /\ loadStarted \in BOOLEAN
  /\ loadSays \in {"normal", "high"}
  /\ loadChanges \in 0..MaxLoadChanges
  /\ loadStarts \in 0..MaxLoadStarts

LoadInit ==
  /\ loadOver = FALSE
  /\ cpuBusy = FALSE
  /\ total = MaxJiffies
  /\ active \in {0, MaxJiffies}
  /\ loadRunning = FALSE
  /\ loadFirst = TRUE
  /\ highLoadState = FALSE
  /\ loadStarted = FALSE
  /\ loadSays = "normal"
  /\ loadChanges = 0
  /\ loadStarts = 0

LoadChange ==
  /\ loadChanges < MaxLoadChanges
  /\ loadChanges' = loadChanges + 1
  /\ \/ loadOver' = ~loadOver /\ UNCHANGED cpuBusy
     \/ cpuBusy' = ~cpuBusy /\ UNCHANGED loadOver
  /\ UNCHANGED <<total, active, loadRunning, loadFirst, highLoadState, loadStarted,
                 loadSays, loadStarts>>

\* A unit of time passes.
LoadJiffy ==
  /\ total < MaxJiffies
  /\ total' = total + 1
  /\ active' = IF cpuBusy THEN active + 1 ELSE active
  /\ UNCHANGED <<loadOver, cpuBusy, loadRunning, loadFirst, highLoadState,
                 loadStarted, loadSays, loadChanges, loadStarts>>

LoadStart ==
  /\ ~loadRunning
  /\ loadStarts < MaxLoadStarts
  /\ loadStarts' = loadStarts + 1
  /\ loadRunning' = TRUE
  /\ loadStarted' = TRUE
  /\ UNCHANGED <<loadWorld, loadFirst, highLoadState, loadSays, loadChanges>>

LoadStop ==
  /\ loadRunning
  /\ loadStarts < MaxLoadStarts
  /\ loadStarts' = loadStarts + 1
  /\ loadRunning' = FALSE
  /\ UNCHANGED <<loadWorld, loadFirst, highLoadState, loadStarted, loadSays,
                 loadChanges>>

\* A new object forgets that the load was high; so must whoever listens to it.
LoadNewObject ==
  /\ ~loadRunning
  /\ loadStarts < MaxLoadStarts
  /\ loadStarts' = loadStarts + 1
  /\ loadFirst' = TRUE
  /\ highLoadState' = FALSE
  /\ loadSays' = "normal"
  /\ UNCHANGED <<loadWorld, loadRunning, loadStarted, loadChanges>>

\* get_system_load(): without an increment of the counters the usage is 0.
CpuHigh == total > 0 /\ 100 * active >= CpuThreshold * total
CurrentlyHigh == loadOver \/ CpuHigh

MutantLoadTick ==
  /\ loadRunning
  /\ total > 0 \/ loadStarted
  /\ loadStarted' = FALSE
  /\ total' = 0 /\ active' = 0
  /\ loadFirst' = FALSE
  /\ highLoadState' = (highLoadState \/ (~loadFirst /\ CurrentlyHigh))
  /\ loadSays' = IF ~loadFirst /\ CurrentlyHigh /\ ~highLoadState THEN "high"
                 ELSE IF ~loadFirst /\ ~CurrentlyHigh /\ highLoadState THEN "normal"
                 ELSE loadSays
  /\ UNCHANGED <<loadOver, cpuBusy, loadRunning, loadChanges, loadStarts>>

\* The poll interval is longer than a unit of processor time; only a tick right
\* after on_start() may follow the last reading at once.
LoadTick ==
  /\ loadRunning
  /\ total > 0 \/ loadStarted
  /\ loadStarted' = FALSE
  /\ total' = 0 /\ active' = 0
  /\ loadFirst' = FALSE
  /\ IF loadFirst
     THEN UNCHANGED <<highLoadState, loadSays>>
     ELSE /\ highLoadState' = CurrentlyHigh
          /\ loadSays' = IF CurrentlyHigh /\ ~highLoadState THEN "high"
                         ELSE IF ~CurrentlyHigh /\ highLoadState THEN "normal"
                         ELSE loadSays
  /\ UNCHANGED <<loadOver, cpuBusy, loadRunning, loadChanges, loadStarts>>

\* A stopped monitor may stay so.
LoadRest == ~loadRunning /\ UNCHANGED loadVars

LoadNext ==
  \/ LoadChange \/ LoadJiffy
  \/ LoadStart \/ LoadStop \/ LoadNewObject \/ LoadRest
  \/ LoadTick

-----------------------------------------------------------------------------
(* Properties.                                                             *)

(***************************************************************************)
(* When the load has come to rest, a monitor that keeps running eventually *)
(* has said whether it is high, and does not take it back: whatever the    *)
(* readings across a stop and start, an empty interval right after a       *)
(* restart, or the average since boot made it say before (tick).           *)
(***************************************************************************)
LoadEventuallyKnown ==
  <>[](loadRunning /\ loadChanges = MaxLoadChanges) =>
    <>[](loadSays = "high" <=> loadOver \/ cpuBusy)

=============================================================================
