---------------------------- MODULE AllMonitors -----------------------------
(***************************************************************************)
(* The fourteen monitors of src/monitor/.  They share nothing but the      *)
(* engine that listens to them (module MonitorEngine), so a behaviour here *)
(* is one of one monitor, picked at the start; the variables of the others *)
(* stay as they are.                                                       *)
(***************************************************************************)
EXTENDS SnapshotMonitor, LogMonitor, DiskSpaceMonitor, SystemLoadMonitor

VARIABLE monitor  \* the module whose monitor is looked at

allVars == <<monitor, vars, logVars, diskVars, loadVars>>

\* Initial states of the monitors that are not looked at: one each.
SnapshotRests ==
  /\ kind = CHOOSE m \in Monitors : m.name \in Kinds
  /\ world = Empty
DiskRests ==
  /\ threshold = CHOOSE t \in Thresholds : TRUE
  /\ usage = [m \in Mount |-> Unmounted]
LoadRests == active = 0

AllInit ==
  /\ monitor \in {"snapshot", "log", "disk", "load"}
  /\ Init /\ LogInit /\ DiskInit /\ LoadInit
  /\ monitor # "snapshot" => SnapshotRests
  /\ monitor # "disk" => DiskRests
  /\ monitor # "load" => LoadRests

AllNext ==
  \/ monitor = "snapshot" /\ Next /\ UNCHANGED <<monitor, logVars, diskVars, loadVars>>
  \/ monitor = "log" /\ LogNext /\ UNCHANGED <<monitor, vars, diskVars, loadVars>>
  \/ monitor = "disk" /\ DiskNext /\ UNCHANGED <<monitor, vars, logVars, loadVars>>
  \/ monitor = "load" /\ LoadNext /\ UNCHANGED <<monitor, vars, logVars, diskVars>>

\* The polling threads go on ticking (module Runner), time passes, and a log that
\* was moved away is created again.
AllFairness ==
  /\ WF_vars(monitor = "snapshot" /\ Tick)
  /\ WF_logVars(monitor = "log" /\ LogTick)
  /\ WF_logVars(monitor = "log" /\ CreateNew)
  /\ WF_loadVars(monitor = "load" /\ LoadTick)
  /\ WF_loadVars(monitor = "load" /\ LoadJiffy)

AllSpec == AllInit /\ [][AllNext]_allVars /\ AllFairness

=============================================================================
