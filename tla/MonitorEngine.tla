--------------------------- MODULE MonitorEngine ----------------------------
(***************************************************************************)
(* core/monitor_engine.cpp with core/monitor.cpp: the engine that starts a *)
(* polling thread per monitor, routes every event a monitor emits through  *)
(* filter, statistics, alerts, audit, storage, reporter, recent-event      *)
(* cache and listeners, and stops everything again.                        *)
(*                                                                         *)
(* Threads: one poller per monitor (a PeriodicRunner, here at the level of *)
(* module Runner), the reporter's runner (module Reporter, composed        *)
(* below), and the main thread that calls initialize, start_all and        *)
(* stop_all.  route_event runs on the poller that emitted the event; its   *)
(* stages are separate steps because each takes its own lock, or none.     *)
(*                                                                         *)
(* The insides of the filter, the statistics, the alert manager and the    *)
(* auditor are other modules' business: here the filter's verdict is free  *)
(* and the analysis stage only counts the event.                           *)
(***************************************************************************)
EXTENDS Integers, Sequences

CONSTANTS
  N,            \* number of monitors; started and stopped in this order
  MaxEvents,    \* bound: events each monitor emits in a behaviour
  MaxRecent,    \* kMaxRecentEvents
  BatchSize,    \* reporting.batch_size
  MaxSessions   \* bound: how often the program initializes the engine

ASSUME EngineAssumption ==
  /\ N \in Nat \ {0}
  /\ MaxEvents \in [1..N -> Nat]
  /\ MaxRecent \in Nat \ {0}
  /\ MaxSessions \in Nat

Monitor == 1..N

\* An event is identified by the monitor that emitted it and its number there.
EventId == [mon : Monitor, seq : Nat]

VARIABLES
  \* The main thread.
  main,       \* what it is executing
  k,          \* the monitor its start_all / stop_all loop has reached
  running,    \* MonitorEngine::running_
  sessions,   \* how often initialize was called
  \* The monitors.
  active,     \* Monitor::running_
  armed,      \* running_ of the monitor's PeriodicRunner
  thread,     \* where the monitor's polling thread is
  emitted,    \* how many events the monitor has emitted
  \* What routing fills.
  recorded,   \* StatisticsCollector: events recorded since initialize
  logOpen,    \* is the storage open?
  log,        \* the storage's file
  logBase,    \* length of the file when it was opened
  recent,     \* recent_
  delivered,  \* events handed to the listeners
  \* History.
  dropped,    \* events the storage refused because it was not open
  openFailed, \* the storage could not be opened at some initialize
  \* The reporter.
  enabled, endpoint, rRunning, rArmed, rThread, rStop, queue, batch,
  accepted, posted

Rep == INSTANCE Reporter WITH Event <- EventId

mainVars == <<main, k, running, sessions>>
monVars == <<active, armed, thread, emitted>>
sinkVars == <<recorded, logOpen, log, logBase, recent, delivered, dropped,
              openFailed>>
rVars == <<enabled, endpoint, rRunning, rArmed, rThread, rStop, queue, batch,
           accepted, posted>>
vars == <<mainVars, monVars, sinkVars, rVars>>

MainStates == {"new", "ready", "starting", "up", "stopping", "joining",
               "stopReporter", "down"}

\* "none"    no thread            "idle"    between two ticks
\* "tick"    in the tick, not routing; the rest are the stages of route_event
RouteStages == {"filter", "analyse", "store", "report", "publish", "notify"}
ThreadStates == {"none", "idle", "tick", "exited"} \union RouteStages

TypeOK ==
  /\ main \in MainStates
  /\ k \in 1..N + 1
  /\ running \in BOOLEAN
  /\ sessions \in 0..MaxSessions
  /\ active \in [Monitor -> BOOLEAN]
  /\ armed \in [Monitor -> BOOLEAN]
  /\ thread \in [Monitor -> ThreadStates]
  /\ emitted \in [Monitor -> Nat]
  /\ recorded \in Nat
  /\ logOpen \in BOOLEAN
  /\ log \in Seq(EventId)
  /\ logBase \in Nat
  /\ recent \in Seq(EventId)
  /\ delivered \in Seq(EventId)
  /\ dropped \subseteq EventId
  /\ openFailed \in BOOLEAN
  /\ Rep!TypeOK

\* A MonitorEngine just constructed: no component exists yet.
Init ==
  /\ main = "new"
  /\ k = 1
  /\ running = FALSE
  /\ sessions = 0
  /\ active = [m \in Monitor |-> FALSE]
  /\ armed = [m \in Monitor |-> FALSE]
  /\ thread = [m \in Monitor |-> "none"]
  /\ emitted = [m \in Monitor |-> 0]
  /\ recorded = 0
  /\ logOpen = FALSE
  /\ log = <<>>
  /\ logBase = 0
  /\ recent = <<>>
  /\ delivered = <<>>
  /\ dropped = {}
  /\ openFailed = FALSE
  /\ enabled = FALSE
  /\ endpoint = FALSE
  /\ rRunning = FALSE
  /\ rArmed = FALSE
  /\ rThread = "none"
  /\ rStop = "idle"
  /\ queue = <<>>
  /\ batch = [f \in {"runner", "stop"} |-> <<>>]
  /\ accepted = <<>>
  /\ posted = <<>>

-----------------------------------------------------------------------------
(* The main thread.                                                        *)

\* initialize(): new monitors, a storage whose open may fail (a warning is
\* logged and initialize still returns true), a new reporter and a new
\* statistics collector.  recent_ and the file's contents stay.  The program
\* calls it first, and the GUI again each time monitoring is switched on.
Initialize ==
  /\ main \in {"new", "down"}
  /\ sessions < MaxSessions
  /\ sessions' = sessions + 1
  /\ main' = "ready"
  /\ active' = [m \in Monitor |-> FALSE]
  /\ armed' = [m \in Monitor |-> FALSE]
  /\ thread' = [m \in Monitor |-> "none"]
  /\ logOpen' \in BOOLEAN
  /\ openFailed' = (openFailed \/ ~logOpen')
  /\ logBase' = Len(log)
  /\ recorded' = 0
  /\ Rep!Configure
  /\ UNCHANGED <<k, running, emitted, log, recent, delivered, dropped>>

\* start_all(), running_.exchange(true).
StartAll ==
  /\ main = "ready"
  /\ ~running
  /\ running' = TRUE
  /\ main' = "starting"
  /\ k' = 1
  /\ UNCHANGED <<sessions, monVars, sinkVars, rVars>>

\* start_all(), one monitor: it may be unavailable on this host, its on_start
\* may find nothing to poll and fail after running_ was set (PackageMonitor),
\* or its polling thread starts.
StartMonitor ==
  /\ main = "starting"
  /\ k <= N
  /\ k' = k + 1
  /\ \/ UNCHANGED <<active, armed, thread>>
     \/ /\ ~active[k]
        /\ active' = [active EXCEPT ![k] = TRUE]
        /\ UNCHANGED <<armed, thread>>
     \/ /\ ~active[k]
        /\ active' = [active EXCEPT ![k] = TRUE]
        /\ armed' = [armed EXCEPT ![k] = TRUE]
        /\ thread' = [thread EXCEPT ![k] = "idle"]
  /\ UNCHANGED <<main, running, sessions, emitted, sinkVars, rVars>>

\* start_all(), reporter_->start().
StartReporter ==
  /\ main = "starting"
  /\ k = N + 1
  /\ Rep!Start
  /\ main' = "up"
  /\ UNCHANGED <<k, running, sessions, monVars, sinkVars>>

\* stop_all(), running_.exchange(false).
StopAll ==
  /\ main = "up"
  /\ running
  /\ running' = FALSE
  /\ main' = "stopping"
  /\ k' = 1
  /\ UNCHANGED <<sessions, monVars, sinkVars, rVars>>

\* (The Mutant definitions are deliberately wrong variants of the definition
\* that follows them; the README says what they are for.)
MutantStopMonitor ==
  /\ main = "stopping"
  /\ k <= N
  /\ active' = [active EXCEPT ![k] = FALSE]
  /\ IF active[k] /\ thread[k] # "none"
     THEN main' = "joining" /\ UNCHANGED k
     ELSE k' = k + 1 /\ UNCHANGED main
  /\ UNCHANGED <<running, sessions, armed, thread, emitted, sinkVars, rVars>>

\* stop_all(), one monitor: Monitor::stop asks a running thread to leave; a
\* monitor that is not running, or has no runner, is passed over.
StopMonitor ==
  /\ main = "stopping"
  /\ k <= N
  /\ active' = [active EXCEPT ![k] = FALSE]
  /\ IF active[k] /\ thread[k] # "none"
     THEN /\ armed' = [armed EXCEPT ![k] = FALSE]
          /\ main' = "joining"
          /\ UNCHANGED k
     ELSE /\ k' = k + 1
          /\ UNCHANGED <<armed, main>>
  /\ UNCHANGED <<running, sessions, thread, emitted, sinkVars, rVars>>

MutantJoinMonitor ==
  /\ main = "joining"
  /\ main' = "stopping"
  /\ k' = k + 1
  /\ UNCHANGED <<running, sessions, active, armed, thread, emitted, sinkVars, rVars>>

\* ... and Monitor::stop returns when the thread has left its loop.
JoinMonitor ==
  /\ main = "joining"
  /\ thread[k] = "exited"
  /\ thread' = [thread EXCEPT ![k] = "none"]
  /\ main' = "stopping"
  /\ k' = k + 1
  /\ UNCHANGED <<running, sessions, active, armed, emitted, sinkVars, rVars>>

\* stop_all(), reporter_->stop(), up to its return.
StopReporter ==
  /\ main = "stopping"
  /\ k = N + 1
  /\ Rep!StopRequest
  /\ main' = "stopReporter"
  /\ UNCHANGED <<k, running, sessions, monVars, sinkVars>>

ReporterStopStep ==
  /\ main = "stopReporter"
  /\ Rep!StopStep
  /\ UNCHANGED <<mainVars, monVars, sinkVars>>

\* stop_all(), storage_->close(), after the reporter's stop has returned.
CloseStorage ==
  /\ main = "stopReporter"
  /\ rStop = "idle"
  /\ logOpen' = FALSE
  /\ main' = "down"
  /\ UNCHANGED <<k, running, sessions, monVars, recorded, log, logBase, recent,
                 delivered, dropped, openFailed, rVars>>

MainStep ==
  \/ StartMonitor \/ StartReporter
  \/ StopMonitor \/ JoinMonitor \/ StopReporter \/ ReporterStopStep
  \/ CloseStorage

-----------------------------------------------------------------------------
(* The polling thread of monitor m.                                        *)

\* The event m is routing.
Current(m) == [mon |-> m, seq |-> emitted[m]]

GoTo(m, stage) == thread' = [thread EXCEPT ![m] = stage]

\* The runner's loop: another tick, or out when a stop was requested.
BeginTick(m) ==
  /\ thread[m] = "idle"
  /\ armed[m]
  /\ GoTo(m, "tick")
  /\ UNCHANGED <<mainVars, active, armed, emitted, sinkVars, rVars>>

EndTick(m) ==
  /\ thread[m] = "tick"
  /\ GoTo(m, "idle")
  /\ UNCHANGED <<mainVars, active, armed, emitted, sinkVars, rVars>>

LeaveLoop(m) ==
  /\ thread[m] = "idle"
  /\ ~armed[m]
  /\ GoTo(m, "exited")
  /\ UNCHANGED <<mainVars, active, armed, emitted, sinkVars, rVars>>

\* The tick found a change: Monitor::emit calls route_event.
Emit(m) ==
  /\ thread[m] = "tick"
  /\ emitted[m] < MaxEvents[m]
  /\ emitted' = [emitted EXCEPT ![m] = @ + 1]
  /\ GoTo(m, "filter")
  /\ UNCHANGED <<mainVars, active, armed, sinkVars, rVars>>

\* event_filter_->process(): let through, or dropped by a rule.
Filter(m) ==
  /\ thread[m] = "filter"
  /\ \/ GoTo(m, "analyse")
     \/ GoTo(m, "tick")
  /\ UNCHANGED <<mainVars, active, armed, emitted, sinkVars, rVars>>

\* Statistics, alerts and audit (with their webhooks) see the event.
Analyse(m) ==
  /\ thread[m] = "analyse"
  /\ recorded' = recorded + 1
  /\ GoTo(m, "store")
  /\ UNCHANGED <<mainVars, active, armed, emitted, logOpen, log, logBase,
                 recent, delivered, dropped, openFailed, rVars>>

\* storage_->insert(): a closed storage ignores the event.
Store(m) ==
  /\ thread[m] = "store"
  /\ IF logOpen
     THEN log' = Append(log, Current(m)) /\ UNCHANGED dropped
     ELSE dropped' = dropped \union {Current(m)} /\ UNCHANGED log
  /\ GoTo(m, "report")
  /\ UNCHANGED <<mainVars, active, armed, emitted, recorded, logOpen, logBase,
                 recent, delivered, openFailed, rVars>>

\* reporter_->enqueue(), when reporting is enabled.
Report(m) ==
  /\ thread[m] = "report"
  /\ IF enabled THEN Rep!Enqueue(Current(m)) ELSE UNCHANGED rVars
  /\ GoTo(m, "publish")
  /\ UNCHANGED <<mainVars, active, armed, emitted, sinkVars>>

\* recent_: push at the back, drop from the front above kMaxRecentEvents.
Trim(s) == IF Len(s) > MaxRecent THEN SubSeq(s, Len(s) - MaxRecent + 1, Len(s)) ELSE s

MutantPublishFront(m) ==
  /\ thread[m] = "publish"
  /\ recent' = Trim(<<Current(m)>> \o recent)
  /\ GoTo(m, "notify")
  /\ UNCHANGED <<mainVars, active, armed, emitted, recorded, logOpen, log,
                 logBase, delivered, dropped, openFailed, rVars>>

Publish(m) ==
  /\ thread[m] = "publish"
  /\ recent' = Trim(Append(recent, Current(m)))
  /\ GoTo(m, "notify")
  /\ UNCHANGED <<mainVars, active, armed, emitted, recorded, logOpen, log,
                 logBase, delivered, dropped, openFailed, rVars>>

\* The listeners registered with on_event; what they throw is swallowed.
Notify(m) ==
  /\ thread[m] = "notify"
  /\ delivered' = Append(delivered, Current(m))
  /\ GoTo(m, "tick")
  /\ UNCHANGED <<mainVars, active, armed, emitted, recorded, logOpen, log,
                 logBase, recent, dropped, openFailed, rVars>>

PollerStep(m) ==
  \/ BeginTick(m) \/ EndTick(m) \/ LeaveLoop(m) \/ Emit(m)
  \/ Filter(m) \/ Analyse(m) \/ Store(m) \/ Report(m) \/ Publish(m) \/ Notify(m)

\* The reporter's runner thread.
ReporterRunnerStep ==
  /\ Rep!RunnerStep
  /\ UNCHANGED <<mainVars, monVars, sinkVars>>

\* The program has ended.
Terminated ==
  /\ main = "down"
  /\ sessions = MaxSessions
  /\ UNCHANGED vars

Next ==
  \/ Initialize \/ StartAll \/ StopAll
  \/ MainStep
  \/ \E m \in Monitor : PollerStep(m)
  \/ ReporterRunnerStep
  \/ Terminated

(***************************************************************************)
(* Every thread is scheduled, the main thread included once it has entered *)
(* start_all or stop_all; when the user stops monitoring is left open.     *)
(***************************************************************************)
Spec ==
  /\ Init
  /\ [][Next]_vars
  /\ WF_vars(MainStep)
  /\ \A m \in Monitor : WF_vars(PollerStep(m))
  /\ WF_vars(ReporterRunnerStep)

-----------------------------------------------------------------------------
(* Properties.                                                             *)

Range(s) == {s[i] : i \in DOMAIN s}

\* The events of each monitor appear in the order it emitted them, once each.
InEmissionOrder(s) ==
  \A i, j \in DOMAIN s :
    i < j /\ s[i].mon = s[j].mon => s[i].seq < s[j].seq

(***************************************************************************)
(* Whatever the interleaving of the pollers, every sink of route_event     *)
(* (storage file, reporter queue, listeners, recent_) receives the events  *)
(* of one monitor in emission order and without duplicates, across         *)
(* restarts too.                                                           *)
(***************************************************************************)
SinksKeepEmissionOrder ==
  /\ InEmissionOrder(log)
  /\ InEmissionOrder(accepted)
  /\ InEmissionOrder(recent)
  /\ InEmissionOrder(delivered)

(***************************************************************************)
(* The storage is closed only when no poller can still route an event: an  *)
(* event is refused by a closed storage only if opening it had failed      *)
(* (stop_all joins every monitor before storage_->close()).                *)
(***************************************************************************)
NothingDroppedByShutdown == dropped # {} => openFailed

(***************************************************************************)
(* stop_all returns: it waits for every poller and for the reporter, and   *)
(* none of them waits for it.                                              *)
(***************************************************************************)
StopAllReturns == main = "stopping" ~> main = "down"

=============================================================================
