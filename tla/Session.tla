------------------------------ MODULE Session -------------------------------
(***************************************************************************)
(* A run of the program with monitors: main.cpp from start_all to the end, *)
(* with tail/tail_watcher.cpp, MonitorEngine::generate_report and          *)
(* ReportGenerator.  In tail mode main replays the recent events, then     *)
(* registers a callback that prints, and sleeps until it is told to stop;  *)
(* otherwise it may write a report first.                                  *)
(*                                                                         *)
(* On a monitor's thread, route_event records the event (module            *)
(* Statistics), appends it to the recent ones, copies the list of          *)
(* callbacks and calls them.  Filter, alerts, audit, storage and reporter  *)
(* lie between; modules MonitorEngine and EventPath have them.             *)
(***************************************************************************)
EXTENDS Statistics, SequencesExt

CONSTANTS
  MaxRecent,   \* kMaxRecentEvents
  TailRecent,  \* --tail-recent
  TailTypes    \* the events that pass the tail's filters

ASSUME SessionAssumption == MaxRecent \in Nat /\ TailRecent \in Nat

VARIABLES
  mode,        \* "tail", "report" (--report) or "plain"
  sesMain,     \* what main is doing
  sesRunning,  \* g_running
  threadAt,    \* per monitor: the step of route_event it is at
  event,       \* per monitor: the event it routes
  stamped,     \* per monitor: the minute of that event
  emits,       \* per monitor: events so far
  copied,      \* per monitor: does its copy of the callbacks have the tail's?
  recentList,  \* recent_
  replay,      \* recent events main has fetched and not yet printed
  registered,  \* is the tail's callback registered?
  screen,      \* the events printed, in order
  dangling     \* history: was the callback called after run() had returned?

sesMainVars == <<mode, sesMain, sesRunning, replay, registered>>
routed == <<event, stamped, emits, copied>>
sesVars == <<statsVars, sesMainVars, threadAt, routed, recentList, screen, dangling>>

NoEvent == [mon |-> "none", seq |-> 0]

SesTypeOK ==
  /\ StatsTypeOK
  /\ mode \in {"tail", "report", "plain"}
  /\ sesMain \in {"started", "replay", "report", "statistics", "loop", "returned",
                  "stopping", "exited", "crashed"}
  /\ sesRunning \in BOOLEAN
  /\ threadAt \in [Poller -> {"idle", "type", "locked", "recent", "copy", "notify", "stuck",
                              "exited"}]
  /\ \A p \in Poller : event[p] \in EventId \cup {NoEvent}
  /\ stamped \in [Poller -> 0..MaxMinute]
  /\ \A p \in Poller : emits[p] \in 0..Len(Kinds[p])
  /\ copied \in [Poller -> BOOLEAN]
  /\ {registered, dangling} \subseteq BOOLEAN
  /\ \A s \in {recentList, replay, screen} : ToSet(s) \subseteq EventId
  /\ Len(recentList) <= MaxRecent

SesInitIn(modes) ==
  /\ StatsInit
  /\ mode \in modes
  /\ minute = IF mode = "tail" THEN MaxMinute ELSE 1
  /\ sesMain = "started"
  /\ sesRunning = TRUE
  /\ threadAt = [p \in Poller |-> "idle"]
  /\ event = [p \in Poller |-> NoEvent]
  /\ stamped = [p \in Poller |-> 0]
  /\ emits = [p \in Poller |-> 0]
  /\ copied = [p \in Poller |-> FALSE]
  /\ recentList = <<>> /\ replay = <<>> /\ screen = <<>>
  /\ registered = FALSE
  /\ dangling = FALSE

-----------------------------------------------------------------------------
(* A monitor's thread.                                                     *)

At(p, step) == threadAt[p] = step
GoTo(p, step) == threadAt' = [threadAt EXCEPT ![p] = step]

\* A monitor emits an event, stamped now, and route_event begins to record it.
Emit(p) ==
  /\ At(p, "idle")
  /\ emits[p] < Len(Kinds[p])
  /\ event' = [event EXCEPT ![p] = [mon |-> p, seq |-> emits[p] + 1]]
  /\ stamped' = [stamped EXCEPT ![p] = minute]
  /\ emits' = [emits EXCEPT ![p] = @ + 1]
  /\ RecordBegin(p, event'[p])
  /\ GoTo(p, "type")
  /\ UNCHANGED <<sesMainVars, copied, recentList, screen, dangling>>

RouteType(p) ==
  /\ At(p, "type")
  /\ RecordType(p, event[p])
  /\ GoTo(p, "locked")
  /\ UNCHANGED <<sesMainVars, routed, recentList, screen, dangling>>

\* The torn map ends the process.
TornCrash(p) ==
  /\ At(p, "type")
  /\ torn
  /\ sesMain' = "crashed"
  /\ UNCHANGED <<statsVars, mode, sesRunning, replay, registered, threadAt, routed,
                 recentList, screen, dangling>>

RouteLocked(p) ==
  /\ At(p, "locked")
  /\ RecordLocked(event[p], stamped[p])
  /\ stamped' = [stamped EXCEPT ![p] = 0]
  /\ GoTo(p, "recent")
  /\ UNCHANGED <<sesMainVars, event, emits, copied, recentList, screen, dangling>>

\* recent_.push_back, then pop_front down to the limit.
RouteRecent(p) ==
  /\ At(p, "recent")
  /\ recentList' = LET s == Append(recentList, event[p])
                   IN  IF Len(s) > MaxRecent THEN Tail(s) ELSE s
  /\ GoTo(p, "copy")
  /\ UNCHANGED <<statsVars, sesMainVars, routed, screen, dangling>>

RouteCopy(p) ==
  /\ At(p, "copy")
  /\ copied' = [copied EXCEPT ![p] = registered]
  /\ GoTo(p, "notify")
  /\ UNCHANGED <<statsVars, sesMainVars, event, stamped, emits, recentList, screen, dangling>>

matches_filter(e) == TypeOf(e) \in TailTypes
Printed(e) == IF matches_filter(e) THEN Append(screen, e) ELSE screen

\* The tail's callback.  It locks a mutex of run()'s frame: once run() has
\* returned that is whatever main has put there since.
Frame == sesMain \notin {"returned", "stopping"}

RouteNotify(p) ==
  /\ At(p, "notify")
  /\ IF copied[p] /\ matches_filter(event[p])
     THEN /\ screen' = Printed(event[p])
          /\ dangling' = (dangling \/ ~Frame)
     ELSE UNCHANGED <<screen, dangling>>
  /\ GoTo(p, "idle")
  /\ event' = [event EXCEPT ![p] = NoEvent]
  /\ copied' = [copied EXCEPT ![p] = FALSE]
  /\ UNCHANGED <<statsVars, sesMainVars, stamped, emits, recentList>>

\* ... and may look locked for ever.
NotifyStuck(p) ==
  /\ At(p, "notify")
  /\ copied[p] /\ matches_filter(event[p]) /\ ~Frame
  /\ dangling' = TRUE
  /\ GoTo(p, "stuck")
  /\ UNCHANGED <<statsVars, sesMainVars, routed, recentList, screen>>

\* stop_all has come to this monitor, and its tick is over.  (The others run
\* on meanwhile; module MonitorEngine has the order.)
PollerExit(p) ==
  /\ At(p, "idle")
  /\ sesMain = "stopping"
  /\ GoTo(p, "exited")
  /\ UNCHANGED <<statsVars, sesMainVars, routed, recentList, screen, dangling>>

-----------------------------------------------------------------------------
(* The main thread, from where start_all has returned.                     *)

Main(from, to) ==
  /\ sesMain = from
  /\ sesMain' = to
  /\ UNCHANGED <<mode, threadAt, routed, recentList, dangling>>

BeginPlain ==
  /\ mode = "plain"
  /\ Main("started", "loop")
  /\ UNCHANGED <<statsVars, sesRunning, replay, registered, screen>>

LastOf(s, n) == SubSeq(s, IF Len(s) > n THEN Len(s) - n + 1 ELSE 1, Len(s))

\* Mutant: the callback is registered before the recent events are fetched.
MutantBeginTail ==
  /\ mode = "tail"
  /\ Main("started", "replay")
  /\ replay' = LastOf(recentList, TailRecent)
  /\ registered' = TRUE
  /\ UNCHANGED <<statsVars, sesRunning, screen>>

\* TailWatcher::run: recent_events ...
BeginTail ==
  /\ mode = "tail"
  /\ Main("started", "replay")
  /\ replay' = LastOf(recentList, TailRecent)
  /\ UNCHANGED <<statsVars, sesRunning, registered, screen>>

\* ... printed one by one ...
PrintRecent ==
  /\ replay # <<>>
  /\ Main("replay", "replay")
  /\ screen' = Printed(Head(replay))
  /\ replay' = Tail(replay)
  /\ UNCHANGED <<statsVars, sesRunning, registered>>

\* ... and only then the callback.
Register ==
  /\ replay = <<>>
  /\ Main("replay", "loop")
  /\ registered' = TRUE
  /\ UNCHANGED <<statsVars, sesRunning, replay, screen>>

\* engine.generate_report: the statistics section calls get_stats.
BeginReport ==
  /\ mode = "report"
  /\ Main("started", "report")
  /\ UNCHANGED <<statsVars, sesRunning, replay, registered, screen>>

ReportStats ==
  /\ Main("report", "statistics")
  /\ GetStats
  /\ UNCHANGED <<sesRunning, replay, registered, screen>>

ReportWritten ==
  /\ Main("statistics", "loop")
  /\ TopSources
  /\ UNCHANGED <<sesRunning, replay, registered, screen>>

\* Mutant: the tail does not look at running.
MutantLeaveLoop ==
  /\ ~sesRunning
  /\ mode # "tail"
  /\ Main("loop", "stopping")
  /\ UNCHANGED <<statsVars, sesRunning, replay, registered, screen>>

\* The loop ends: run() returns, or main leaves its own loop and calls stop_all.
LeaveLoop ==
  /\ ~sesRunning
  /\ Main("loop", IF mode = "tail" THEN "returned" ELSE "stopping")
  /\ UNCHANGED <<statsVars, sesRunning, replay, registered, screen>>

\* After run(), main returns and ~MonitorEngine calls stop_all.
DestroyEngine ==
  /\ Main("returned", "stopping")
  /\ UNCHANGED <<statsVars, sesRunning, replay, registered, screen>>

\* stop_all has joined every monitor's thread.
SesExit ==
  /\ \A p \in Poller : At(p, "exited")
  /\ Main("stopping", "exited")
  /\ UNCHANGED <<statsVars, sesRunning, replay, registered, screen>>

\* on_signal
SesTerm ==
  /\ sesRunning
  /\ sesRunning' = FALSE
  /\ UNCHANGED <<statsVars, mode, sesMain, replay, registered, threadAt, routed,
                 recentList, screen, dangling>>

Clock ==
  /\ MinutePasses
  /\ UNCHANGED <<sesMainVars, threadAt, routed, recentList, screen, dangling>>

SesOver == sesMain \in {"exited", "crashed"}

\* A thread waits for ever.
SesHung == sesMain = "statistics" \/ \E p \in Poller : At(p, "stuck")
SesRest == (SesOver \/ SesHung) /\ UNCHANGED sesVars

Route(p) ==
  RouteType(p) \/ RouteLocked(p) \/ RouteRecent(p) \/ RouteCopy(p) \/ RouteNotify(p)
  \/ PollerExit(p)
SesMain ==
  BeginPlain \/ BeginTail \/ PrintRecent \/ Register \/ LeaveLoop \/ DestroyEngine \/ SesExit
ReportMain == BeginReport \/ ReportStats \/ ReportWritten

SesNext ==
  \/ ~SesOver /\ \E p \in Poller : Emit(p) \/ Route(p) \/ TornCrash(p) \/ NotifyStuck(p)
  \/ SesMain
  \/ ~SesOver /\ (SesTerm \/ Clock)
  \/ SesRest

\* Every thread runs on: only a monitor's emitting, the signal and the clock
\* are left to chance.
SesFairness ==
  /\ WF_sesVars(SesMain)
  /\ \A p \in Poller : WF_sesVars(~SesOver /\ Route(p))

\* The program started with --report.
ReportSpec ==
  /\ SesInitIn({"report"})
  /\ [][SesNext \/ ReportMain]_sesVars
  /\ SesFairness /\ WF_sesVars(ReportMain)

-----------------------------------------------------------------------------
(* Properties.                                                             *)

(***************************************************************************)
(* The statistics agree with each other and with the events emitted        *)
(* whenever no event is between record's two parts, for every interleaving *)
(* of the monitors' threads and events recorded after the minute they are  *)
(* stamped with.                                                           *)
(***************************************************************************)
StatsConsistent ==
  CountersAgree({e \in EventId : e.seq <= emits[e.mon]},
                {p \in Poller : threadAt[p] \in {"type", "locked"}})

\* Where an event of p is printed that was printed before.
Again(s, p) == {j \in DOMAIN s : s[j].mon = p /\ \E i \in 1..j - 1 : s[i] = s[j]}

(***************************************************************************)
(* The tail prints a monitor's events in the order emitted.  A monitor has *)
(* at most one event printed twice: the one on its way when the callback   *)
(* was registered, the replay's last (TailWatcher::run, route_event).      *)
(***************************************************************************)
TailKeepsOrder ==
  /\ \A i, j \in DOMAIN screen :
       i < j /\ screen[i].mon = screen[j].mon => screen[i].seq <= screen[j].seq
  /\ \A p \in Poller : \A j, k \in Again(screen, p) : j = k

(***************************************************************************)
(* Ctrl+C ends the program: main leaves its loop and joins the monitors'   *)
(* threads, unless the process ended by itself or the tail's callback has  *)
(* outlived its frame.                                                     *)
(***************************************************************************)
SessionEnds ==
  ~sesRunning ~> SesOver \/ dangling

(***************************************************************************)
(* A report that was asked for gets written.                               *)
(***************************************************************************)
ReportCompletes ==
  sesMain = "report" ~> sesMain \in {"loop", "exited"}

=============================================================================
