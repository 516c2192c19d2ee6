# Verification of change-of-system

TLA+ models of change-of-system, the host change monitor in `src/`: what its
threads, files and queues do, which properties hold of them for small instances
(TLC) and for every value of the parameters (TLAPS), and where the code does
something other than its documentation says.

## The system

A program (`main.cpp`, or the Qt window in `gui/`) owns one `MonitorEngine`. The
engine owns fourteen monitors, each of which polls one aspect of the host from its
own thread and calls back with events, and it routes every event, on the thread
that emitted it, through a fixed pipeline:

    filter -> statistics -> alerts -> audit -> storage -> reporter -> recent_ -> listeners

| Component | State | Operations | Interacts with |
|---|---|---|---|
| `utils::PeriodicRunner` | running_, thread, condition variable | start, stop, run_loop | owned by every monitor and by the reporter |
| `core::MonitorEngine` | running_, monitors, recent_, listeners, the pipeline's components | initialize, start_all, stop_all, route_event, reload_config | everything |
| snapshot monitors (11) | first_scan_, the previous snapshot | on_start, on_stop, tick | host, `Monitor::emit` |
| `monitor::DiskSpaceMonitor`, `SystemLoadMonitor` | previous usage; previous counters (static), was it high | on_start, on_stop, tick | host, `Monitor::emit` |
| `monitor::LogMonitor` | inode and position per file | tick | log files, `Monitor::emit` |
| `filter::EventFilter` | rules, counters | add/remove/enable rule, process, would_allow | route_event |
| `stats::StatisticsCollector` | counters, time buckets | record, get_stats, reset | route_event, report generator |
| `alert::AlertManager` | rules, per-rule event times and last trigger, alerts | rule management, process_event, acknowledge | route_event; callbacks to the webhooks |
| `security::SecurityAuditor` | rules, per-rule event times and last trigger, security events | rule management, process_event | route_event; callbacks to the webhooks |
| `webhook::WebhookNotifier` | webhooks, results | add/remove, on_alert, send_webhook with retries | alerts, audit |
| `storage::FileStorage` | the event file, its rotated backups, byte and line counters | open, insert (and rotate), prune, close | route_event, query, tail |
| `reporting::Reporter` | queue, runner thread | enqueue, tick/flush, start, stop | route_event, an HTTP endpoint |
| `config::ConfigStore` | settings | load, get_int/double/bool/list | engine, validator's subject |
| `config::ConfigWatcher` | last modification time, running_, thread | start_watching, watch_loop, stop_watching | engine's reload_config |
| `utils::Daemon` | PID file | daemonize, write, remove, is_already_running | main |
| `tail::TailWatcher` | its frame: mutex and options | run (replay, register, wait) | engine's recent_ and callbacks |
| `updater::Updater` | the child process | check_for_update, prompt_update | main, before other commands |
| `query::EventQuery` | none | run | the storage's file |
| `snapshot::SnapshotGenerator`, `SnapshotDiff` | two files | generate, run | host |
| `validate::ConfigValidator` | none | validate | config.ini |
| `main` | g_running, g_reload_config | choose a command, loop, shut down | all of these |
| export, report, info, diagnostic, platform, logger, GUI | none that lasts | format, print | storage, statistics, host |

What makes this hard: fifteen or more threads run `route_event` and the reporter's
flush concurrently, every pipeline component has its own lock and several release
it between a check and the act; the host changes while a snapshot of it is being
taken; the process can be killed between any two file operations of a rotation;
configuration and PID file are checked at one moment and used at another, by two
threads or two processes; stopping must wait for everything and yet return. The
PROJECT.json list "hazards" names each of these at its line.

## Modules

`X.tla` is the component; the `.cfg` files instantiate it for TLC, through `MCX.tla` where
values have to be defined; `X_proofs.tla` holds its theorems. A definition whose name begins with `Mutant` is a
deliberately wrong variant of the definition that follows it (a dropped guard, a
swapped order, a missing reset); putting it in that definition's place makes TLC
report the property named in PROJECT.json "mutants". No specification uses it.

* **Runner**, **PeriodicRunner** - `utils/periodic_runner.h`. The owner's start, stop
  (clear the flag, notify without the lock, join) and the worker's loop (test the
  flag, run the task, evaluate the wait predicate, block, wake by notification,
  time-out or spuriously) are separate actions. `Runner` is the abstract poller the
  rest of the program relies on; `PeriodicRunner` implements it (checked with
  fairness, proved without).
* **ReportFeed**, **Reporter** - `reporting/reporter.cpp`. `flush_batch` is two steps
  (take under the lock, send without it) executed by the runner thread and by
  `stop()`; producers enqueue in between. `ReportFeed` is what the endpoint is
  promised: accepted events, in order, each once.
* **MonitorEngine** - `core/monitor_engine.cpp`, `core/monitor.cpp`. Composes `Reporter`
  with one polling thread per monitor (at `Runner`'s level) and the main thread. Each
  stage of `route_event` is an action, since each takes its own lock or none.
* **AlertList**, **AlertManager** - `alert/alert_manager.cpp`. `process_event` as its critical
  sections: copy the rules, count, test the threshold window, test the cooldown,
  stamp, store, call back; several threads; rule management in between. A rule's list of
  event times is the set of the numbers of the events it counted, with their times in a
  history, so that two events of the same second stay two. `AlertList` is what a caller of
  `alerts()` is promised: the latest numbers, in order and without a gap (proved).
* **EventLog**, **FileStorage** - `storage/storage.cpp`. The live file, its backups and a temporary
  file as sequences of texts, each of one or more lines (line breaks in a source or target
  are not flattened, storage.cpp:22-28) and with the number of its last line; each file
  operation of a rotation or prune is a step; crashes between steps and inside a text;
  removes, renames and opens that fail. A write can fail too, wholly or in part: nobody
  looks (149-152), the counters advance, and the stream's error state swallows every event
  until the file is opened again. `EventLog` is what a reader is promised whatever fails:
  events enter as the newest, never come back, and go in stretches of neighbours, with the
  newest ones when prune's copy is cut short (proved).
* **SnapshotMonitor** - the eleven monitors of `monitor/` that compare snapshots, as
  one state machine with a record per monitor (when a first snapshot is silent,
  which differences are reported, whether an item is listed before it is read, ...).
* **LogMonitor** - `monitor/log/log_monitor.cpp`. One tick is three looks at a path
  (inode, size, contents to the end) while the log's writer appends whole and half
  lines, logrotate moves the file away and creates another, or the file is truncated
  and grows again.
* **DiskSpaceMonitor**, **SystemLoadMonitor** - `monitor/disk_space/`, `monitor/system_load/`.
  Percentages against thresholds and against the tick before, for mounts that come, go
  and fail to answer; the share of busy processor time since a reading that may lie
  before a stop, a restart or an earlier object.
* **AllMonitors** - the fourteen monitors together. They share no state, so a behaviour
  is one of one monitor.
* **EventCodec**, **EventQuery** - `core/event.cpp`, the text form in
  `storage/storage.cpp`, `query/event_query.cpp`. Events as records of short texts over
  a few symbols, among them every separator the format uses; `serialize_event` and
  `parse_event` as the code has them, without escaping; `EventQuery::run` filters, sorts
  (ties in any order) and pages while events are stored.
* **EventFilter**, **SecurityAuditor**, **WebhookNotifier**, **EventPath** -
  `filter/`, `security/`, `webhook/`, and how `route_event` and the callbacks of
  `initialize_subsystems_` join them. `EventFilter` has the rules and the walk through
  them, `SecurityAuditor` the definitions in force by name (`AddAuditRule` replaces one of the
  same name, while the times counted and the last firing stay with the name), the analyses,
  thresholds, windows and cooldowns (a rule's list of
  times is the set of the numbers of the events it counted),
  `WebhookNotifier` the copied list, taken in turn, the second look-up, the retries and the results;
  `EventPath` runs two monitor threads through all three while other threads
  reconfigure them; how many alerts an event raises is left open up to `MaxAlerts`.
* **Statistics**, **Session** - `stats/statistics.cpp`, `tail/tail_watcher.cpp`,
  `generate_report`, and main between `start_all` and the end. `record` has an unlocked and
  a locked part; the unlocked growth of a `std::map` by two threads is a choice between the
  count arriving, being lost, and the end of the process. `Session` runs the monitors'
  threads through record, recent_, the copy of the callback list and the callbacks, beside
  a main that replays, registers, waits for the signal, returns from `run` and destroys
  the engine.
* **ConfigStore**, **ConfigValidator** - `config/config_store.cpp`,
  `validate/config_validator.cpp`. Lines as sequences of tokens, parsed once by each of
  them; the typed getters.
* **ConfigWatcher** - `config/config_watcher.cpp`, `reload_config`, main's loop. Editors empty,
  write, replace and remove the file, time passes in whole seconds, SIGHUP arrives.
* **Daemon** - `utils/daemon.cpp` and main's use of it: several starts over one PID file, each
  step apart, kills anywhere, PIDs used again. Reading an empty file leaves an
  uninitialized `int`: any answer.
* **Updater** - `updater/updater.cpp`: two requests, the comparison of versions, the child
  that is polled, given up on, signalled and waited for.
* **SnapshotDiff** - `snapshot/`, `snapshot_diff/`: two snapshots of a changing host and their
  comparison, with numbers rounded as `operator<<` shows them.
* **Program** - `main.cpp`: a command, the update before it if it is not a one-shot one, then
  the module above that it stands for.

`Runner` and `PeriodicRunner`, `ReportFeed` and `Reporter`, `AlertList` and `AlertManager`,
`EventLog` and `FileStorage`, `Reporter` and `MonitorEngine` are joined by INSTANCE; `EventPath`, `AllMonitors` and `Program` extend what they compose.

## What makes each part correct

| Component | Properties |
|---|---|
| PeriodicRunner | `ThreadInv`, `StopWaitsAtMostOneInterval`: one interval is the most a lost notification can cost; `StopReturns`; `ImplementsRunner` |
| Reporter | `NothingLostOrReordered`, `ImplementsFeed`, `EventuallyPosted` |
| MonitorEngine | `SinksKeepEmissionOrder`, `NothingDroppedByShutdown`, `StopAllReturns` |
| AlertManager | `ThresholdJustified`, `SoleSourceCooldown`, `EveryAlertDeliveredOnce` |
| FileStorage | `NoEventLost`, `BackupsInOrder`, `CountersMatchFile`, `CrashDamageBounded` |
| snapshot monitors | `EventsReproduceSnapshot`, `NoSpuriousEvents`, `EventuallyConsistent` |
| LogMonitor | `NoLineSkipped`, `EventuallySeen` |
| DiskSpaceMonitor, SystemLoadMonitor | `CrossingsReportedOnce`; `LoadEventuallyKnown` |
| Event text form, query | `RoundTripExactlyIfClean`, `DamageStaysLocal`, `PagingSkipsNothing` |
| filter, audit, webhooks | `HighestPriorityWins`, `FiringsJustified`, `DeliveryDiscipline`, `PathReturns` |
| statistics, tail, main | `StatsConsistent`, `TailKeepsOrder`, `ShutdownCompletes` |
| configuration | `ValidatedMeansHonoured`, `EventuallyReloaded` |
| Daemon | `PidFileTellsTruth` |
| Updater | `UpdateHonest`, `UpdateReturns` |
| snapshots and their diff | `DiffHonest` |

The comment before each property says exactly what it claims and which code it is about.

## Runs

Eight runs pass; four show the code to do something other than a document of the
repository says. Bounds are constants of the `.cfg` files.

| Run | Instance | Why the bounds are enough |
|---|---|---|
| runner | interval 6 | the interval only counts down; the lost notification needs one wait, a second start one more round; the theorems hold for every interval |
| reporter | two events, batch size 2, four accepted | two batches, so that one can be refused while the other is queued; the theorems hold for every batch size |
| engine | two monitors (two events and one), cache of 2, batch of 1, two sessions | order within a monitor needs two events of one, order between monitors one more; the second session meets what the first left behind; the theorems hold for any number of monitors |
| alerts | two threads, two rules, threshold 2, window and cooldown 1, times 0 to 2, three events, one change | a threshold crossed, missed by the window's edge and met again; a rule that both threads feed and one that a single thread feeds; the theorems hold for any of these numbers |
| storage | four events of one or two lines, limit of 2 lines, 0, 1 or 3 backups, two crashes, two writes that fail or are cut short, 4 calls | enough rotations to fill three backups and discard one; a second crash or failed write during the repair of the first; line breaks before a prune, a rotation and a second open; the theorems hold for any of these numbers |
| monitors: snapshots | each of the eleven kinds; two items, two contents, two changes, four starts and stops | one item changes while the other is read; stop, restart, and a new object each once and again; the theorems hold for any items and contents |
| monitors: log | three lines, two rotations, one truncation, two monitor objects | appended before, between and after the three looks, with two rotations and a truncation in any gap: the second meets the inode 0 that the gap of the first left behind; the theorem holds for any number of each |
| monitors: disk | two mounts at 50, 85 or 97 percent, thresholds in and out of order; no bound on behaviours | below, between and beyond the thresholds, with jumps over both; a mount that is absent or fails; the theorem holds for any mounts and thresholds |
| monitors: load | two units of processor time between readings, three changes, four starts, stops and new objects | an empty, an idle, a mixed and a busy interval; a change during each; a restart right after a reading |
| audit | two threads, two webhooks, two attempts, two events of three kinds, up to two alerts on one event, times 0 and 1, one reconfiguration | a webhook that fails before one that is still due; a look-up after removal; an event exactly one window old; a cooldown met and over; a rule replaced by one of other types and a shorter cooldown between two events, so that one counts that only the old types name; two alerts and a finding of one event; the theorems hold for any of these numbers |
| program: query | each event type alone; every separator in every field between two plain events; nine queries | the format has three separators and cuts at first occurrences; paging by 1, 2 and 0 over up to three events and the lines they break into; the theorems hold for any texts, events, filters and page sizes |
| program: diff | three PIDs of which two look alike, three memory sizes, connections that share addresses, two variables, at most two processes shown, two changes | a tie, a cut list, a rounded key and a truncated value each occur alone and together; the theorem holds for any hosts |
| program: validate | files of up to two lines: values of up to three of space, backslash, n; eleven values of each typed setting, `nan` among them; lines that are no settings | a setting twice, a pair of thresholds, every trailing escape; the theorem holds for files of any length |
| program: watch | two settings, two edits, three seconds, one SIGHUP | an edit in the second of a check, one in two pieces, and one during each thread's reload |
| program: session | two monitors, two events and one, three minutes, buckets of one, replay of two | an event before, during and after the replay and the registration; a bucket pruned under a late event; the theorems hold for any of these numbers |
| program: daemon | three starts, one of them with --tail | an overlap of two and a third that finds what they left; the theorem holds for every set of starts |
| program: update | eight versions of one to three parts, two polls of the child | parts of two digits, missing parts, parts that are no number; the child ends before, at and after the last poll; the theorem holds for any versions of up to three parts |
| alerts_spam (violation) | as alerts | `CooldownPreventsSpam`, see Findings |
| monitors_walk (violation) | one change | `EventsMeanChange`, see Findings |
| report_hang (violation) | as program's session, with --report | `ReportCompletes`, see Findings |
| daemon_twice (violation) | as program's daemon | `MultipleInstancesPrevented`, see Findings |

Deadlock is checked everywhere; where the program may rest (all events of the bounded
instance handled, a stopped monitor, a command that has ended) a `Rest` step says so.
The type invariants of Runner, Reporter, MonitorEngine, AlertManager, FileStorage, the monitors,
audit, webhooks, Daemon, Updater and Session are proved rather than run.

Fairness is weak fairness of threads that exist, per thread: the operating system
runs every thread, no lock is held for ever (every critical section is a bounded
computation or file operation) and `wait_for`, the sleep between webhook attempts and
`http_post` have time-outs. In `AllFairness` these are the monitors' ticks; in
`ProgramFairness` main, the watcher's thread, each monitor's thread, and the updater's
polling. `ReportSpec` treats main and the monitors' threads the same way, so that the hang
it shows is not a thread that was never run. Producers, users, rule changes, editors,
signals, the host and the log's writer have no fairness, with three exceptions: logrotate
creates the new file after moving the old one away, processor time passes, and git ends
once it has been sent SIGTERM. `EventuallyPosted` is stated for a configured endpoint, a
positive batch size and a reporter that is not stopped: `send_http_post` fails exactly when
no endpoint is set.

## Findings

* **alerts_spam.** `is_in_cooldown` and `trigger_alert` take the lock one after the other
  (`alert_manager.cpp:125`), so two monitor threads can both fire a rule within one
  cooldown; the repository's README (line 61) promises cooldowns "to prevent alert
  spam". `SoleSourceCooldown` is what does hold: a rule fed by one thread keeps its
  cooldown.
* **monitors_walk.** A directory that vanishes during the walk ends the iteration
  (`filesystem_monitor.cpp:106`), and the partial snapshot replaces the previous one:
  untouched files are reported deleted, and created again by the next tick.
* **report_hang.** `get_stats` holds `mutex_` and calls `top_sources`, which locks it again
  (`statistics.cpp:67`, 99, 189): `--report` never returns, and the monitors' threads queue up
  behind it; the repository's README (lines 115-116) promises comprehensive reports.
* **daemon_twice.** The PID file is checked before the fork and written after it, without a
  lock or O_EXCL (`main.cpp:333`, `daemon.cpp:101`): two starts that overlap both run, against
  README:53, "PID file management to prevent multiple instances". `PidFileTellsTruth` is
  what holds when they do not overlap.

Met while modelling, and not the subject of a run.

* Monitors: `snapshot_of` fills in no permissions, so the "permission changed" event of
  README:17 is never emitted; port, package and environment monitors report everything on
  their first tick; a reused process id is not noticed; log events carry the type
  `ConfigValueChanged`; a log line written in two pieces can be missed, and so can the
  beginning of a log that was truncated and has grown past the old position, or that was
  rotated while the tick asked for its inode (`log_monitor.cpp:109` remembers the 0 of the gap,
  and the new file, or the next, passes for the old one if it is long enough); no monitor emits the attributes "user" and
  "remote_port" that two audit rules look for.
* Storage and query: `rotate` removes only backup number `max_files`, so after lowering it
  older backups stay (`storage.h:43`, "Up to max_files backups are kept"); a failed rename
  resets the counters all the same; a write that fails is not noticed: the storage stays
  open, counts on and drops what follows; an event with a line break in its source or
  target counts for one until the file is opened again and for its lines from then on, so
  that `prune` cuts it in two or keeps fewer events than asked; the storage's own `query` reads the current file only
  and `prune` has no caller; the JSON output of a query returns 0; `offset + limit` can
  overflow.
* Pipeline: `SecurityAuditor::add_rule` replaces a rule of the same name but keeps its counted
  times and its last firing (`security_auditor.cpp:53-61`), so the first firing of the new rule
  may rest on events of types that only the old one named, and the new cooldown runs from
  the old rule's firing (`FiringsJustified` says so); `would_allow` stops at a Modify rule where `process` goes on, so they can differ
  (`event_filter.h:65`); `only_critical_events` ("Only allow critical event types") allows
  those types early but denies no other; webhook callbacks of the auditor see event id 0,
  as the id is given to a copy; `next_result_id_` is incremented without a lock;
  `Reporter::stop` flushes one batch only; `StatisticsCollector::reset`, `ConfigStore::save`
  and `set` have no caller.
* Configuration: the validator reads a value as written, `load` unescapes it, so a threshold
  `7\1` is 7 to the one and 71 to the other, and an order of thresholds that was validated
  can be reversed in the store (met in the proof of `ValidatedHonoured`; the property
  excepts thresholds with a backslash); a threshold `nan` passes the validator, the check of
  the order, which is false for it (`config_validator.cpp:152-160`, 209), and `get_double`, and
  a disk threshold that is NaN is never reached (the property excepts it from the order); a poll interval of 0 is accepted; a number beyond `int` passes the validator
  and then yields the default; the two disk thresholds are compared only when both are
  present; a reload hands on intervals only, and running runners keep the old one
  (README:120-124); main and the watcher can read and hand on an interval in different
  orders; SIGHUP does nothing in tail mode.
* Daemon and tail: with `--tail` the PID file stays behind (README:55), events between the
  replay and the registration are not printed, and the callback refers to `run`'s frame
  until the engine is destroyed (README:172, "Clean Ctrl+C shutdown"); a relative `--config`
  or `--pid-file` is looked up in `/` once `daemonize` has changed directory;
  `is_one_shot_mode` lacks `--info-json` and `--info-color`.
* Snapshot diff: uptime is compared as metadata, so two snapshots practically always differ;
  PIDs and sizes are compared in six significant digits; a connection's key leaves out its
  protocol.

## What is proved

TLAPS checks these for every value of the constants (and unbounded behaviours).

* `PeriodicRunner_proofs`, from `Interval \in Nat`. `ThreadInvariant`: `TypeOK /\ ThreadInv` is
  inductive. Its heart is `lateTicks + left <= Interval` while the worker is anywhere
  between the predicate and the wake-up: the bound itself is not inductive, since the
  notification may have been lost in just that stretch, and only the deadline set
  before is left to end the wait. `StopDelayBounded` follows. `RefinesRunner`: under the
  mapping in `PeriodicRunner`, initial states are initial states of `Runner` and every
  step is one of its steps or none.
* `Reporter_proofs`, from `BatchSize \in Int` (the code casts a signed setting).
  `ReporterKeepsEvents`: `posted \o batch \o queue = accepted`. Inductive only together with
  `OneFlusher`, that the runner thread and `stop()` never hold a batch at the same time
  (stop's flush comes after the join); a failed post puts its batch back in front,
  which restores the order only because of it. `ReporterRefinesFeed`: with that invariant
  every step is a step of `ReportFeed` or none (a post extends what the endpoint has by a
  batch that is the next part of what was accepted).
* `MonitorEngine_proofs`, from `N \in Nat \ {0}` and the bounds' types. `EngineLifeCycle`:
  `LifeInv` (which threads exist at each place of `start_all` and `stop_all`, that the one
  being joined has been told to stop, that the log stays open in between) is inductive;
  `ShutdownDropsNothing`: the storage refuses an event only if opening it had failed,
  since `stop_all` closes it when no polling thread is left. `EmissionOrderKept`: each sink
  gets the events of one monitor in order, none twice. The order alone is not inductive;
  `SinkInv` adds that what a sink holds of a monitor was emitted before the event its thread
  is routing, or is that event if the thread is past the sink.
* `AlertManager_proofs`, from a finite set of threads, numeric bounds and a default list
  without repeated names. `AlertTypes`: `BaseInv` is inductive; that no name occurs twice in
  `rules_` or a copy of it is what makes "the rule a thread is working on" well defined.
  `NoFalseAlarm`: `CountInv` carries the count from the test of the threshold to the trigger:
  from then on the events of that window only grow in number, although other threads
  count, forget and clear in between. `SoleSourceKeepsCooldown`: `CoolInv` says of a rule
  that one thread feeds that every earlier alert is at least a cooldown before the one this
  thread is about to stamp or store, also across `remove_rule` and `add_rule`.
  `AlertsDeliveredOnce`: `IdsAccounted`, the ids below `next_id_` are those delivered and
  those held by a thread on its way to the callbacks, each once. `AlertsAreList`: every step is
  one of `AlertList` or none; `NumberInv`, the list holds just the numbers before `next_id_`, is
  inductive since number and place are given in one critical section.
* `FileStorage_proofs`, from a positive rotation size and a largest configured number of
  backups. `StorageOrder`: `OrderInv`; while prune is between its two files, the temporary one
  has to be known as a copy of the end of the active one. `StorageInOrder` follows.
  `StorageLosesNone`: `LossInv` adds that the name a rename of the rotation is about to fill
  is free, which is what the order of `remove` and the renames is for, and what a failed
  one destroys, and `Copied`, in `OrderInv`, that prune's copy is what should be left of the file up to
  some text; `CleanInv` says that before the first failed write nothing is torn or swallowed. `StorageCounts`: `CounterInv` says when the
  counters are exact, and that prune's file has as many lines as it will be credited with;
  an event of several lines makes the count fall short by its line breaks, so the theorem
  bounds the difference by those. `StorageDamage`: the bound is not inductive, since damage
  happens after the failure too; `DamageInv` charges each failed write with two events in
  advance, of which an unterminated last line may still owe one or two (`Debt`). `StorageIsLog`: every step is one of `EventLog` or none, also after failed renames:
  since the files are in order, nothing lies between two events of a backup that is removed
  or overwritten (`BackupAlone`), and the last line of the active file is the newest event
  (`LastIsNewest`).
* `AllMonitors_proofs`, for the composition, from assumptions on the values only (a content
  is none of the marks for an absent item; usage and thresholds are percentages).
  `SnapshotReplay`: `ReplayInv`, once there is a snapshot to compare with, what a consumer
  has rebuilt agrees with it, also while the monitor is stopped. `SnapshotQuiet`: `ScanInv`
  says, item by item and in the middle of a scan, that an item which has not changed is
  recorded as it is in the snapshot that holds it at that moment. `LogSkipsNothing`:
  `LogInv` says which lines lie before the position at each of the three looks, that halves
  come in pairs, as long as the position is one in the file that the path names
  (`Reliable`). Its exception, `stale`, is what the code cannot tell: a truncated file that
  has grown past the position, and the gap of a rotation hit by the look at the inode, which
  leaves 0 behind. `DiskCrossings`: `DiskInv`,
  what is reached is exactly what was announced or silent at first. `StepOfEach` reduces a
  step of the composition to a step of one monitor.
* `EventPath_proofs`, for the composition, from a finite set of threads, webhooks with distinct
  names, natural numbers for attempts, thresholds, windows and cooldowns, and a first list of
  filter rules as `add_rule` leaves it (sorted, no name twice); rules and
  webhooks may be changed at any time. `FilterObeysPriority`: `FilterInv`, the filter's rules
  stay sorted and no name occurs twice, through `add_rule` (which replaces in place and sorts
  again), `remove_rule` and `enable_rule`; `WalkFate` is the verdict of a walk through sorted
  rules, by induction over their number (`SetInduction`: a set of naturals that is not all of
  them misses a smallest one, which is a form of induction these provers can use).
  `AuditJustified`, for any definitions given to the names at any time (`EditedInForce`):
  `AuditInv` says of each name that the
  events it remembers were reported and matched the rule that had the name when they came,
  and that the last firing is the one
  `last_triggered_` knows; without the latter the distance of two firings is not
  inductive, and `add_rule`, `clear_rules` and `remove_rule` keep it because they leave the
  map alone. Threshold, window and cooldown are those of the definition that fires.
  `WebhooksServed`: `SendInv` and `CountInv`. What is due at the return is not inductive by
  itself: `Due` says at every place of the loop that each webhook of the copy is settled or
  still to come, for which a name occurs once in the copy, and `OwnPayload` that no two threads
  post the same payload, so that one thread's posts do not disturb what another counts. The
  totals lag behind the posts by the threads between `http_post` and the lock (`CountInv`).
* `Program_proofs`, for main and its commands. Other components' steps leave a component's
  variables alone, so each invariant is proved of the component's steps and lifted.
  * The PID file, from `Tailing \subseteq Starter` and file contents that are no PIDs, for any
    set of starts, finite or not. `DaemonInvariant`: `DaemonInv` is inductive: as long as no two
    starts overlap, one start at most is past its check, what it wrote stays in the file, its
    open stream is still the file's, and a name left behind is that of a killed daemon. The
    property alone is not inductive: nothing in it says that a start between its check and
    its write is alone, or that the file does not already name it. `PidFileHonest` follows.
  * The updater, from versions of up to three parts, each below a bound or no number (as `stoi`
    yields them). `UpdaterHonest`: `NewerIsGreater` shows the comparison part by part to be that
    of the numbers the parts are digits of; `UpdInv` follows the child through polling,
    signal and wait, so that the message rests on the status that was reaped.
  * The session, from a finite sequence of event types for each monitor and natural limits;
    any set of monitors. `SessionInvariant` is seven invariants. `MainInv`, `RecordInv` and `RecentInv`
    are what the types need beside the others (`SessionTypes`: recent_ stays within its limit
    since each insertion trims it under the same lock). `RouteInv`: a busy thread
    routes its monitor's latest event, stamped no later than now. `CountsInv`: each counter
    has counted exactly the events whose threads have passed it (`Passed`), of which the
    agreement at rest is a special case, but not an inductive one; the type counts are exact
    only while the map is not torn. `BucketInv`: no minute ahead of the clock is counted and
    no pruned one is looked at again, which bounds what is kept. `TailInv`: recent_, replay
    and screen each hold a monitor's events in order, none beyond the one its thread has
    listed; what is on the screen comes before what is still to be replayed; until the
    registration nothing is printed twice, and a thread on its way to the callback finds
    either no event of its monitor repeated or only older ones printed.
    `StatisticsAgree` and `TailInEmissionOrder` follow.
  * The text form, from events whose fields are any texts. `RoundTrip`: the loops of
    `serialize_event`'s line breaks, `getline` and `parse_event` are recursive functions;
    `LoopsAgree` (two such functions with the same start and the same step agree) and
    `SetInduction` follow them symbol by symbol. Forward, a text without a tab is one token
    and a value without `||` is one attribute, so the nine fields come back. Backward,
    no event that is read from a line has a tab in a field or a line break in source or target
    (`OnlyClean`), and among events without them a value with `||`, or one that ends in `|`
    before another attribute, comes back changed (`AttributesBack`).
    `DamageLocal`: `insert` ends each line, so the reader begins every event with an empty line
    (`IteratedJoin`) and the file is read as the concatenation of what each event alone gives,
    which is a conjunct of `QueryInv`.
  * The query, from events whose fields are texts, any filters and any page size.
    `QueryInvariant`: `QueryInv` says that the file is whole (empty, or ends in a line break), so
    that reading it after an append gives what it gave before and more, and `StillToCome`: a
    match that was there when the reader began, has its time for itself and was not shown is
    not behind the offset: at least that many matches are newer. It holds since a match's
    place among the sorted ones is one more than the number of newer ones (`PlaceCounts`),
    and what is appended can only add newer ones. `PagesComplete` follows: an empty page
    leaves no place.
  * The snapshots, from numbers below ten times the limit of what is shown, addresses and
    values below it, and any hosts. `DiffInvariant`: `DiffInv` keeps both files within their
    types and ties them to the host while it has not changed. `ArraysSame`: in arrays without
    a repeated key an item is found under its key, and that key can be told from what is
    shown of the item (`KeyShown`), so the comparison finds nothing just when the same items
    are shown. `SortedAlone`: without ties there is one way to sort the processes, since
    the place of each is one more than the number of larger ones (`PlaceCounts` again).
    `DiffTellsTruth` follows.
  * The validator, from lines that are texts and a natural `INT_MAX`; files of any length.
    `ValidatedHonoured`: `StoreInv`, verdict and store are made from the same lines, and the
    lemmas on texts: a valid interval, a switch and whatever has no backslash are left alone
    by `unescape` (`UnescapePlain`, by induction along its loop) and by `trim`, so that both
    sides read the same number, or both NaN (`ThresholdKept`); the order of two thresholds
    follows from the check only if neither is NaN (`ThresholdsOrdered`).

Only model-checked:

* all liveness (`StopReturns`, `EventuallyPosted`, `StopAllReturns`, `EventuallyConsistent`,
  `EventuallySeen`, `LoadEventuallyKnown`, `PathReturns`, `EventuallyReloaded`,
  `ShutdownCompletes`, `UpdateReturns`) and the fairness part of `ImplementsRunner`: fairness
  is outside the prover.

## Not modelled

The GUI is driven by Qt's event loop, which is not in the repository, and repeats main's
calls of the engine. Exporters, system information, diagnostics, platform detection and the
logger keep no state that outlives a call: they read, format and print. Of the report only
the step that takes a lock is modelled. Left out of modelled components: the parsing of
arguments; `get_list`; infinities, fractions and exponents, which `std::stod` reads too (a
threshold is a whole number or NaN; infinities compare as numbers do); the validator's checks of ports and addresses, its warnings and its
printed report; the JSON parser of the diff, which yields the value written or fails, but for
`\u` escapes, each of which it turns into `?`: the models' names contain none; query
functions of the statistics, alert and webhook lists that only read under one lock. The text
of messages, JSON bodies, HTTP, HMAC and hashing, and the parsing of /proc and of package
managers' output are abstracted to the values they yield. The data race on
`next_result_id_` is left out: nothing reads the numbers.

Of the query: rotation is off, as it is by default (`storage.max_size_mb = 0`); where it is on,
a page after a rotation reads the new file, and `PagingSkipsNothing` does not hold across it.

Of the storage: sizes, and so the rotation limit, are counted in lines, not bytes; a torn line
and what runs into it count as one, and empty lines inside a text (two line breaks in a row,
which `open` and `prune` skip) do not occur; a write that fails leaves on the disk a part of
the text or all of it, and a later `close()` does not try again to write what the library
still has in its buffer (with room on the disk by then, an event that counts as swallowed
here is stored after all, perhaps glued to a part of itself); and a write of `prune`'s copy
that fails is the last one, since the stream ignores the others.

## Plan

Done: the thread core (PeriodicRunner, Reporter, MonitorEngine), the pipeline from alerts to
webhooks, storage, all fourteen monitors, and main with its commands, configuration, daemon
and updater are modelled and checked; the safety properties of the thread core, the alerts,
the storage, the monitors, filter, audit and webhooks, the statistics, the tail, the daemon, the
updater, the text form, the query, the snapshots' comparison and the validator are theorems,
and four components are proved to implement an abstract specification. Left:

1. The refinements `ImplementsLog` and `ImplementsList` are theorems and belong to no run; a run
   would show them on the instances of `FileStorage.cfg` and `AlertManager.cfg` as well.
2. What the report, the exporters and the validator's printed report make of the statistics and
   of events is not modelled.
