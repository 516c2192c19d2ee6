--------------------------- MODULE ConfigWatcher ----------------------------
(***************************************************************************)
(* config/config_watcher.cpp, with the parts of the program that load the  *)
(* configuration: MonitorEngine::initialize, MonitorEngine::reload_config  *)
(* and main's loop, which reloads on SIGHUP and ends on SIGTERM.  The      *)
(* watcher's thread compares modification times in whole seconds.          *)
(*                                                                         *)
(* The file holds settings, each at the version it was last written with,  *)
(* 0 for a setting it does not mention (or does not yet: an editor may     *)
(* empty the file and write it later).  ConfigStore::load sets what it     *)
(* finds and removes nothing.  One setting is the poll interval, which     *)
(* reload_config reads back from the store and hands to the monitors.      *)
(***************************************************************************)
EXTENDS Naturals

CONSTANTS
  Setting,     \* settings of the file
  Interval,    \* the one that is a poll interval
  MaxEdits,    \* bound: changes of the file
  MaxSeconds,  \* bound: the clock
  MaxHups      \* bound: SIGHUP signals

ASSUME ConfigWatcherAssumption ==
  /\ Interval \in Setting
  /\ {MaxEdits, MaxSeconds, MaxHups} \subseteq Nat

VARIABLES
  iniFile,       \* the file's settings
  iniTime,       \* its modification time; 0: there is no file
  second,        \* the clock
  edits,
  editing,       \* has an editor emptied the file and not yet written it?
  loaded,        \* ConfigStore::values_
  pollInterval,  \* the monitors' poll_interval_ms_
  fetched,       \* per thread: the interval read back and not yet handed on
  reloadAt,      \* per thread: the step of reload_config it is at
  watchEnabled,  \* config.watch_enabled
  watching,      \* watching_
  lastModified,  \* last_modified_
  watcherAt,     \* the step watch_loop is at
  mainAt,        \* the step main is at
  hupFlag,       \* g_reload_config
  runFlag,       \* g_running
  hups,
  noticeable     \* history: can the last change of the file be noticed?

cfgFile == <<iniFile, iniTime, second, edits, editing>>
cfgFlags == <<hupFlag, runFlag, hups>>
cfgWatch == <<watchEnabled, watching, lastModified>>
cfgVars == <<cfgFile, loaded, pollInterval, fetched, reloadAt, cfgWatch, watcherAt,
             mainAt, cfgFlags, noticeable>>

Reloader == {"main", "watcher"}
Version == 0..MaxEdits

CfgTypeOK ==
  /\ iniFile \in [Setting -> Version]
  /\ iniTime \in 0..MaxSeconds
  /\ second \in 1..MaxSeconds
  /\ edits \in 0..MaxEdits
  /\ editing \in BOOLEAN
  /\ loaded \in [Setting -> Version]
  /\ pollInterval \in Version
  /\ fetched \in [Reloader -> Version]
  /\ reloadAt \in [Reloader -> {"no", "load", "get", "set"}]
  /\ watchEnabled \in BOOLEAN
  /\ watching \in BOOLEAN
  /\ lastModified \in 0..MaxSeconds
  /\ watcherAt \in {"none", "sleep", "stat", "callback", "done"}
  /\ mainAt \in {"initialize", "watch", "loop", "reload", "join", "exited"}
  /\ hupFlag \in BOOLEAN
  /\ runFlag \in BOOLEAN
  /\ hups \in 0..MaxHups
  /\ noticeable \in BOOLEAN

CfgInit ==
  /\ iniFile = [s \in Setting |-> 0]
  /\ iniTime = 1
  /\ second = 1
  /\ edits = 0
  /\ editing = FALSE
  /\ loaded = [s \in Setting |-> 0]
  /\ pollInterval = 0
  /\ fetched = [t \in Reloader |-> 0]
  /\ reloadAt = [t \in Reloader |-> "no"]
  /\ watchEnabled \in BOOLEAN
  /\ watching = FALSE
  /\ lastModified = 0
  /\ watcherAt = "none"
  /\ mainAt = "initialize"
  /\ hupFlag = FALSE
  /\ runFlag = TRUE
  /\ hups = 0
  /\ noticeable = FALSE

-----------------------------------------------------------------------------
(* Whoever edits the file, and time.                                       *)

\* The file gets new contents; the watcher can tell if the time is another one
\* than it remembers.
Edit(contents, time) ==
  /\ iniFile' = contents
  /\ iniTime' = time
  /\ noticeable' = (watching /\ time # lastModified)
  /\ UNCHANGED <<second, loaded, pollInterval, fetched, reloadAt, cfgWatch, watcherAt,
                 mainAt, cfgFlags>>

NewContents(present) == [s \in Setting |-> IF s \in present THEN edits' ELSE 0]

\* In place: emptied first, written later ...
EditorTruncate ==
  /\ edits < MaxEdits
  /\ ~editing
  /\ edits' = edits + 1
  /\ editing' = TRUE
  /\ Edit([s \in Setting |-> 0], second)

EditorWrite(present) ==
  /\ editing
  /\ editing' = FALSE
  /\ UNCHANGED edits
  /\ Edit(NewContents(present), second)

\* ... or replaced by a rename ...
EditorReplace(present) ==
  /\ edits < MaxEdits
  /\ ~editing
  /\ edits' = edits + 1
  /\ UNCHANGED editing
  /\ Edit(NewContents(present), second)

\* ... or removed.
EditorRemove ==
  /\ edits < MaxEdits
  /\ ~editing
  /\ edits' = edits + 1
  /\ UNCHANGED editing
  /\ Edit([s \in Setting |-> 0], 0)

SecondPasses ==
  /\ second < MaxSeconds
  /\ second' = second + 1
  /\ UNCHANGED <<iniFile, iniTime, edits, editing, loaded, pollInterval, fetched, reloadAt,
                 cfgWatch, watcherAt, mainAt, cfgFlags, noticeable>>

\* on_sighup and on_signal
Hup ==
  /\ hups < MaxHups
  /\ hups' = hups + 1
  /\ hupFlag' = TRUE
  /\ noticeable' = TRUE
  /\ UNCHANGED <<cfgFile, loaded, pollInterval, fetched, reloadAt, cfgWatch, watcherAt,
                 mainAt, runFlag>>

Term ==
  /\ runFlag
  /\ runFlag' = FALSE
  /\ UNCHANGED <<cfgFile, loaded, pollInterval, fetched, reloadAt, cfgWatch, watcherAt,
                 mainAt, hupFlag, hups, noticeable>>

-----------------------------------------------------------------------------
(* reload_config, on main's thread or on the watcher's.                    *)

\* ConfigStore::load; a file that cannot be opened changes nothing.
Loaded == [s \in Setting |-> IF iniFile[s] # 0 THEN iniFile[s] ELSE loaded[s]]

ReloadLoad(t) ==
  /\ reloadAt[t] = "load"
  /\ loaded' = Loaded
  /\ reloadAt' = [reloadAt EXCEPT ![t] = "get"]
  /\ UNCHANGED <<cfgFile, pollInterval, fetched, cfgWatch, watcherAt, mainAt, cfgFlags,
                 noticeable>>

\* set_poll_interval_ms(cfg.get_int(...)): the argument is read first.
ReloadGet(t) ==
  /\ reloadAt[t] = "get"
  /\ fetched' = [fetched EXCEPT ![t] = loaded[Interval]]
  /\ reloadAt' = [reloadAt EXCEPT ![t] = "set"]
  /\ UNCHANGED <<cfgFile, loaded, pollInterval, cfgWatch, watcherAt, mainAt, cfgFlags,
                 noticeable>>

\* (The Mutant definitions are deliberately wrong variants of the definition
\* that follows them; the README says what they are for.)
MutantReloadSet(t) ==
  /\ reloadAt[t] = "set"
  /\ pollInterval' = fetched[t]
  /\ reloadAt' = [reloadAt EXCEPT ![t] = "no"]
  /\ IF t = "main"
     THEN mainAt' = "loop" /\ UNCHANGED <<watcherAt, lastModified>>
     ELSE watcherAt' = "sleep" /\ lastModified' = iniTime /\ UNCHANGED mainAt
  /\ UNCHANGED <<cfgFile, loaded, fetched, watchEnabled, watching, cfgFlags, noticeable>>

ReloadSet(t) ==
  /\ reloadAt[t] = "set"
  /\ pollInterval' = fetched[t]
  /\ reloadAt' = [reloadAt EXCEPT ![t] = "no"]
  /\ IF t = "main"
     THEN mainAt' = "loop" /\ UNCHANGED watcherAt
     ELSE watcherAt' = "sleep" /\ UNCHANGED mainAt
  /\ UNCHANGED <<cfgFile, loaded, fetched, cfgWatch, cfgFlags, noticeable>>

-----------------------------------------------------------------------------
(* The watcher's thread.                                                   *)

\* The interval is over.
WatchWake ==
  /\ watcherAt = "sleep"
  /\ watcherAt' = IF watching THEN "stat" ELSE "done"
  /\ UNCHANGED <<cfgFile, loaded, pollInterval, fetched, reloadAt, cfgWatch, mainAt,
                 cfgFlags, noticeable>>

\* get_file_modified_time, under the lock, and what follows from it.
WatchStat ==
  /\ watcherAt = "stat"
  /\ IF iniTime # lastModified /\ iniTime # 0
     THEN /\ lastModified' = iniTime
          /\ watcherAt' = "callback"
          /\ reloadAt' = [reloadAt EXCEPT !["watcher"] = "load"]
     ELSE /\ watcherAt' = "sleep"
          /\ UNCHANGED <<lastModified, reloadAt>>
  /\ UNCHANGED <<cfgFile, loaded, pollInterval, fetched, watchEnabled, watching, mainAt,
                 cfgFlags, noticeable>>

-----------------------------------------------------------------------------
(* The main thread.                                                        *)

\* MonitorEngine::initialize loads the file first ...
MainInitialize ==
  /\ mainAt = "initialize"
  /\ loaded' = Loaded
  /\ pollInterval' = Loaded[Interval]
  /\ mainAt' = "watch"
  /\ UNCHANGED <<cfgFile, fetched, reloadAt, cfgWatch, watcherAt, cfgFlags, noticeable>>

\* ... and later calls start_watching, which takes the file's time of then.
StartWatching ==
  /\ mainAt = "watch"
  /\ mainAt' = "loop"
  /\ IF watchEnabled
     THEN lastModified' = iniTime /\ watching' = TRUE /\ watcherAt' = "sleep"
     ELSE UNCHANGED <<lastModified, watching, watcherAt>>
  /\ UNCHANGED <<cfgFile, loaded, pollInterval, fetched, reloadAt, watchEnabled, cfgFlags,
                 noticeable>>

MainReload ==
  /\ mainAt = "loop"
  /\ runFlag
  /\ hupFlag
  /\ hupFlag' = FALSE
  /\ mainAt' = "reload"
  /\ reloadAt' = [reloadAt EXCEPT !["main"] = "load"]
  /\ UNCHANGED <<cfgFile, loaded, pollInterval, fetched, cfgWatch, watcherAt, runFlag,
                 hups, noticeable>>

\* stop_all, as far as the watcher is concerned: stop_watching ...
MainStop ==
  /\ mainAt = "loop"
  /\ ~runFlag
  /\ watching' = FALSE
  /\ mainAt' = "join"
  /\ UNCHANGED <<cfgFile, loaded, pollInterval, fetched, reloadAt, watchEnabled,
                 lastModified, watcherAt, cfgFlags, noticeable>>

\* ... which joins the thread.
MainJoin ==
  /\ mainAt = "join"
  /\ watcherAt \in {"none", "done"}
  /\ mainAt' = "exited"
  /\ UNCHANGED <<cfgFile, loaded, pollInterval, fetched, reloadAt, cfgWatch, watcherAt,
                 cfgFlags, noticeable>>

CfgExited == mainAt = "exited" /\ UNCHANGED cfgVars

CfgEnvironment ==
  \/ EditorTruncate \/ EditorRemove
  \/ \E present \in SUBSET Setting : EditorWrite(present) \/ EditorReplace(present)
  \/ SecondPasses \/ Hup \/ Term

CfgReload(t) == ReloadLoad(t) \/ ReloadGet(t) \/ ReloadSet(t)
CfgMain ==
  MainInitialize \/ StartWatching \/ MainReload \/ CfgReload("main") \/ MainStop \/ MainJoin
CfgWatcher == WatchWake \/ WatchStat \/ CfgReload("watcher")

CfgNext == (CfgEnvironment /\ mainAt # "exited") \/ CfgMain \/ CfgWatcher \/ CfgExited

-----------------------------------------------------------------------------
(* Properties.                                                             *)

(***************************************************************************)
(* Hot reload: when the file has come to rest after a change that can be   *)
(* noticed (the watcher runs and remembers another time, or a SIGHUP       *)
(* follows), the store eventually agrees with every setting in the file,   *)
(* however edits, checks, signals and the two threads' reloads interleave. *)
(* If only the watcher reloads, the monitors get the interval as well; the *)
(* two threads together can leave them an old one (reload_config reads and *)
(* hands on without a lock).                                               *)
(***************************************************************************)
EventuallyReloaded ==
  <>[](mainAt \in {"loop", "reload"} /\ ~editing /\ noticeable) =>
    <>[](/\ \A s \in Setting : iniFile[s] # 0 => loaded[s] = iniFile[s]
         /\ hups = 0 => pollInterval = loaded[Interval])

(***************************************************************************)
(* SIGTERM ends the program: stop_watching joins the watcher, whatever it  *)
(* is doing, a reload included.                                            *)
(***************************************************************************)
WatchingEnds == ~runFlag ~> mainAt = "exited"

=============================================================================
