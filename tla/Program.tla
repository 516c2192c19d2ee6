------------------------------- MODULE Program ------------------------------
(***************************************************************************)
(* main.cpp: one start of the program.  Unless a flag marks it as a        *)
(* one-shot command it looks for an update first; then main does one of    *)
(* the things the command line asks for, each a module of its own:         *)
(*                                                                         *)
(*   "query"    --query, page by page             EventQuery               *)
(*   "diff"     --snapshot, --snapshot-diff       SnapshotDiff             *)
(*   "validate" --validate-config                 ConfigValidator          *)
(*   "watch"    monitoring, as far as the configuration is concerned:      *)
(*              reloads by SIGHUP and by the watcher   ConfigWatcher       *)
(*   "session"  monitoring, as far as events are concerned, and --tail     *)
(*                                                Session, Statistics      *)
(*   "daemon"   --daemon, started several times   Daemon                   *)
(*                                                                         *)
(* A behaviour has one command; the other modules' variables stay as they  *)
(* were initially.                                                         *)
(***************************************************************************)
EXTENDS EventQuery, SnapshotDiff, ConfigValidator, ConfigWatcher, Session, Daemon, Updater

CONSTANTS
  Commands,   \* the commands to look at
  Hosts       \* the hosts a snapshot is first taken of

ASSUME HostsAssumption == Hosts # {} /\ \A h \in Hosts : IsHost(h)

VARIABLES
  command,
  stage       \* "update" or "run"

programVars == <<command, stage>>
allVars == <<programVars, vars, diffVars, storeVars, cfgVars, sesVars, daemonVars, updVars>>

\* is_one_shot_mode
OneShot == {"query", "diff", "validate"}

AnyOf(S) == CHOOSE x \in S : TRUE

ProgramInit ==
  /\ command \in Commands
  /\ stage = IF command \in OneShot THEN "run" ELSE "update"
  /\ Init /\ (command # "query" => pool = AnyOf(Pools))
  /\ DiffInitIn(IF command = "diff" THEN Hosts ELSE {AnyOf(Hosts)})
  /\ StoreInit
  /\ CfgInit /\ (command # "watch" => ~watchEnabled)
  /\ SesInitIn(IF command = "session" THEN {"tail", "plain"} ELSE {"plain"})
  /\ DaemonInit
  /\ UpdInit /\ (stage = "run" => current = AnyOf(Versions) /\ ~childIgnored)

-----------------------------------------------------------------------------
Runs(c) == command = c /\ stage = "run"

\* check_for_update and prompt_update have returned; their UpdateInfo is gone.
BeginCommand ==
  /\ stage = "update"
  /\ updAt = "done"
  /\ stage' = "run"
  /\ updAt' = "done"
  /\ current' = AnyOf(Versions)
  /\ latest' = <<>> /\ available' = FALSE
  /\ polls' = 0 /\ child' = "none" /\ signalled' = FALSE /\ reaped' = "nothing"
  /\ childIgnored' = FALSE
  /\ message' = "none"
  /\ UNCHANGED <<command, vars, diffVars, storeVars, cfgVars, sesVars, daemonVars>>

Updating ==
  /\ stage = "update"
  /\ UpdNext
  /\ UNCHANGED <<programVars, vars, diffVars, storeVars, cfgVars, sesVars, daemonVars>>

Query ==
  /\ Runs("query")
  /\ Next
  /\ UNCHANGED <<programVars, diffVars, storeVars, cfgVars, sesVars, daemonVars, updVars>>

Diff ==
  /\ Runs("diff")
  /\ DiffNext
  /\ UNCHANGED <<programVars, vars, storeVars, cfgVars, sesVars, daemonVars, updVars>>

ValidateConfig ==
  /\ Runs("validate")
  /\ StoreNext
  /\ UNCHANGED <<programVars, vars, diffVars, cfgVars, sesVars, daemonVars, updVars>>

Watch ==
  /\ Runs("watch")
  /\ CfgNext
  /\ UNCHANGED <<programVars, vars, diffVars, storeVars, sesVars, daemonVars, updVars>>

RunSession ==
  /\ Runs("session")
  /\ SesNext
  /\ UNCHANGED <<programVars, vars, diffVars, storeVars, cfgVars, daemonVars, updVars>>

RunDaemon ==
  /\ Runs("daemon")
  /\ DaemonNext
  /\ UNCHANGED <<programVars, vars, diffVars, storeVars, cfgVars, sesVars, updVars>>

ProgramNext ==
  BeginCommand \/ Updating \/ Query \/ Diff \/ ValidateConfig \/ Watch \/ RunSession \/ RunDaemon

\* Threads that can go on do; what the user, the host, other processes and
\* the monitors do is left to chance.  git ends once it was sent SIGTERM.
ProgramFairness ==
  /\ WF_cfgVars(Runs("watch") /\ CfgMain)
  /\ WF_cfgVars(Runs("watch") /\ CfgWatcher)
  /\ WF_sesVars(Runs("session") /\ SesMain)
  /\ \A p \in Poller : WF_sesVars(Runs("session") /\ ~SesOver /\ Route(p))
  /\ WF_updVars(stage = "update" /\ (Poll \/ Terminated \/ WaitForChild))
  /\ WF_updVars(stage = "update" /\ signalled /\ ChildEnds)

ProgramSpec == ProgramInit /\ [][ProgramNext]_allVars /\ ProgramFairness

-----------------------------------------------------------------------------
(***************************************************************************)
(* SIGTERM or Ctrl+C ends the program, with or without --tail, whatever    *)
(* the monitors, the watcher and a reload are doing: main leaves its loop  *)
(* and joins them all.  Exceptions: the process has died by itself, or the *)
(* tail's callback was called when the frame it refers to was gone.        *)
(***************************************************************************)
ShutdownCompletes == WatchingEnds /\ SessionEnds

=============================================================================
