------------------------------- MODULE Daemon -------------------------------
(***************************************************************************)
(* utils/daemon.cpp and the parts of main.cpp that use it: several starts  *)
(* of `change-of-system --daemon` with the same PID file.  Each checks the *)
(* file, forks into the background, writes its PID, installs its signal    *)
(* handlers, runs, and removes the file when SIGTERM ends it.              *)
(*                                                                         *)
(* A start is named after the PID its daemon gets.                         *)
(***************************************************************************)
EXTENDS Naturals

CONSTANTS
  Starter,   \* bound: the starts
  Tailing    \* those that also say --tail

ASSUME DaemonAssumption == Tailing \subseteq Starter

Absent == "absent"
Empty == "empty"
ASSUME PidAssumption == Absent \notin Starter /\ Empty \notin Starter

VARIABLES
  startAt,   \* per start: the step it is at
  pidFile,   \* Absent, Empty (created, nothing written yet) or a PID
  linked,    \* the starts whose stream is open on the file of that name
  reused,    \* PIDs of ended daemons that some other program has now
  killed,    \* history: daemons that ended otherwise than by SIGTERM in the loop
  overlap    \* history: has a start checked the file while another was under way?

daemonVars == <<startAt, pidFile, linked, reused, killed, overlap>>

\* "new"      not started             "checked"  found no other instance
\* "forked"   in the background       "opened"   has created or emptied the file
\* "written"  has written its PID     "running"  handlers installed, monitors on
\* "stopping" SIGTERM seen            "gone"     ended, or never got anywhere
Step == {"new", "checked", "forked", "opened", "written", "running", "stopping", "gone"}
Starting == {"checked", "forked", "opened", "written"}
Alive == {"forked", "opened", "written", "running", "stopping"}

DaemonTypeOK ==
  /\ startAt \in [Starter -> Step]
  /\ pidFile \in Starter \cup {Absent, Empty}
  /\ linked \subseteq Starter
  /\ reused \subseteq Starter
  /\ killed \subseteq Starter
  /\ overlap \in BOOLEAN

DaemonInit ==
  /\ startAt = [s \in Starter |-> "new"]
  /\ pidFile = Absent
  /\ linked = {}
  /\ reused = {}
  /\ killed = {}
  /\ overlap = FALSE

StartAt(s, from, to) ==
  /\ startAt[s] = from
  /\ startAt' = [startAt EXCEPT ![s] = to]

\* kill(pid, 0) == 0
Exists(p) == startAt[p] \in Alive \/ p \in reused

\* is_already_running may answer this.  From an empty file get_running_pid
\* extracts nothing and returns the variable it never set: any answer.
AlreadyRunning(answer) ==
  IF pidFile \in {Absent, Empty}
  THEN pidFile = Empty \/ answer = FALSE
  ELSE answer = Exists(pidFile)

\* Mutant: the file counts, not the process.
MutantCheck(s) ==
  /\ StartAt(s, "new", IF pidFile = s THEN "gone" ELSE "checked")
  /\ overlap' = (overlap \/ \E o \in Starter : startAt[o] \in Starting)
  /\ UNCHANGED <<pidFile, linked, reused, killed>>

Check(s) ==
  /\ \E answer \in BOOLEAN :
       /\ AlreadyRunning(answer)
       /\ StartAt(s, "new", IF answer THEN "gone" ELSE "checked")
  /\ overlap' = (overlap \/ \E o \in Starter : startAt[o] \in Starting)
  /\ UNCHANGED <<pidFile, linked, reused, killed>>

\* daemonize: two forks and a setsid, each of which may fail.
Daemonize(s) ==
  /\ \/ StartAt(s, "checked", "forked")
     \/ StartAt(s, "checked", "gone")
  /\ UNCHANGED <<pidFile, linked, reused, killed, overlap>>

\* write_pid_file: the stream's constructor creates or empties the file ...
OpenPidFile(s) ==
  /\ StartAt(s, "forked", "opened")
  /\ pidFile' = Empty
  /\ linked' = linked \cup {s}
  /\ UNCHANGED <<reused, killed, overlap>>

\* ... or cannot, and the program ends ...
OpenPidFails(s) ==
  /\ StartAt(s, "forked", "gone")
  /\ killed' = killed \cup {s}
  /\ UNCHANGED <<pidFile, linked, reused, overlap>>

\* ... and endl writes the PID, to a file that may have lost its name since.
WritePidFile(s) ==
  /\ StartAt(s, "opened", "written")
  /\ pidFile' = IF s \in linked THEN s ELSE pidFile
  /\ linked' = linked \ {s}
  /\ UNCHANGED <<reused, killed, overlap>>

InstallHandlers(s) ==
  /\ StartAt(s, "written", "running")
  /\ UNCHANGED <<pidFile, linked, reused, killed, overlap>>

\* on_signal; main's loop ends and stop_all runs.
Terminate(s) ==
  /\ s \notin Tailing
  /\ StartAt(s, "running", "stopping")
  /\ UNCHANGED <<pidFile, linked, reused, killed, overlap>>

\* remove_pid_file, whatever the file says by now, and the end.
RemovePidFile(s) ==
  /\ StartAt(s, "stopping", "gone")
  /\ pidFile' = Absent
  /\ linked' = {}
  /\ UNCHANGED <<reused, killed, overlap>>

\* With --tail main returns from TailWatcher::run and leaves the file.
TailReturns(s) ==
  /\ s \in Tailing
  /\ StartAt(s, "running", "gone")
  /\ killed' = killed \cup {s}
  /\ UNCHANGED <<pidFile, linked, reused, overlap>>

\* SIGKILL, a crash, SIGTERM before the handlers are installed, or an engine
\* that cannot be initialized or started: main returns and leaves the file.
Kill(s) ==
  /\ startAt[s] \in Alive
  /\ startAt' = [startAt EXCEPT ![s] = "gone"]
  /\ killed' = killed \cup {s}
  /\ UNCHANGED <<pidFile, linked, reused, overlap>>

\* The system gives the PID of an ended daemon to another program.
ReusePid(s) ==
  /\ startAt[s] = "gone"
  /\ s \notin reused
  /\ reused' = reused \cup {s}
  /\ UNCHANGED <<startAt, pidFile, linked, killed, overlap>>

DaemonRest ==
  /\ \A s \in Starter : startAt[s] = "gone"
  /\ UNCHANGED daemonVars

DaemonNext ==
  \/ \E s \in Starter :
       \/ Check(s) \/ Daemonize(s) \/ OpenPidFile(s) \/ OpenPidFails(s) \/ WritePidFile(s)
       \/ InstallHandlers(s) \/ Terminate(s) \/ RemovePidFile(s) \/ TailReturns(s)
       \/ Kill(s) \/ ReusePid(s)
  \/ DaemonRest

DaemonSpec == DaemonInit /\ [][DaemonNext]_daemonVars

-----------------------------------------------------------------------------
(* Properties.                                                             *)

Up == {s \in Starter : startAt[s] \in {"running", "stopping"}}

(***************************************************************************)
(* As long as no two starts overlap, at most one daemon is up, the file    *)
(* names it, so that kill $(cat pidfile) reaches it, and a file that names *)
(* a daemon that has ended is the work of a kill or of --tail: a shutdown  *)
(* by SIGTERM leaves none.  Kills at any step, PIDs used again and an      *)
(* empty file left by a start that died do not change that.                *)
(***************************************************************************)
PidFileTellsTruth ==
  ~overlap =>
    /\ \A s, o \in Up : s = o
    /\ \A s \in Up : pidFile = s
    /\ \A s \in Starter : pidFile = s /\ startAt[s] = "gone" => s \in killed

(***************************************************************************)
(* Whatever the starts do, two daemons are never up together.              *)
(***************************************************************************)
MultipleInstancesPrevented == \A s, o \in Up : s = o

=============================================================================
