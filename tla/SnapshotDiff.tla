---------------------------- MODULE SnapshotDiff ----------------------------
(***************************************************************************)
(* snapshot/snapshot_generator.cpp and snapshot_diff/snapshot_diff.cpp:    *)
(* the program is run with --snapshot twice, the host changes in between,  *)
(* and --snapshot-diff compares the two files.                             *)
(*                                                                         *)
(* A captured value is a number.  Names and addresses are small ones.  A   *)
(* JSON number goes through operator<< on its way into a comparison, which *)
(* shows the leading digits only: see Shown.  Processes, connections and   *)
(* the environment stand for the sections: an array cut at a length, an    *)
(* array whose key leaves a field out, and an object.  The others (system, *)
(* disks, listening_ports) go through the same code.                       *)
(***************************************************************************)
EXTENDS Integers, Sequences, SequencesExt

CONSTANTS
  Pid, Memory,   \* processes and their memory
  Protocol,      \* the files of /proc/net, numbered, in the order read
  Address,
  Variable,      \* environment variables
  Sensitive,     \* those whose value is cut after eight characters
  VarValue,
  MaxProcesses,  \* snapshot.max_processes
  Limit,         \* the least number not shown in full (10^6)
  MaxChanges,    \* bound: changes of the host
  MaxUptime      \* bound: the clock

ASSUME SnapshotDiffAssumption ==
  /\ Limit \in Nat /\ MaxProcesses \in Int /\ MaxChanges \in Nat /\ MaxUptime \in Nat \ {0}
  /\ Protocol \in Seq(ToSet(Protocol))
  /\ Pid \cup Memory \subseteq 0..10 * Limit - 1
  /\ ToSet(Protocol) \cup Address \cup VarValue \subseteq 0..Limit - 1
  /\ MaxUptime < 10 * Limit

Section == {"processes", "connections", "environment"}

VARIABLES
  processes,    \* the host: its processes and their memory,
  connections,  \* its connections, a protocol and an address each,
  environment,  \* the environment of the program
  uptime,
  snapA, snapB, \* the files written
  diffAt,       \* "first" or "second" capture, "compare", "done"
  changes,      \* bound, and history: changes of the host between the captures
  exitCode

hostVars == <<processes, connections, environment, uptime>>
diffVars == <<hostVars, snapA, snapB, diffAt, changes, exitCode>>

None == [sections |-> <<>>, uptime |-> 0]

\* The processes and the connections a host can have.
IsHost(h) ==
  /\ DOMAIN h.processes \subseteq Pid /\ h.processes \in [DOMAIN h.processes -> Memory]
  /\ h.connections \subseteq ToSet(Protocol) \X Address

DiffTypeOK ==
  /\ IsHost([processes |-> processes, connections |-> connections])
  /\ DOMAIN environment \subseteq Variable /\ environment \in [DOMAIN environment -> VarValue]
  /\ uptime \in 1..MaxUptime
  /\ diffAt \in {"first", "second", "compare", "done"}
  /\ changes \in 0..MaxChanges
  /\ exitCode \in 0..2

DiffInitIn(hosts) ==
  /\ \E h \in hosts : processes = h.processes /\ connections = h.connections
  /\ environment = [v \in {} |-> 0]
  /\ uptime = 1
  /\ snapA = None /\ snapB = None
  /\ diffAt = "first"
  /\ changes = 0
  /\ exitCode = 0

-----------------------------------------------------------------------------
(* The host changes between the captures.                                  *)

With(f, k, v) == [x \in DOMAIN f \cup {k} |-> IF x = k THEN v ELSE f[x]]
Without(f, k) == [x \in DOMAIN f \ {k} |-> f[x]]

HostChange ==
  /\ diffAt = "second"
  /\ changes < MaxChanges
  /\ changes' = changes + 1
  /\ \/ /\ \/ \E p \in Pid, m \in Memory : processes' = With(processes, p, m)
           \/ \E p \in DOMAIN processes : processes' = Without(processes, p)
        /\ UNCHANGED <<connections, environment>>
     \/ /\ \E c \in ToSet(Protocol) \X Address :
             connections' \in {connections \ {c}, connections \cup {c}}
        /\ UNCHANGED <<processes, environment>>
     \/ /\ \/ \E v \in Variable, x \in VarValue : environment' = With(environment, v, x)
           \/ \E v \in DOMAIN environment : environment' = Without(environment, v)
        /\ UNCHANGED <<processes, connections>>
  /\ UNCHANGED <<uptime, snapA, snapB, diffAt, exitCode>>

UptimePasses ==
  /\ diffAt = "second"
  /\ uptime < MaxUptime
  /\ uptime' = uptime + 1
  /\ UNCHANGED <<processes, connections, environment, snapA, snapB, diffAt, changes, exitCode>>

-----------------------------------------------------------------------------
(* SnapshotGenerator.                                                      *)

\* capture_processes: by memory, the largest first, cut at max_processes.
\* std::sort leaves equal ones in any order.
CaptureProcesses ==
  LET sorted == {s \in SetToSeqs(DOMAIN processes) :
                   \A i \in 1..Len(s) - 1 : processes[s[i]] >= processes[s[i + 1]]}
      cut(s) == IF MaxProcesses > 0 /\ Len(s) > MaxProcesses THEN SubSeq(s, 1, MaxProcesses) ELSE s
  IN  {[i \in DOMAIN cut(s) |-> [pid |-> cut(s)[i], memory |-> processes[cut(s)[i]]]] : s \in sorted}

\* capture_network: one protocol's file after the other.
CaptureConnections ==
  LET Of(p) == LET a == SetToSeq({x \in Address : <<p, x>> \in connections})
               IN  [i \in DOMAIN a |-> [protocol |-> p, address |-> a[i]]]
  IN  FlattenSeq([i \in DOMAIN Protocol |-> Of(Protocol[i])])

\* capture_environment.  Values 2n and 2n + 1 differ after the eighth character.
CaptureEnvironment ==
  [v \in DOMAIN environment |->
     IF v \in Sensitive THEN environment[v] - (environment[v] % 2) ELSE environment[v]]

\* generate, with the sections the configuration includes.
Snapshots(included) ==
  {[sections |-> [s \in included |-> IF s = "processes" THEN p
                                     ELSE IF s = "connections" THEN CaptureConnections
                                     ELSE CaptureEnvironment],
    uptime |-> uptime] : p \in CaptureProcesses}

CaptureFirst ==
  /\ diffAt = "first"
  /\ snapA' \in Snapshots(Section)
  /\ diffAt' = "second"
  /\ UNCHANGED <<hostVars, snapB, changes, exitCode>>

\* The configuration may be another one by now.
CaptureSecond(included) ==
  /\ diffAt = "second"
  /\ snapB' \in Snapshots(included)
  /\ diffAt' = "compare"
  /\ UNCHANGED <<hostVars, snapA, changes, exitCode>>

-----------------------------------------------------------------------------
(* SnapshotDiff.                                                           *)

\* scalar_to_string: oss << num_val.  A number from Limit on (and below ten
\* times that) loses its last digit, rounded to the even one in a tie.
Shown(n) ==
  LET down == n - (n % 10)
  IN  IF n < Limit THEN n
      ELSE IF n % 10 < 5 \/ (n % 10 = 5 /\ (down \div 10) % 2 = 0) THEN down
      ELSE down + 10

\* extract_key: a connection's key has both addresses but not its protocol.
extract_key(item) ==
  IF "pid" \in DOMAIN item THEN <<"pid", Shown(item.pid)>> ELSE <<"conn", item.address>>

ItemKeys(items) == {extract_key(items[i]) : i \in DOMAIN items}

\* index_array: emplace keeps the first item of a key.
index_array(items) ==
  [k \in ItemKeys(items) |->
     items[CHOOSE i \in DOMAIN items :
             extract_key(items[i]) = k /\ \A j \in 1..i - 1 : extract_key(items[j]) # k]]

SameScalar(x, y) == Shown(x) = Shown(y)

\* Mutant: what only b has is not looked for.
MutantDiffFields(a, b) ==
  {f \in DOMAIN a : f \notin DOMAIN b \/ ~SameScalar(a[f], b[f])}

\* diff_fields: fields removed, changed, added.
DiffFields(a, b) ==
  {f \in DOMAIN a \cap DOMAIN b : ~SameScalar(a[f], b[f])}
  \cup (DOMAIN a \ DOMAIN b) \cup (DOMAIN b \ DOMAIN a)

\* diff_array_section: the keys removed, changed and added.
DiffArraySection(a, b) ==
  LET ia == index_array(a)
      ib == index_array(b)
  IN  (DOMAIN ia \ DOMAIN ib) \cup (DOMAIN ib \ DOMAIN ia)
      \cup {k \in DOMAIN ia \cap DOMAIN ib : DiffFields(ia[k], ib[k]) # {}}

SectionDiffers(s) ==
  LET a == snapA.sections
      b == snapB.sections
  IN  IF s \in DOMAIN a \cap DOMAIN b
      THEN IF s = "environment" THEN DiffFields(a[s], b[s]) # {}
           ELSE DiffArraySection(a[s], b[s]) # {}
      ELSE s \in DOMAIN a \cup DOMAIN b

\* run: any section, or the metadata, of which uptime_seconds changes.
Compare ==
  /\ diffAt = "compare"
  /\ exitCode' = IF \/ \E s \in Section : SectionDiffers(s)
                    \/ ~SameScalar(snapA.uptime, snapB.uptime)
                 THEN 1 ELSE 0
  /\ diffAt' = "done"
  /\ UNCHANGED <<hostVars, snapA, snapB, changes>>

\* A file is missing, too large, damaged, or not a snapshot.
CompareFails ==
  /\ diffAt = "compare"
  /\ exitCode' = 2
  /\ diffAt' = "done"
  /\ UNCHANGED <<hostVars, snapA, snapB, changes>>

DiffRest == diffAt = "done" /\ UNCHANGED diffVars

DiffNext ==
  \/ HostChange \/ UptimePasses
  \/ CaptureFirst
  \/ \E included \in SUBSET Section : CaptureSecond(included)
  \/ Compare \/ CompareFails
  \/ DiffRest

-----------------------------------------------------------------------------
(* Properties.                                                             *)

Items(snap, s) == IF s \in DOMAIN snap.sections THEN snap.sections[s] ELSE <<>>

UniqueKeys(snap) ==
  \A s \in Section \ {"environment"} : Cardinality(ItemKeys(Items(snap, s))) = Len(Items(snap, s))

ShownItem(item) == [f \in DOMAIN item |-> Shown(item[f])]

\* A snapshot as a set of facts, the order of its arrays forgotten.
Look(snap) ==
  [s \in DOMAIN snap.sections |->
     IF s = "environment" THEN ShownItem(snap.sections[s])
     ELSE {ShownItem(snap.sections[s][i]) : i \in DOMAIN snap.sections[s]}]

(***************************************************************************)
(* Exit code 0 means: the files say the same, as far as the digits shown   *)
(* go, if no two items of an array have the same key.  And a host that has *)
(* not changed gives 0, within the same shown second of uptime and with    *)
(* the same sections: sorting by memory and cutting the list adds no       *)
(* difference of its own unless processes tie (SnapshotGenerator,          *)
(* SnapshotDiff::run).                                                     *)
(***************************************************************************)
DiffHonest ==
  diffAt = "done" /\ exitCode # 2 =>
    /\ UniqueKeys(snapA) /\ UniqueKeys(snapB) =>
         (exitCode = 0 <=> /\ Look(snapA) = Look(snapB)
                           /\ Shown(snapA.uptime) = Shown(snapB.uptime))
    /\ /\ changes = 0 /\ Shown(snapA.uptime) = Shown(snapB.uptime)
       /\ DOMAIN snapA.sections = DOMAIN snapB.sections
       /\ \A p, q \in DOMAIN processes : processes[p] = processes[q] => p = q
       => exitCode = 0

=============================================================================
