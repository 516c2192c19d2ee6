\* Every command of the program.
CONSTANTS
  Commands = {"query", "diff", "validate", "watch", "session", "daemon"}
  Pools <- MCPools
  Options <- MCOptions
  Hosts <- MCHosts
  Pid = {9, 11, 12}
  Memory = {3, 12, 14, 15}
  Protocol <- MCProtocol
  Address = {1}
  Variable = {"HOME", "LD_PRELOAD"}
  Sensitive = {"LD_PRELOAD"}
  VarValue = {2, 3}
  MaxProcesses = 2
  Limit = 10
  MaxChanges = 2
  MaxUptime = 2
  IntMax = 99
  Lines <- MCLines
  MaxLines = 2
  Setting = {"interval", "other"}
  Interval = "interval"
  MaxEdits = 2
  MaxSeconds = 3
  MaxHups = 1
  Poller = {"p1", "p2"}
  Kinds <- MCKinds
  Keep = 1
  MaxMinute = 3
  MaxRecent = 2
  TailRecent = 2
  TailTypes = {"a"}
  Starter = {s1, s2, s3}
  Tailing = {s3}
  Versions <- MCVersions
  PartBound = 11
  MaxPolls = 2
SPECIFICATION ProgramSpec
INVARIANTS
  RoundTripExactlyIfClean
  DamageStaysLocal
  PagingSkipsNothing
  DiffHonest
  ValidatedMeansHonoured
  StatsConsistent
  TailKeepsOrder
  PidFileTellsTruth
  UpdateHonest
PROPERTIES
  EventuallyReloaded
  ShutdownCompletes
  UpdateReturns
