\* The program started with --report, two monitors.
CONSTANTS
  Poller = {"p1", "p2"}
  Kinds <- MCKinds
  Keep = 1
  MaxMinute = 1
  MaxRecent = 2
  TailRecent = 2
  TailTypes = {"a"}
SPECIFICATION ReportSpec
PROPERTIES
  ReportCompletes
