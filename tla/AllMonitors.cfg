CONSTANTS
  Key = {k1, k2}
  Data = {"x", "y"}
  Mode = {"rw"}
  Kinds = {"filesystem", "process", "network", "system_config", "user_activity", "service",
           "file_integrity", "usb_device", "port", "package", "environment"}
  MaxChanges = 2
  MaxStarts = 4
  MaxLines = 3
  MaxRotations = 2
  MaxTruncations = 1
  MaxObjects = 2
  Mount = {m1, m2}
  Usage = {50, 85, 97}
  Thresholds <- MCThresholds
  Step = 5
  CpuThreshold = 90
  MaxJiffies = 2
  MaxLoadChanges = 3
  MaxLoadStarts = 4
SPECIFICATION AllSpec
INVARIANTS
  EventsReproduceSnapshot
  NoSpuriousEvents
  NoLineSkipped
  CrossingsReportedOnce
PROPERTIES
  EventuallyConsistent
  EventuallySeen
  LoadEventuallyKnown
