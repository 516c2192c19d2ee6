CONSTANTS
  RotateBytes = 2
  FileCounts = {1, 3}
  PruneTo = {1}
  Heights = {1, 2}
  MayFail = TRUE
  MaxEvents = 4
  MaxCrashes = 2
  MaxTorn = 2
  MaxCalls = 4
SPECIFICATION Spec
INVARIANTS
  NoEventLost
  BackupsInOrder
  CountersMatchFile
  CrashDamageBounded
