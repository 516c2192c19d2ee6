CONSTANTS
  t1 = t1
  t2 = t2
  shared = shared
  sole = sole
  Thread = {t1, t2}
  Rule = {shared, sole}
  Match <- MCMatch
  Default <- MCDefault
  Threshold = 2
  Window = 1
  Cooldown = 1
  MaxAlerts = 2
  MaxTime = 2
  MaxEvents = 3
  MaxChanges = 1
SPECIFICATION Spec
INVARIANT CooldownPreventsSpam
