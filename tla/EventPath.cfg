CONSTANTS
  t1 = t1
  t2 = t2
  h1 = h1
  h2 = h2
  Threads = {t1, t2}
  Hooks <- MCHooks
  Interest <- MCInterest
  RetryCount = 2
  MaxResults = 1
  RuleTable <- MCRuleTable
  Definitions <- MCDefinitions
  MaxEvents = 1
  MaxTime = 1
  Inputs <- MCInputs
  Alerting <- MCAlerting
  MaxAlerts = 2
  FirstRules <- MCFirstRules
  FilterRules <- MCFilterRules
  MaxInputs = 2
  MaxChanges = 1
SPECIFICATION Spec
INVARIANTS
  HighestPriorityWins
  FiringsJustified
  DeliveryDiscipline
PROPERTIES
  PathReturns
