SPECIFICATION Spec
CONSTANTS
  Auditor = {a1, a2}
  Checks <- TwoChecks
  StartupChecks <- ConfigCheck
  DriftChecks <- ParserCheck
  Free = free
  Window = 1
  Deployments <- AloneOrTogether
  Bound <- Bounds
  MaxProbe = 2
  MaxSlip = 1
  Cooldown = 2
  MaxMoment = 4
  LastHour = 3
  Budget <- Ages
  MaxChange = 2
INVARIANTS
  IntegrityTypeOK
  OneLiveRun
  PassedIsEarned
  RecordsAgree
  ProbesAreBounded
  HealthIsHonest
PROPERTIES
  RunsSettle
CHECK_DEADLOCK FALSE
