CONSTANTS
  Host = {h1}
  Caller = {c1, c2, c3}
  MaxFailures = 2
  OpenTimeout = 2
  HalfOpenMaxRequests = 2
  HookEffects = {}
SPECIFICATION RecoverySpec
INVARIANTS TypeOK ProbesWithinQuota FullWaitsForProbe ClosedBelowThreshold JudgedByItsOwn
PROPERTIES LegalTransitions ContractSpec Recovers
