CONSTANTS
  Host = {h1}
  Caller = {c1, c2}
  MaxFailures = 1
  OpenTimeout = 1
  HalfOpenMaxRequests = 1
  HookEffects = {}
SPECIFICATION Spec
INVARIANTS GaugeAgrees
