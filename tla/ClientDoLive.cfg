CONSTANTS
  Host = {h1}
  Caller = {c1, c2}
  MaxFailures = 2
  OpenTimeout = 1
  HalfOpenMaxRequests = 1
  HookEffects = {}
  RetryMax = 1
  BreakerEnabled = TRUE
  Unauthorized = TRUE
  BodyLimit = TRUE
  Passthrough = FALSE
  StatusCheck = TRUE
  RetryOn = {"notImplemented", "throttled"}
  Half = 8192
  WaitSamples = {7, 100, 8191}
  AttemptTop = 12
SPECIFICATION DoFairSpec
INVARIANT WaitsAreBounded
PROPERTIES FairSpec  CallsReturn
