CONSTANTS
  Host = {h1}
  Caller = {c1}
  MaxFailures = 1
  OpenTimeout = 1
  HalfOpenMaxRequests = 1
  HookEffects = {"fail"}
  RetryMax = 0
  BreakerEnabled = TRUE
  Unauthorized = TRUE
  BodyLimit = TRUE
  Passthrough = FALSE
  StatusCheck = FALSE
  RetryOn = {}
  Half = 8192
  WaitSamples = {7, 100, 8191}
  AttemptTop = 12
SPECIFICATION DoFairSpec
PROPERTIES HalfOpenIsDecided
