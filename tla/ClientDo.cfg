CONSTANTS
  Host = {h1}
  Caller = {c1, c2}
  MaxFailures = 2
  OpenTimeout = 1
  HalfOpenMaxRequests = 1
  HookEffects = {"fail"}
  RetryMax = 1
  BreakerEnabled = TRUE
  Unauthorized = TRUE
  BodyLimit = TRUE
  Passthrough = TRUE
  StatusCheck = FALSE
  RetryOn = {}
  Half = 8192
  WaitSamples = {7, 100, 8191}
  AttemptTop = 12
SPECIFICATION DoSpec
INVARIANTS DoTypeOK  ReturnedIsChecked  ConcurrentIsExact
PROPERTIES CallSpec
