CONSTANTS
  IPv4 <- IPv4Kinds
  IPv6 = {"lo6"}
  Metadata = {"imds"}
  Private = {"lo4", "lo6", "imds"}
  Loopback = {"lo4", "lo6"}
  Name = {"example", "localhost", "metadata"}
  LoopbackName = {"localhost"}
  MetadataName = {"metadata"}
  Resolver = {"default", "own"}
  DefaultResolver = "default"
  Unset = Unset
  Malformed = Malformed
  Absent = Absent
  Default <- DefaultLayer
  Client = {c1, c2}
  Stack <- Stacks
  ConfigPolicy <- Policies
  Target <- Targets
  Redirect <- Redirects
  Lookup <- Answers
  DefaultMaxRedirects = 3
  MaxRedirectsGiven = {0}
  Unwritable = {"readonly"}
  MaxBuilds = 2
  MaxCalls = 2
SPECIFICATION ClientsSpec
INVARIANTS  ServedIsJudged ConfigIsHonoured RefusedForCause
PROPERTIES RedirectsEnd
CHECK_DEADLOCK FALSE
