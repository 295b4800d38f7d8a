CONSTANTS
  RoundTrip = {r1, r2, r3}
  CallerDial = FALSE
  CallerTLS = TRUE
  Trust = TRUE
SYMMETRY Symmetry
SPECIFICATION DialSpec
INVARIANTS DialTypeOK EveryHopIsJudged ProxiesAreReachable
CHECK_DEADLOCK FALSE
