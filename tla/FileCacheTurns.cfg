CONSTANTS
  Key = {k1, k2}
  Temp = {t1, t2, t3}
  NoName = NoName
  Worker = {w1}
  DataSize = {1, 2}
  MaxSize = 0
  TTL = 1
  Faults = FALSE
  MaxClock = 3
  MaxCalls = 5
  MaxCrashes = 1
SPECIFICATION CacheSpec
INVARIANTS SizeIsNotUnderstated 
 
CHECK_DEADLOCK FALSE
