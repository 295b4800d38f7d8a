CONSTANTS
  Key = {k1}
  Temp = {t1, t2, t3}
  NoName = NoName
  Worker = {w1, w2}
  DataSize = {1, 2, 3}
  MaxSize = 2
  TTL = 1
  Faults = TRUE
  MaxClock = 2
  MaxCalls = 3
  MaxCrashes = 1
SPECIFICATION CacheSpec
INVARIANTS CacheTypeOK EntriesAreWhole  SizeNeverNegative
PROPERTIES CacheContractSpec
CHECK_DEADLOCK FALSE
