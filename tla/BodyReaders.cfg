CONSTANTS
  Limit = 3
  Length = {0, 1, 2, 3, 4, 5}
  Buffer = {1, 2, 4}
SPECIFICATION ReaderSpec
INVARIANTS EndIsTheEnd WithinLimit
PROPERTIES RefusalIsFinal
