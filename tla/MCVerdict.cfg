CONSTANTS
  Host = {h1, h2, h3}
  Caller = {c1, c2}
  MaxEntries = 2
  DenyTTL = 2
  AllowTTL = 1
  Nobody = Nobody
  MaxClock = 2
SYMMETRY Symmetry
SPECIFICATION VerdictSpec
INVARIANTS VerdictTypeOK Bounded ChangesTakeEffect
