SPECIFICATION Spec
CONSTANTS
  Char = {".", "*", "x", "y", "z"}
  Handler = {h1, h2}
  k1 = k1
  k2 = k2
  Key <- MCKey
  Name <- MCName
  Rules <- MCRules
  NoKey = NoKey
  Upstream = {u1}
  Second = 2
  RecordTTL = {0, 2}
  MaxEntries = 1
  DefaultTTL = 2
  StaleTTL = 1
  MaxTime = 4
SYMMETRY Symmetry
INVARIANTS
  FallbackUsed
