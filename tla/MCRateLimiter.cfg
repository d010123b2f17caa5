SPECIFICATION Spec
CONSTANTS
  Handler = {h1, h2}
  Source = {s1, s2}
  Fresh = {b1, b2}
  NoBucket = NoBucket
  GlobalCost = 1
  GlobalBurst = 2
  SourceCost = 2
  SourceBurst = 2
  MaxSources = 1
  StateTTL = 1
  CleanupEvery = 2
  MaxTime = 3
SYMMETRY Symmetry
INVARIANTS
  TypeOK
  OverAdmissionBounded
  BucketsOwned
PROPERTIES
  ActiveKeepsBucket
