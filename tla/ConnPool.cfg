SPECIFICATION FairSpec
CONSTANTS
  Handler = {h1, h2}
  Conn = {c1, c2, c3, c4}
  MaxPerNetwork = 1
  NoConn = NoConn
INVARIANTS
  TypeOK
  NoSharing
  NoLeak
  OwnAnswer
PROPERTIES
  PoolOwnsConnections
