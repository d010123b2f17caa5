SPECIFICATION FairSpec
CONSTANTS
  Config = {c1, c2}
  Proc = {p1, p2}
  None = None
  Torn = Torn
INVARIANTS
  OneEngine
  NoEngineAfterStop
  ConfigAgreement
PROPERTIES
  EngineRecovers
  ReloadIsTransaction
  EngineCatchesUp
  ShutdownCompletes
CHECK_DEADLOCK FALSE
