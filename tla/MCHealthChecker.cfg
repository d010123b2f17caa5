SPECIFICATION FairSpec
CONSTANTS
  Label <- MCLabel
  Transport <- MCTransport
  Threshold = 2
  CountCap = 2
INVARIANTS
  TypeOK
  VerdictsAgree
  VerdictsAccounted
PROPERTIES
  SteadyUpstreamHealthy
  DeadUpstreamUnhealthy
