SPECIFICATION Spec
CONSTANTS
  Label <- MCLabelDoH
  Transport <- MCTransportDoH
  Threshold = 2
  CountCap = 2
INVARIANTS
  ReadyMeansConfigured
