CONSTANTS
  IntBits = 14
  LongBits = 28
  Schemas <- MCUserProfile
  Samples <- MCSamples
  MaxHops = 1
SPECIFICATION Spec
INVARIANTS GoTranspileDecodes
CHECK_DEADLOCK FALSE
