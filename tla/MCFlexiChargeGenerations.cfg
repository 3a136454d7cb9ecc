CONSTANTS
  Socs <- MCSocs
  Limits <- MCLimits
SPECIFICATION Spec
INVARIANTS
  TypeOK
  DifferOnlyByKeptSession
PROPERTIES
  V21ImplementsHysteresis
