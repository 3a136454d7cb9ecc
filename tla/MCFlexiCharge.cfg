CONSTANTS
  Socs <- MCSocs
  Limits <- MCLimits
  NoRecord = NoRecord
  MaxResets = 2
SPECIFICATION Spec
INVARIANTS
  TypeOK
  SavesPending
  PolicySettled
  QuietBoot
PROPERTY
  ImplementsHysteresis
