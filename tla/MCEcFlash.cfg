CONSTANTS
  NBlocks = 2
  NUnits = 2
  Images = {old, new}
  MaxRuns = 2
SYMMETRY ImageSymmetry
SPECIFICATION Spec
INVARIANTS
  TypeOK
  ArmedMeansVerified
  SuccessMeansDone
  NoWorseThanFound
  OneMutationAfterStop
PROPERTY ImplementsGuardedReset
