CONSTANTS
  Socs <- MCSoc
  Limits <- MCTwoLimits
  NoRecord = NoRecord
  MaxResets = 1
SPECIFICATION FairSpec
PROPERTY
  SettledLimitsRest
