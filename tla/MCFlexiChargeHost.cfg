CONSTANTS
  Socs <- MCSocs
  Limits <- MCLimits
  MaxCommands = 2
SPECIFICATION FairSpec
INVARIANTS
  TypeOK
  KeptUnlessLost
  PassCoherent
  DisableReleasesUnlessLost
PROPERTY
  Converges
