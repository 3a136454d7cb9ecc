CONSTANTS
  Socs <- MCSocs
  Limits <- MCOneWindow
  MaxCommands = 2
SPECIFICATION Spec
INVARIANT
  DisableReleases
