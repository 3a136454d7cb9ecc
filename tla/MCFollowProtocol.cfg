CONSTANT PageBytes = 2
CONSTANT MaxCommands = 2
SPECIFICATION Spec
INVARIANTS
  TypeOK
  StuckOnlyByReadCut
  NoStrayMutation
CHECK_DEADLOCK FALSE
