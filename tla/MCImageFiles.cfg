CONSTANTS
  a = a
  b = b
  link = link
  Names <- MCNames
  Files <- MCFiles
  Resolve <- MCResolve
  First = a
  Starts <- MCStarts
  Ranges <- MCRanges
  MaxCommands = 3
SPECIFICATION Spec
INVARIANTS
  TypeOK
  HooksMatchCave
  SourceSurvives
  DumpsAreAtomic
CHECK_DEADLOCK FALSE
