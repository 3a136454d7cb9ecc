CONSTANTS
  NBlocks = 1
  NUnits = 1
  Images = {old, new}
  MaxRuns = 2
SPECIFICATION ToolSpec
PROPERTY
  EveryRunEnds
