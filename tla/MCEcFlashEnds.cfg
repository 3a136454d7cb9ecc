CONSTANTS
  NBlocks = 1
  NUnits = 2
  Images = {old, new}
  MaxRuns = 2
SPECIFICATION ToolSpec
PROPERTY
  OnlyDumpsHang
