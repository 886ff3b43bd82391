CONSTANTS
  MaxDimension = 7
  DefaultExtent = 2
  Slices <- MCSlices
  Grids <- MCGrids
  Ranges <- MCRanges
  Indices <- MCIndices
  MaxCalls = 5
SPECIFICATION Spec
CHECK_DEADLOCK FALSE
INVARIANTS ScanGivesRecords RowsAndColumns ReadPanics InputsStored
