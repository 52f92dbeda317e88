SPECIFICATION Spec
CONSTANTS
  Objects <- MCObjects
  Shapes <- MCShapes
  AsDecoded = "plain"
  Chamfer = "chamfer"
  Outside = "outside"
  Models <- MCModels
  Root = "r"
  MaxDepth = 4
  MaxNodes = 5
  MaxEdges = 5
  MaxBytes = 4
INVARIANTS CycleResultsNotReused
