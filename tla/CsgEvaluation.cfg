SPECIFICATION EvaluationFairSpec
CONSTANTS
  Objects <- MCObjects
  Shapes <- MCShapes
  AsDecoded = "plain"
  Chamfer = "chamfer"
  Outside = "outside"
  Models <- PlannedModels
  Root = "r"
  MaxDepth = 4
  MaxNodes = 6
  MaxEdges = 7
  MaxBytes = 7
  EvaluatorDepth = 4
  EvaluatorNodes = 6
INVARIANTS
  CsgInv
  RequestIsAcyclic
  EveryOperandAccounted
  RequestMeansModel
  SolidIsComplete
PROPERTIES
  RefusesOnlyChamfers
  RequestIsSettled
