SPECIFICATION Spec
CONSTANTS
    GridSize = 2
    MostCorners = 5
    MostHoles = 3
    Orders <- Drawings
    Shapes <- CatalogShapes
    Members <- FittedBars
    Jobs <- Cuts
    Tolerance = 6
    Crossing = 4
    Touching = 1
    Overrun = 8
    Requests <- Wishes
    Answers <- Findings
    MaximumNodes = 2
    MaximumLoops = 3
    MaximumSections = 4
    MaximumCoordinates = 15
    MaximumBytes = 560
    Streams <- Deliveries
    JsonSizes = {5, 40}
    SizeLimit = 700
INVARIANTS
    CapsTile
    SolidsClose
    LengthIsFitted
    CuttersReachThrough
    MessageSurvives
    FileHoldsStream
CHECK_DEADLOCK FALSE
