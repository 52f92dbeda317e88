SPECIFICATION GeometrySpec
CONSTANTS
    Links <- MCLinks
    End <- MCEnd
    CurveRecord = 48
    PointBytes = 24
    MeshRecord = 56
    PositionBytes = 4
    IndexBytes = 4
    VisitBytes = 4
    NonPartModels <- MCNonPartModels
    ChunkRecord = 32
    PairBytes = 16
    WeldRowRecord = 32
INVARIANTS
    RetainedIsPaid
    LinkedRowsRead
    BarsFit
    WeldsWhole
    EveryElementAnswered
