SPECIFICATION FairSpec
CONSTANTS
  Geometries <- MCGeometries
  Recipes = {"plain", "cut", "boxed"}
  ObjectIds = {1, 2, 3, 4, 5, 6, 7, 8, 9}
  Origins <- MCOrigins
  Axes <- MCAxes
  RigidAxes <- MCRigidAxes
  WorldAxes <- East
  BoxAxes <- MCBoxAxes
  Boxed = {"boxed"}
  Near <- MCNear
  FirstPoint <- MCFirstPoint
  Local <- MCLocal
  World <- MCWorld
  Shift <- MCShift
  Solid <- MCSolid
  Float <- MCFloat
  Size <- MCSize
  Parts <- MCParts
  PartLists <- MCPartLists
  Codes = {"invalid_topology", "geometry_timeout", "geometry_backend_crash", "resource_limit"}
  CacheDisabled = FALSE
  MaxEntries = 2
  MaxBytes <- MCBytes
INVARIANTS TopologyInv BytesAreCounted
PROPERTIES IsAnswers EveryPartIsAnswered
