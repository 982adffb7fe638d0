SPECIFICATION MCSpec
CONSTANTS
  Value = {v1, v2}
  Generations = 6
  MaxInserts = 5
  P = 7
  ExpF <- MCExp
  LogF <- MCLog
  SqrtF <- MCSqrt
  RSqrtF <- MCRSqrt
  GeluF <- MCGelu
  GeluD <- MCGeluD
  Unit <- MCUnit
  LogEps = 2
  Inputs <- MCInputs
  Factors = {2}
  Shapes <- MCShapes
  AxisLists <- MCAxes
  Ranges <- MCRanges
  Epsilon = 1
  MaxHeld = 2
  Stages <- MCStages
  Bytes <- MCBytes
  Unreadable = "?"
  Kinds = {"TEXT", "F64"}
  ValueKinds = {"I64"}
  KeyKinds = {"TEXT"}
  Width = 1
  MaxObjects = 3
  MaxCells = 3
  Types <- MCTypes
  MaxI64 = 2
  SparseShapes <- MCSparseShapes
  Indices <- MCIndices
  MaxWrites = 3
  MaxUsize = 4
  Path <- MCPath
  FileSystems <- MCFileSystems
  Texts <- MCRouteTexts
  Blobs <- MCBlobs
  Pattern <- MCPattern
  FileModes = {384, 4096}
  MaxBytes = 3
  MaxRequests = 2
  MaxNumerus = 1
INVARIANTS
  RoutesAgree
  FreeListExact
  GradientIsDerivative
  BuffersSound
  QueriesAgree
  IntervalsSound
  SparseIsDense
PROPERTIES
  KeepsHandlesApart
  ImplementsCollections
CHECK_DEADLOCK FALSE
