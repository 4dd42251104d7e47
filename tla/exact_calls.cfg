SPECIFICATION Spec
CONSTANTS
  MaximumPrimarySupport = 4
  HighTag = 3
  BlockCandidates = 2
  TopK = 2
  Shortlist = 4
  MaxSegments = 3
  EFUniverse = 9
  WordBits = 3
  PendingCapacity = 4
  Lanes = 2
  MaxDecodedRows = 10
  BatchIds = 2
  DirectoryBits = 2
  Widths = {1, 2, 4}
  VectorBytes = 128
  SeedRows = 3
  BatchRows = 3
  SplitRow = 8
  PerFamily = 2
  MaxImprovements = 256
  BlockWidth = 2
  NumBlocks = 10
  WidestNode = 8
  BoundaryFactor = 1
  GateQueries = 2
  GateHits = 3
  LastStage = 2
  PassRuns = 2
  Attempts = 2
  TokenAtoms = 2
  EndpointBins = 5
  MaxEdges = 4
  ResidentPairs = 2
  RecallNum = 1
  RecallDen = 2
  WordSize = 16
  Calls <- MCCalls
INVARIANTS
  PairIsExact
  TopsAreExact
  CodecIsExact
  CompositorsAreExact
  LayoutsAgree
  SelectionIsSound
  ChecksAreExact
  RangesLoseOnlyAtBoundaries
  StagesAreGated
  BlocksAreSound
CHECK_DEADLOCK FALSE
