SPECIFICATION Spec
CONSTANTS
  Builders = {b1, b2}
  DatasetPool <- MCDatasets
  PolicyPool <- MCPolicies
  IncidentPool <- MCIncidents
  MinCorrelation = 70
  IncidentLimit = 1
  MaxBuilds = 3
  MaxChanges = 2
  LedgerInstances = {i1, i2}
  Proposals = {p1, p2}
  MaxLedgerRequests = 5
  Curators = {t1, t2}
  CuratedHosts = {h1, h2}
  CuratedPolicies = {q1, q2}
  RuleIds = {r1, r2}
  Incidents = {n1}
  MaxCurations = 4
  Gates = {g1, g2}
  Paths <- MCPaths
  Tokens <- MCTokens
  RateLimit = 1
  RedisFails = TRUE
  MaxRequests = 2
  Threads = {l1, l2}
  MaxQueries = 5
  Jobs <- MCJobs
  ConnectorKinds <- MCKinds
  MaxEvents = 1
  MaxJobs = 2
  KnowledgeInputs <- MCKnowledgeInputs
  PlatformInputs <- MCPlatformInputs
  Scale = 2
  Buckets = 2
  MinSamples = 4
  Stride = 2
  MinImprovement <- MCMinImprovement
  Rules <- MCRules
  Window = 4
  MinSegment = 2
  Period = 2
  MinCycles = 2
  Precision = 4
  Unit = 2
  ZUnits = 2
  RecentWindow = 4
  MinPersistencePoints = 3
  MinTrendPoints = 3
  MinBaselinePoints = 3
  MinSeasonalityPoints = 3
  MinTrainRows = 2
  NaivePeriod = 2
  WinsorPercent = 25
  DeviationThreshold = 20
  TopK = 2
  SemanticThreshold = 60
  ChunkThreshold = 50
  ChunkSize = 10
  Overlap = 2
  Threshold = 50
  RRFK = 2
  DuplicateAt = 60
  MaxPerDocument = 1
  SectionWindow = 1
  EntityBonus = 10
  MaxEntityBonus = 15
  DocTypeBonus = 5
  RecencyBonus = 5
  MaxQueryAttempts = 3
  RAGTopK = 2
  MinCauseWords = 3
  VagueCauses <- MCVague
  DepthCeiling = 3
  NodesCeiling = 5
  EdgesCeiling = 9
  HopCeiling = 2
  DefaultBudget <- MCBudget
  DefaultStageLimit = 2
  MaxStageLimit = 3
  TrendStep <- MCStep
  CauseGap = 15
  ConfidenceCap = 50
  ActionLabels <- MCLabels
SYMMETRY MCSymmetry
INVARIANTS
  GraphSound
  LastDecisionApplies
  AccessSound
  OutsideCallsSound
  ConnectorsSound
  CompositionSound
  CalibrationSound
  DetectionSound
  ForecastSound
  RetrievalSound
  KnowledgeSound
  PlatformSound
  RecordSound
PROPERTIES
  DecidedOnce
CHECK_DEADLOCK FALSE
