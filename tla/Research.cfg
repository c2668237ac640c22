SPECIFICATION Spec
CONSTANTS
  None = None
  Lexicon <- MCLexicon
  Scenarios <- MCScenarios
  Run = {"g1", "g2"}
  ExcerptLimit = 43
  AnalysisExcerptLimit = 24
  AnalysisMaxSources = 2
  MaxSources = 2
  WindowChars = 12
  WindowTailMin = 5
  NavigationRun = 3
  QuoteLimit = 15
  QuoteMin = 7
  ReattributionMin = 11
  MaxConcurrency = 1
  SearchTimeout = 1
  ToolTimeout = 2
  StageTimeout = 3
  CacheTtl = 2
  LastStart = 2
INVARIANTS CacheIsSound StageIsContained StageIsHonest EvidenceStands
PROPERTIES StageEnds
CHECK_DEADLOCK FALSE
