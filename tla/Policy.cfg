SPECIFICATION PolicySpec
CONSTANTS
  r1 = r1  r2 = r2
  Run = {r1, r2}
  Name <- ModelName
  Catalog <- AarCatalog
  Alphabetical <- AarAlphabetical
  Allowance = 1
  Latency = {0, 1}
  EarlierRows <- MCEarlierRows
  StoreFaults = TRUE
  Starts <- MCStarts
  FactCounts = {0, 9}
  MaxSummaries = 3
  CostPoints <- MCCostPoints
  PlanningTokens = {1400}
  PromptTokens = {900, 2000}
  Usages <- MCUsages
INVARIANTS
  PolicyTypeOK
  AveragesInRange
  SamplesLostOnlyByOverlap
  PreferenceCostsNothing
  MoneyNeverChangesModel
  DeeperNeverWeaker
  LearnedUnlessWarned
PROPERTIES
  EveryRunEnds
