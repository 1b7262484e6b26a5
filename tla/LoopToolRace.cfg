SPECIFICATION FairSpec
CONSTANTS
  u1 = u1  u2 = u2  d1 = d1  d2 = d2
  old = old  new = new  short = short  w1 = w1  w2 = w2
  NoText = NoText
  NoReservation = NoReservation
  SubCount = 1
  Ref = {u1, u2, d1, d2}
  Text = {old, new, short}
  LongText = {old, new}
  Wording = {w1, w2}
  Terse = {}
  OnTopic <- RaceTopics
  Budget = 0
  Tolerance = 0
  CallCost = 2
  Bills = {1}
  SearchCost = 0
  SearchErrors = {"controlled", "transport"}
  ToolLimit = 4
  HitLists <- RaceHits
  Pages <- RacePages
  DocRows <- RaceRows
  ChunkText <- RaceChunks
  Requests = {"web", "documents", "both"}
  Plans <- RacePlans
  PlanAlias = {"none", "free"}
  RouteAlias = {"none", "free"}
  RouteCost = 1
  MaxRounds = 2
INVARIANTS
  CallsWithinLimit
  FactsHaveSources
PROPERTIES
  KeepsContract
  RunEnds
