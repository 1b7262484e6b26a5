SPECIFICATION Spec
CONSTANTS
  u1 = u1  u2 = u2  d1 = d1  d2 = d2
  old = old  new = new  short = short  w1 = w1  w2 = w2
  NoText = NoText
  NoReservation = NoReservation
  SubCount = 2
  Ref = {u1}
  Text = {old, new, short}
  LongText = {old, new}
  Wording = {w1}
  Terse = {1}
  OnTopic <- SharedTopics
  Budget = 0
  Tolerance = 0
  CallCost = 2
  Bills = {1}
  SearchCost = 0
  SearchErrors = {"controlled"}
  ToolLimit = 4
  HitLists <- SharedHits
  Pages <- SharedPages
  DocRows <- NoRows
  ChunkText <- NoChunks
  Requests = {"web"}
  Plans <- WebPlans
  PlanAlias = {"none"}
  RouteAlias = {"none", "free"}
  RouteCost = 1
  MaxRounds = 2
INVARIANT JoinDeduplicates
