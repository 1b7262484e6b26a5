SPECIFICATION Spec
CONSTANTS
  u1 = u1  u2 = u2  d1 = d1  d2 = d2
  old = old  new = new  short = short  w1 = w1  w2 = w2
  NoText = NoText
  NoReservation = NoReservation
  SubCount = 2
  Ref = {u1, d1}
  Text = {old, new, short}
  LongText = {old, new}
  Wording = {w1}
  Terse = {}
  OnTopic <- StableTopics
  Budget = 6
  Tolerance = 1
  CallCost = 3
  Bills = {1, 4}
  SearchCost = 2
  SearchErrors = {"controlled"}
  ToolLimit = 4
  HitLists <- SharedHits
  Pages <- StablePages
  DocRows <- MoneyRows
  ChunkText <- SharedChunks
  Requests = {"both"}
  Plans <- MoneyPlans
  PlanAlias = {"none", "paid"}
  RouteAlias = {"none", "paid"}
  RouteCost = 2
  MaxRounds = 2
INVARIANT BilledWithinBudget
