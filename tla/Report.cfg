SPECIFICATION RunSpec
CONSTANTS
  u1 = u1  u2 = u2  d1 = d1  d2 = d2
  old = old  new = new  short = short  w1 = w1  w2 = w2
  NoText = NoText
  NoReservation = NoReservation
  SubCount = 2
  Ref = {u1, u2}
  Text = {old, new, short}
  LongText = {old, new}
  Wording = {w1}
  Terse = {1}
  OnTopic <- SharedTopics
  Budget = 6
  Tolerance = 1
  CallCost = 3
  Bills = {1, 4}
  SearchCost = 2
  SearchErrors = {"controlled"}
  ToolLimit = 4
  HitLists <- FoundHits
  Pages <- FoundPages
  DocRows <- NoRows
  ChunkText <- NoChunks
  Requests = {"web"}
  Plans <- WebPlans
  PlanAlias = {"none", "paid"}
  RouteAlias = {"none", "free", "paid"}
  RouteCost = 2
  MaxRounds = 2
  WriteAlias = {"none", "paid"}
  Numbered <- NumberedClaims
INVARIANTS
  ReportTypeOK
  AcceptedGrounded
  HandoverHonest
  NothingLeftReserved
  GapsDisclosed
  RejectedStaysOut
  ApprovedCitesSources
PROPERTIES
  CoveredLeftAlone
  LedgerSpec
