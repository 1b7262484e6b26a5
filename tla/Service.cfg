SPECIFICATION ServiceFairSpec
CONSTANTS
  r1 = r1  r2 = r2  c1 = c1  d1 = d1
  Run = {r1, r2}
  Stream = {c1}
  Reader = {d1}
  MaxProgress = 1
  Interruptions = {"crash", "disconnect", "fault"}
  Packaged <- MCPackaged
  Loads <- MCLoads
INVARIANTS
  ServiceTypeOK
  ToldInOrder
  SucceededHasReport
  FailureOnRecord
  SearchableOnceUp
  IndexAgrees
  AnswerConsistent
  CostTold
PROPERTIES
  ImplementsOutcome
  RunsDecided
  StreamsEnd
  ComesUp
CHECK_DEADLOCK FALSE
