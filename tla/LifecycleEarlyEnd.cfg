SPECIFICATION Spec
CONSTANTS
  Run = {a}
  Stream = {c}
  MaxProgress = 1
  Interruptions = {}
INVARIANT CompletedMeansReport
CHECK_DEADLOCK FALSE
