SPECIFICATION Spec
CONSTANTS
  r1 = r1  r2 = r2  t1 = t1  t2 = t2  w = w
  NoText = NoText
  SubCount = 2
  Ref = {r1, r2}
  Text = {t1, t2}
  Wording = {w}
  Terse = {}
  OnTopic <- MCOnTopic
  Sample <- MCSample
  MaxLeft = 2
  MaxRight = 3
  Known <- MCKnown
INVARIANTS
  MergeMatchesLoop
  PassesMatchLoops
CHECK_DEADLOCK FALSE
