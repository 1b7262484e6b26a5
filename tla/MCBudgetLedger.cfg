SPECIFICATION MCSpec
CONSTANTS
  rich = rich
  broke = broke
  Run = {rich, broke}
  Id = {i1, i2, i3}
  NoReservation = NoReservation
  Ceiling <- MCCeiling
  Tolerance = 1
  Amount <- MCAmount
  Actual <- MCActual
  MaxPaidCalls = 4
SYMMETRY Symm
INVARIANTS
  TypeOK
  ReservedIsOutstanding
  CeilingRespected
  ZeroBudgetNoPaidCalls
PROPERTY ImplementsSpendingCap
