\* Two tabs, two requests at a time, two accounts.
SPECIFICATION Spec
CONSTANTS
  f1 = f1 f2 = f2 r1 = r1 r2 = r2 a1 = a1 a2 = a2
  Flow = {f1, f2}
  Request = {r1, r2}
  Account = {a1, a2}
  TTL = 0
  SweepAge = 0
  Drift <- ClockDrift
  MaxTime = 1
SYMMETRY Symmetry
CHECK_DEADLOCK FALSE
INVARIANTS TypeOK FiledAsAsked ToldTruth
