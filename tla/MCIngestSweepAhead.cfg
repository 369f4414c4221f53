\* A Worker's clock may be ahead of the database's, or behind it.
SPECIFICATION Spec
CONSTANTS
  Connection = {c1}
  Walked = {c1}
  Windowed = {}
  Sealed = {c1}
  Instance = {s1, s2}
  NoInstance = none
  SweepLimit = 1
  Lease = 1
  WallClock = 1
  Day = 2
  ChunkSpan = 1
  Behind = 1
  Ahead = 1
  MaxTime = 4
SYMMETRY Interchangeable
CHECK_DEADLOCK FALSE
INVARIANTS
  CheckpointNotAhead
