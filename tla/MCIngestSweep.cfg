SPECIFICATION Spec
CONSTANTS
  Connection = {c1, c2}
  Walked = {c1}
  Windowed = {c2}
  Sealed = {c1, c2}
  Instance = {s1, s2}
  NoInstance = none
  SweepLimit = 2
  Lease = 1
  WallClock = 1
  Day = 2
  ChunkSpan = 1
  Behind = 1
  Ahead = 0
  MaxTime = 4
SYMMETRY Interchangeable
CHECK_DEADLOCK FALSE
INVARIANTS
  TypeOK
  LeaseExclusion
  NoHole
PROPERTIES
  LeaseIsKept
  WatermarkNeverRegresses
  StampOnlyCompleteRuns
  ImplementsContract
