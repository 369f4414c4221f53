\* Every reading of the bounds; the pinned second is the one in progress.
SPECIFICATION FairSpec
CONSTANTS
  Order = {o1, o2, o3}
  PageSize = 1
  MaxPages = 2
  FloorMaxPages = 2
  MaxWindows = 3
  ChunkSpan = 2
  Lag = 0
  MaxTime = 3
CHECK_DEADLOCK FALSE
INVARIANTS TypeOK NothingBehindTheMark
PROPERTY RunEnds
