\* Seven rows, a limit of one or two, a cap of three.
SPECIFICATION FairSpec
CONSTANTS
  Key <- SomeRows
  MaxRows = 3
  MaxLimit = 2
  From = 2
  To = 3
CHECK_DEADLOCK FALSE
INVARIANTS TypeOK NothingSkipped NothingTwice
PROPERTY PagingEnds
