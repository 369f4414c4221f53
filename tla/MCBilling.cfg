\* Two subscriptions, three events in any order, two invocations that overlap.
SPECIFICATION Spec
CONSTANTS
  Subscription = {s1, s2}
  Invocation = {i1, i2}
  MaxEvents = 3
SYMMETRY Interchangeable
CHECK_DEADLOCK FALSE
INVARIANTS TypeOK RowCatchesUp
PROPERTIES BackOnlyOverUnread 
