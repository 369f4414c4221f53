\* Two runs that overlap, two rows, a figure that is restated to null.
SPECIFICATION Spec
CONSTANTS
  k1 = k1
  k2 = k2
  Key = {k1, k2}
  Window <- OneWindow
  History <- Disappearing
  Run = {r1, r2}
  MaxRun = 1
INVARIANTS TypeOK ConsumerKeepsUp NothingStaleBehindTheMark
PROPERTIES FinalityClears RowsCatchUp
