\* Two connections that cannot be pulled, three that can, a list of three.
SPECIFICATION FairSpec
CONSTANTS
  Connection = {1, 2, 3, 4, 5}
  Undriven = {2}
  Unsealed = {4}
  Windowed = {}
  Flaky = {1, 2, 3, 4, 5}
  Backlog <- JustSealed
  SweepLimit = 3
  NightBudget = 3
  MaxBehind = 3
INVARIANT TypeOK
PROPERTY EveryWalkableIsPulled
