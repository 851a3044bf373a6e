\* A timer that repeats in two modes and one that fires once; clients move the
\* latter.  Time ends.
CONSTANTS
  m1 = m1
  m2 = m2
  t1 = t1
  t2 = t2
  Modes = {m1, m2}
  Timers = {t1, t2}
  Interval <- MCInterval
  Tolerance <- MCTolerance
  AddTo <- MCAddTo
  Movable = {t2}
  EarlyFires = FALSE
  AddsInvalid = FALSE
  MaxTime = 3
  MaxDepth = 2
  MaxDone = 3
SPECIFICATION FairSpec
INVARIANTS
  ListsAreSorted
  NoTimerForgotten
PROPERTIES
  DueTimersFire
CHECK_DEADLOCK FALSE
