\* The same timers, where clients move the one in two modes.
CONSTANTS
  m1 = m1
  m2 = m2
  t1 = t1
  t2 = t2
  Modes = {m1, m2}
  Timers = {t1, t2}
  Interval <- MCInterval
  Tolerance <- MCTolerance
  AddTo <- MCAddTo
  Movable = {t1}
  EarlyFires = FALSE
  AddsInvalid = FALSE
  MaxTime = 3
  MaxDepth = 2
  MaxDone = 4
SPECIFICATION Spec
INVARIANTS
  KernelTimerIsArmed
CHECK_DEADLOCK FALSE
