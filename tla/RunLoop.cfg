\* A mode with a source and one with a port; the callouts of both run the loop
\* again.
CONSTANTS
  m1 = m1
  m2 = m2
  s = s
  Modes = {m1, m2}
  Sources = {s}
  ModeSources <- MCModeSources
  PortModes = {m2}
  NestFrom = {"source0", "source1"}
  MaxDepth = 2
  MaxDone = 3
  MaxWakers = 1
SPECIFICATION FairSpec
INVARIANTS
  NoLostWakeUp
  BlocksInOrder
PROPERTIES
  SignalsArePerformed
  StopsAreObeyed
