\* Three threads that nest two objects in the order of the addresses, each
\* twice, and that also exit objects they have not entered.
CONSTANTS
  Threads = {t1, t2, t3}
  Objects = {1, 2}
  MaxData = 2
  MaxDepth = 2
  Ordered = TRUE
  MaxCount = 2
  NoThread = NoThread
SPECIFICATION FairSpec
INVARIANTS
  MutualExclusion
  BlockInv
PROPERTIES
  EveryoneLeaves
