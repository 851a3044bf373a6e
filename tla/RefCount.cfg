\* Two threads with up to two references each, and an extra_rc of a single
\* bit: the count goes to the side table and comes back with a few calls.
CONSTANTS
  Threads = {t1, t2}
  Slots = {n1, n2}
  RC_HALF = 1
  SpuriousFailure = TRUE
  NoThread = NoThread
SPECIFICATION FairSpec
INVARIANTS
  IInv
  CountIsConserved
  ObjectIsSafe
PROPERTIES
  OneDealloc
  EveryCallCompletes
  ImplementsStrongCount
