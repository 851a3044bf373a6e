\* A class and its subclass, whose cache grows from two buckets to four and is
\* then emptied for the third selector.
CONSTANTS
  Threads = {t1, t2}
  NoThread = NoThread
  Root = Root
  Sub = Sub
  Classes = {Root, Sub}
  NoClass = NoClass
  Super <- MCSuper
  Sels = {2, 4, 6}
  Messages <- MCMessages
  Changed = {2}
  InitCacheSize = 2
  LoadNum = 1
  LoadDen = 2
  MaxCapacity = 4
  GarbageThreshold = 3
  MaxBlocks = 2
  FirstMethods <- MCFirstMethods
  MaxChanges = 1
SPECIFICATION Spec
INVARIANTS
  ReadersAreSafe
  DispatchIsCurrent
  CachesAreCurrent
  RoomInEveryCache
SYMMETRY ThreadSymmetry
