\* Two threads and two objects in different side tables, one of them that of
\* nil.  The threads stop after their calls.
CONSTANTS
  t1 = t1
  t2 = t2
  o1 = o1
  o2 = o2
  Threads <- MCThreads
  Objects = {o1, o2}
  Locations = {l1, l2}
  Nil = Nil
  TableOf <- MCTableOf
  MaxCalls = 2
SPECIFICATION Spec
SYMMETRY Symmetry
INVARIANTS
  WeakInv
  NoDeadlock
PROPERTIES
  LoadsTouchNoFreedObject
  ImplementsWeakVariables
CHECK_DEADLOCK FALSE
