\* Three variables are enough to move an entry out of line and empty it.
CONSTANTS
  Objects = {o1}
  Locations = {w1, w2, w3}
  Nil = Nil
  ObjectHashes = {3, 7}
  LocationHashes = {3, 7}
  WEAK_INLINE_COUNT = 2
  FirstSize = 4
  ShrinkSize = 8
  ShrinkLoad = 4
  ShrinkBy = 2
SPECIFICATION Spec
INVARIANTS
  EmptyEntriesRemoved
