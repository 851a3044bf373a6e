\* Three objects, whose entries make the table grow from two indices to four
\* and be compacted again, and four variables, enough for an entry to outgrow
\* its two inline slots and for its own set to grow from four indices to eight.
CONSTANTS
  Objects = {o1, o2, o3}
  Locations = {w1, w2, w3, w4}
  Nil = Nil
  ObjectHashes = {1, 3}
  LocationHashes = {3}
  WEAK_INLINE_COUNT = 2
  FirstSize = 2
  ShrinkSize = 4
  ShrinkLoad = 4
  ShrinkBy = 2
SPECIFICATION Spec
SYMMETRY Symmetry
INVARIANTS
  TableInv
  NoBadTable
PROPERTIES
  ImplementsWeakVariables
