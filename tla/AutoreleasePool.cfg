\* Up to eight pointers in four pages, pops three deep, in all four debugging
\* modes; with a page for each pool, -deallocs pop what they push.
CONSTANTS
  Objects = {a, b}
  POOL_BOUNDARY = POOL_BOUNDARY
  Capacity = 2
  LeftOpen = {FALSE}
  MaxPages = 4
  MaxCalls = 3
SPECIFICATION Spec
INVARIANTS
  PageInv
  PopsStandFirm
  WhileCanBeIf
PROPERTY
  ImplementsPoolStack
