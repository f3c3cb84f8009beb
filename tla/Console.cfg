\* The console's views and editors and the routes they call.
SPECIFICATION Spec
CONSTANTS
  None = None
  a0 = a0
  a1 = a1
  a2 = a2
  a3 = a3
  a4 = a4
  b0 = b0
  c0 = c0
  c1 = c1
  c2 = c2
  w1 = w1
  w2 = w2
INVARIANTS
  DetailTrue
  DraftsKept
  IdentityKept
PROPERTIES
  TablesTrue
  EditsTold
  MovesFresh
  CollectionsKept
CHECK_DEADLOCK FALSE
