SPECIFICATION Spec
CONSTANTS
  Rows = {r1, r2}
  Loads = {l1, l2}
  Calls = {c1, c2}
  MaxVer = 3
  Kinds <- AllScreens
CONSTRAINT OneRowChanges
SYMMETRY Symmetric
INVARIANTS TypeOK ShownIsCurrent SavesItsOwnRow
PROPERTIES NeverBackwards
CHECK_DEADLOCK FALSE
