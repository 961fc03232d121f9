SPECIFICATION Spec
CONSTANTS
  Rows = {r1, r2}
  Loads = {l1, l2}
  Calls = {c1, c2}
  MaxVer = 3
  Kinds <- AllScreens
SYMMETRY Symmetric
INVARIANTS CopiesFollowTheList
CHECK_DEADLOCK FALSE
