SPECIFICATION Spec
CONSTANTS
  Purchases = {p1}
  Names = {n1}
  Callbacks = {c1, c2}
SYMMETRY Symmetry
PROPERTY ActiveStaysActive
CHECK_DEADLOCK FALSE
