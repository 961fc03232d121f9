SPECIFICATION Spec
CONSTANTS
  Invoices = {i1, i2}
  Callbacks = {c1, c2, c3}
  Operators = {a1, a2}
  MaxTime = 3
  Grace = 1
  Month = 2
SYMMETRY Symmetry
INVARIANTS
  TypeOK
  PaidIsPaid
  MarkFollowsStatus
  LockedOutForAReason
PROPERTIES
  PaidStaysPaid
  GraceIsWhole
