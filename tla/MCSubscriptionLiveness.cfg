SPECIFICATION Spec
CONSTANTS
  Invoices = {i1, i2}
  Callbacks = {c1, c2}
  Operators = {a1}
  MaxTime = 2
  Grace = 1
  Month = 2
PROPERTIES
  OverdueIsSuspended
