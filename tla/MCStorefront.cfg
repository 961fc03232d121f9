SPECIFICATION Spec
CONSTANTS
  Tabs = {t1, t2}
  Products = {p1}
  Orders = {o1, o2}
  MaxQty = 1
  Timeout = 0
  StaffStatuses = {"paid", "other"}
INVARIANTS
  TypeOK
  ConfirmedOnlyIfPaid
  OneCallPerForm
PROPERTIES
  LinesLeaveForAReason
  OnlyAddPutsIn
  KeepsPromise
  PollingEnds
