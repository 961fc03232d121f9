SPECIFICATION Spec
CONSTANTS
  Orders = {o1}
  Requests = {r1, r2, r3}
  MaxInFlight = 1
  StaffStatuses = {"shipped"}
SYMMETRY Symmetry
INVARIANT ReconcileRepairs
