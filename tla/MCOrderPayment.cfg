SPECIFICATION Spec
CONSTANTS
  Orders = {o1}
  Requests = {r1, r2, r3, r4}
  MaxInFlight = 3
  StaffStatuses = {"shipped", "cancelled"}
SYMMETRY Symmetry
INVARIANTS
  TypeOK
  PaidOnlyIfCollected
  SuccessIsAccountedFor
  AcknowledgedIsAccountedFor
  MailFollowsConfirmation
  DeliveryFollowsPaid
  GivenForMoney
PROPERTIES
  SettledIsQuiet
  KeepsPromise
