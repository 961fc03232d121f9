SPECIFICATION Spec
CONSTANTS
  Purchases = {p1, p2}
  Names = {n1, n2}
  Callbacks = {c1, c2, c3}
SYMMETRY Symmetry
INVARIANTS
  TypeOK
  NeverBoughtUnpaid
  ActiveIsBought
  AnsweredIsSettled
  FailedThoughBought
PROPERTY OnlyAReplayUndoes
CHECK_DEADLOCK FALSE
