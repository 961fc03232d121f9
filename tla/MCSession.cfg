SPECIFICATION Spec
CONSTANTS
  a1 = a1
  b1 = b1
  k1 = k1
  alice = alice
  bob = bob
  Tabs = {t1, t2}
  Sessions = {a1, b1, k1}
  Keys = {k1}
  Owners = {alice, bob}
  OwnerOf <- Owned
  Apps <- AllApps
SYMMETRY Symmetric
INVARIANTS TypeOK OneOwner LogoutEndsSession
CHECK_DEADLOCK FALSE
