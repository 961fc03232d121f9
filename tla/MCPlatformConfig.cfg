SPECIFICATION Spec
CONSTANTS
  Replicas = {a1, a2}
  Keys = {k1}
  Writes = {w1, w2, w3}
INVARIANTS
  TypeOK
  CacheIsCommitted
PROPERTIES
  SettledStays
  Converges
