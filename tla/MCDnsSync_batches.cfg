SPECIFICATION Spec
CONSTANTS
  h1 = h1
  h2 = h2
  z1 = z1
  z2 = z2
  t1 = t1
  t2 = t2
  Foreign = Foreign
  Hosts = {h1, h2}
  Zones = {z1, z2}
  Tunnels = {t1}
  ZoneOf <- SharedZone
  UserContent <- UserForeign
  MaxBatch = 1
  Reconciles = FALSE
SYMMETRY SameZone
INVARIANTS
  TypeOK
  Converged
PROPERTIES
  NoForeignHarm
CHECK_DEADLOCK FALSE
