SPECIFICATION FairSpec
CONSTANTS
  h1 = h1
  h2 = h2
  z1 = z1
  z2 = z2
  t1 = t1
  t2 = t2
  Foreign = Foreign
  Hosts = {h1}
  Zones = {z1}
  Tunnels = {t1, t2}
  ZoneOf <- SoleZone
  UserContent <- UserForms
  MaxBatch = 1
  Reconciles = TRUE
INVARIANTS
  Converged
PROPERTIES
  LiveDeleteIsResynced
  DeletesOnlyRouted
  NoForeignHarm
  SettlesDown
CHECK_DEADLOCK FALSE
