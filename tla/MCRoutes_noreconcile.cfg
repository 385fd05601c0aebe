SPECIFICATION FairSpec
CONSTANTS
  web = web
  api = api
  dup = dup
  old = old
  r1 = r1
  r2 = r2
  h1 = h1
  h2 = h2
  N = 1
  Services = {web}
  Owner <- SoleOwner
  Route <- SoleRoute
  Host <- SoleHost
  Policy <- SolePolicy
  ReconcileEnabled = FALSE
  Capacity = 2
  Budget = 2
PROPERTIES
  RetentionEnds
CHECK_DEADLOCK FALSE
