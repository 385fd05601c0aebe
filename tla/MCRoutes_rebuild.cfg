SPECIFICATION Spec
CONSTANTS
  web = web
  api = api
  dup = dup
  old = old
  r1 = r1
  r2 = r2
  h1 = h1
  h2 = h2
  N = 3
  Services = {web, old, dup, api}
  Owner <- ThreeOwners
  Route <- ThreeRoutes
  Host <- TwoHosts
  Policy <- ThreePolicies
  ReconcileEnabled = TRUE
  Capacity = 2
  Budget = 2
INVARIANTS
  TypeOK
  RebuildIsExact
