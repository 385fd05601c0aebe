SPECIFICATION FairSpec
CONSTANTS
  web = web
  api = api
  dup = dup
  old = old
  r1 = r1
  r2 = r2
  h1 = h1
  h2 = h2
  N = 2
  Services = {web, old, api}
  Owner <- TwoOwners
  Route <- TwoRoutes
  Host <- SharedHost
  Policy <- TwoPolicies
  ReconcileEnabled = TRUE
  Capacity = 2
  Budget = 2
INVARIANTS
  RebuildIsExact
PROPERTIES
  Settles
  RetentionEnds
