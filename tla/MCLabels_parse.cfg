SPECIFICATION Spec
CONSTANTS
  Names = {"web", "api"}
  Routers = {"r1", "r2"}
  Spellings = {"a", "A", "b"}
  Lower <- MCLower
  Paths = {"/x", "/y"}
  Nets <- MCNets
  Bridge = "bridge"
  Teams = {"red", "blue"}
  ServiceLabels <- MCServices
  RouterLabels <- MCRouters
  Globals <- MCGlobals
  Containers <- MCContainers
  Others <- MCOthers
  Day = 3
  Width = 5
INVARIANTS TypeOK MergeIsExact NotWider RebuildAgrees RetentionHonoured
