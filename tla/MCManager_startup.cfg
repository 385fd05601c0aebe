SPECIFICATION FairSpec
CONSTANTS
  p1 = p1
  p2 = p2
  t1 = t1
  t2 = t2
  Procs = {p1, p2}
  Tunnels = {t1, t2}
  Configured = {t1, "none"}
  MaxRetries = 3
  RetryDelay = 2
  MaxRetryDelay = 3
  RetryAfters = {0, 4}
  Width = 4
  Hosts = {"dev.ex.com", "ex.com"}
  Candidates <- TwoHosts
  TTL = 2
  MaxZones = 2
INVARIANTS TypeOK OneTunnel WaitInRange ZoneIsRecent
PROPERTY StartEnds
