----------------------------- MODULE ManagerProofs -----------------------------
(***************************************************************************)
(* Proofs about Manager, for any number of processes, tunnels and retries, *)
(* any delays and any zones.                                               *)
(***************************************************************************)
EXTENDS Manager, NumberLemmas

\* What a process knows about the tunnels of the name: when it creates one there is none,
\* and then there is none but its own.
KnownInv ==
  ~unsure =>
    /\ \A t, u \in tunnels : t = u
    /\ \A p \in Procs :
         /\ pc[p] = "create" => tunnels = {}
         /\ pc[p] = "recheck" => tunnels \subseteq {target[p]}
         /\ pc[p] \in {"byid", "get"} /\ tunnelID = None => tunnels \subseteq {target[p]}
         /\ pc[p] = "byid" => tunnelID # None
         /\ pc[p] = "run" /\ tunnelID = None => tunnels \subseteq {using[p]}

\* A fresh cache entry is right, or went wrong recently enough to expire in time; and a
\* process that has not begun to run has none.
CacheInv ==
  /\ ~Running => cache = NoCache /\ found = Nothing
  /\ \A d \in Domains :
       cache[d].left > 0 => cache[d].id = zone[d] \/ since[d] + cache[d].left <= TTL
  /\ ZoneIsRecent
-----------------------------------------------------------------------------
\* A candidate of a host name is a domain.
LEMMA CandidateIsDomain ==
  ASSUME NEW h \in Hosts, NEW i \in DOMAIN Candidates[h]
  PROVE  Candidates[h][i] \in Domains
BY DEF Domains

\* Ending a process keeps the types, and so does entering the next call.
LEMMA EndType ==
  ASSUME TypeOK, NEW p \in Procs, pc[p] # "down", End(p)
  PROVE  /\ holder' \in Procs \cup {None} /\ \A q \in Procs : pc'[q] # "down" <=> holder' = q
         /\ pc' \in [Procs -> Calls \cup {"down", "verify", "run"}]
         /\ attempt' \in [Procs -> 0..MaxRetries]
         /\ target' \in [Procs -> Tunnels \cup {None}] /\ using' \in [Procs -> Tunnels \cup {None}]
         /\ \A q \in Procs : pc'[q] = "run" => using'[q] # None
BY ManagerAssumption DEF TypeOK, End

LEMMA CallType ==
  ASSUME TypeOK, NEW p \in Procs, pc[p] # "down",
         NEW c \in Calls, NEW t \in Tunnels \cup {None}, Call(p, c, t)
  PROVE  /\ holder' \in Procs \cup {None} /\ \A q \in Procs : pc'[q] # "down" <=> holder' = q
         /\ pc' \in [Procs -> Calls \cup {"down", "verify", "run"}]
         /\ attempt' \in [Procs -> 0..MaxRetries]
         /\ target' \in [Procs -> Tunnels \cup {None}] /\ using' \in [Procs -> Tunnels \cup {None}]
         /\ \A q \in Procs : pc'[q] = "run" => using'[q] # None
BY ManagerAssumption DEF TypeOK, Call, Calls

\* A failed attempt either counts, or ends the call.
LEMMA RetryType ==
  ASSUME TypeOK, NEW p \in Procs, pc[p] \in Calls, GiveUp(p) \/ RetryOrGiveUp(p)
  PROVE  /\ holder' \in Procs \cup {None} /\ \A q \in Procs : pc'[q] # "down" <=> holder' = q
         /\ pc' \in [Procs -> Calls \cup {"down", "verify", "run"}]
         /\ attempt' \in [Procs -> 0..MaxRetries]
         /\ target' \in [Procs -> Tunnels \cup {None}] /\ using' \in [Procs -> Tunnels \cup {None}]
         /\ \A q \in Procs : pc'[q] = "run" => using'[q] # None
<1>1. pc[p] # "down"
  BY DEF Calls
<1>2. CASE GiveUp(p)
  <2>1. CASE pc[p] = "byid"
    BY <1>1, <1>2, <2>1, CallType DEF GiveUp, Calls
  <2>2. CASE pc[p] # "byid"
    BY <1>1, <1>2, <2>2, EndType DEF GiveUp
  <2>3. QED
    BY <2>1, <2>2
<1>3. CASE RetryOrGiveUp(p) /\ ~GiveUp(p)
  <2>1. /\ attempt[p] # MaxRetries /\ attempt' = [attempt EXCEPT ![p] = @ + 1]
        /\ UNCHANGED <<holder, pc, target, using>>
    BY <1>3 DEF RetryOrGiveUp
  <2>2. attempt' \in [Procs -> 0..MaxRetries]
    BY <2>1, ManagerAssumption DEF TypeOK
  <2>3. QED
    BY <2>1, <2>2 DEF TypeOK
<1>4. QED
  BY <1>2, <1>3
-----------------------------------------------------------------------------
\* At most one process is past the lock and no call makes more than maxRetries + 1 attempts.
THEOREM TypeCorrect == Spec => []TypeOK
<1>1. Init => TypeOK
  <2> SUFFICES ASSUME Init PROVE TypeOK
    OBVIOUS
  <2>1. zone \in [Domains -> 0..MaxZones] /\ since \in [Domains -> 0..(TTL + 1)]
        /\ cache \in [Domains -> [id : 0..MaxZones, left : 0..TTL]]
    BY ManagerAssumption DEF Init, NoZones, NoCache
  <2>2. tunnels \subseteq Tunnels /\ listed \subseteq tunnels
    BY DEF Init
  <2>3. holder = None /\ \A p \in Procs : pc[p] = "down" /\ holder # p
    BY ManagerAssumption DEF Init
  <2>4. QED
    BY <2>1, <2>2, <2>3, ManagerAssumption DEF Init, TypeOK
<1>2. TypeOK /\ [Next]_vars => TypeOK'
  <2> SUFFICES ASSUME TypeOK, [Next]_vars PROVE TypeOK'
    OBVIOUS
  <2> USE DEF zones, cloud
  <2>1. ASSUME NEW p \in Procs, Acquire(p) PROVE TypeOK'
    <3>1. /\ holder' = p
          /\ pc' = [pc EXCEPT ![p] = "verify"]
          /\ \A q \in Procs : pc[q] = "down"
      BY <2>1, ManagerAssumption DEF Acquire, TypeOK
    <3>2. \A q \in Procs : pc'[q] # "down" <=> holder' = q
      BY <3>1 DEF TypeOK
    <3>3. pc' \in [Procs -> Calls \cup {"down", "verify", "run"}]
      BY <3>1 DEF TypeOK
    <3>4. \A q \in Procs : pc'[q] # "run"
      BY <3>1 DEF TypeOK
    <3>5. QED
      BY <2>1, <3>1, <3>2, <3>3, <3>4 DEF Acquire, TypeOK
  <2>2. ASSUME NEW p \in Procs, Verify(p) PROVE TypeOK'
    <3>1. CASE End(p)
      BY <2>2, <3>1, EndType DEF Verify, TypeOK
    <3>2. CASE tunnelID = None /\ Call(p, "list", None)
      BY <2>2, <3>2, CallType DEF Verify, TypeOK, Calls
    <3>3. CASE tunnelID # None /\ Call(p, "byid", tunnelID)
      <4>1. tunnelID \in Tunnels
        BY <3>3, ManagerAssumption DEF TypeOK
      <4>2. QED
        BY <2>2, <3>3, <4>1, CallType DEF Verify, TypeOK, Calls
    <3>4. QED
      BY <2>2, <3>1, <3>2, <3>3 DEF Verify
  <2>3. ASSUME NEW p \in Procs, Crash(p) PROVE TypeOK'
    <3>1. zone' \in [Domains -> 0..MaxZones] /\ since' \in [Domains -> 0..(TTL + 1)]
          /\ cache' \in [Domains -> [id : 0..MaxZones, left : 0..TTL]]
      BY <2>3, ManagerAssumption DEF Crash, NoZones, NoCache
    <3>2. QED
      BY <2>3, <3>1, EndType DEF Crash, TypeOK
  <2>4. ASSUME NEW p \in Procs, Fail(p) PROVE TypeOK'
    BY <2>4, RetryType DEF Fail, TypeOK
  <2>5. ASSUME NEW p \in Procs, Get(p) PROVE TypeOK'
    <3>1. zone' \in [Domains -> 0..MaxZones]
      BY <2>5, ManagerAssumption DEF Get
    <3>2. /\ pc' = [pc EXCEPT ![p] = "run"] /\ pc[p] # "down"
          /\ using' = [using EXCEPT ![p] = target[p]] /\ target[p] \in Tunnels
      BY <2>5 DEF Get, TypeOK
    <3>3. \A q \in Procs : pc'[q] # "down" <=> holder = q
      BY <3>2 DEF TypeOK
    <3>4. /\ pc' \in [Procs -> Calls \cup {"down", "verify", "run"}]
          /\ using' \in [Procs -> Tunnels \cup {None}]
          /\ \A q \in Procs : pc'[q] = "run" => using'[q] # None
      BY <3>2, ManagerAssumption DEF TypeOK
    <3>5. attempt' \in [Procs -> 0..MaxRetries]
      BY <2>5, ManagerAssumption DEF Get, TypeOK
    <3>6. QED
      BY <2>5, <3>1, <3>3, <3>4, <3>5 DEF Get, TypeOK
  <2>6. ASSUME NEW p \in Procs, List(p) PROVE TypeOK'
    <3>1. PICK c \in Calls, t \in Tunnels \cup {None} : Call(p, c, t)
      BY <2>6 DEF List, Calls, TypeOK
    <3>2. pc[p] # "down"
      BY <2>6 DEF List
    <3>3. QED
      BY <2>6, <3>1, <3>2, CallType DEF List, TypeOK
  <2>7. ASSUME NEW p \in Procs, Create(p) PROVE TypeOK'
    <3>1. PICK t \in Tunnels : NewTunnel(t) /\ Call(p, "recheck", t)
      BY <2>7 DEF Create
    <3>2. pc[p] # "down" /\ "recheck" \in Calls
      BY <2>7 DEF Create, Calls
    <3>3. tunnels' \subseteq Tunnels /\ listed' \subseteq tunnels'
      BY <3>1 DEF NewTunnel, TypeOK
    <3>4. QED
      BY <2>7, <3>1, <3>2, <3>3, CallType DEF Create, TypeOK
  <2>8. ASSUME NEW p \in Procs, CreateLost(p) PROVE TypeOK'
    <3>1. PICK t \in Tunnels : NewTunnel(t)
      BY <2>8 DEF CreateLost
    <3>2. pc[p] \in Calls
      BY <2>8 DEF CreateLost, Calls
    <3>3. tunnels' \subseteq Tunnels /\ listed' \subseteq tunnels'
      BY <3>1 DEF NewTunnel, TypeOK
    <3>4. QED
      BY <2>8, <3>2, <3>3, RetryType DEF CreateLost, TypeOK
  <2>9. ASSUME CatchUp PROVE TypeOK'
    BY <2>9 DEF CatchUp, procs, TypeOK
  <2>10. ASSUME NEW t \in Tunnels, DeleteTunnel(t) PROVE TypeOK'
    BY <2>10 DEF DeleteTunnel, procs, TypeOK
  <2>11. ASSUME NEW h \in Hosts, LookUp(h) PROVE TypeOK'
    <3>1. CASE CacheHit(h)
      BY <2>11, <3>1, CandidateIsDomain DEF LookUp, CacheHit, procs, TypeOK
    <3>2. CASE CacheMiss(h)
      <4>1. 1 \in DOMAIN Candidates[h]
        BY ManagerAssumption
      <4>2. QED
        BY <2>11, <3>2, <4>1 DEF LookUp, CacheMiss, procs, TypeOK
    <3>3. QED
      BY <2>11, <3>1, <3>2 DEF LookUp
  <2>12. ASSUME Ask PROVE TypeOK'
    <3>0. PICK h \in Hosts : \E i \in DOMAIN Candidates[h] : search = [host |-> h, next |-> i]
      BY <2>12 DEF Ask, TypeOK
    <3>1. PICK i \in DOMAIN Candidates[h] : search = [host |-> h, next |-> i]
      BY <3>0
    <3>2. Candidates[h][i] \in Domains
      BY CandidateIsDomain
    <3>3. CASE /\ zone[Candidates[h][i]] # 0 /\ search' = NoSearch
               /\ cache' = [cache EXCEPT ![Candidates[h][i]] =
                              [id |-> zone[Candidates[h][i]], left |-> TTL]]
               /\ found' = [domain |-> Candidates[h][i], id |-> zone[Candidates[h][i]]]
      <4>1. [id |-> zone[Candidates[h][i]], left |-> TTL] \in [id : 0..MaxZones, left : 0..TTL]
        BY <3>2, ManagerAssumption DEF TypeOK
      <4>2. cache' \in [Domains -> [id : 0..MaxZones, left : 0..TTL]]
        BY <3>2, <3>3, <4>1 DEF TypeOK
      <4>3. QED
        BY <2>12, <3>2, <3>3, <4>2 DEF Ask, procs, TypeOK
    <3>4. CASE search' = NoSearch /\ UNCHANGED <<cache, found>>
      BY <2>12, <3>4 DEF Ask, procs, TypeOK
    <3>5. CASE /\ i # Len(Candidates[h]) /\ search' = [search EXCEPT !.next = @ + 1]
               /\ UNCHANGED <<cache, found>>
      <4>1. i + 1 \in DOMAIN Candidates[h]
        BY <3>5, ManagerAssumption
      <4>2. search' = [host |-> h, next |-> i + 1]
        BY <3>1, <3>5
      <4>3. QED
        BY <2>12, <3>5, <4>1, <4>2 DEF Ask, procs, TypeOK
    <3>6. QED
      BY <2>12, <3>1, <3>3, <3>4, <3>5 DEF Ask
  <2>13. ASSUME Tick PROVE TypeOK'
    <3>1. cache' \in [Domains -> [id : 0..MaxZones, left : 0..TTL]]
      <4>1. ASSUME NEW d \in Domains
            PROVE  [cache[d] EXCEPT !.left = IF @ > 0 THEN @ - 1 ELSE 0]
                     \in [id : 0..MaxZones, left : 0..TTL]
        <5>1. PICK z \in 0..MaxZones, l \in 0..TTL : cache[d] = [id |-> z, left |-> l]
          BY DEF TypeOK
        <5>2. [cache[d] EXCEPT !.left = IF @ > 0 THEN @ - 1 ELSE 0] =
                [id |-> z, left |-> IF l > 0 THEN l - 1 ELSE 0]
          BY <5>1
        <5>3. QED
          BY <5>2, ManagerAssumption
      <4>2. QED
        BY <2>13, <4>1 DEF Tick
    <3>2. since' \in [Domains -> 0..(TTL + 1)]
      BY <2>13, ManagerAssumption DEF Tick, TypeOK
    <3>3. QED
      BY <2>13, <3>1, <3>2 DEF Tick, procs, TypeOK
  <2>14. ASSUME NEW d \in Domains, ChangeZone(d) PROVE TypeOK'
    <3>1. zone' \in [Domains -> 0..MaxZones] /\ since' \in [Domains -> 0..(TTL + 1)]
      BY <2>14, ManagerAssumption DEF ChangeZone, TypeOK
    <3>2. QED
      BY <2>14, <3>1 DEF ChangeZone, procs, TypeOK
  <2>15. CASE UNCHANGED vars
    BY <2>15 DEF vars, procs, TypeOK
  <2>16. QED
    BY <2>1, <2>2, <2>3, <2>4, <2>5, <2>6, <2>7, <2>8, <2>9, <2>10, <2>11, <2>12, <2>13,
       <2>14, <2>15 DEF Next, Step
<1>3. QED
  BY <1>1, <1>2, PTL DEF Spec
-----------------------------------------------------------------------------
\* Only one process is past the lock.
LEMMA Alone ==
  ASSUME TypeOK, NEW p \in Procs, pc[p] # "down"
  PROVE  \A q \in Procs : q # p => pc[q] = "down"
BY DEF TypeOK

\* Ending a process and going on to look the tunnels up by name lose nothing that is known.
LEMMA LessKnown ==
  ASSUME TypeOK, KnownInv, NEW p \in Procs, pc[p] # "down",
         tunnels' = tunnels, unsure' = unsure, tunnelID' = tunnelID,
         End(p) \/ Call(p, "list", None)
  PROVE  KnownInv'
<1>1. \A q \in Procs : pc'[q] \in {"down", "list"}
  BY Alone DEF End, Call, TypeOK
<1>2. QED
  BY <1>1 DEF KnownInv

LEMMA RetryKnows ==
  ASSUME TypeOK, KnownInv, NEW p \in Procs, pc[p] \in Calls, GiveUp(p) \/ RetryOrGiveUp(p),
         tunnels' = tunnels, unsure' = unsure, tunnelID' = tunnelID
  PROVE  KnownInv'
<1>1. pc[p] # "down"
  BY DEF Calls
<1>2. CASE GiveUp(p)
  BY <1>1, <1>2, LessKnown DEF GiveUp
<1>3. CASE RetryOrGiveUp(p) /\ ~GiveUp(p)
  <2>1. UNCHANGED <<pc, target, using>>
    BY <1>3 DEF RetryOrGiveUp
  <2>2. QED
    BY <2>1 DEF KnownInv
<1>4. QED
  BY <1>2, <1>3

\* Start-ups, crashes and restarts under the lock do not add a second tunnel of the name, as
\* long as every creation is answered and every listing is up to date.
THEOREM OneTunnelHolds == Spec => []OneTunnel
<1>1. Init => KnownInv
  BY DEF Init, KnownInv
<1>2. TypeOK /\ KnownInv /\ [Next]_vars => KnownInv'
  <2> SUFFICES ASSUME TypeOK, KnownInv, [Next]_vars PROVE KnownInv'
    OBVIOUS
  <2> USE DEF cloud
  <2>1. ASSUME NEW p \in Procs, Acquire(p) PROVE KnownInv'
    <3>1. \A q \in Procs : pc'[q] \in {"down", "verify"}
      BY <2>1, ManagerAssumption DEF Acquire, TypeOK
    <3>2. QED
      BY <2>1, <3>1 DEF Acquire, KnownInv
  <2>2. ASSUME NEW p \in Procs, Verify(p) PROVE KnownInv'
    <3>1. CASE tunnelID # None /\ Call(p, "byid", tunnelID)
      <4>1. \A q \in Procs : pc'[q] \in {"down", "byid"}
        BY <2>2, <3>1, Alone DEF Verify, Call, TypeOK
      <4>2. QED
        BY <2>2, <3>1, <4>1 DEF Verify, KnownInv
    <3>2. QED
      BY <2>2, <3>1, LessKnown DEF Verify
  <2>3. ASSUME NEW p \in Procs, Crash(p) PROVE KnownInv'
    BY <2>3, LessKnown DEF Crash
  <2>4. ASSUME NEW p \in Procs, Fail(p) PROVE KnownInv'
    BY <2>4, RetryKnows DEF Fail
  <2>5. ASSUME NEW p \in Procs, Get(p) PROVE KnownInv'
    <3>1. /\ pc' = [pc EXCEPT ![p] = "run"] /\ pc[p] \in {"byid", "get"}
          /\ using' = [using EXCEPT ![p] = target[p]]
          /\ \A q \in Procs : q # p => pc[q] = "down"
      BY <2>5, Alone DEF Get
    <3>2. using'[p] = target[p] /\ \A q \in Procs : pc'[q] = IF q = p THEN "run" ELSE "down"
      BY <3>1 DEF TypeOK
    <3>3. QED
      BY <2>5, <3>1, <3>2 DEF Get, KnownInv
  <2>6. ASSUME NEW p \in Procs, List(p) PROVE KnownInv'
    <3> SUFFICES ASSUME ~unsure' PROVE KnownInv'
      BY DEF KnownInv
    <3>1. ~unsure /\ listed = tunnels /\ tunnels' = tunnels /\ tunnelID' = tunnelID
      BY <2>6 DEF List
    <3>2. PICK c \in Calls, t \in Tunnels \cup {None} :
            Call(p, c, t) /\ (c = "create" => tunnels = {}) /\ tunnels \subseteq {t}
              /\ c \in {"create", "get"}
      BY <2>6, <3>1 DEF List, Calls, TypeOK, KnownInv
    <3>3. \A q \in Procs : pc'[q] = IF q = p THEN c ELSE "down"
      BY <2>6, <3>2, Alone DEF List, Call, TypeOK
    <3>4. target'[p] = t
      BY <3>2 DEF Call, TypeOK
    <3>5. QED
      BY <3>1, <3>2, <3>3, <3>4 DEF KnownInv
  <2>7. ASSUME NEW p \in Procs, Create(p) PROVE KnownInv'
    <3>1. PICK t \in Tunnels : NewTunnel(t) /\ Call(p, "recheck", t)
      BY <2>7 DEF Create
    <3>2. target'[p] = t /\ \A q \in Procs : pc'[q] = IF q = p THEN "recheck" ELSE "down"
      BY <2>7, <3>1, Alone DEF Create, Call, TypeOK
    <3>3. ~unsure => tunnels' = {t}
      BY <2>7, <3>1 DEF Create, NewTunnel, KnownInv
    <3>4. QED
      BY <2>7, <3>2, <3>3 DEF Create, KnownInv
  <2>8. ASSUME NEW p \in Procs, CreateLost(p) PROVE KnownInv'
    BY <2>8 DEF CreateLost, KnownInv
  <2>9. ASSUME CatchUp PROVE KnownInv'
    BY <2>9 DEF CatchUp, procs, KnownInv
  <2>10. ASSUME NEW t \in Tunnels, DeleteTunnel(t) PROVE KnownInv'
    <3>1. tunnels' \subseteq tunnels /\ (tunnels = {} => tunnels' = {})
      BY <2>10 DEF DeleteTunnel
    <3>2. QED
      BY <2>10, <3>1 DEF DeleteTunnel, procs, KnownInv
  <2>11. CASE UNCHANGED <<procs, cloud>>
    BY <2>11 DEF procs, KnownInv
  <2>12. QED
    BY <2>1, <2>2, <2>3, <2>4, <2>5, <2>6, <2>7, <2>8, <2>9, <2>10, <2>11
    DEF Next, Step, LookUp, Ask, Tick, ChangeZone, vars
<1>3. KnownInv => OneTunnel
  BY DEF KnownInv, OneTunnel
<1>4. QED
  BY <1>1, <1>2, <1>3, TypeCorrect, PTL DEF Spec
-----------------------------------------------------------------------------
\* A record is never written to, or deleted from, a zone that has been gone for longer than the
\* time to live of the zone cache.
THEOREM ZoneIsRecentHolds == Spec => []ZoneIsRecent
<1>1. Init => CacheInv
  BY DEF Init, CacheInv, ZoneIsRecent, NoCache
<1>2. TypeOK /\ CacheInv /\ [Next]_vars => CacheInv'
  <2> SUFFICES ASSUME TypeOK, CacheInv, [Next]_vars PROVE CacheInv'
    OBVIOUS
  <2>1. ASSUME UNCHANGED <<zone, cache, found, since>>, Running' = Running PROVE CacheInv'
    BY <2>1 DEF CacheInv, ZoneIsRecent
  <2>2. ASSUME NEW p \in Procs, Crash(p) PROVE CacheInv'
    BY <2>2 DEF Crash, CacheInv, ZoneIsRecent, NoCache
  <2>3. ASSUME NEW p \in Procs, Get(p) PROVE CacheInv'
    <3>1. ~Running
      BY <2>3, Alone DEF Get, Running
    <3>2. cache' = NoCache /\ found' = Nothing
      BY <2>3, <3>1 DEF Get, CacheInv
    <3>3. QED
      BY <3>2 DEF CacheInv, ZoneIsRecent, NoCache
  <2>4. ASSUME NEW p \in Procs, pc[p] \notin {"down", "run"}, UNCHANGED zones,
               pc'[p] # "run", \A q \in Procs : q # p => pc'[q] = pc[q]
        PROVE  CacheInv'
    <3>1. Running' = Running
      BY <2>4 DEF Running
    <3>2. QED
      BY <2>1, <2>4, <3>1 DEF zones
  <2>5. ASSUME NEW p \in Procs, Acquire(p) PROVE CacheInv'
    <3>1. Running' = Running
      BY <2>5 DEF Acquire, Running, TypeOK
    <3>2. QED
      BY <2>1, <2>5, <3>1 DEF Acquire, zones
  <2>6. ASSUME NEW p \in Procs, Verify(p) \/ Fail(p) \/ List(p) \/ Create(p) \/ CreateLost(p)
        PROVE  CacheInv'
    <3>1. pc[p] \notin {"down", "run"} /\ UNCHANGED zones
      BY <2>6 DEF Verify, Fail, List, Create, CreateLost, Calls
    <3>2. \/ pc' = pc
          \/ \E c \in {"down", "list", "byid", "create", "recheck", "get"} : pc' = [pc EXCEPT ![p] = c]
      BY <2>6 DEF Verify, Fail, List, Create, CreateLost, RetryOrGiveUp, GiveUp, Call, End
    <3>3. pc'[p] # "run" /\ \A q \in Procs : q # p => pc'[q] = pc[q]
      BY <3>1, <3>2 DEF TypeOK
    <3>4. QED
      BY <2>4, <3>1, <3>3
  <2>7. ASSUME CatchUp \/ (\E t \in Tunnels : DeleteTunnel(t)) \/ UNCHANGED vars PROVE CacheInv'
    <3>1. UNCHANGED <<procs, zones>>
      BY <2>7 DEF CatchUp, DeleteTunnel, vars
    <3>2. Running' = Running
      BY <3>1 DEF procs, Running
    <3>3. QED
      BY <2>1, <3>1, <3>2 DEF zones
  <2>8. ASSUME NEW h \in Hosts, LookUp(h) PROVE CacheInv'
    <3>1. Running /\ Running' /\ UNCHANGED <<zone, cache, since>>
      BY <2>8 DEF LookUp, procs, Running
    <3>2. CASE CacheHit(h)
      <4>1. PICK i \in DOMAIN Candidates[h] :
              /\ cache[Candidates[h][i]].left > 0
              /\ found' = [domain |-> Candidates[h][i], id |-> cache[Candidates[h][i]].id]
        BY <3>2 DEF CacheHit, Fresh
      <4>2. PICK d \in Domains : cache[d].left > 0 /\ found' = [domain |-> d, id |-> cache[d].id]
        BY <4>1, CandidateIsDomain
      <4>3. cache[d].left \in Nat /\ since[d] \in Nat
        BY DEF TypeOK
      <4>4. cache[d].id = zone[d] \/ since[d] <= TTL
        BY <4>2, <4>3, ManagerAssumption DEF CacheInv
      <4>5. QED
        BY <3>1, <4>2, <4>4 DEF CacheInv, ZoneIsRecent
    <3>3. CASE CacheMiss(h)
      BY <3>1, <3>3 DEF CacheMiss, CacheInv, ZoneIsRecent
    <3>4. QED
      BY <2>8, <3>2, <3>3 DEF LookUp
  <2>9. ASSUME Ask PROVE CacheInv'
    <3>1. Running' /\ UNCHANGED <<zone, since>>
      BY <2>9 DEF Ask, procs, Running
    <3>2. CASE UNCHANGED <<cache, found>>
      BY <3>1, <3>2 DEF CacheInv, ZoneIsRecent
    <3>3. CASE ~UNCHANGED <<cache, found>>
      <4>1. PICK d : /\ cache' = [cache EXCEPT ![d] = [id |-> zone[d], left |-> TTL]]
                     /\ found' = [domain |-> d, id |-> zone[d]]
        BY <2>9, <3>3 DEF Ask
      <4>2. \A e \in Domains : cache'[e] = IF e = d THEN [id |-> zone[d], left |-> TTL] ELSE cache[e]
        BY <4>1 DEF TypeOK
      <4>3. QED
        BY <3>1, <4>1, <4>2 DEF CacheInv, ZoneIsRecent
    <3>4. QED
      BY <3>2, <3>3
  <2>10. ASSUME Tick PROVE CacheInv'
    <3>1. Running' /\ zone' = zone /\ found' = Nothing
      BY <2>10 DEF Tick, procs, Running
    <3>2. ASSUME NEW d \in Domains, cache'[d].left > 0
          PROVE  cache'[d].id = zone[d] \/ since'[d] + cache'[d].left <= TTL
      <4>1. PICK z \in 0..MaxZones, l \in 0..TTL : cache[d] = [id |-> z, left |-> l]
        BY DEF TypeOK
      <4>2. cache'[d] = [id |-> z, left |-> IF l > 0 THEN l - 1 ELSE 0]
        BY <2>10, <4>1 DEF Tick
      <4>3. l > 0 /\ cache'[d].left = l - 1 /\ cache'[d].id = z
        BY <3>2, <4>2
      <4>4. z = zone[d] \/ since[d] + l <= TTL
        BY <4>1, <4>3 DEF CacheInv
      <4>5. since'[d] = IF since[d] > TTL THEN since[d] ELSE since[d] + 1
        BY <2>10 DEF Tick
      <4>6. since[d] \in Nat
        BY DEF TypeOK
      <4>7. QED
        BY <4>3, <4>4, <4>5, <4>6, ManagerAssumption
    <3>3. QED
      BY <3>1, <3>2 DEF CacheInv, ZoneIsRecent
  <2>11. ASSUME NEW d \in Domains, ChangeZone(d) PROVE CacheInv'
    <3>1. Running' /\ cache' = cache /\ found' = Nothing
      BY <2>11 DEF ChangeZone, procs, Running
    <3>2. ASSUME NEW e \in Domains, cache[e].left > 0
          PROVE  cache[e].id = zone'[e] \/ since'[e] + cache[e].left <= TTL
      <4>1. cache[e].left \in 0..TTL
        BY DEF TypeOK
      <4>2. CASE e = d
        <5>1. since'[e] = 0
          BY <2>11, <4>2 DEF ChangeZone, TypeOK
        <5>2. QED
          BY <4>1, <5>1, ManagerAssumption
      <4>3. CASE e # d
        BY <2>11, <3>2, <4>3 DEF ChangeZone, TypeOK, CacheInv
      <4>4. QED
        BY <4>2, <4>3
    <3>3. QED
      BY <3>1, <3>2 DEF CacheInv, ZoneIsRecent
  <2>12. QED
    BY <2>2, <2>3, <2>5, <2>6, <2>7, <2>8, <2>9, <2>10, <2>11 DEF Next, Step
<1>3. QED
  BY <1>1, <1>2, TypeCorrect, PTL DEF Spec, CacheInv
-----------------------------------------------------------------------------
\* As long as the doubled delay fits, a back-off is positive and within maxRetryDelay, and
\* so is what the jitter leaves of it.
LEMMA BackoffRange ==
  ASSUME NEW a \in Nat, RetryDelay * 2^a < 2^(Width - 1), NEW j \in Jitter(Backoff(a))
  PROVE  j \in 0..(MaxRetryDelay - 1)
<1> DEFINE x == RetryDelay * 2^a
<1>1. x \in Nat \ {0}
  <2>1. 2^a \in Nat \ {0}
    BY PowerPositive
  <2>2. QED
    BY <2>1, ManagerAssumption
<1>2. Wrap(x) = x
  BY <1>1, WrapFits, ManagerAssumption DEF Wrap
<1> HIDE DEF x
<1>3. Backoff(a) = IF x < MaxRetryDelay THEN x ELSE MaxRetryDelay
  BY <1>2 DEF Backoff, x
<1>4. Backoff(a) \in 1..MaxRetryDelay
  BY <1>1, <1>3, ManagerAssumption
<1>5. j \in 0..(Backoff(a) - 1)
  BY <1>4 DEF Jitter
<1>6. QED
  BY <1>4, <1>5, ManagerAssumption

\* The wait of every process is in range.
DelayInv ==
  /\ DOMAIN delay = Procs
  /\ WaitInRange

\* A failed attempt waits in range; other calls start without a wait.
LEMMA RetryWaits ==
  ASSUME TypeOK, DelayInv, NEW p \in Procs, GiveUp(p) \/ RetryOrGiveUp(p)
  PROVE  DelayInv'
<1>1. CASE GiveUp(p)
  BY <1>1 DEF GiveUp, Call, End, DelayInv, WaitInRange, TypeOK
<1>2. CASE RetryOrGiveUp(p) /\ ~GiveUp(p)
  <2> DEFINE a == attempt[p]
  <2>1. PICK j \in Jitter(Backoff(a)), after \in RetryAfters :
          /\ attempt' = [attempt EXCEPT ![p] = a + 1]
          /\ delay' = [delay EXCEPT ![p] = [len |-> IF after > j THEN after ELSE j, asked |-> after]]
    BY <1>2 DEF RetryOrGiveUp
  <2>2. a \in Nat /\ after \in Nat /\ attempt'[p] = a + 1 /\ DOMAIN delay' = Procs
    BY <2>1, ManagerAssumption DEF TypeOK, DelayInv
  <2>3. delay'[p] = [len |-> IF after > j THEN after ELSE j, asked |-> after]
    BY <2>1 DEF DelayInv
  <2>4. \A q \in Procs \ {p} : attempt'[q] = attempt[q] /\ delay'[q] = delay[q]
    BY <2>1 DEF TypeOK, DelayInv
  <2>5. ASSUME RetryDelay * 2^(attempt'[p] - 1) < 2^(Width - 1)
        PROVE  /\ delay'[p].len >= delay'[p].asked
               /\ delay'[p].len # delay'[p].asked => delay'[p].len \in 0..(MaxRetryDelay - 1)
    <3>1. attempt'[p] - 1 = a
      BY <2>2
    <3>2. j \in 0..(MaxRetryDelay - 1)
      BY <2>2, <2>5, <3>1, BackoffRange
    <3>3. QED
      BY <2>2, <2>3, <3>2
  <2>6. QED
    BY <2>2, <2>4, <2>5 DEF DelayInv, WaitInRange
<1>3. QED
  BY <1>1, <1>2

\* callWithRetry waits at least as long as Retry-After asks, and otherwise for a time in
\* [0, maxRetryDelay), for every number of attempts whose doubled delay fits into the width of
\* a time.Duration.
THEOREM WaitInRangeHolds == Spec => []WaitInRange
<1>1. Init => DelayInv
  BY DEF Init, DelayInv, WaitInRange
<1>2. TypeOK /\ DelayInv /\ [Next]_vars => DelayInv'
  <2> SUFFICES ASSUME TypeOK, DelayInv, [Next]_vars PROVE DelayInv'
    OBVIOUS
  <2>1. ASSUME NEW p \in Procs, Acquire(p) PROVE DelayInv'
    BY <2>1 DEF Acquire, DelayInv, WaitInRange
  <2>2. ASSUME NEW p \in Procs, Verify(p) \/ Crash(p) \/ Get(p) \/ List(p) \/ Create(p)
        PROVE  DelayInv'
    <3>1. attempt' = [attempt EXCEPT ![p] = 0] /\ delay' = [delay EXCEPT ![p] = NoDelay]
      BY <2>2 DEF Verify, Crash, Get, List, Create, Call, End
    <3>2. attempt'[p] = 0 /\ DOMAIN delay' = Procs
      BY <3>1 DEF DelayInv, TypeOK
    <3>3. \A q \in Procs \ {p} : attempt'[q] = attempt[q] /\ delay'[q] = delay[q]
      BY <3>1 DEF DelayInv, TypeOK
    <3>4. QED
      BY <3>2, <3>3 DEF DelayInv, WaitInRange
  <2>3. ASSUME NEW p \in Procs, Fail(p) \/ CreateLost(p) PROVE DelayInv'
    BY <2>3, RetryWaits DEF Fail, CreateLost
  <2>4. CASE UNCHANGED procs
    BY <2>4 DEF procs, DelayInv, WaitInRange
  <2>5. QED
    BY <2>1, <2>2, <2>3, <2>4 DEF Next, Step, vars, CatchUp, DeleteTunnel, LookUp, Ask, Tick,
       ChangeZone
<1>3. QED
  BY <1>1, <1>2, TypeCorrect, PTL DEF Spec, DelayInv
=============================================================================
