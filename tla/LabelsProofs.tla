----------------------------- MODULE LabelsProofs -----------------------------
(***************************************************************************)
(* Proofs about Labels, for any label sets, networks and routes of other   *)
(* containers.                                                             *)
(***************************************************************************)
EXTENDS Labels, NumberLemmas

\* A spec, or a rule, that comes from a router which the decoder accepted.
FromRouter(s) ==
  /\ optin /\ s.key[2] \in DOMAIN router /\ Accepted(router[s.key[2]])
  /\ s.path = RoutePath(router[s.key[2]])
  /\ \E g \in HostsOf(router[s.key[2]]) \ {Bad} : s.host = Lower[g]

RouterInv == \A n \in DOMAIN router : router[n] \in RouterLabels

\* Every stage hands on what it got from a router unchanged.
OriginInv ==
  /\ RouterInv
  /\ \A s \in dtSpecs : "key" \in DOMAIN s /\ s.key[1] = "docktunnel"
  /\ \A s \in tfSpecs : FromRouter(s)
  /\ \A s \in merged : s.key[1] = "docktunnel" \/ FromRouter(s)
  /\ \A s \in rules : s.key[1] = "docktunnel" \/ FromRouter(s)
-----------------------------------------------------------------------------
\* A set of positions that is not empty has a first one.
LEMMA FirstExists ==
  ASSUME NEW S \in SUBSET Nat, S # {}
  PROVE  LET first == CHOOSE i \in S : \A j \in S : i <= j
         IN  first \in S /\ \A j \in S : first <= j
<1>1. \E i \in S : \A j \in S : i <= j
  BY LeastNumber
<1>2. QED
  BY <1>1

\* The path of a route is one that the router's rule names, if the rule keeps any.
LEMMA RoutePathIsNamed ==
  ASSUME NEW r \in Rules, r.kind = "http", PathClauses(r) # {}
  PROVE  \E c \in Range(r.clauses) :
           c.matcher = "Path" /\ RoutePath(r) \in c.args /\ RoutePath(r) # NoPath
<1> DEFINE first == CHOOSE i \in PathClauses(r) : \A j \in PathClauses(r) : i <= j
           args  == r.clauses[first].args
<1>1. r.clauses \in Seq(Clauses)
  BY DEF Rules
<1>2. PathClauses(r) \subseteq Nat /\ PathClauses(r) \subseteq DOMAIN r.clauses
  BY <1>1 DEF PathClauses
<1>3. first \in PathClauses(r)
  BY <1>2, FirstExists
<1>4. /\ r.clauses[first] \in Range(r.clauses) /\ r.clauses[first].matcher = "Path"
      /\ \E p \in args : args = {p}
  BY <1>2, <1>3 DEF PathClauses, Range
<1>5. args \subseteq Spellings \cup {Bad} \cup Paths
  <2>1. r.clauses[first] \in Clauses
    BY <1>1, <1>2, <1>3
  <2>2. QED
    BY <2>1 DEF Clauses
<1>6. RoutePath(r) = CHOOSE p \in args : TRUE
  BY DEF RoutePath
<1>7. RoutePath(r) \in args
  BY <1>4, <1>6
<1>8. RoutePath(r) # NoPath
  BY <1>5, <1>7, LabelsAssumption DEF NoPath, Bad
<1>9. QED
  BY <1>4, <1>7, <1>8

\* What the decoder makes of one router is no wider than the router's own rule.
LEMMA RouterNotWider ==
  ASSUME NEW r \in Rules, NEW g \in HostsOf(r) \ {Bad}, NEW q,
         Accepted(r), ~LosesPath(r), ~LosesMiddlewares(r), RoutePath(r) \in {q, NoPath}
  PROVE  Allows(r, Lower[g], q)
<1> DEFINE cs == Range(r.clauses)
           host == IF r.kind = "http" THEN "Host" ELSE "HostSNI"
           matchers == {r.clauses[i].matcher : i \in DOMAIN r.clauses}
<1>1. /\ ~r.ops /\ ~r.middlewares
      /\ matchers = {"HostSNI"} \/ matchers \subseteq {"Host", "Path"}
  BY DEF Accepted, ValidRule, LosesMiddlewares, Rules
<1>2. \A c \in cs : c.matcher \in matchers
  BY DEF Range
<1>3. PICK c \in cs : c.matcher = host /\ g \in c.args
  BY DEF HostsOf, Range
<1>4. r.kind \in {"http", "tcp"}
  BY DEF Rules
<1>5. ASSUME NEW d \in cs, d.matcher = "Path"
      PROVE  \E c2 \in cs : c2.matcher = "Path" /\ q \in c2.args
  <2>1. r.kind = "http"
    BY <1>1, <1>2, <1>3, <1>4, <1>5
  <2>2. PathClauses(r) # {}
    BY <1>5 DEF LosesPath
  <2>3. QED
    BY <2>1, <2>2, RoutePathIsNamed
<1>6. \A c2 \in cs : c2.matcher # "other"
  BY <1>1, <1>2
<1>7. QED
  BY <1>1, <1>3, <1>4, <1>5, <1>6 DEF Allows

\* A route made from Traefik labels serves no request that its router would not let through,
\* except for rules whose Path clauses pathRegex does not find and TCP routers whose
\* middlewares populateTCP drops.
THEOREM NotWiderHolds == Spec => []NotWider
<1>1. Init => OriginInv
  BY DEF Init, OriginInv, RouterInv
<1>2. OriginInv /\ [Next]_vars => OriginInv'
  <2> SUFFICES ASSUME OriginInv, [Next]_vars PROVE OriginInv'
    OBVIOUS
  <2>1. UNCHANGED <<router, optin>>
    BY DEF Next, Parse, AdaptDockTunnel, DecodeTraefik, MergeSpecs, BuildIngressRules, Start,
           Rebuild, Reconcile, labels, vars
  <2>2. RouterInv'
    BY <2>1 DEF OriginInv, RouterInv
  <2>3. ASSUME NEW s, FromRouter(s) PROVE FromRouter(s)'
    BY <2>1, <2>3 DEF FromRouter
  <2>4. CASE AdaptDockTunnel
    BY <2>1, <2>2, <2>3, <2>4 DEF AdaptDockTunnel, OriginInv, SpecOf
  <2>5. CASE DecodeTraefik
    <3>1. ASSUME NEW s \in tfSpecs' PROVE FromRouter(s)
      <4>1. PICK n \in DOMAIN router : \E g \in HostsOf(router[n]) \ {Bad} :
              optin /\ Accepted(router[n]) /\ s = RouterSpec(n, router[n], Lower[g])
        BY <2>5, <3>1 DEF DecodeTraefik
      <4>2. QED
        BY <4>1 DEF FromRouter, RouterSpec
    <3>2. QED
      BY <2>1, <2>2, <2>3, <2>5, <3>1 DEF DecodeTraefik, OriginInv
  <2>6. CASE MergeSpecs
    <3>1. ASSUME NEW s \in merged' PROVE s.key[1] = "docktunnel" \/ FromRouter(s)
      <4>1. CASE s \in tfSpecs
        BY <4>1 DEF OriginInv
      <4>2. ASSUME NEW d \in dtSpecs, s = [d EXCEPT !.host = LowerHost(d.host)]
            PROVE  s.key[1] = "docktunnel"
        BY <4>2 DEF OriginInv
      <4>3. QED
        BY <2>6, <4>1, <4>2 DEF MergeSpecs
    <3>2. QED
      BY <2>1, <2>2, <2>3, <2>6, <3>1 DEF MergeSpecs, OriginInv
  <2>7. CASE BuildIngressRules
    <3>1. ASSUME NEW r \in rules' PROVE r.key[1] = "docktunnel" \/ FromRouter(r)
      <4>1. PICK s \in merged : r.key = s.key /\ r.host = s.host /\ r.path = s.path
        BY <2>7, <3>1 DEF BuildIngressRules, RuleOf
      <4>2. QED
        BY <4>1 DEF OriginInv, FromRouter
    <3>2. QED
      BY <2>1, <2>2, <2>3, <2>7, <3>1 DEF BuildIngressRules, OriginInv
  <2>8. CASE Start \/ Rebuild \/ Reconcile \/ UNCHANGED vars
    BY <2>1, <2>2, <2>3, <2>8 DEF Start, Rebuild, Reconcile, vars, OriginInv
  <2>9. QED
    BY <2>4, <2>5, <2>6, <2>7, <2>8 DEF Next, Parse
<1>3. OriginInv => NotWider
  <2> SUFFICES ASSUME OriginInv PROVE NotWider
    OBVIOUS
  <2>1. ASSUME NEW r \in rules, r.key[1] # "docktunnel"
        PROVE  /\ optin
               /\ \/ LosesPath(router[r.key[2]]) \/ LosesMiddlewares(router[r.key[2]])
                  \/ \A q \in Paths \cup {"another path"} :
                       r.path \in {q, NoPath} => Allows(router[r.key[2]], r.host, q)
    <3>1. FromRouter(r)
      BY <2>1 DEF OriginInv
    <3>2. router[r.key[2]] \in Rules
      BY <3>1, LabelsAssumption DEF OriginInv, RouterInv, FromRouter
    <3>3. PICK g \in HostsOf(router[r.key[2]]) \ {Bad} : r.host = Lower[g]
      BY <3>1 DEF FromRouter
    <3>4. ASSUME NEW q \in Paths \cup {"another path"}, r.path \in {q, NoPath},
                 ~LosesPath(router[r.key[2]]), ~LosesMiddlewares(router[r.key[2]])
          PROVE  Allows(router[r.key[2]], r.host, q)
      <4>1. Accepted(router[r.key[2]]) /\ RoutePath(router[r.key[2]]) \in {q, NoPath}
        BY <3>1, <3>4 DEF FromRouter
      <4>2. PICK t \in Rules : t = router[r.key[2]]
        BY <3>2
      <4>3. /\ Accepted(t) /\ g \in HostsOf(t) \ {Bad} /\ ~LosesPath(t) /\ ~LosesMiddlewares(t)
            /\ RoutePath(t) \in {q, NoPath}
        BY <3>3, <3>4, <4>1, <4>2
      <4>4. Allows(t, Lower[g], q)
        BY <4>2, <4>3, RouterNotWider
      <4>5. QED
        BY <3>3, <4>2, <4>4
    <3>5. QED
      BY <3>1, <3>4 DEF FromRouter
  <2>2. QED
    BY <2>1 DEF NotWider
<1>4. QED
  BY <1>1, <1>2, <1>3, PTL DEF Spec
-----------------------------------------------------------------------------
(***************************************************************************)
(* The merge.  The stages keep, one after the other, the specs that the    *)
(* labels call for; MergeSpecs turns them into the keys of MergeIsExact.   *)
(***************************************************************************)
Lowers == {Lower[g] : g \in Spellings}

\* The keys that the rules of host name h should have.
Wanted(h) ==
  IF ServicesFor(h) # {} THEN {<<"docktunnel", n, None>> : n \in ServicesFor(h)}
  ELSE {<<router[n].kind, n, h>> : n \in RoutersFor(h)}

KeysAt(S, h) == {r.key : r \in {q \in S : q.host = h}}

\* s is the spec of docktunnel service n, or of router n for host name h.
DtSpec(s, n) ==
  /\ {"key", "host"} \subseteq DOMAIN s /\ s.key = <<"docktunnel", n, None>>
  /\ s.host = IF service[n].host = Bad THEN NoHost ELSE service[n].host
TfSpec(s, n, h) == s.key = <<router[n].kind, n, h>> /\ s.host = h

DtExact ==
  /\ \A s \in dtSpecs : \E n \in DOMAIN service : DtSpec(s, n)
  /\ \A n \in DOMAIN service : \E s \in dtSpecs : DtSpec(s, n)

TfExact ==
  /\ \A s \in tfSpecs : \E n \in DOMAIN router : \E g \in HostsOf(router[n]) \ {Bad} :
       optin /\ Accepted(router[n]) /\ TfSpec(s, n, Lower[g])
  /\ \A n \in DOMAIN router : optin /\ Accepted(router[n]) =>
       \A g \in HostsOf(router[n]) \ {Bad} : \E s \in tfSpecs : TfSpec(s, n, Lower[g])
  /\ \A s, t \in tfSpecs : s.key = t.key => s = t

LabelInv ==
  /\ \A n \in DOMAIN service : service[n] \in ServiceLabels
  /\ \A n \in DOMAIN router : router[n] \in RouterLabels

MergeInv ==
  /\ LabelInv
  /\ stage \in {"traefik", "merge"} => DtExact
  /\ stage = "merge" => TfExact
  /\ stage = "build" => \A h \in Lowers : Crowded(h) \/ KeysAt(merged, h) = Wanted(h)
  /\ stage = "use" => \A h \in Lowers : Crowded(h) \/ KeysAt(rules, h) = Wanted(h)

\* The host name of a router's spec is a host name in lower case.
LEMMA RouterHost ==
  ASSUME LabelInv, NEW n \in DOMAIN router, NEW g \in HostsOf(router[n]) \ {Bad}
  PROVE  g \in Spellings /\ Lower[g] \in Lowers
<1>1. router[n] \in RouterLabels
  BY DEF LabelInv
<1>2. PICK i \in DOMAIN router[n].clauses :
        router[n].clauses[i].matcher \in {"Host", "HostSNI"} /\ g \in router[n].clauses[i].args
  BY DEF HostsOf
<1>3. g \in Spellings
  BY <1>1, <1>2, LabelsAssumption
<1>4. QED
  BY <1>3 DEF Lowers

\* A host name in lower case stays what it is.
LEMMA LowerOnce == ASSUME NEW h \in Lowers PROVE h \in Spellings /\ Lower[h] = h /\ LowerHost(h) = h
BY LabelsAssumption DEF Lowers, LowerHost

\* The merge itself: with at most one router for a contested host name, its rules are
\* those of its docktunnel services, or if there are none those of its routers.
LEMMA MergeStep ==
  ASSUME LabelInv, DtExact, TfExact, MergeSpecs, NEW h \in Lowers, ~Crowded(h)
  PROVE  KeysAt(merged', h) = Wanted(h)
<1> DEFINE Low(s) == [s EXCEPT !.host = LowerHost(s.host)]
<1>1. PICK byHost \in [Claimed(tfSpecs) -> tfSpecs] :
        /\ \A k \in Claimed(tfSpecs) : LowerHost(byHost[k].host) = k
        /\ merged' = (tfSpecs \ {byHost[k] : k \in Claimed(tfSpecs) \cap Claimed(dtSpecs)})
                       \cup {Low(s) : s \in dtSpecs}
  BY DEF MergeSpecs
<1>2. h \in Spellings /\ h # NoHost
  BY LowerOnce, LabelsAssumption
<1>3. ASSUME NEW s \in tfSpecs
      PROVE  s.host \in Lowers /\ LowerHost(s.host) = s.host
  <2>1. PICK n \in DOMAIN router : \E g \in HostsOf(router[n]) \ {Bad} : TfSpec(s, n, Lower[g])
    BY DEF TfExact
  <2>2. PICK g \in HostsOf(router[n]) \ {Bad} : TfSpec(s, n, Lower[g])
    BY <2>1
  <2>3. s.host \in Lowers
    BY <2>2, RouterHost DEF TfSpec
  <2>4. QED
    BY <2>3, LowerOnce
<1>4. ASSUME NEW s \in tfSpecs, s.host = h
      PROVE  \E n \in RoutersFor(h) : s.key = <<router[n].kind, n, h>>
  <2>1. PICK n \in DOMAIN router : \E g \in HostsOf(router[n]) \ {Bad} :
          optin /\ Accepted(router[n]) /\ TfSpec(s, n, Lower[g])
    BY DEF TfExact
  <2>2. PICK g \in HostsOf(router[n]) \ {Bad} :
          optin /\ Accepted(router[n]) /\ TfSpec(s, n, Lower[g])
    BY <2>1
  <2>3. Lower[g] = h /\ s.key = <<router[n].kind, n, Lower[g]>>
    BY <1>4, <2>2 DEF TfSpec
  <2>4. n \in RoutersFor(h)
    BY <2>2, <2>3 DEF RoutersFor
  <2>5. QED
    BY <2>3, <2>4
<1>5. ASSUME NEW n \in RoutersFor(h)
      PROVE  \E s \in tfSpecs : s.host = h /\ s.key = <<router[n].kind, n, h>>
  BY DEF RoutersFor, TfExact, TfSpec
<1>6. ASSUME NEW s \in dtSpecs, Low(s).host = h
      PROVE  \E n \in ServicesFor(h) : Low(s).key = <<"docktunnel", n, None>>
  <2>1. PICK n \in DOMAIN service : DtSpec(s, n)
    BY DEF DtExact
  <2>2. s.key = <<"docktunnel", n, None>> /\ Low(s).key = s.key
    BY <2>1 DEF DtSpec
  <2>3. s.host = IF service[n].host = Bad THEN NoHost ELSE service[n].host
    BY <2>1 DEF DtSpec
  <2>4. LowerHost(s.host) = h
    BY <1>6, <2>1 DEF DtSpec
  <2>5. service[n].host \in Spellings \cup {NoHost, Bad}
    BY LabelsAssumption DEF LabelInv, Services
  <2>6. service[n].host \in Spellings /\ Lower[service[n].host] = h
    BY <1>2, <2>3, <2>4, <2>5 DEF LowerHost
  <2>7. QED
    BY <2>2, <2>6 DEF ServicesFor
<1>7. ASSUME NEW n \in ServicesFor(h)
      PROVE  \E s \in dtSpecs : /\ LowerHost(s.host) = h /\ Low(s).host = h
                                /\ Low(s).key = <<"docktunnel", n, None>>
  <2>1. n \in DOMAIN service /\ service[n].host \in Spellings /\ Lower[service[n].host] = h
    BY DEF ServicesFor
  <2>2. PICK s \in dtSpecs : DtSpec(s, n)
    BY <2>1 DEF DtExact
  <2>3. s.host = service[n].host /\ s.key = <<"docktunnel", n, None>>
    BY <2>1, <2>2, LabelsAssumption DEF DtSpec
  <2>4. LowerHost(s.host) = h
    BY <2>1, <2>3, LabelsAssumption DEF LowerHost
  <2>5. Low(s).host = LowerHost(s.host) /\ Low(s).key = s.key
    BY <2>2 DEF DtSpec
  <2>6. QED
    BY <2>3, <2>4, <2>5
<1> HIDE DEF Low
<1>8. CASE ServicesFor(h) # {}
  <2>1. h \in Claimed(dtSpecs)
    BY <1>2, <1>7, <1>8 DEF Claimed
  <2>2. ASSUME NEW s \in tfSpecs, s.host = h
        PROVE  s \in {byHost[k] : k \in Claimed(tfSpecs) \cap Claimed(dtSpecs)}
    <3>1. h \in Claimed(tfSpecs)
      BY <1>2, <1>3, <2>2 DEF Claimed
    <3>2. byHost[h] \in tfSpecs /\ byHost[h].host = h
      BY <1>1, <1>3, <3>1
    <3>3. PICK n \in RoutersFor(h) : s.key = <<router[n].kind, n, h>>
      BY <1>4, <2>2
    <3>4. PICK m \in RoutersFor(h) : byHost[h].key = <<router[m].kind, m, h>>
      BY <1>4, <3>2
    <3>5. n = m
      BY <1>8, <3>3, <3>4 DEF Crowded
    <3>6. s = byHost[h]
      BY <3>2, <3>3, <3>4, <3>5 DEF TfExact
    <3>7. QED
      BY <2>1, <3>1, <3>6
  <2>3. \A q \in merged' : q.host = h => \E s \in dtSpecs : q = Low(s)
    BY <1>1, <2>2
  <2>4. \A s \in dtSpecs : Low(s) \in merged'
    BY <1>1
  <2>5. KeysAt(merged', h) \subseteq {<<"docktunnel", n, None>> : n \in ServicesFor(h)}
    BY <1>6, <2>3 DEF KeysAt
  <2>6. {<<"docktunnel", n, None>> : n \in ServicesFor(h)} \subseteq KeysAt(merged', h)
    BY <1>7, <2>4 DEF KeysAt
  <2>7. QED
    BY <1>8, <2>5, <2>6 DEF Wanted
<1>9. CASE ServicesFor(h) = {}
  <2>1. \A s \in dtSpecs : Low(s).host # h
    BY <1>6, <1>9
  <2>2. h \notin Claimed(dtSpecs)
    <3>1. ASSUME NEW s \in dtSpecs PROVE LowerHost(s.host) # h
      <4>1. Low(s).host = LowerHost(s.host)
        BY DEF DtExact, DtSpec, Low
      <4>2. QED
        BY <2>1, <4>1
    <3>2. QED
      BY <3>1 DEF Claimed
  <2>3. ASSUME NEW s \in tfSpecs, s.host = h PROVE s \in merged'
    <3>1. ASSUME NEW k \in Claimed(tfSpecs) \cap Claimed(dtSpecs), s = byHost[k] PROVE FALSE
      <4>1. k = h
        BY <1>1, <1>3, <2>3, <3>1
      <4>2. QED
        BY <2>2, <3>1, <4>1
    <3>2. QED
      BY <1>1, <3>1
  <2>4. \A q \in merged' : q.host = h => q \in tfSpecs
    BY <1>1, <2>1
  <2>5. KeysAt(merged', h) \subseteq {<<router[n].kind, n, h>> : n \in RoutersFor(h)}
    BY <1>4, <2>4 DEF KeysAt
  <2>6. {<<router[n].kind, n, h>> : n \in RoutersFor(h)} \subseteq KeysAt(merged', h)
    BY <1>5, <2>3 DEF KeysAt
  <2>7. QED
    BY <1>9, <2>5, <2>6 DEF Wanted
<1>10. QED
  BY <1>8, <1>9

\* docktunnel labels take priority on a host name, and the merge neither loses a service
\* nor leaves a router over, for any labels in which no contested host name is crowded.
THEOREM MergeIsExactHolds == Spec => []MergeIsExact
<1>1. Init => MergeInv
  BY DEF Init, MergeInv, LabelInv
<1>2. MergeInv /\ [Next]_vars => MergeInv'
  <2> SUFFICES ASSUME MergeInv, [Next]_vars PROVE MergeInv'
    OBVIOUS
  <2>1. UNCHANGED <<service, router, optin, ctr>>
    BY DEF Next, Parse, AdaptDockTunnel, DecodeTraefik, MergeSpecs, BuildIngressRules, Start,
           Rebuild, Reconcile, labels, vars
  <2>2. LabelInv /\ LabelInv'
    BY <2>1 DEF MergeInv, LabelInv
  <2>3. \A h : (Crowded(h) <=> Crowded(h)') /\ Wanted(h)' = Wanted(h)
    BY <2>1 DEF Crowded, Wanted, ServicesFor, RoutersFor
  <2>4. CASE AdaptDockTunnel
    <3>1. DtExact' /\ stage' = "traefik"
      <4>1. PICK team : dtSpecs' = {SpecOf(n, service[n], team[n]) : n \in DOMAIN service}
        BY <2>4 DEF AdaptDockTunnel
      <4>2. ASSUME NEW n, NEW s, s = SpecOf(n, service[n], team[n]) PROVE DtSpec(s, n)'
        BY <2>1, <4>2 DEF DtSpec, SpecOf
      <4>3. \A s \in dtSpecs' : \E n \in DOMAIN service' : DtSpec(s, n)'
        BY <2>1, <4>1, <4>2
      <4>4. ASSUME NEW n \in DOMAIN service' PROVE \E s \in dtSpecs' : DtSpec(s, n)'
        <5>1. SpecOf(n, service[n], team[n]) \in dtSpecs'
          BY <2>1, <4>1, <4>4
        <5>2. QED
          BY <4>2, <5>1
      <4>5. QED
        BY <2>4, <4>3, <4>4 DEF AdaptDockTunnel, DtExact
    <3>2. QED
      BY <2>2, <3>1 DEF MergeInv
  <2>5. CASE DecodeTraefik
    <3>1. stage = "traefik" /\ stage' = "merge" /\ UNCHANGED dtSpecs
      BY <2>5 DEF DecodeTraefik
    <3>2. DtExact'
      BY <2>1, <3>1 DEF MergeInv, DtExact, DtSpec
    <3>3. TfExact'
      <4>1. \A s \in tfSpecs' : \E n \in DOMAIN router : \E g \in HostsOf(router[n]) \ {Bad} :
              optin /\ Accepted(router[n]) /\ s = RouterSpec(n, router[n], Lower[g])
        BY <2>5 DEF DecodeTraefik
      <4>2. \A n \in DOMAIN router : optin /\ Accepted(router[n]) =>
              \A g \in HostsOf(router[n]) \ {Bad} : RouterSpec(n, router[n], Lower[g]) \in tfSpecs'
        BY <2>5 DEF DecodeTraefik
      <4>3. ASSUME NEW n, NEW h, NEW s, s = RouterSpec(n, router[n], h)
            PROVE  s.key = <<router[n].kind, n, h>> /\ TfSpec(s, n, h)'
        BY <2>1, <4>3 DEF RouterSpec, TfSpec
      <4>4. ASSUME NEW s \in tfSpecs', NEW t \in tfSpecs', s.key = t.key PROVE s = t
        <5>1. PICK n, h : s = RouterSpec(n, router[n], h)
          BY <4>1
        <5>2. PICK m, k : t = RouterSpec(m, router[m], k)
          BY <4>1
        <5>3. n = m /\ h = k
          <6>1. s.key = <<router[n].kind, n, h>>
            BY <4>3, <5>1
          <6>2. t.key = <<router[m].kind, m, k>>
            BY <4>3, <5>2
          <6>3. \A a, b : <<a, n, h>> = <<b, m, k>> => n = m /\ h = k
            OBVIOUS
          <6>4. QED
            BY <4>4, <6>1, <6>2, <6>3, Zenon
        <5>4. QED
          BY <5>1, <5>2, <5>3
      <4>5. ASSUME NEW s \in tfSpecs'
            PROVE  \E n \in DOMAIN router' : \E g \in HostsOf(router[n])' \ {Bad} :
                     optin' /\ Accepted(router[n])' /\ TfSpec(s, n, Lower[g])'
        BY <2>1, <4>1, <4>3
      <4>6. ASSUME NEW n \in DOMAIN router', (optin /\ Accepted(router[n]))',
                   NEW g \in HostsOf(router[n])' \ {Bad}
            PROVE  \E s \in tfSpecs' : TfSpec(s, n, Lower[g])'
        BY <2>1, <4>2, <4>3, <4>6
      <4>7. QED
        BY <4>4, <4>5, <4>6 DEF TfExact
    <3>4. QED
      BY <2>2, <3>1, <3>2, <3>3 DEF MergeInv
  <2>6. CASE MergeSpecs
    <3>1. stage = "merge" /\ stage' = "build"
      BY <2>6 DEF MergeSpecs
    <3>2. \A h \in Lowers : ~Crowded(h) => KeysAt(merged', h) = Wanted(h)
      BY <2>2, <2>6, <3>1, MergeStep DEF MergeInv
    <3>3. QED
      BY <2>2, <2>3, <3>1, <3>2 DEF MergeInv, Lowers, KeysAt
  <2>7. CASE BuildIngressRules
    <3>1. stage = "build" /\ stage' = "use"
      BY <2>7 DEF BuildIngressRules
    <3>2. ASSUME NEW h PROVE KeysAt(rules', h) = KeysAt(merged, h)
      <4> DEFINE Same(r, s) == r.key = s.key /\ r.host = s.host
      <4>1. \A s \in merged : RuleOf(s) \in rules' /\ Same(RuleOf(s), s)
        BY <2>7 DEF BuildIngressRules, RuleOf
      <4>2. \A r \in rules' : \E s \in merged : Same(r, s)
        BY <2>7, <4>1 DEF BuildIngressRules
      <4>3. QED
        BY <4>1, <4>2 DEF KeysAt
    <3>3. QED
      BY <2>2, <2>3, <3>1, <3>2 DEF MergeInv, Lowers, KeysAt
  <2>8. CASE Start \/ Rebuild \/ Reconcile
    BY <2>2, <2>8 DEF Start, Rebuild, Reconcile, MergeInv
  <2>9. CASE UNCHANGED vars
    <3>1. DtExact' = DtExact /\ TfExact' = TfExact
      BY <2>9 DEF vars, DtExact, TfExact, DtSpec, TfSpec
    <3>2. QED
      BY <2>2, <2>3, <2>9, <3>1 DEF vars, MergeInv, Lowers, KeysAt
  <2>10. QED
    BY <2>4, <2>5, <2>6, <2>7, <2>8, <2>9 DEF Next, Parse
<1>3. MergeInv => MergeIsExact
  BY DEF MergeInv, MergeIsExact, Lowers, KeysAt, Wanted
<1>4. QED
  BY <1>1, <1>2, <1>3, PTL DEF Spec
-----------------------------------------------------------------------------
(***************************************************************************)
(* Types, and retention policies.                                          *)
(***************************************************************************)
LabelTypes ==
  /\ LabelInv
  /\ DOMAIN service \subseteq Names /\ DOMAIN router \subseteq Routers /\ global \in Globals

\* A key that says docktunnel is that of one of the container's services.
OwnKey(key) == key \in Keys /\ (key[1] = "docktunnel" => key[2] \in DOMAIN service)

SpecType(s) ==
  /\ {"key", "host", "path", "url", "port", "team"} = DOMAIN s
  /\ OwnKey(s.key) /\ s.host \in Spellings \cup {NoHost} /\ s.path \in Paths \cup {NoPath}
  /\ s.url.port \in Ports \ {"bad"} /\ s.port \in Ports \ {"bad"} /\ s.team \in Teams \cup {None}

RuleType(r) ==
  /\ OwnKey(r.key) /\ r.host \in Lowers \cup {NoHost} /\ r.path \in Paths \cup {NoPath}
  /\ r.url.port \in Ports \ {"bad"} /\ r.team \in Teams \cup {None}

TypeInv ==
  /\ LabelTypes
  /\ consumer \in {"start", "rebuild"}
  /\ stage \in {"docktunnel", "traefik", "merge", "build", "use", "done"}
  /\ \A s \in dtSpecs : SpecType(s)
  /\ \A s \in tfSpecs \cup merged : SpecType(s) /\ s.host \in Lowers \cup {NoHost}
  /\ \A r \in rules \cup started \cup rebuilt : RuleType(r)
  /\ \A kp \in policies : kp = <<kp[1], RetentionPolicy(kp[1])>> /\ OwnKey(kp[1])

\* A port in a URL is one that the code could use.
LEMMA URLPort ==
  ASSUME NEW network, NEW p \in Ports PROVE URLOn(network, p).port \in Ports \ {"bad"}
BY DEF URLOn, PortOf, NoURL, Ports, None

\* The spec of a docktunnel service is well formed ...
LEMMA SpecOfType ==
  ASSUME LabelTypes, NEW n \in DOMAIN service, NEW team \in Teams \cup {None}
  PROVE  SpecType(SpecOf(n, service[n], team))
<1>1. service[n] \in Services
  BY LabelsAssumption DEF LabelTypes, LabelInv
<1>2. /\ service[n].host \in Spellings \cup {NoHost, Bad} /\ service[n].port \in Ports
      /\ service[n].path \in Paths \cup {NoPath}
  BY <1>1 DEF Services
<1> DEFINE s == SpecOf(n, service[n], team)
<1>3. OwnKey(s.key)
  <2>1. <<"docktunnel", n, None>> \in Keys
    BY DEF Keys, LabelTypes
  <2>2. QED
    BY <2>1 DEF OwnKey, SpecOf
<1>4. s.port \in Ports \ {"bad"}
  BY <1>2 DEF SpecOf, PortOf, Ports, None
<1>5. s.url.port \in Ports \ {"bad"}
  BY <1>2, URLPort DEF SpecOf, Ports
<1>6. s.host \in Spellings \cup {NoHost} /\ s.path \in Paths \cup {NoPath} /\ s.team \in Teams \cup {None}
  BY <1>2 DEF SpecOf
<1>7. DOMAIN s = {"key", "host", "path", "url", "port", "team"}
  BY DEF SpecOf
<1>8. QED
  BY <1>3, <1>4, <1>5, <1>6, <1>7 DEF SpecType

\* ... and so is that of a router.
LEMMA RouterSpecType ==
  ASSUME LabelTypes, NEW n \in DOMAIN router, Accepted(router[n]),
         NEW g \in HostsOf(router[n]) \ {Bad}
  PROVE  /\ SpecType(RouterSpec(n, router[n], Lower[g]))
         /\ RouterSpec(n, router[n], Lower[g]).host \in Lowers
<1> DEFINE r == router[n]
           s == RouterSpec(n, r, Lower[g])
<1>1. r \in RouterLabels /\ r \in Rules
  BY LabelsAssumption DEF LabelTypes, LabelInv
<1>2. r.kind \in {"http", "tcp"} /\ r.server \in Ports
  BY <1>1 DEF Rules, Accepted
<1>3. g \in Spellings /\ Lower[g] \in Lowers /\ Lower[g] \in Spellings
  BY RouterHost, LabelsAssumption DEF LabelTypes
<1>4. OwnKey(s.key)
  <2>1. <<r.kind, n, Lower[g]>> \in Keys
    BY <1>2, <1>3 DEF Keys, LabelTypes
  <2>2. QED
    BY <1>2, <2>1 DEF OwnKey, RouterSpec
<1>5. s.path \in Paths \cup {NoPath}
  <2>1. CASE r.kind = "tcp" \/ PathClauses(r) = {}
    BY <2>1 DEF RouterSpec, RoutePath
  <2>2. CASE r.kind = "http" /\ PathClauses(r) # {}
    <3>1. PICK c \in Range(r.clauses) : c.matcher = "Path" /\ RoutePath(r) \in c.args
      BY <1>1, <2>2, RoutePathIsNamed
    <3>2. PICK i \in DOMAIN r.clauses : c = r.clauses[i]
      BY DEF Range
    <3>3. RoutePath(r) \in Paths
      BY <1>1, <3>1, <3>2, LabelsAssumption
    <3>4. QED
      BY <3>3 DEF RouterSpec
  <2>3. QED
    BY <1>2, <2>1, <2>2
<1>6. s.port \in Ports \ {"bad"} /\ s.url.port \in Ports \ {"bad"}
  BY <1>2, URLPort DEF RouterSpec, PortOf, Ports, None
<1>7. s.host = Lower[g] /\ s.team = None /\ DOMAIN s = {"key", "host", "path", "url", "port", "team"}
  BY DEF RouterSpec
<1>8. QED
  BY <1>3, <1>4, <1>5, <1>6, <1>7 DEF SpecType

\* Merging lower-cases the host name and keeps the rest.
LEMMA LowType ==
  ASSUME NEW s, SpecType(s)
  PROVE  LET t == [s EXCEPT !.host = LowerHost(s.host)]
         IN  SpecType(t) /\ t.host \in Lowers \cup {NoHost}
<1> DEFINE t == [s EXCEPT !.host = LowerHost(s.host)]
<1>1. LowerHost(s.host) \in Lowers \cup {NoHost} /\ LowerHost(s.host) \in Spellings \cup {NoHost}
  BY LabelsAssumption DEF SpecType, LowerHost, Lowers
<1>2. /\ DOMAIN t = DOMAIN s /\ t.host = LowerHost(s.host) /\ t.key = s.key /\ t.path = s.path
      /\ t.url = s.url /\ t.port = s.port /\ t.team = s.team
  BY DEF SpecType
<1>3. QED
  BY <1>1, <1>2 DEF SpecType

\* The rule of a merged spec is well formed.
LEMMA RuleOfType ==
  ASSUME NEW s, SpecType(s), s.host \in Lowers \cup {NoHost} PROVE RuleType(RuleOf(s))
<1>1. RuleOf(s).url.port \in Ports \ {"bad"}
  BY DEF SpecType, RuleOf
<1>2. QED
  BY <1>1 DEF SpecType, RuleType, RuleOf

\* The values that a policy is looked for in are well formed; a service's own come first.
LEMMA CandidateList ==
  ASSUME LabelTypes, NEW key, OwnKey(key)
  PROVE  LET c == Candidates(key)
         IN  /\ DOMAIN c \subseteq Nat /\ \A i \in DOMAIN c : c[i] \in Retention
             /\ key[1] = "docktunnel" =>
                  /\ DOMAIN c = 1..4
                  /\ c[1] = service[key[2]].delete_retention /\ c[2] = service[key[2]].retention
                  /\ c[3] = global.delete_retention /\ c[4] = global.retention
             /\ key[1] # "docktunnel" =>
                  DOMAIN c = 1..2 /\ c[1] = global.delete_retention /\ c[2] = global.retention
<1>1. global.delete_retention \in Retention /\ global.retention \in Retention
  BY LabelsAssumption DEF LabelTypes
<1>2. CASE key[1] = "docktunnel"
  <2>1. service[key[2]] \in Services
    BY <1>2, LabelsAssumption DEF OwnKey, LabelTypes, LabelInv
  <2>2. service[key[2]].delete_retention \in Retention /\ service[key[2]].retention \in Retention
    BY <2>1 DEF Services
  <2>3. QED
    BY <1>1, <1>2, <2>2 DEF Candidates
<1>3. CASE key[1] # "docktunnel"
  BY <1>1, <1>3 DEF Candidates
<1>4. QED
  BY <1>2, <1>3

\* The policy of a value that parses; its duration is exact if the time fits.
LEMMA PolicyOfValue ==
  ASSUME NEW v \in Retention, v.kind # None, ~ParseFails(v)
  PROVE  /\ PolicyOf(v) \in Policies
         /\ ~Timed(v) => PolicyOf(v).type = v.kind
         /\ Timed(v) =>
              /\ PolicyOf(v).type = "timed"
              /\ Asked(v) < 2^(Width - 1) => PolicyOf(v).duration = Asked(v)
<1>1. /\ v.kind \in {"immediate", "forever", "days", "duration"} /\ v.n \in Nat
      /\ Timed(v) <=> v.kind \in {"days", "duration"}
  BY DEF Retention, ParseFails, Timed
<1>2. Day \in Nat /\ Width \in Nat \ {0} /\ Asked(v) \in Nat
  BY <1>1, LabelsAssumption DEF Asked
<1> DEFINE x == Asked(v)
<1>3. Wrap(x) \in Int
  <2>1. x \in Int
    BY <1>2
  <2> HIDE DEF x
  <2>2. ((x + 2^(Width - 1)) % 2^Width) - 2^(Width - 1) \in (-(2^(Width - 1)))..(2^(Width - 1) - 1)
    BY <1>2, <2>1, WrapRange
  <2>3. QED
    BY <2>2 DEF Wrap
<1>4. x < 2^(Width - 1) => Wrap(x) = x
  BY <1>2, WrapFits DEF Wrap
<1> HIDE DEF x
<1>5. PolicyOf(v) = [type |-> IF Timed(v) THEN "timed" ELSE v.kind,
                     duration |-> IF Timed(v) THEN Wrap(x) ELSE 0]
  BY DEF PolicyOf, x
<1>6. PolicyOf(v) \in Policies
  BY <1>1, <1>3, <1>5 DEF Policies
<1>7. QED
  BY <1>4, <1>5, <1>6 DEF x

Parses(v) == v.kind # None /\ ~ParseFails(v)

\* What RetentionHonoured says of one entry.
Honoured(key, p) ==
  LET own    == IF key[1] # "docktunnel" THEN {}
                ELSE {service[key[2]].delete_retention, service[key[2]].retention}
      both   == {global.delete_retention, global.retention}
      source == IF {v \in own : Parses(v)} # {} THEN {v \in own : Parses(v)}
                ELSE {v \in both : Parses(v)}
  IN  IF source = {} THEN p.type = "immediate"
      ELSE \E v \in source :
             IF ~Timed(v) THEN p.type = v.kind
             ELSE /\ p.type = "timed"
                  /\ Asked(v) < 2^(Width - 1) => p.duration = Asked(v)

\* getServiceRetentionPolicy finds a policy, and the right one.
LEMMA RetentionPolicyRight ==
  ASSUME LabelTypes, NEW key, OwnKey(key)
  PROVE  RetentionPolicy(key) \in Policies /\ Honoured(key, RetentionPolicy(key))
<1> DEFINE c      == Candidates(key)
           good   == {i \in DOMAIN c : Parses(c[i])}
           first  == CHOOSE i \in good : \A j \in good : i <= j
           own    == IF key[1] # "docktunnel" THEN {}
                     ELSE {service[key[2]].delete_retention, service[key[2]].retention}
           both   == {global.delete_retention, global.retention}
           Valid(vs) == {v \in vs : Parses(v)}
           source == IF Valid(own) # {} THEN Valid(own) ELSE Valid(both)
<1>1. /\ DOMAIN c \subseteq Nat /\ \A i \in DOMAIN c : c[i] \in Retention
      /\ key[1] = "docktunnel" =>
           /\ DOMAIN c = 1..4
           /\ c[1] = service[key[2]].delete_retention /\ c[2] = service[key[2]].retention
           /\ c[3] = global.delete_retention /\ c[4] = global.retention
      /\ key[1] # "docktunnel" =>
           DOMAIN c = 1..2 /\ c[1] = global.delete_retention /\ c[2] = global.retention
  BY CandidateList
<1>2. RetentionPolicy(key) = IF good = {} THEN [type |-> "immediate", duration |-> 0]
                             ELSE PolicyOf(c[first])
  BY DEF RetentionPolicy, Parses
<1>3. CASE good = {}
  <2>1. source = {}
    BY <1>1, <1>3
  <2>2. RetentionPolicy(key) = [type |-> "immediate", duration |-> 0]
    BY <1>2, <1>3
  <2>3. Honoured(key, RetentionPolicy(key))
    BY <2>1, <2>2 DEF Honoured
  <2>4. QED
    BY <2>2, <2>3 DEF Policies
<1>4. CASE good # {}
  <2>1. first \in good /\ \A j \in good : first <= j
    BY <1>1, <1>4, FirstExists
  <2>2. c[first] \in source
    BY <1>1, <2>1
  <2>3. c[first] \in Retention /\ Parses(c[first])
    BY <1>1, <2>1
  <2> DEFINE v == c[first]
  <2>4. /\ PolicyOf(v) \in Policies
        /\ ~Timed(v) => PolicyOf(v).type = v.kind
        /\ Timed(v) =>
             /\ PolicyOf(v).type = "timed"
             /\ Asked(v) < 2^(Width - 1) => PolicyOf(v).duration = Asked(v)
    BY <2>3, PolicyOfValue DEF Parses
  <2>5. RetentionPolicy(key) = PolicyOf(v)
    BY <1>2, <1>4
  <2>6. Honoured(key, PolicyOf(v))
    <3> HIDE DEF v
    <3>1. v \in source
      BY <2>2 DEF v
    <3>2. source # {}
      BY <3>1
    <3>3. \E w \in source : IF ~Timed(w) THEN PolicyOf(v).type = w.kind
             ELSE /\ PolicyOf(v).type = "timed"
                  /\ Asked(w) < 2^(Width - 1) => PolicyOf(v).duration = Asked(w)
      BY <2>4, <3>1
    <3>4. QED
      BY <3>2, <3>3 DEF Honoured
  <2>7. QED
    BY <2>4, <2>5, <2>6
<1>5. QED
  BY <1>3, <1>4

\* TypeInv is inductive.
LEMMA TypeInvInductive ==
  ASSUME TypeInv, [Next]_vars PROVE TypeInv'
<1>1. UNCHANGED <<service, router, optin, global, ctr, others>>
  BY DEF Next, Parse, AdaptDockTunnel, DecodeTraefik, MergeSpecs, BuildIngressRules, Start,
         Rebuild, Reconcile, labels, vars
<1>2. LabelTypes /\ LabelTypes'
  BY <1>1 DEF TypeInv, LabelTypes, LabelInv
<1>3. \A key : OwnKey(key)' <=> OwnKey(key)
  BY <1>1 DEF OwnKey, Keys
<1>4. \A s : SpecType(s)' <=> SpecType(s)
  BY <1>3 DEF SpecType
<1>5. \A r : RuleType(r)' <=> RuleType(r)
  BY <1>3 DEF RuleType, Lowers
<1>6. \A key : RetentionPolicy(key)' = RetentionPolicy(key)
  BY <1>1 DEF RetentionPolicy, Candidates
<1> DEFINE Specs(S)  == \A s \in S : SpecType(s) /\ s.host \in Lowers \cup {NoHost}
           Pols(P)   == \A kp \in P : kp = <<kp[1], RetentionPolicy(kp[1])>> /\ OwnKey(kp[1])
           Stages    == {"docktunnel", "traefik", "merge", "build", "use", "done"}
<1>7. /\ consumer \in {"start", "rebuild"} /\ stage \in Stages /\ \A s \in dtSpecs : SpecType(s)
      /\ Specs(tfSpecs) /\ Specs(merged) /\ Pols(policies)
      /\ \A r \in rules \cup started \cup rebuilt : RuleType(r)
  BY DEF TypeInv
<1>8. ASSUME consumer' \in {"start", "rebuild"}, stage' \in Stages,
             \A s \in dtSpecs' : SpecType(s), Specs(tfSpecs'), Specs(merged'), Pols(policies'),
             \A r \in rules' \cup started' \cup rebuilt' : RuleType(r)
      PROVE  TypeInv'
  BY <1>2, <1>3, <1>4, <1>5, <1>6, <1>8 DEF TypeInv, Lowers
<1>9. CASE AdaptDockTunnel
  <2>1. \A s \in dtSpecs' : SpecType(s)
    BY <1>2, <1>9, SpecOfType DEF AdaptDockTunnel
  <2>2. QED
    BY <1>7, <1>8, <1>9, <2>1 DEF AdaptDockTunnel
<1>10. CASE DecodeTraefik
  <2>1. ASSUME NEW s \in tfSpecs' PROVE SpecType(s) /\ s.host \in Lowers \cup {NoHost}
    <3>1. PICK n \in DOMAIN router : \E g \in HostsOf(router[n]) \ {Bad} :
            optin /\ Accepted(router[n]) /\ s = RouterSpec(n, router[n], Lower[g])
      BY <1>10, <2>1 DEF DecodeTraefik
    <3>2. QED
      BY <1>2, <3>1, RouterSpecType
  <2>2. QED
    BY <1>7, <1>8, <1>10, <2>1 DEF DecodeTraefik
<1>11. CASE MergeSpecs
  <2>1. ASSUME NEW s \in merged' PROVE SpecType(s) /\ s.host \in Lowers \cup {NoHost}
    <3>1. s \in tfSpecs \/ \E d \in dtSpecs : s = [d EXCEPT !.host = LowerHost(d.host)]
      BY <1>11, <2>1 DEF MergeSpecs
    <3>2. QED
      BY <1>7, <3>1, LowType
  <2>2. QED
    BY <1>7, <1>8, <1>11, <2>1 DEF MergeSpecs
<1>12. CASE BuildIngressRules
  <2>1. \A r \in rules' : RuleType(r)
    BY <1>7, <1>12, RuleOfType DEF BuildIngressRules
  <2>2. QED
    BY <1>7, <1>8, <1>12, <2>1 DEF BuildIngressRules
<1>13. CASE Start
  <2>1. started' \subseteq rules
    BY <1>13 DEF Start
  <2>2. Pols(policies')
    <3>1. policies' = {<<r.key, RetentionPolicy(r.key)>> : r \in started'}
      BY <1>13 DEF Start
    <3>2. \A r \in started' : OwnKey(r.key)
      BY <1>7, <2>1 DEF RuleType
    <3>3. QED
      BY <3>1, <3>2
  <2>3. QED
    BY <1>7, <1>8, <1>13, <2>1, <2>2 DEF Start
<1>14. CASE Rebuild
  <2>1. rebuilt' \subseteq rules
    BY <1>14 DEF Rebuild
  <2>2. QED
    BY <1>7, <1>8, <1>14, <2>1 DEF Rebuild
<1>15. CASE Reconcile \/ UNCHANGED vars
  BY <1>7, <1>8, <1>15 DEF Reconcile, vars
<1>16. QED
  BY <1>9, <1>10, <1>11, <1>12, <1>13, <1>14, <1>15 DEF Next, Parse

LEMMA TypeInvInitially == Init => TypeInv
BY DEF Init, TypeInv, LabelTypes, LabelInv

\* Specs, rules and policies are well formed whatever the labels say, and the host names of
\* all rules are in lower case.
THEOREM TypeCorrect == Spec => []TypeOK
<1>1. TypeInv => TypeOK
  <2> SUFFICES ASSUME TypeInv PROVE TypeOK
    OBVIOUS
  <2>1. \A s \in dtSpecs \cup tfSpecs \cup merged :
          s.key \in Keys /\ s.host \in Spellings \cup {NoHost} /\ s.port \in Ports \ {"bad"}
    BY DEF TypeInv, SpecType, OwnKey
  <2>2. \A r \in rules \cup started \cup rebuilt :
          /\ r.key \in Keys /\ r.path \in Paths \cup {NoPath} /\ r.team \in Teams \cup {None}
          /\ r.host \in {Lower[h] : h \in Spellings} \cup {NoHost}
          /\ r.url.port \in Ports \ {"bad"}
    BY DEF TypeInv, RuleType, OwnKey, Lowers
  <2>3. policies \in SUBSET (Keys \X Policies)
    <3>1. ASSUME NEW kp \in policies PROVE kp \in Keys \X Policies
      <4>1. kp = <<kp[1], RetentionPolicy(kp[1])>> /\ OwnKey(kp[1])
        BY DEF TypeInv
      <4>2. RetentionPolicy(kp[1]) \in Policies /\ kp[1] \in Keys
        BY <4>1, RetentionPolicyRight DEF TypeInv, OwnKey
      <4>3. QED
        BY <4>1, <4>2
    <3>2. QED
      BY <3>1
  <2>4. QED
    BY <2>1, <2>2, <2>3 DEF TypeInv, TypeOK
<1>2. TypeInv /\ [Next]_vars => TypeInv'
  BY TypeInvInductive
<1>3. QED
  BY <1>1, <1>2, TypeInvInitially, PTL DEF Spec

\* Retention labels are honoured: the service's own valid label first, an invalid one never,
\* and the time exactly, a number of days while it fits into a time.Duration, whatever its width.
THEOREM RetentionHonouredHolds == Spec => []RetentionHonoured
<1>1. TypeInv => RetentionHonoured
  <2> SUFFICES ASSUME TypeInv PROVE RetentionHonoured
    OBVIOUS
  <2>1. ASSUME NEW kp \in policies PROVE Honoured(kp[1], kp[2])
    <3>1. kp = <<kp[1], RetentionPolicy(kp[1])>> /\ OwnKey(kp[1])
      BY DEF TypeInv
    <3>2. kp[2] = RetentionPolicy(kp[1])
      BY <3>1
    <3>3. QED
      BY <3>1, <3>2, RetentionPolicyRight DEF TypeInv
  <2>2. QED
    BY <2>1 DEF RetentionHonoured, Honoured, Parses
<1>2. TypeInv /\ [Next]_vars => TypeInv'
  BY TypeInvInductive
<1>3. QED
  BY <1>1, <1>2, TypeInvInitially, PTL DEF Spec
-----------------------------------------------------------------------------
(***************************************************************************)
(* Start and rebuild.  Labels that are not ambiguous determine what every  *)
(* stage of a parse yields, whatever the order of the maps.                *)
(***************************************************************************)
TheTeam(n)   == CHOOSE t \in TeamsOf(service[n]) : TRUE
TheServices  == {SpecOf(n, service[n], TheTeam(n)) : n \in DOMAIN service}
TheRouters   ==
  IF ~optin THEN {}
  ELSE UNION {{RouterSpec(n, router[n], Lower[h]) : h \in HostsOf(router[n]) \ {Bad}} :
              n \in {m \in DOMAIN router : Accepted(router[m])}}
TheMerge     == {s \in TheRouters : s.host \notin Claimed(TheServices)}
                  \cup {[s EXCEPT !.host = LowerHost(s.host)] : s \in TheServices}
TheRules     == {RuleOf(s) : s \in TheMerge}
TheStart     == IF Validate(TheRules, others.running \cup others.later) THEN TheRules ELSE {}
TheRebuild   == LET validated == {r \in TheRules : r.host # NoHost}
                IN  IF Validate(validated, others.running) THEN validated ELSE {}

Determined ==
  /\ stage \in {"traefik", "merge"} => dtSpecs = TheServices
  /\ stage = "merge" => tfSpecs = TheRouters
  /\ stage = "build" => merged = TheMerge
  /\ stage \in {"use", "done"} => rules = TheRules
  /\ consumer = "rebuild" => started = TheStart
  /\ stage = "done" => consumer = "rebuild" /\ rebuilt = TheRebuild

AgreeInv == LabelInv /\ (Ambiguous \/ Determined)

\* A parse has no choice of teams ...
LEMMA TeamChoice ==
  ASSUME LabelInv, ~Ambiguous, AdaptDockTunnel PROVE dtSpecs' = TheServices
<1>1. PICK team \in [DOMAIN service -> Teams \cup {None}] :
        /\ \A n \in DOMAIN service : team[n] \in TeamsOf(service[n])
        /\ dtSpecs' = {SpecOf(n, service[n], team[n]) : n \in DOMAIN service}
  BY DEF AdaptDockTunnel
<1>2. ASSUME NEW n \in DOMAIN service PROVE team[n] = TheTeam(n)
  <2>1. \A t, u \in TeamsOf(service[n]) : t = u
    BY DEF Ambiguous, TeamsOf
  <2>2. team[n] \in TeamsOf(service[n]) /\ TheTeam(n) \in TeamsOf(service[n])
    BY <1>1 DEF TheTeam
  <2>3. QED
    BY <2>1, <2>2
<1>3. QED
  BY <1>1, <1>2 DEF TheServices

\* ... and none of routers: traefikByHostname holds the only one of a contested host name.
LEMMA RouterChoice ==
  ASSUME LabelInv, ~Ambiguous, MergeSpecs, dtSpecs = TheServices, tfSpecs = TheRouters
  PROVE  merged' = TheMerge
<1>1. PICK byHost \in [Claimed(tfSpecs) -> tfSpecs] :
        /\ \A k \in Claimed(tfSpecs) : LowerHost(byHost[k].host) = k
        /\ merged' = (tfSpecs \ {byHost[k] : k \in Claimed(tfSpecs) \cap Claimed(dtSpecs)})
                       \cup {[s EXCEPT !.host = LowerHost(s.host)] : s \in dtSpecs}
  BY DEF MergeSpecs
<1>2. ASSUME NEW s \in tfSpecs
      PROVE  /\ s.host \in Lowers /\ s.host \in Spellings /\ s.host # NoHost
             /\ LowerHost(s.host) = s.host
             /\ \E n \in RoutersFor(s.host) : s = RouterSpec(n, router[n], s.host)
  <2>1. PICK n \in DOMAIN router : \E g \in HostsOf(router[n]) \ {Bad} :
          optin /\ Accepted(router[n]) /\ s = RouterSpec(n, router[n], Lower[g])
    BY DEF TheRouters
  <2>2. PICK g \in HostsOf(router[n]) \ {Bad} :
          optin /\ Accepted(router[n]) /\ s = RouterSpec(n, router[n], Lower[g])
    BY <2>1
  <2>3. s.host = Lower[g]
    BY <2>2 DEF RouterSpec
  <2>4. s.host \in Lowers
    BY <2>3, RouterHost
  <2>5. n \in RoutersFor(s.host)
    BY <2>2, <2>3 DEF RoutersFor
  <2>6. s = RouterSpec(n, router[n], s.host)
    BY <2>2, <2>3
  <2>7. s.host \in Spellings /\ LowerHost(s.host) = s.host
    BY <2>4, LowerOnce
  <2>8. QED
    BY <2>4, <2>5, <2>6, <2>7, LabelsAssumption
<1>3. ASSUME NEW h \in Claimed(dtSpecs) \cap Spellings PROVE ServicesFor(h) # {}
  <2>1. PICK s \in dtSpecs : LowerHost(s.host) = h /\ h # NoHost
    BY DEF Claimed
  <2>2. PICK n \in DOMAIN service : s = SpecOf(n, service[n], TheTeam(n))
    BY DEF TheServices
  <2>3. s.host = IF service[n].host = Bad THEN NoHost ELSE service[n].host
    BY <2>2 DEF SpecOf
  <2>4. service[n].host \in Spellings \cup {NoHost, Bad}
    BY LabelsAssumption DEF LabelInv, Services
  <2>5. service[n].host \in Spellings /\ Lower[service[n].host] = h
    BY <2>1, <2>3, <2>4 DEF LowerHost
  <2>6. QED
    BY <2>5 DEF ServicesFor
<1>4. ASSUME NEW s \in tfSpecs, s.host \in Claimed(dtSpecs)
      PROVE  s \in {byHost[k] : k \in Claimed(tfSpecs) \cap Claimed(dtSpecs)}
  <2> DEFINE h == s.host
  <2>1. h \in Claimed(tfSpecs)
    BY <1>2 DEF Claimed
  <2>2. byHost[h] \in tfSpecs /\ byHost[h].host = h
    BY <1>1, <1>2, <2>1
  <2>3. ~Crowded(h)
    BY <1>2 DEF Ambiguous
  <2>4. PICK n \in RoutersFor(h) : s = RouterSpec(n, router[n], h)
    BY <1>2
  <2>5. PICK m \in RoutersFor(h) : byHost[h] = RouterSpec(m, router[m], h)
    BY <1>2, <2>2
  <2>6. n = m
    BY <1>2, <1>3, <1>4, <2>3 DEF Crowded
  <2>7. QED
    BY <1>4, <2>1, <2>4, <2>5, <2>6
<1>5. ASSUME NEW k \in Claimed(tfSpecs) \cap Claimed(dtSpecs)
      PROVE  byHost[k] \in tfSpecs /\ byHost[k].host \in Claimed(dtSpecs)
  BY <1>1, <1>2
<1>6. tfSpecs \ {byHost[k] : k \in Claimed(tfSpecs) \cap Claimed(dtSpecs)}
        = {s \in tfSpecs : s.host \notin Claimed(dtSpecs)}
  BY <1>4, <1>5
<1>7. QED
  BY <1>1, <1>6 DEF TheMerge

\* Two parses of labels that are not ambiguous agree, and so do their two consumers: a
\* rebuild takes up what the start registered, rule for rule, and takes up what the start
\* refused only over a missing host name or a route of a container that comes later.
THEOREM RebuildAgreesHolds == Spec => []RebuildAgrees
<1>1. Init => AgreeInv
  BY DEF Init, AgreeInv, LabelInv, Determined
<1>2. AgreeInv /\ [Next]_vars => AgreeInv'
  <2> SUFFICES ASSUME AgreeInv, [Next]_vars PROVE AgreeInv'
    OBVIOUS
  <2>1. UNCHANGED <<service, router, optin, global, ctr, others>>
    BY DEF Next, Parse, AdaptDockTunnel, DecodeTraefik, MergeSpecs, BuildIngressRules, Start,
           Rebuild, Reconcile, labels, vars
  <2>2. LabelInv /\ LabelInv'
    BY <2>1 DEF AgreeInv, LabelInv
  <2>3. Ambiguous' <=> Ambiguous
    BY <2>1 DEF Ambiguous, Crowded, ServicesFor, RoutersFor
  <2>4. \A n, p : URLOn(n, p)' = URLOn(n, p)
    BY <2>1 DEF URLOn, IPOn, DefaultIP, HasIP
  <2>5. TheServices' = TheServices
    BY <2>1, <2>4 DEF TheServices, SpecOf, TheTeam
  <2>6. TheRouters' = TheRouters
    BY <2>1, <2>4 DEF TheRouters, RouterSpec
  <2>7. TheMerge' = TheMerge
    BY <2>5, <2>6 DEF TheMerge, Claimed
  <2>8. \A s : RuleOf(s)' = RuleOf(s)
    BY <2>1 DEF RuleOf, DefaultIP, HasIP
  <2>9. TheRules' = TheRules
    BY <2>7, <2>8 DEF TheRules
  <2>10. TheStart' = TheStart /\ TheRebuild' = TheRebuild
    BY <2>1, <2>9 DEF TheStart, TheRebuild, Validate
  <2>11. SUFFICES ASSUME ~Ambiguous, Determined PROVE Determined'
    BY <2>2, <2>3 DEF AgreeInv
  <2>12. CASE AdaptDockTunnel
    BY <2>2, <2>5, <2>10, <2>11, <2>12, TeamChoice DEF AdaptDockTunnel, Determined
  <2>13. CASE DecodeTraefik
    BY <2>5, <2>6, <2>10, <2>11, <2>13 DEF DecodeTraefik, TheRouters, Determined
  <2>14. CASE MergeSpecs
    BY <2>2, <2>7, <2>10, <2>11, <2>14, RouterChoice DEF MergeSpecs, Determined
  <2>15. CASE BuildIngressRules
    BY <2>9, <2>10, <2>11, <2>15 DEF BuildIngressRules, TheRules, Determined
  <2>16. CASE Start
    BY <2>10, <2>11, <2>16 DEF Start, TheStart, Determined
  <2>17. CASE Rebuild
    BY <2>9, <2>10, <2>11, <2>17 DEF Rebuild, TheRebuild, Determined
  <2>18. CASE Reconcile
    BY <2>10, <2>11, <2>18 DEF Reconcile, Determined
  <2>19. CASE UNCHANGED vars
    BY <2>5, <2>6, <2>7, <2>9, <2>10, <2>11, <2>19 DEF vars, Determined
  <2>20. QED
    BY <2>12, <2>13, <2>14, <2>15, <2>16, <2>17, <2>18, <2>19 DEF Next, Parse
<1>3. AgreeInv => RebuildAgrees
  <2> SUFFICES ASSUME AgreeInv, stage = "done", ~Ambiguous
               PROVE  /\ started # {} => rebuilt = started
                      /\ started = {} /\ rebuilt # {} =>
                           \/ \E r \in rules : r.host = NoHost
                           \/ \E r \in rules : Route(r) \in others.later
    BY DEF RebuildAgrees
  <2>1. rules = TheRules /\ started = TheStart /\ rebuilt = TheRebuild
    BY DEF AgreeInv, Determined
  <2>2. (\A r \in TheRules : r.host # NoHost) => {r \in TheRules : r.host # NoHost} = TheRules
    OBVIOUS
  <2>3. started # {} => rebuilt = started
    BY <2>1, <2>2 DEF TheStart, TheRebuild, Validate
  <2>4. ASSUME started = {}, rebuilt # {}, \A r \in rules : r.host # NoHost
        PROVE  \E r \in rules : Route(r) \in others.later
    BY <2>1, <2>2, <2>4 DEF TheStart, TheRebuild, Validate
  <2>5. QED
    BY <2>3, <2>4
<1>4. QED
  BY <1>1, <1>2, <1>3, PTL DEF Spec
=============================================================================
