-------------------------------- MODULE Labels --------------------------------
(***************************************************************************)
(* From a container's labels to its ingress rules.                         *)
(*                                                                         *)
(* Code: internal/label (Parse and the stages it calls, retention values), *)
(* internal/controller/validator.go, and the two consumers of a parse:     *)
(* registerContainerRules (a start event) and the loop over the running    *)
(* containers in buildDesiredRules (Sync and every Reconcile), which       *)
(* parses the same labels again.                                           *)
(*                                                                         *)
(* A label set is a record per docktunnel service and per Traefik router,  *)
(* with values from the classes that the code tells apart: a port that is  *)
(* missing, usable, no number or out of range; a rule as its sequence of   *)
(* matcher clauses.  Keys are spelled as documented, except for the access *)
(* keys, of which the code takes several spellings.  The code walks over   *)
(* Go maps, whose order is random: what depends on the order is a choice.  *)
(***************************************************************************)
EXTENDS Integers, Sequences, Functions

CONSTANTS Names,         \* docktunnel service names
          Routers,       \* names of Traefik routers
          Spellings,     \* host names as labels may write them
          Lower,         \* Lower[h]: the host name h in lower case
          Paths,
          Nets,          \* the Docker networks, in name order
          Bridge,        \* the network named "bridge"
          Teams,         \* values of the access keys
          ServiceLabels, \* what docktunnel.<name>.* may say
          RouterLabels,  \* what traefik.*.routers.<name> and its service may say
          Globals,       \* the global retention labels
          Containers,    \* network settings of the container
          Others,        \* routes of the other containers
          Day, Width     \* a day, and the width of time.Duration in bits

None   == "none"
NoHost == "no host"
Bad    == "a b"          \* validHostname refuses it
NoPath == "any path"
NoIP   == "no address"
Absent == "not attached"

Ports == {None, "ok", "bad", "range"}

\* The values ParseRetentionPolicy tells apart: words, n days ("7d"), and Go durations
\* ("12h") of n units of time, where 0 stands for the negative ones too.
Retention == [kind : {None, "invalid", "immediate", "forever", "days", "duration"}, n : Nat]

Services ==
  [host : Spellings \cup {NoHost, Bad}, path : Paths \cup {NoPath},
   service : {None, "ok", "bad"}, port : Ports, network : Range(Nets) \cup {None, "host"},
   team : SUBSET Teams, delete_retention : Retention, retention : Retention]

Clauses == [matcher : {"Host", "Path", "HostSNI", "other"}, quoted : BOOLEAN,
            args : SUBSET (Spellings \cup {Bad} \cup Paths)]

\* ops: "!", "&&" or "||" occurs in the rule.  server: the port of the first server of
\* the router's service (that of its url, or else its port), "missing" without a server.
Rules == [kind : {"http", "tcp"}, ops : BOOLEAN, clauses : Seq(Clauses),
          middlewares : BOOLEAN, server : Ports \cup {"missing"}]

Routes == (Spellings \cup {NoHost}) \X (Paths \cup {NoPath})

ASSUME LabelsAssumption ==
  /\ Lower \in [Spellings -> Spellings] /\ \A h \in Spellings : Lower[Lower[h]] = Lower[h]
  /\ Spellings \cap {NoHost, Bad, NoPath} = {} /\ NoPath \notin Paths /\ None \notin Teams
  /\ Nets \in Seq(STRING) /\ Range(Nets) \cap {None, "host"} = {}
  /\ ServiceLabels \subseteq Services /\ RouterLabels \subseteq Rules
  \* a name that is no host name is Bad
  /\ \A r \in RouterLabels : \A i \in DOMAIN r.clauses :
       /\ r.clauses[i].matcher \in {"Host", "HostSNI"} => r.clauses[i].args \subseteq Spellings \cup {Bad}
       /\ r.clauses[i].matcher = "Path" => r.clauses[i].args \subseteq Paths
  /\ \A g \in Globals : g.delete_retention \in Retention /\ g.retention \in Retention
  /\ \A c \in Containers : c.hostmode \in BOOLEAN /\ c.ip \in [Range(Nets) -> STRING]
                             /\ c.network \in Range(Nets) \cup {None, "host"}
  /\ \A o \in Others : o.running \subseteq Routes /\ o.later \subseteq Routes
  /\ Day \in Nat \ {0} /\ Width \in Nat \ {0}

VARIABLES
  service,   \* docktunnel name -> its labels
  router,    \* Traefik router -> its labels
  optin,     \* docktunnel.traefik.enable parses as true
  global,    \* the global retention labels
  ctr,       \* the container's networks
  others,    \* routes of the other containers
  consumer,  \* who parses: "start" or "rebuild"
  stage,     \* the next stage
  dtSpecs, tfSpecs, merged,  \* IngressSpecs of the stages of Parse
  rules,     \* what Parse returns; empty if it returns an error
  started,   \* what the start event registered
  policies,  \* and the retention policy of each of these rules
  rebuilt    \* what the last rebuild took up

labels == <<service, router, optin, global, ctr, others>>
vars   == <<service, router, optin, global, ctr, others, consumer, stage, dtSpecs, tfSpecs,
            merged, rules, started, policies, rebuilt>>

Init ==
  /\ \E D \in SUBSET Names : service \in [D -> ServiceLabels]
  /\ \E D \in SUBSET Routers : router \in [D -> RouterLabels]
  /\ optin \in BOOLEAN /\ global \in Globals
  /\ ctr \in Containers /\ others \in Others
  /\ consumer = "start" /\ stage = "docktunnel"
  /\ dtSpecs = {} /\ tfSpecs = {} /\ merged = {} /\ rules = {}
  /\ started = {} /\ policies = {} /\ rebuilt = {}

(***************************************************************************)
(* The container's address, and URLs.                                      *)
(***************************************************************************)
HasIP(n) == ctr.ip[n] \notin {NoIP, Absent}

\* defaultContainerIP: host mode, then the bridge, then the first network by name.
DefaultIP ==
  LET usable == {i \in DOMAIN Nets : HasIP(Nets[i])}
  IN  IF ctr.hostmode THEN "localhost"
      ELSE IF HasIP(Bridge) THEN ctr.ip[Bridge]
      ELSE IF usable # {} THEN ctr.ip[Nets[CHOOSE i \in usable : \A j \in usable : i <= j]]
      ELSE NoIP

\* GetContainerIPOnNetwork: an attached network counts even if it has no address yet.
IPOn(network) ==
  IF network = "host" THEN "localhost"
  ELSE IF network \in Range(Nets) /\ ctr.ip[network] # Absent THEN ctr.ip[network]
  ELSE DefaultIP

NoURL == [addr |-> NoIP, port |-> None]

\* A port that is no number becomes 0, and 0 means a URL without a port.
PortOf(p) == IF p = "bad" THEN None ELSE p

\* The URL of a port on a network; without an address the URL waits for buildServiceURL.
URLOn(network, p) ==
  IF PortOf(p) # None /\ IPOn(network) # NoIP
  THEN [addr |-> IPOn(network), port |-> p] ELSE NoURL

(***************************************************************************)
(* Stages 1 and 2, docktunnel.* labels: decodeDockTunnel drops values that *)
(* are not valid.  Of several spellings of an access key the one that the  *)
(* map yields last stays.                                                  *)
(***************************************************************************)
SpecOf(n, l, team) ==
  [key |-> <<"docktunnel", n, None>>,
   host |-> IF l.host = Bad THEN NoHost ELSE l.host,
   path |-> l.path,
   url  |-> IF l.service = "ok" THEN [addr |-> "label", port |-> "ok"]
            ELSE URLOn(l.network, l.port),
   port |-> PortOf(l.port),
   team |-> team]

TeamsOf(l) == IF l.team = {} THEN {None} ELSE l.team

AdaptDockTunnel ==
  /\ stage = "docktunnel"
  /\ \E team \in [DOMAIN service -> Teams \cup {None}] :
       /\ \A n \in DOMAIN service : team[n] \in TeamsOf(service[n])
       /\ dtSpecs' = {SpecOf(n, service[n], team[n]) : n \in DOMAIN service}
  /\ stage' = "traefik"
  /\ UNCHANGED <<labels, consumer, tfSpecs, merged, rules, started, policies, rebuilt>>

(***************************************************************************)
(* Stage 1, traefik.* labels, if the container opted in.                   *)
(***************************************************************************)

\* Mutant: the check for "!", "&&" and "||" is lost.
ValidRule_AnyOperator(r) ==
  LET matchers == {r.clauses[i].matcher : i \in DOMAIN r.clauses}
  IN  matchers = {"HostSNI"} \/ (matchers # {} /\ matchers \subseteq {"Host", "Path"})

\* validateTraefikRule
ValidRule(r) ==
  LET matchers == {r.clauses[i].matcher : i \in DOMAIN r.clauses}
  IN  /\ matchers # {} /\ ~r.ops
      /\ matchers = {"HostSNI"} \/ matchers \subseteq {"Host", "Path"}

\* extractHostsFromRule, extractHostSNIFromRule: only quoted names count.
HostsOf(r) ==
  UNION {r.clauses[i].args : i \in {j \in DOMAIN r.clauses :
    r.clauses[j].quoted /\ r.clauses[j].matcher = IF r.kind = "http" THEN "Host" ELSE "HostSNI"}}

\* extractPathsFromRule: pathRegex matches a clause with one quoted path only.
PathClauses(r) ==
  {i \in DOMAIN r.clauses : r.clauses[i].matcher = "Path" /\ r.clauses[i].quoted
                              /\ \E p \in r.clauses[i].args : r.clauses[i].args = {p}}

RoutePath(r) ==
  IF r.kind = "tcp" \/ PathClauses(r) = {} THEN NoPath
  ELSE LET first == CHOOSE i \in PathClauses(r) : \A j \in PathClauses(r) : i <= j
       IN  CHOOSE p \in r.clauses[first].args : TRUE

\* populateHTTP keeps a router's middlewares, and such a router is refused; populateTCP
\* ignores the field.
Accepted(r) ==
  /\ ValidRule(r)
  /\ ~(r.kind = "http" /\ r.middlewares)
  /\ r.server # "missing"

RouterSpec(n, r, h) ==
  [key |-> <<r.kind, n, h>>, host |-> h, path |-> RoutePath(r),
   url |-> URLOn(ctr.network, r.server),
   port |-> PortOf(r.server), team |-> None]

DecodeTraefik ==
  /\ stage = "traefik"
  /\ tfSpecs' =
       IF ~optin THEN {}
       ELSE UNION {{RouterSpec(n, router[n], Lower[h]) : h \in HostsOf(router[n]) \ {Bad}} :
                   n \in {m \in DOMAIN router : Accepted(router[m])}}
  /\ stage' = "merge"
  /\ UNCHANGED <<labels, consumer, dtSpecs, merged, rules, started, policies, rebuilt>>

(***************************************************************************)
(* Stages 3 and 4.                                                         *)
(***************************************************************************)
LowerHost(h) == IF h = NoHost THEN NoHost ELSE Lower[h]

\* The host names of a set of specs, in lower case.
Claimed(specs) == {LowerHost(s.host) : s \in specs} \ {NoHost}

\* Mutants: docktunnel host names keep their capitals; or they are looked up with them.
MergeSpecs_KeepCase ==
  /\ stage = "merge"
  /\ merged' = {s \in tfSpecs : s.host \notin Claimed(dtSpecs)} \cup dtSpecs
  /\ stage' = "build"
  /\ UNCHANGED <<labels, consumer, dtSpecs, tfSpecs, rules, started, policies, rebuilt>>
MergeSpecs_ExactCase ==
  /\ stage = "merge"
  /\ merged' = {s \in tfSpecs : \A d \in dtSpecs : d.host # s.host}
                  \cup {[s EXCEPT !.host = LowerHost(s.host)] : s \in dtSpecs}
  /\ stage' = "build"
  /\ UNCHANGED <<labels, consumer, dtSpecs, tfSpecs, rules, started, policies, rebuilt>>

\* mergeSpecs: traefikByHostname has one key per host name, the one written last.
MergeSpecs ==
  /\ stage = "merge"
  /\ \E traefikByHostname \in [Claimed(tfSpecs) -> tfSpecs] :
       /\ \A h \in Claimed(tfSpecs) : LowerHost(traefikByHostname[h].host) = h
       /\ merged' = (tfSpecs \ {traefikByHostname[h] : h \in Claimed(tfSpecs) \cap Claimed(dtSpecs)})
                      \cup {[s EXCEPT !.host = LowerHost(s.host)] : s \in dtSpecs}
  /\ stage' = "build"
  /\ UNCHANGED <<labels, consumer, dtSpecs, tfSpecs, rules, started, policies, rebuilt>>

\* The rule of a spec, with buildServiceURL.
RuleOf(s) ==
  [key |-> s.key, host |-> s.host, path |-> s.path, team |-> s.team,
   url |-> IF s.url # NoURL THEN s.url ELSE [addr |-> DefaultIP, port |-> s.port]]

\* buildIngressRules; no specs is an error, and then no rules.
BuildIngressRules ==
  /\ stage = "build"
  /\ rules' = {RuleOf(s) : s \in merged}
  /\ stage' = "use"
  /\ UNCHANGED <<labels, consumer, dtSpecs, tfSpecs, merged, started, policies, rebuilt>>

(***************************************************************************)
(* The consumers.                                                          *)
(***************************************************************************)
Route(r) == <<r.host, r.path>>

\* CompositeValidator: required fields, service URLs, and no route twice.
Validate(rs, existing) ==
  /\ \A r \in rs : r.host # NoHost
  /\ \A r \in rs : r.url.addr # NoIP /\ r.url.port # "range"
  /\ \A r \in rs : Route(r) \notin existing
  /\ \A r, s \in rs : Route(r) = Route(s) => r = s

\* int64 arithmetic
Wrap(x) == ((x + 2^(Width - 1)) % 2^Width) - 2^(Width - 1)

\* The time that a value asks for.
Timed(v) == v.kind \in {"days", "duration"}
Asked(v) == IF v.kind = "days" THEN v.n * Day ELSE v.n

\* ParseRetentionPolicy, which has no check on the product ...
PolicyOf(v) == [type |-> IF Timed(v) THEN "timed" ELSE v.kind,
                duration |-> IF Timed(v) THEN Wrap(Asked(v)) ELSE 0]

\* ... while time.ParseDuration refuses what does not fit.
ParseFails(v) ==
  \/ v.kind = "invalid"
  \/ Timed(v) /\ v.n = 0
  \/ v.kind = "duration" /\ v.n >= 2^(Width - 1)

\* The values that getServiceRetentionPolicy looks at, in its order.
Candidates(key) ==
  (IF key[1] = "docktunnel"
   THEN <<service[key[2]].delete_retention, service[key[2]].retention>> ELSE <<>>)
    \o <<global.delete_retention, global.retention>>

\* Mutant: an invalid value ends the search.
RetentionPolicy_StopAtInvalid(key) ==
  LET c   == Candidates(key)
      set == {i \in DOMAIN c : c[i].kind # None}
      v   == c[CHOOSE i \in set : \A j \in set : i <= j]
  IN  IF set = {} \/ ParseFails(v) THEN [type |-> "immediate", duration |-> 0] ELSE PolicyOf(v)

\* getServiceRetentionPolicy: the first value that parses.
RetentionPolicy(key) ==
  LET c    == Candidates(key)
      good == {i \in DOMAIN c : c[i].kind # None /\ ~ParseFails(c[i])}
  IN  IF good = {} THEN [type |-> "immediate", duration |-> 0]
      ELSE PolicyOf(c[CHOOSE i \in good : \A j \in good : i <= j])

\* registerContainerRules and the entries of handleContainerStart.  The rules in force
\* include those of retained routes and of containers that a rebuild visits later.
Start ==
  /\ stage = "use" /\ consumer = "start"
  /\ started' = IF Validate(rules, others.running \cup others.later) THEN rules ELSE {}
  /\ policies' = {<<r.key, RetentionPolicy(r.key)>> : r \in started'}
  /\ consumer' = "rebuild" /\ stage' = "docktunnel"
  /\ UNCHANGED <<labels, dtSpecs, tfSpecs, merged, rules, rebuilt>>

\* Mutant: only the rules that do not validate are left out, not the container.
Rebuild_RuleByRule ==
  /\ stage = "use" /\ consumer = "rebuild"
  /\ rebuilt' = {r \in rules : Validate({r}, others.running)}
  /\ stage' = "done"
  /\ UNCHANGED <<labels, consumer, dtSpecs, tfSpecs, merged, rules, started, policies>>

\* One container of buildDesiredRules: rules without a host name are set aside first, and
\* retained routes may be taken over.
Rebuild ==
  /\ stage = "use" /\ consumer = "rebuild"
  /\ LET validated == {r \in rules : r.host # NoHost}
     IN  rebuilt' = IF Validate(validated, others.running) THEN validated ELSE {}
  /\ stage' = "done"
  /\ UNCHANGED <<labels, consumer, dtSpecs, tfSpecs, merged, rules, started, policies>>

\* The next Reconcile parses the same labels once more.
Reconcile ==
  /\ stage = "done" /\ stage' = "docktunnel"
  /\ UNCHANGED <<labels, consumer, dtSpecs, tfSpecs, merged, rules, started, policies, rebuilt>>

Parse == AdaptDockTunnel \/ DecodeTraefik \/ MergeSpecs \/ BuildIngressRules
Next  == Parse \/ Start \/ Rebuild \/ Reconcile
Spec  == Init /\ [][Next]_vars

(***************************************************************************)
(* Properties.                                                             *)
(***************************************************************************)
Keys     == {"docktunnel", "http", "tcp"} \X (Names \cup Routers) \X (Spellings \cup {None})
Policies == [type : {"immediate", "forever", "timed"}, duration : Int]

\* Specs and rules are well formed; and the host names in rules, which key the routes and
\* the DNS records of the other components, are in lower case whatever the labels say.
TypeOK ==
  /\ consumer \in {"start", "rebuild"}
  /\ stage \in {"docktunnel", "traefik", "merge", "build", "use", "done"}
  /\ \A s \in dtSpecs \cup tfSpecs \cup merged :
       s.key \in Keys /\ s.host \in Spellings \cup {NoHost} /\ s.port \in Ports \ {"bad"}
  /\ \A r \in rules \cup started \cup rebuilt :
       /\ r.key \in Keys /\ r.path \in Paths \cup {NoPath} /\ r.team \in Teams \cup {None}
       /\ r.host \in {Lower[h] : h \in Spellings} \cup {NoHost}
       /\ r.url.port \in Ports \ {"bad"}
  /\ policies \in SUBSET (Keys \X Policies)

\* The docktunnel services that ask for a host name, and the Traefik routers that may have it.
ServicesFor(h) == {n \in DOMAIN service : service[n].host \in Spellings /\ Lower[service[n].host] = h}
RoutersFor(h)  == {n \in DOMAIN router : /\ optin /\ Accepted(router[n])
                                        /\ \E g \in HostsOf(router[n]) \ {Bad} : Lower[g] = h}

\* More than one router has the host name, and a docktunnel service wants it.
Crowded(h) == ServicesFor(h) # {} /\ \E n, m \in RoutersFor(h) : n # m

\* "On hostname conflict, docktunnel labels take priority": with at most one router per
\* contested host name the merge loses nothing and leaves nothing over.  The rules of a
\* host name are those of its docktunnel services, all of them, or if there are none those
\* of its routers.
MergeIsExact ==
  stage = "use" =>
    \A h \in {Lower[g] : g \in Spellings} :
      Crowded(h) \/ {r.key : r \in {q \in rules : q.host = h}} =
        IF ServicesFor(h) # {} THEN {<<"docktunnel", n, None>> : n \in ServicesFor(h)}
        ELSE {<<router[n].kind, n, h>> : n \in RoutersFor(h)}

\* Whether a Traefik router lets a request for host h and path q through.  Operators, other
\* matchers and middlewares narrow a rule in ways that a tunnel rule cannot.
Allows(r, h, q) ==
  LET cs == Range(r.clauses)
  IN  /\ ~r.ops /\ ~r.middlewares
      /\ \A c \in cs : c.matcher # "other"
      /\ \E c \in cs : c.matcher \in {"Host", "HostSNI"} /\ \E g \in c.args \ {Bad} : Lower[g] = h
      /\ (\E c \in cs : c.matcher = "Path") => \E c \in cs : c.matcher = "Path" /\ q \in c.args

\* A rule whose Path clauses are all unquoted or list several paths: pathRegex finds none.
LosesPath(r) == PathClauses(r) = {} /\ \E c \in Range(r.clauses) : c.matcher = "Path"

\* A TCP router that references middlewares: populateTCP drops the reference.
LosesMiddlewares(r) == r.kind = "tcp" /\ r.middlewares

\* A route made from Traefik labels is never wider than the router it comes from, apart from
\* rules that lose their Path clause and TCP routers that lose their middlewares: every
\* request it serves, the router would let through.
NotWider ==
  \A r \in rules : r.key[1] # "docktunnel" =>
    /\ optin
    /\ \/ LosesPath(router[r.key[2]]) \/ LosesMiddlewares(router[r.key[2]])
       \/ \A q \in Paths \cup {"another path"} :
            r.path \in {q, NoPath} => Allows(router[r.key[2]], r.host, q)

\* Two parses of the labels may differ.
Ambiguous ==
  \/ \E n \in DOMAIN service : \E t, u \in service[n].team : t # u
  \/ \E h \in Spellings : Crowded(h)

\* A start event and every later rebuild see the same container: what the start registered
\* each rebuild takes up again, rule for rule; and a rebuild takes up what the start refused
\* only if a service has no host name, or a route of the container was in use by a retained
\* entry or a container that comes later.
RebuildAgrees ==
  stage = "done" /\ ~Ambiguous =>
    /\ started # {} => rebuilt = started
    /\ started = {} /\ rebuilt # {} =>
         \/ \E r \in rules : r.host = NoHost
         \/ \E r \in rules : Route(r) \in others.later

\* Retention labels are honoured: a valid label of the service itself beats the global ones,
\* an invalid one does not count, and a time limit is the time the label says, in days for as
\* long as that fits into a time.Duration.
RetentionHonoured ==
  \A kp \in policies :
    LET key    == kp[1]
        own    == IF key[1] # "docktunnel" THEN {}
                  ELSE {service[key[2]].delete_retention, service[key[2]].retention}
        both   == {global.delete_retention, global.retention}
        Valid(vs) == {v \in vs : v.kind # None /\ ~ParseFails(v)}
        source == IF Valid(own) # {} THEN Valid(own) ELSE Valid(both)
    IN  IF source = {} THEN kp[2].type = "immediate"
        ELSE \E v \in source :
               IF ~Timed(v) THEN kp[2].type = v.kind
               ELSE /\ kp[2].type = "timed"
                    /\ Asked(v) < 2^(Width - 1) => kp[2].duration = Asked(v)
=============================================================================
