-------------------------------- MODULE Routes --------------------------------
(***************************************************************************)
(* The life of a route: Docker events, the event handlers, retention, the  *)
(* garbage collector and the periodic rebuild of the desired state.        *)
(*                                                                         *)
(* Code: internal/controller/{dispatcher,handlers,desired,reconciler,gc}.go*)
(* and syncer.go (Sync), internal/state/{manager,transition}.go, and the   *)
(* goroutines of cmd/docktunnel/main.go that run them.                     *)
(*                                                                         *)
(* Two goroutines share the in-memory state: the event dispatcher, which   *)
(* handles one event at a time (a resync event runs Sync), and the ticker, *)
(* which alternates garbage collection and Reconcile.  They take c.mu and  *)
(* sm.mu piecewise, so a handler or a rebuild is several steps.  A service *)
(* stands for its parsed ingress rule; a route is a (hostname, path) key.  *)
(***************************************************************************)
EXTENDS Naturals, Sequences, FiniteSets

CONSTANTS N,                \* containers are 1..N, numbered in container-ID order
          Services,         \* services declared by labels, over all containers
          Owner,            \* service -> its container
          Route,            \* service -> its ingressKey
          Host,             \* route -> its host name
          Policy,           \* service -> its retention policy
          ReconcileEnabled, \* controller.reconcileEnabled
          Capacity,         \* capacity of eventChan
          Budget            \* bound: how often the outside world may act

Containers == 1..N
Routes     == {Route[s] : s \in Services}
Hosts      == {Host[r] : r \in Routes}
SvcOf(c)   == {s \in Services : Owner[s] = c}
NoSvc      == "none"

ASSUME RoutesAssumption ==
  /\ N \in Nat \ {0}
  /\ Owner \in [Services -> Containers]
  /\ Policy \in [Services -> {"immediate", "timed", "forever"}]
  /\ DOMAIN Route = Services /\ DOMAIN Host = Routes
  /\ NoSvc \notin Services
  /\ ReconcileEnabled \in BOOLEAN
  /\ Capacity \in Nat \ {0} /\ Budget \in Nat
  \* the validators reject a container that declares a route twice
  /\ \A s, t \in Services : Owner[s] = Owner[t] /\ Route[s] = Route[t] => s = t

\* State entries: one per service, and the ones handleContainerStop makes up for a
\* host name when it knows nothing else of the container (svc0, svc1, ...).
Anon     == Containers \X Hosts
Entries  == Services \cup Anon

OwnerOf(e) == IF e \in Services THEN Owner[e] ELSE e[1]
HostOf(e)  == IF e \in Services THEN Host[Route[e]] ELSE e[2]
PolicyOf(e) == IF e \in Services THEN Policy[e] ELSE "immediate"

Procs == {"dispatcher", "ticker"}

Events == [type : {"start", "stop", "healthy", "unhealthy"}, c : Containers]
          \cup [type : {"resync"}]

VARIABLES
  running,   \* Docker: running containers
  sick,      \* Docker: running containers whose last health status is not healthy; one
             \* without a probe, or not probed since its start, is not among them
  queue,     \* eventChan
  active,    \* sm.activeTunnels: the active entries
  pending,   \* sm.pendingDeletes: entry -> "no", "retaining" or "delete"
  expired,   \* retained entries whose retention time is over
  rules,     \* c.ingressRules: route -> the service it leads to, or NoSvc
  crules,    \* c.containerRules: container -> its host names, {} if it has no element
  cooling,   \* containers in a flapping cooling period
  pc,        \* what each goroutine does next
  cur,       \* container of the event being handled
  scan,      \* goroutine -> scannedIDs of its rebuild
  desired,   \* goroutine -> desired.rules
  accepted,  \* goroutine -> services behind desired.containerHostnames
  doomed,    \* goroutine -> host names whose rules it is about to delete
  budget,    \* outside actions left
  quiet      \* history: the goroutine whose rebuild nothing has disturbed

docker  == <<running, sick, queue, budget>>
state   == <<active, pending, expired>>
maps    == <<rules, crules>>
rebuild == <<scan, desired, accepted>>
vars    == <<running, sick, queue, active, pending, expired, rules, crules, cooling,
             pc, cur, scan, desired, accepted, doomed, budget, quiet>>

Goto(p, l) == pc' = [pc EXCEPT ![p] = l]

NoRules == [r \in Routes |-> NoSvc]

NoHosts == [c \in Containers |-> {}]

\* deleteIngressByHostnameLocked, for every host of H
WithoutHosts(H) == [r \in Routes |-> IF Host[r] \in H THEN NoSvc ELSE rules[r]]

\* setIngressRuleLocked, for every service of S
WithServices(S) ==
  [r \in Routes |-> IF \E s \in S : Route[s] = r
                    THEN CHOOSE s \in S : Route[s] = r
                    ELSE rules[r]]

HostsOf(E) == {HostOf(e) : e \in E}

\* HostnameUniquenessValidator against ingressRules
Duplicate(c) == \E s \in SvcOf(c) : rules[Route[s]] # NoSvc

\* Where transitionStoppedLocked puts the entry e.
StoppedState(e) == IF PolicyOf(e) = "immediate" THEN "delete" ELSE "retaining"
-----------------------------------------------------------------------------
\* The process has just been started on a saved state that holds nothing.
Init ==
  /\ running \in SUBSET Containers /\ sick = {}
  /\ queue = <<>>
  /\ active = {} /\ pending = [e \in Entries |-> "no"] /\ expired = {}
  /\ rules = NoRules /\ crules = NoHosts /\ cooling = {}
  /\ pc = [dispatcher |-> "scan", ticker |-> "off"]
  /\ cur = 1
  /\ scan = [p \in Procs |-> {}]
  /\ desired = [p \in Procs |-> NoRules]
  /\ accepted = [p \in Procs |-> {}]
  /\ doomed = [p \in Procs |-> {}]
  /\ budget = Budget
  /\ quiet = "no"

(***************************************************************************)
(* Docker and the event listener.                                          *)
(***************************************************************************)

\* trySendEvent: n copies of the event arrive (docker stop emits both die and
\* stop); none when the channel is full, the stream is down or inspection fails.
Deliver(e, n) ==
  /\ Len(queue) + n <= Capacity
  /\ queue' = queue \o [i \in 1..n |-> e]

Outside == budget > 0 /\ budget' = budget - 1 /\ quiet' = "no"

DockerStart(c) ==
  /\ c \notin running /\ Outside
  /\ running' = running \cup {c}
  /\ \E n \in 0..1 : Deliver([type |-> "start", c |-> c], n)
  /\ UNCHANGED <<sick, state, maps, cooling, pc, cur, rebuild, doomed>>

DockerStop(c) ==
  /\ c \in running /\ Outside
  /\ running' = running \ {c} /\ sick' = sick \ {c}
  /\ \E n \in 0..2 : Deliver([type |-> "stop", c |-> c], n)
  /\ UNCHANGED <<state, maps, cooling, pc, cur, rebuild, doomed>>

\* A health probe changes its mind ("starting" is handled as "unhealthy").
DockerHealth(c) ==
  /\ c \in running /\ Outside
  /\ \E t \in {"healthy", "unhealthy"}, n \in 0..1 :
       /\ Deliver([type |-> t, c |-> c], n)
       /\ sick' = IF t = "healthy" THEN sick \ {c} ELSE sick \cup {c}
  /\ UNCHANGED <<running, state, maps, cooling, pc, cur, rebuild, doomed>>

\* ListenForEvents emits a resync event after its back-off; it is never dropped.
Reconnect ==
  /\ Outside
  /\ Deliver([type |-> "resync"], 1)
  /\ UNCHANGED <<running, sick, state, maps, cooling, pc, cur, rebuild, doomed>>

\* The process ends after a save and starts again: only the state survives.
Restart ==
  /\ Outside
  /\ queue' = <<>>
  /\ rules' = NoRules /\ crules' = NoHosts /\ cooling' = {}
  /\ pc' = [dispatcher |-> "scan", ticker |-> "off"]
  /\ cur' = 1
  /\ scan' = [p \in Procs |-> {}]
  /\ desired' = [p \in Procs |-> NoRules]
  /\ accepted' = [p \in Procs |-> {}]
  /\ doomed' = [p \in Procs |-> {}]
  /\ UNCHANGED <<running, sick, state>>

\* The retention time of s is over: elapsed >= Duration.
Expire(s) ==
  /\ pending[s] = "retaining" /\ Policy[s] = "timed" /\ s \notin expired
  /\ expired' = expired \cup {s}
  /\ UNCHANGED <<docker, active, pending, maps, cooling, pc, cur, rebuild,
                 doomed, quiet>>

\* CoolingUntil passes.
CoolingEnds(c) ==
  /\ c \in cooling
  /\ cooling' = cooling \ {c}
  /\ quiet' = "no"
  /\ UNCHANGED <<docker, state, maps, pc, cur, rebuild, doomed>>

(***************************************************************************)
(* The event dispatcher.                                                   *)
(***************************************************************************)
Take(t) ==
  /\ pc["dispatcher"] = "idle" /\ queue # <<>> /\ Head(queue).type = t
  /\ queue' = Tail(queue)
  /\ quiet' = "no"

\* Mutant: entry.DeletedAt is not cleared.
Restore_KeepDeletedAt(C) ==
  LET back == {e \in Entries : OwnerOf(e) \in C /\ pending[e] # "no"}
  IN  /\ active' = active \cup back
      /\ pending' = [e \in Entries |-> IF e \in back THEN "no" ELSE pending[e]]
      /\ UNCHANGED expired

\* RestoreActiveTunnel for every container of C
Restore(C) ==
  LET back == {e \in Entries : OwnerOf(e) \in C /\ pending[e] # "no"}
  IN  /\ active' = active \cup back
      /\ pending' = [e \in Entries |-> IF e \in back THEN "no" ELSE pending[e]]
      /\ expired' = expired \ back

\* handleContainerStart: pending entries are restored before anything else; a
\* cooling container goes no further.
StartRestore ==
  /\ Take("start")
  /\ LET c == Head(queue).c
     IN  /\ Restore({c})
         /\ Goto("dispatcher", IF c \in cooling THEN "idle" ELSE "validate")
         /\ cur' = c
  /\ UNCHANGED <<running, sick, budget, maps, cooling, rebuild, doomed>>

\* registerContainerRules, under a read lock: any route that is in use, by this
\* container's own retained rule too, is an error and the handler returns.
Validate(next) ==
  /\ Goto("dispatcher", IF Duplicate(cur) THEN "idle" ELSE next)
  /\ quiet' = "no"
  /\ UNCHANGED <<docker, state, maps, cooling, cur, rebuild, doomed>>

\* registerContainerRules, under the write lock: what was validated is installed.
Register(next) ==
  /\ rules' = WithServices(SvcOf(cur))
  /\ crules' = [crules EXCEPT ![cur] = HostsOf(SvcOf(cur))]
  /\ Goto("dispatcher", next)
  /\ quiet' = "no"
  /\ UNCHANGED <<docker, state, cooling, cur, rebuild, doomed>>

StartValidate == pc["dispatcher"] = "validate" /\ Validate("register")

StartRegister == pc["dispatcher"] = "register" /\ Register("entries")

\* updateContainerHealth: too many starts in flappingWindow begin a cooling period.
MayCool(c) == cooling' \in {cooling, cooling \cup {c}}

\* AddActiveTunnel per service, then updateContainerHealth.
StartEntries ==
  /\ pc["dispatcher"] = "entries"
  /\ active' = active \cup SvcOf(cur)
  /\ MayCool(cur)
  /\ Goto("dispatcher", "idle")
  /\ quiet' = "no"
  /\ UNCHANGED <<docker, pending, expired, maps, cur, rebuild, doomed>>

\* Transition(EventContainerStopped) for the entries E.
Stopped(E) ==
  /\ active' = active \ E
  /\ pending' = [e \in Entries |-> IF e \in E THEN StoppedState(e) ELSE pending[e]]
  /\ expired' = expired \ E

StopIgnored(c) == crules[c] = {} \/ c \in cooling

\* The entries that handleContainerStop transitions: the active ones; if there are
\* none, entries made up from the labels, or, when inspection failed, from the
\* host names of containerRules.
StopEntries(c) ==
  LET known == {e \in active : OwnerOf(e) = c}
  IN  IF known # {} THEN {known} ELSE {SvcOf(c), {c} \X crules[c]}

\* handleContainerStop up to the transitions.
StopTransition ==
  /\ Take("stop")
  /\ LET c == Head(queue).c
     IN  \/ /\ StopIgnored(c)
            /\ UNCHANGED <<state, pc, cur, doomed>>
         \/ /\ ~StopIgnored(c)
            /\ \E E \in StopEntries(c) :
                 /\ Stopped(E)
                 /\ doomed' = [doomed EXCEPT !["dispatcher"] =
                      HostsOf({e \in E : StoppedState(e) = "delete"})]
            /\ cur' = c
            /\ Goto("dispatcher", "unroute")
  /\ UNCHANGED <<running, sick, budget, maps, cooling, rebuild>>

\* The rest of handleContainerStop.
StopUnroute ==
  /\ pc["dispatcher"] = "unroute"
  /\ crules' = [crules EXCEPT ![cur] = {}]
  /\ rules' = WithoutHosts(doomed["dispatcher"])
  /\ doomed' = [doomed EXCEPT !["dispatcher"] = {}]
  /\ Goto("dispatcher", "idle")
  /\ quiet' = "no"
  /\ UNCHANGED <<docker, state, cooling, cur, rebuild>>

\* handleHealthHealthy: rules are registered, no entry is made.
HandleHealthy ==
  /\ Take("healthy")
  /\ LET c == Head(queue).c
     IN  /\ Goto("dispatcher", IF c \in cooling THEN "idle" ELSE "check")
         /\ cur' = c
  /\ UNCHANGED <<running, sick, budget, state, maps, cooling, rebuild, doomed>>

HealthyValidate == pc["dispatcher"] = "check" /\ Validate("expose")

HealthyRegister == pc["dispatcher"] = "expose" /\ Register("idle")

\* handleHealthUnhealthy: the container's host names lose all their rules.
HandleUnhealthy ==
  /\ Take("unhealthy")
  /\ LET c == Head(queue).c
     IN  /\ crules' = [crules EXCEPT ![c] = {}]
         /\ rules' = WithoutHosts(crules[c])
  /\ UNCHANGED <<running, sick, budget, state, cooling, pc, cur, rebuild, doomed>>

\* handleResync calls Sync.
HandleResync ==
  /\ Take("resync")
  /\ Goto("dispatcher", "scan")
  /\ UNCHANGED <<running, sick, budget, state, maps, cooling, cur, rebuild, doomed>>

(***************************************************************************)
(* The rebuild: Sync in the dispatcher, Reconcile in the ticker.           *)
(***************************************************************************)
Mine(p) == quiet' = IF quiet = p THEN p ELSE "no"

Other(p) == CHOOSE q \in Procs : q # p

\* ScanRunningContainers.  A container whose inspection fails has no labels and
\* is not counted as scanned.
Scanned(p, S) ==
  /\ pc[p] = "scan"
  /\ scan' = [scan EXCEPT ![p] = S]
  /\ Goto(p, "settle")
  /\ UNCHANGED <<running, sick, queue, state, maps, cooling, cur, desired, accepted, doomed>>

Scan(p) ==
  /\ Scanned(p, running)
  /\ quiet' = IF pc[Other(p)] \in {"idle", "off"} /\ queue = <<>> THEN p ELSE "no"
  /\ UNCHANGED budget

ScanPartly(p) ==
  /\ Outside
  /\ \E c \in running : Scanned(p, running \ {c})

\* The ticker is launched after the first Sync, whether that succeeded or not.
RebuildEnds(p) ==
  pc' = [pc EXCEPT ![p] = "idle",
                   !["ticker"] = IF @ = "off" \/ p = "ticker" THEN "idle" ELSE @]

\* The container list cannot be read: buildDesiredRules returns the error.
ScanFails(p) ==
  /\ pc[p] = "scan" /\ Outside
  /\ RebuildEnds(p)
  /\ UNCHANGED <<running, sick, queue, state, maps, cooling, cur, rebuild, doomed>>

\* Mutant: entries of containers that stopped unnoticed stay active.
Settle_NoDifferenceSet(p) ==
  /\ pc[p] = "settle"
  /\ Restore(scan[p])
  /\ Goto(p, "merge")
  /\ Mine(p)
  /\ UNCHANGED <<docker, maps, cooling, cur, rebuild, doomed>>

\* Parts 1 and 2 of buildDesiredRules: entries of scanned containers are
\* restored, active entries of the others are transitioned as stopped.
Settle(p) ==
  /\ pc[p] = "settle"
  /\ LET up   == {e \in Entries : OwnerOf(e) \in scan[p]}
         back == {e \in up : pending[e] # "no"}
         down == active \ up
     IN  /\ active' = (active \ down) \cup back
         /\ pending' = [e \in Entries |-> IF e \in back THEN "no"
                                          ELSE IF e \in down THEN StoppedState(e)
                                          ELSE pending[e]]
         /\ expired' = expired \ (back \cup down)
  /\ Goto(p, "merge")
  /\ Mine(p)
  /\ UNCHANGED <<docker, maps, cooling, cur, rebuild, doomed>>

Retained == {e \in Entries : pending[e] = "retaining"}

\* Services that would lead to r of retained entries.
KeptFor(r) == {s \in Services \cap Retained : Route[s] = r}

\* Services of the containers S that get their routes, the containers in ID order.
\* A route taken by an earlier container disqualifies the whole container, unless
\* the route is a retained one too: then only that service is left out.
Accept(S) ==
  LET Taken(A, s) == \E t \in A : Route[t] = Route[s]
      acc[n \in 0..N] ==
        IF n = 0 THEN {}
        ELSE LET A == acc[n - 1]
             IN  IF n \in S /\ \A s \in SvcOf(n) : Taken(A, s) => KeptFor(Route[s]) # {}
                 THEN A \cup {s \in SvcOf(n) : ~Taken(A, s)}
                 ELSE A
  IN  acc[N]

\* Only Reconcile skips cooling containers.
Candidates(p, S) == IF p = "ticker" THEN S \ cooling ELSE S

\* Mutant: a retained rule is kept although a running container wants its route.
Merge_RetainedWins(p) ==
  /\ pc[p] = "merge"
  /\ LET A == Accept(Candidates(p, scan[p]))
         Choices(r) == IF KeptFor(r) # {} THEN KeptFor(r)
                       ELSE IF \E s \in A : Route[s] = r THEN {s \in A : Route[s] = r}
                       ELSE {NoSvc}
     IN  /\ accepted' = [accepted EXCEPT ![p] = A]
         /\ active' = active \cup A
         /\ desired' = [desired EXCEPT ![p] = [r \in Routes |-> CHOOSE s \in Choices(r) : TRUE]]
  /\ Goto(p, IF p = "ticker" THEN "compare" ELSE "apply")
  /\ Mine(p)
  /\ UNCHANGED <<docker, pending, expired, maps, cooling, cur, scan, doomed>>

\* Parts 3 and 4: retained rules first, in map order, so that any of two for one
\* route may remain; running containers override them and register the entries
\* they lack.
Merge(p) ==
  /\ pc[p] = "merge"
  /\ LET A == Accept(Candidates(p, scan[p]))
         Choices(r) == IF \E s \in A : Route[s] = r THEN {s \in A : Route[s] = r}
                       ELSE IF KeptFor(r) # {} THEN KeptFor(r)
                       ELSE {NoSvc}
     IN  /\ accepted' = [accepted EXCEPT ![p] = A]
         /\ active' = active \cup A
         /\ \E f \in [Routes -> Services \cup {NoSvc}] :
              /\ \A r \in Routes : f[r] \in Choices(r)
              /\ desired' = [desired EXCEPT ![p] = f]
  /\ Goto(p, IF p = "ticker" THEN "compare" ELSE "apply")
  /\ Mine(p)
  /\ UNCHANGED <<docker, pending, expired, maps, cooling, cur, scan, doomed>>

\* desired.containerHostnames
HostnamesOf(A) == [c \in Containers |-> HostsOf(A \cap SvcOf(c))]

\* Sync or Reconcile returns: its locals are gone.
Finish(p) ==
  /\ RebuildEnds(p)
  /\ scan' = [scan EXCEPT ![p] = {}]
  /\ desired' = [desired EXCEPT ![p] = NoRules]
  /\ accepted' = [accepted EXCEPT ![p] = {}]
  /\ Mine(p)
  /\ UNCHANGED <<docker, state, cooling, cur, doomed>>

\* Reconcile looks, under a read lock, whether the rules differ; Sync does not ask.
Compare ==
  /\ pc["ticker"] = "compare"
  /\ \/ /\ rules # desired["ticker"]
        /\ Goto("ticker", "apply")
        /\ Mine("ticker")
        /\ UNCHANGED <<docker, state, cooling, cur, doomed, rebuild>>
     \/ /\ rules = desired["ticker"]
        /\ Finish("ticker")
  /\ UNCHANGED maps

\* Mutant: Reconcile never installs what it has computed.
Apply_SyncOnly(p) ==
  /\ pc[p] = "apply"
  /\ \/ /\ p = "dispatcher"
        /\ rules' = desired[p] /\ crules' = HostnamesOf(accepted[p])
     \/ /\ p = "ticker"
        /\ UNCHANGED maps
  /\ Finish(p)

\* Both maps are replaced under the write lock.
Apply(p) ==
  /\ pc[p] = "apply"
  /\ rules' = desired[p] /\ crules' = HostnamesOf(accepted[p])
  /\ Finish(p)

(***************************************************************************)
(* The ticker.                                                             *)
(***************************************************************************)

\* The loop's select evaluates reconcileTicker.C before it can serve any case;
\* when Reconcile is disabled reconcileTicker is nil and the goroutine panics.
Select == pc["ticker"] = "idle" /\ ReconcileEnabled

TickReconcile ==
  /\ Select
  /\ Goto("ticker", "scan")
  /\ UNCHANGED <<docker, state, maps, cooling, cur, rebuild, doomed, quiet>>

\* Mutant: only PendingDelete entries are collected.
Expirable_PendingOnly == {e \in Entries : pending[e] = "delete"}

\* What RunGC collects.
Expirable ==
  {e \in Entries : \/ pending[e] = "delete"
                   \/ pending[e] = "retaining" /\ e \in expired}

\* RunGC drops the entries under sm.mu ...
TickGC ==
  /\ Select /\ Expirable # {}
  /\ pending' = [e \in Entries |-> IF e \in Expirable THEN "no" ELSE pending[e]]
  /\ expired' = expired \ Expirable
  /\ doomed' = [doomed EXCEPT !["ticker"] = HostsOf(Expirable)]
  /\ Goto("ticker", "unroute")
  /\ quiet' = "no"
  /\ UNCHANGED <<docker, active, maps, cooling, cur, rebuild>>

\* ... and RunGarbageCollection deletes their rules later, under c.mu.
GCUnroute ==
  /\ pc["ticker"] = "unroute"
  /\ rules' = WithoutHosts(doomed["ticker"])
  /\ doomed' = [doomed EXCEPT !["ticker"] = {}]
  /\ Goto("ticker", "idle")
  /\ quiet' = "no"
  /\ UNCHANGED <<docker, state, crules, cooling, cur, rebuild>>
-----------------------------------------------------------------------------
Handlers ==
  \/ StartRestore \/ StartValidate \/ StartRegister \/ StartEntries
  \/ StopTransition \/ StopUnroute
  \/ HandleHealthy \/ HealthyValidate \/ HealthyRegister
  \/ HandleUnhealthy \/ HandleResync

Rebuild(p) == Scan(p) \/ Settle(p) \/ Merge(p) \/ Apply(p)

World ==
  \/ \E c \in Containers : DockerStart(c) \/ DockerStop(c) \/ DockerHealth(c)
  \/ Reconnect \/ Restart
  \/ \E p \in Procs : ScanPartly(p) \/ ScanFails(p)

Clock == (\E s \in Services : Expire(s)) \/ (\E c \in Containers : CoolingEnds(c))

Next ==
  \/ World \/ Clock \/ Handlers
  \/ \E p \in Procs : Rebuild(p)
  \/ Compare \/ TickReconcile \/ TickGC \/ GCUnroute

Spec == Init /\ [][Next]_vars

\* Goroutines run, clocks tick, and both tickers of the select get their turn.
Fairness ==
  /\ WF_vars(Handlers)
  /\ \A p \in Procs : WF_vars(Rebuild(p))
  /\ WF_vars(Compare) /\ WF_vars(GCUnroute)
  /\ SF_vars(TickReconcile) /\ SF_vars(TickGC)
  /\ \A s \in Services : WF_vars(Expire(s))
  /\ \A c \in Containers : WF_vars(CoolingEnds(c))

FairSpec == Spec /\ Fairness
-----------------------------------------------------------------------------
\* The maps and the locals of the goroutines have their types.
TypeOK ==
  /\ sick \subseteq running /\ running \subseteq Containers
  /\ queue \in Seq(Events) /\ Len(queue) <= Capacity
  /\ active \subseteq Entries
  /\ pending \in [Entries -> {"no", "retaining", "delete"}]
  /\ expired \subseteq Retained
  /\ rules \in [Routes -> Services \cup {NoSvc}]
  /\ crules \in [Containers -> SUBSET Hosts] /\ cooling \subseteq Containers
  /\ pc \in [Procs -> {"off", "idle", "validate", "register", "entries", "check",
                       "expose", "unroute", "scan", "settle", "merge", "compare", "apply"}]
  /\ cur \in Containers
  /\ scan \in [Procs -> SUBSET Containers]
  /\ desired \in [Procs -> [Routes -> Services \cup {NoSvc}]]
  /\ accepted \in [Procs -> SUBSET Services]
  /\ doomed \in [Procs -> SUBSET Hosts]
  /\ budget \in 0..Budget
  /\ quiet \in Procs \cup {"no"}

\* The services of the containers C that should be routed: a container has all its
\* routes, but for those of smaller containers, and none if such a route is not retained.
Entitled(C) ==
  CHOOSE A \in SUBSET {s \in Services : Owner[s] \in C} :
    \A s \in Services : Owner[s] \in C =>
      LET Lost(t) == \E u \in A : Route[u] = Route[t] /\ Owner[u] < Owner[t]
      IN  s \in A <=> /\ ~Lost(s)
                      /\ \A t \in SvcOf(Owner[s]) : Lost(t) => KeptFor(Route[t]) # {}

\* Where the route r may lead when the containers C are to be served: to the service
\* that is entitled to it, else to a retained one if there is one, else nowhere.
Due(C, r) ==
  LET W == {s \in Entitled(C) : Route[s] = r}
  IN  IF W # {} THEN W ELSE IF KeptFor(r) # {} THEN KeptFor(r) ELSE {NoSvc}

\* Every route leads where the running containers and the retained entries call for,
\* and only running containers have active entries.  Rebuilds serve every running
\* container, the health design only those that are not unhealthy: a route on which
\* the two differ may be either way.
Exact(p) ==
  /\ \A e \in active : OwnerOf(e) \in running
  /\ \A r \in Routes :
       rules[r] \in Due(Candidates(p, running), r) \cup Due(Candidates(p, running \ sick), r)

\* A Sync or Reconcile that nothing disturbs since its scan leaves exactly the
\* rules that Docker's containers and the retained entries call for
\* (buildDesiredRules, B1/B8/B17), whatever went wrong before it: lost events,
\* stale rebuilds, crashes between two locks.
RebuildIsExact ==
  \A p \in Procs :
    quiet = p /\ (\A q \in Procs : pc[q] \in {"idle", "off"}) => Exact(p)

\* Once Docker stops changing, the rules become exact and stay so: dropped and
\* duplicated events, cooling periods, failed inspections and restarts are all
\* made good by the reconcile interval (trySendEvent's "state will converge").  No
\* claim is made about which way a route goes that an unhealthy container has at stake.
Settles == <>[]Exact("ticker")

\* An entry whose retention is over is collected, or restored by a restart of its
\* container (RunGC, every 60 s).
RetentionEnds ==
  \A s \in Services : (pending[s] = "retaining" /\ s \in expired)
                      ~> (pending[s] # "retaining" \/ s \notin expired)

\* handleHealthUnhealthy "removes a container's services when it becomes
\* unhealthy": when the event has been handled no rule leads to the container.
UnhealthyUnroutes ==
  [][\A c \in Containers :
       queue # <<>> /\ Head(queue) = [type |-> "unhealthy", c |-> c]
         /\ queue' = Tail(queue)
       => \A s \in SvcOf(c) : rules'[Route[s]] # s]_vars
=============================================================================
