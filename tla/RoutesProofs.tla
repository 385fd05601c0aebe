----------------------------- MODULE RoutesProofs -----------------------------
(***************************************************************************)
(* Proofs about Routes, for any containers, services, routes and bounds.   *)
(*                                                                         *)
(* Accept is a recursive function, so its equation is proved first, by     *)
(* taking the least container number for which it has no solution.         *)
(***************************************************************************)
EXTENDS Routes, NumberLemmas
-----------------------------------------------------------------------------
\* A service of A has the route of s.
Takes(A, s) == \E t \in A : Route[t] = Route[s]

\* What container n adds to the services A of the containers before it.
With(A, n, S) ==
  IF n \in S /\ \A s \in SvcOf(n) : Takes(A, s) => KeptFor(Route[s]) # {}
  THEN A \cup {s \in SvcOf(n) : ~Takes(A, s)}
  ELSE A

\* The equation of Accept, up to container n.
Solves(g, n, S) == g = [m \in 0..n |-> IF m = 0 THEN {} ELSE With(g[m - 1], m, S)]

\* The equation has a solution.
LEMMA SolutionExists ==
  ASSUME NEW S PROVE \E g : Solves(g, N, S)
<1> DEFINE T == {n \in Nat : ~\E g : Solves(g, n, S)}
<1> SUFFICES ASSUME T # {} PROVE FALSE
  BY RoutesAssumption
<1>1. PICK n \in T : \A m \in T : n <= m
  BY LeastNumber
<1>2. n # 0
  <2>1. Solves([m \in 0..0 |-> {}], 0, S)
    BY DEF Solves
  <2>2. QED
    BY <2>1
<1>3. n - 1 \in Nat /\ n - 1 \notin T
  BY <1>1, <1>2
<1>4. PICK g : Solves(g, n - 1, S)
  BY <1>3
<1> DEFINE h == [m \in 0..n |-> IF m = n THEN With(g[n - 1], n, S) ELSE g[m]]
<1>5. ASSUME NEW m \in 0..n
      PROVE  h[m] = IF m = 0 THEN {} ELSE With(h[m - 1], m, S)
  <2>1. CASE m = n
    BY <1>2, <1>3, <2>1
  <2>2. CASE m # n
    <3>1. m \in 0..(n - 1) /\ h[m] = g[m]
      BY <1>3, <2>2
    <3>2. m # 0 => h[m - 1] = g[m - 1]
      BY <1>3, <3>1
    <3>3. g[m] = IF m = 0 THEN {} ELSE With(g[m - 1], m, S)
      BY <1>4, <3>1 DEF Solves
    <3>4. QED
      BY <3>1, <3>2, <3>3
  <2>3. QED
    BY <2>1, <2>2
<1>6. h = [m \in 0..n |-> h[m]]
  OBVIOUS
<1>7. Solves(h, n, S)
  <2> HIDE DEF h
  <2>1. QED
    BY <1>5, <1>6 DEF Solves
<1>8. QED
  BY <1>7

\* Accept is the last value of a solution.
LEMMA AcceptSolves ==
  ASSUME NEW S PROVE \E g : Solves(g, N, S) /\ Accept(S) = g[N]
<1> DEFINE Taken(A, s) == \E t \in A : Route[t] = Route[s]
           Body(g, n) ==
             IF n = 0 THEN {}
             ELSE LET A == g[n - 1]
                  IN  IF n \in S /\ \A s \in SvcOf(n) : Taken(A, s) => KeptFor(Route[s]) # {}
                      THEN A \cup {s \in SvcOf(n) : ~Taken(A, s)}
                      ELSE A
           acc == CHOOSE g : g = [n \in 0..N |-> Body(g, n)]
<1>1. \A g, n : Body(g, n) = IF n = 0 THEN {} ELSE With(g[n - 1], n, S)
  BY Zenon DEF With, Takes
<1>2. Accept(S) = acc[N]
  BY Zenon DEF Accept
<1> HIDE DEF Body
<1>3. PICK g : g = [n \in 0..N |-> Body(g, n)]
  BY SolutionExists, <1>1 DEF Solves
<1>4. acc = [n \in 0..N |-> Body(acc, n)]
  BY <1>3
<1> HIDE DEF acc
<1>5. Solves(acc, N, S)
  BY <1>1, <1>4 DEF Solves
<1>6. QED
  BY <1>2, <1>5
-----------------------------------------------------------------------------
\* The equation, one container at a time.
LEMMA SolutionStep ==
  ASSUME NEW S, NEW g, Solves(g, N, S), NEW n \in 1..N
  PROVE  g[n] = With(g[n - 1], n, S) /\ n - 1 \in 0..N /\ n \in 0..N
<1>1. n \in 0..N /\ n - 1 \in 0..N /\ n # 0
  BY RoutesAssumption
<1>2. QED
  BY <1>1 DEF Solves

\* Up to container n there are only services of the containers of S up to n.
LEMMA SolutionBound ==
  ASSUME NEW S, NEW g, Solves(g, N, S), NEW n \in 0..N
  PROVE  g[n] \subseteq {s \in Services : Owner[s] \in S /\ Owner[s] <= n}
<1> DEFINE Bound(m) == {s \in Services : Owner[s] \in S /\ Owner[s] <= m}
           T == {m \in 0..N : ~(g[m] \subseteq Bound(m))}
<1>0. N \in Nat /\ Owner \in [Services -> 1..N]
  BY RoutesAssumption DEF Containers
<1> SUFFICES ASSUME T # {} PROVE FALSE
  OBVIOUS
<1>1. PICK m \in T : \A k \in T : m <= k
  <2>1. T \in SUBSET Nat
    BY <1>0
  <2> HIDE DEF T
  <2>2. QED
    BY <2>1, LeastNumber
<1>2. m # 0
  BY <1>0 DEF Solves
<1>3. m - 1 \in 0..N /\ g[m - 1] \subseteq Bound(m - 1)
  BY <1>0, <1>1, <1>2
<1>4. g[m] = With(g[m - 1], m, S)
  <2>1. m \in 1..N
    BY <1>0, <1>2
  <2>2. QED
    BY <2>1, SolutionStep
<1>5. g[m] \subseteq g[m - 1] \cup {s \in SvcOf(m) : m \in S}
  BY <1>4 DEF With
<1>6. g[m] \subseteq Bound(m)
  BY <1>0, <1>3, <1>5 DEF SvcOf
<1>7. QED
  BY <1>6

\* Later containers take nothing away and add nothing to earlier ones.
LEMMA SolutionGrows ==
  ASSUME NEW S, NEW g, Solves(g, N, S), NEW m \in 0..N, NEW n \in m..N
  PROVE  {s \in g[n] : Owner[s] <= m} = g[m]
<1> DEFINE T == {k \in m..N : {s \in g[k] : Owner[s] <= m} # g[m]}
<1>0. N \in Nat /\ Owner \in [Services -> 1..N]
  BY RoutesAssumption DEF Containers
<1> SUFFICES ASSUME T # {} PROVE FALSE
  OBVIOUS
<1>1. PICK k \in T : \A i \in T : k <= i
  <2>1. T \in SUBSET Nat
    BY <1>0
  <2> HIDE DEF T
  <2>2. QED
    BY <2>1, LeastNumber
<1>2. k # m
  BY SolutionBound
<1>3. k - 1 \in m..N /\ k - 1 \in 0..N /\ k \in 0..N /\ {s \in g[k - 1] : Owner[s] <= m} = g[m]
  BY <1>0, <1>1, <1>2
<1>4. g[k] = With(g[k - 1], k, S)
  <2>1. k \in 1..N
    BY <1>0, <1>3
  <2>2. QED
    BY <2>1, SolutionStep
<1>5. \A s \in g[k] : s \in g[k - 1] \/ Owner[s] = k
  BY <1>4 DEF With, SvcOf
<1>6. g[k - 1] \subseteq g[k]
  BY <1>4 DEF With
<1>7. {s \in g[k] : Owner[s] <= m} = g[m]
  BY <1>0, <1>2, <1>3, <1>5, <1>6
<1>8. QED
  BY <1>7

\* The route of t is taken by a smaller container of A.
Lost(A, t) == \E u \in A : Route[u] = Route[t] /\ Owner[u] < Owner[t]

\* The services of A are those that the containers C are entitled to.
Fits(A, C) ==
  /\ A \in SUBSET {s \in Services : Owner[s] \in C}
  /\ \A s \in Services : Owner[s] \in C =>
       (s \in A <=> /\ ~Lost(A, s)
                    /\ \A t \in SvcOf(Owner[s]) : Lost(A, t) => KeptFor(Route[t]) # {})

\* Accept computes the services that the containers are entitled to.
LEMMA AcceptFits ==
  ASSUME NEW S PROVE Fits(Accept(S), S)
<1>0. N \in Nat /\ Owner \in [Services -> 1..N]
  BY RoutesAssumption DEF Containers
<1>1. PICK g : Solves(g, N, S) /\ Accept(S) = g[N]
  BY AcceptSolves
<1> DEFINE A == Accept(S)
<1>2. A \in SUBSET {s \in Services : Owner[s] \in S}
  BY <1>0, <1>1, SolutionBound
<1>3. ASSUME NEW s \in Services, Owner[s] \in S
      PROVE  s \in A <=> /\ ~Lost(A, s)
                         /\ \A t \in SvcOf(Owner[s]) : Lost(A, t) => KeptFor(Route[t]) # {}
  <2> DEFINE n == Owner[s]
  <2>1. n \in 1..N /\ n - 1 \in 0..N /\ n \in 0..N /\ N \in n..N /\ N \in (n - 1)..N
    BY <1>0
  <2>2. {u \in A : Owner[u] <= n} = g[n] /\ {u \in A : Owner[u] <= n - 1} = g[n - 1]
    BY <1>1, <2>1, SolutionGrows
  <2>3. \A u \in A : Owner[u] \in Nat /\ (Owner[u] < n <=> Owner[u] <= n - 1)
    BY <1>0, <1>2, <2>1
  <2>4. \A t \in SvcOf(n) : Takes(g[n - 1], t) <=> Lost(A, t)
    <3> HIDE DEF A
    <3>1. QED
      BY <2>2, <2>3 DEF Takes, Lost, SvcOf
  <2>5. g[n] = With(g[n - 1], n, S)
    BY <1>1, <2>1, SolutionStep
  <2>6. s \notin g[n - 1]
    <3> HIDE DEF A
    <3>1. QED
      BY <2>1, <2>2
  <2>7. s \in A <=> s \in g[n]
    <3> HIDE DEF A
    <3>1. QED
      BY <2>1, <2>2
  <2>8. s \in SvcOf(n)
    BY DEF SvcOf
  <2>9. QED
    BY <1>3, <2>4, <2>5, <2>6, <2>7, <2>8 DEF With
<1>4. QED
  BY <1>2, <1>3 DEF Fits

\* No other set fits: the least container on which two of them differ does not exist.
LEMMA FitsUnique ==
  ASSUME NEW C, NEW A, NEW B, Fits(A, C), Fits(B, C)
  PROVE  A = B
<1>0. N \in Nat /\ Owner \in [Services -> 1..N]
  BY RoutesAssumption DEF Containers
<1> DEFINE T == {Owner[s] : s \in {t \in Services : ~(t \in A <=> t \in B)}}
<1>1. A \subseteq Services /\ B \subseteq Services
  BY DEF Fits
<1> SUFFICES ASSUME T # {} PROVE FALSE
  BY <1>1
<1>2. PICK n \in T : \A m \in T : n <= m
  <2>1. T \in SUBSET Nat
    BY <1>0
  <2> HIDE DEF T
  <2>2. QED
    BY <2>1, LeastNumber
<1>3. PICK s \in Services : Owner[s] = n /\ ~(s \in A <=> s \in B)
  OBVIOUS
<1>4. n \in Nat /\ \A u \in Services : Owner[u] \in Nat /\ (Owner[u] < n => (u \in A <=> u \in B))
  BY <1>0, <1>2
<1>5. \A t \in SvcOf(n) : Lost(A, t) <=> Lost(B, t)
  BY <1>1, <1>4 DEF Lost, SvcOf
<1>6. s \in SvcOf(n) /\ n \in C
  BY <1>3 DEF SvcOf, Fits
<1>7. QED
  BY <1>3, <1>5, <1>6 DEF Fits

\* The services that should be routed are those that a rebuild accepts.
LEMMA EntitledIsAccept ==
  ASSUME NEW C PROVE Entitled(C) = Accept(C)
<1>1. Accept(C) \in SUBSET {s \in Services : Owner[s] \in C}
  BY AcceptFits DEF Fits
<1>2. Entitled(C) = CHOOSE A \in SUBSET {s \in Services : Owner[s] \in C} : Fits(A, C)
  BY DEF Entitled, Fits, Lost
<1>3. Fits(Entitled(C), C)
  BY <1>1, <1>2, AcceptFits
<1>4. QED
  BY <1>3, AcceptFits, FitsUnique
-----------------------------------------------------------------------------
\* Entries have an owner and a host name, and stopping gives each of them a state.
LEMMA EntryTypes ==
  /\ Services \subseteq Entries
  /\ \A e \in Entries : /\ OwnerOf(e) \in Containers /\ HostOf(e) \in Hosts
                        /\ StoppedState(e) \in {"delete", "retaining"}
BY RoutesAssumption DEF Entries, Anon, OwnerOf, HostOf, StoppedState, Hosts, Routes

\* The host names of entries are host names of routes.
LEMMA HostsOfType ==
  ASSUME NEW E \in SUBSET Entries PROVE HostsOf(E) \subseteq Hosts
BY EntryTypes DEF HostsOf

\* The services of a container are entries.
LEMMA SvcOfType == ASSUME NEW c PROVE SvcOf(c) \in SUBSET Services /\ SvcOf(c) \in SUBSET Entries
BY EntryTypes DEF SvcOf

\* A rebuild accepts services.
LEMMA AcceptType == ASSUME NEW S PROVE Accept(S) \in SUBSET Services
BY AcceptFits DEF Fits

\* A delivered event stays within the channel's capacity.
LEMMA DeliverType ==
  ASSUME TypeOK, NEW e \in Events, NEW n \in Nat, Deliver(e, n)
  PROVE  queue' \in Seq(Events) /\ Len(queue') <= Capacity
<1>1. queue \in Seq(Events) /\ Len(queue) \in Nat
  BY DEF TypeOK
<1>2. [i \in 1..n |-> e] \in Seq(Events) /\ Len([i \in 1..n |-> e]) = n
  OBVIOUS
<1> DEFINE s == [i \in 1..n |-> e]
<1>3. s \in Seq(Events) /\ Len(s) = n /\ queue' = queue \o s
  BY <1>2 DEF Deliver
<1> HIDE DEF s
<1>4. queue' \in Seq(Events) /\ Len(queue') = Len(queue) + n
  BY <1>1, <1>3
<1>5. QED
  BY <1>4 DEF Deliver

\* The event that the dispatcher takes.
LEMMA TakeType ==
  ASSUME TypeOK, NEW t, Take(t)
  PROVE  /\ queue' \in Seq(Events) /\ Len(queue') <= Capacity
         /\ t # "resync" => Head(queue).c \in Containers
<1>1. queue \in Seq(Events) /\ queue # <<>> /\ Len(queue) <= Capacity /\ Capacity \in Nat
  BY RoutesAssumption DEF TypeOK, Take
<1>2. Head(queue) \in Events /\ Tail(queue) \in Seq(Events) /\ Len(Tail(queue)) = Len(queue) - 1
  BY <1>1
<1>3. t # "resync" => Head(queue).c \in Containers
  BY <1>2 DEF Events, Take
<1>4. QED
  BY <1>1, <1>2, <1>3 DEF Take

\* Registering services keeps the rules well formed ...
LEMMA WithServicesType ==
  ASSUME TypeOK, NEW S \in SUBSET Services
  PROVE  WithServices(S) \in [Routes -> Services \cup {NoSvc}]
BY DEF TypeOK, WithServices

\* ... and so does deleting host names.
LEMMA WithoutHostsType ==
  ASSUME TypeOK, NEW H PROVE WithoutHosts(H) \in [Routes -> Services \cup {NoSvc}]
BY DEF TypeOK, WithoutHosts

\* The goroutines are at a step of theirs.
PcType ==
  pc \in [Procs -> {"off", "idle", "validate", "register", "entries", "check",
                    "expose", "unroute", "scan", "settle", "merge", "compare", "apply"}]

\* The retained state is well formed.
StateType ==
  /\ active \subseteq Entries
  /\ pending \in [Entries -> {"no", "retaining", "delete"}]
  /\ expired \subseteq Retained

\* Restoring entries keeps the state well formed ...
LEMMA RestoreType ==
  ASSUME TypeOK, NEW C, Restore(C) PROVE StateType'
BY DEF TypeOK, Restore, StateType, Retained

\* ... and so does stopping them.
LEMMA StoppedType ==
  ASSUME TypeOK, NEW E \in SUBSET Entries, Stopped(E) PROVE StateType'
BY EntryTypes DEF TypeOK, Stopped, StateType, Retained

\* A scan keeps everything well formed.
LEMMA ScannedType ==
  ASSUME TypeOK, NEW p \in Procs, NEW S \in SUBSET Containers, Scanned(p, S),
         quiet' \in Procs \cup {"no"}, budget' \in 0..Budget
  PROVE  TypeOK'
BY DEF TypeOK, Scanned, Goto, state, maps, Retained

\* After a rebuild both goroutines are at a step of theirs.
LEMMA RebuildEndsType ==
  ASSUME TypeOK, NEW p \in Procs, RebuildEnds(p) PROVE PcType'
BY DEF TypeOK, RebuildEnds, PcType, Procs

\* A step of a rebuild leaves it undisturbed or not.
LEMMA MineType ==
  ASSUME NEW p \in Procs, Mine(p) PROVE quiet' \in Procs \cup {"no"}
BY DEF Mine

\* The end of a rebuild keeps everything well formed.
LEMMA FinishType ==
  ASSUME TypeOK, NEW p \in Procs, Finish(p),
         rules' \in [Routes -> Services \cup {NoSvc}], crules' \in [Containers -> SUBSET Hosts]
  PROVE  TypeOK'
<1>1. PcType' /\ quiet' \in Procs \cup {"no"}
  BY RebuildEndsType, MineType DEF Finish
<1>2. NoRules \in [Routes -> Services \cup {NoSvc}]
  BY DEF NoRules
<1>3. QED
  BY <1>1, <1>2 DEF TypeOK, Finish, PcType, docker, state, Retained

\* The outside world has a budget, and disturbs every rebuild.
LEMMA OutsideType ==
  ASSUME TypeOK, Outside PROVE budget' \in 0..Budget /\ quiet' = "no"
BY RoutesAssumption DEF TypeOK, Outside
-----------------------------------------------------------------------------
\* The maps, the queue and the locals of both goroutines keep their types, the queue its
\* capacity, and only retained entries expire, in every handler, rebuild and collection.
THEOREM TypeCorrect == Spec => []TypeOK
<1>1. Init => TypeOK
  <2> SUFFICES ASSUME Init PROVE TypeOK
    OBVIOUS
  <2>1. NoRules \in [Routes -> Services \cup {NoSvc}] /\ NoHosts \in [Containers -> SUBSET Hosts]
    BY DEF NoRules, NoHosts
  <2>2. 1 \in Containers /\ Budget \in 0..Budget /\ 0 <= Capacity
    BY RoutesAssumption DEF Containers
  <2>3. queue \in Seq(Events) /\ Len(queue) <= Capacity
    BY <2>2 DEF Init
  <2>4. QED
    BY <2>1, <2>2, <2>3 DEF Init, TypeOK, Procs, Retained
<1>2. TypeOK /\ [Next]_vars => TypeOK'
  <2> SUFFICES ASSUME TypeOK, [Next]_vars PROVE TypeOK'
    OBVIOUS
  <2>1. ASSUME NEW c \in Containers, DockerStart(c) \/ DockerStop(c) \/ DockerHealth(c)
        PROVE  TypeOK'
    <3>1. \A t \in {"start", "stop", "healthy", "unhealthy"} : [type |-> t, c |-> c] \in Events
      BY DEF Events
    <3>2. queue' \in Seq(Events) /\ Len(queue') <= Capacity
      BY <2>1, <3>1, DeliverType DEF DockerStart, DockerStop, DockerHealth
    <3>3. budget' \in 0..Budget /\ quiet' = "no"
      BY <2>1, OutsideType DEF DockerStart, DockerStop, DockerHealth
    <3>4. sick' \subseteq running' /\ running' \subseteq Containers
      BY <2>1 DEF DockerStart, DockerStop, DockerHealth, TypeOK
    <3>5. UNCHANGED <<state, maps, cooling, pc, cur, rebuild, doomed>>
      BY <2>1 DEF DockerStart, DockerStop, DockerHealth
    <3>6. QED
      BY <3>2, <3>3, <3>4, <3>5 DEF TypeOK, state, maps, rebuild, Retained
  <2>2. CASE Reconnect
    <3>1. [type |-> "resync"] \in Events
      BY DEF Events
    <3>2. queue' \in Seq(Events) /\ Len(queue') <= Capacity
      BY <2>2, <3>1, DeliverType DEF Reconnect
    <3>3. budget' \in 0..Budget /\ quiet' = "no"
      BY <2>2, OutsideType DEF Reconnect
    <3>4. QED
      BY <2>2, <3>2, <3>3 DEF Reconnect, TypeOK, state, maps, rebuild, Retained
  <2>3. CASE Restart
    <3>1. NoRules \in [Routes -> Services \cup {NoSvc}] /\ NoHosts \in [Containers -> SUBSET Hosts]
      BY DEF NoRules, NoHosts
    <3>2. 1 \in Containers /\ 0 <= Capacity
      BY RoutesAssumption DEF Containers
    <3>3. budget' \in 0..Budget /\ quiet' = "no"
      BY <2>3, OutsideType DEF Restart
    <3>4. queue' \in Seq(Events) /\ Len(queue') <= Capacity
      BY <2>3, <3>2 DEF Restart
    <3>5. QED
      BY <2>3, <3>1, <3>2, <3>3, <3>4 DEF Restart, TypeOK, state, Procs, Retained
  <2>4. ASSUME NEW p \in Procs, ScanPartly(p) PROVE TypeOK'
    <3>1. PICK c \in running : Scanned(p, running \ {c})
      BY <2>4 DEF ScanPartly
    <3>2. running \ {c} \in SUBSET Containers
      BY DEF TypeOK
    <3>3. budget' \in 0..Budget /\ quiet' = "no"
      BY <2>4, OutsideType DEF ScanPartly
    <3>4. QED
      BY <3>1, <3>2, <3>3, ScannedType
  <2>5. ASSUME NEW p \in Procs, ScanFails(p) PROVE TypeOK'
    <3>1. PcType'
      BY <2>5, RebuildEndsType DEF ScanFails
    <3>2. budget' \in 0..Budget /\ quiet' = "no"
      BY <2>5, OutsideType DEF ScanFails
    <3>3. QED
      BY <2>5, <3>1, <3>2 DEF ScanFails, TypeOK, PcType, state, maps, rebuild, Retained
  <2>6. ASSUME NEW s \in Services, Expire(s) PROVE TypeOK'
    BY <2>6, EntryTypes DEF Expire, TypeOK, docker, maps, rebuild, Retained
  <2>7. ASSUME NEW c \in Containers, CoolingEnds(c) PROVE TypeOK'
    BY <2>7 DEF CoolingEnds, TypeOK, docker, state, maps, rebuild, Retained
  <2>8. CASE StartRestore
    <3>1. /\ queue' \in Seq(Events) /\ Len(queue') <= Capacity /\ Head(queue).c \in Containers
      BY <2>8, TakeType DEF StartRestore
    <3>2. StateType'
      BY <2>8, RestoreType DEF StartRestore
    <3>3. PcType' /\ quiet' = "no" /\ cur' \in Containers
      BY <2>8, <3>1 DEF StartRestore, Take, Goto, PcType, TypeOK
    <3>4. QED
      BY <2>8, <3>1, <3>2, <3>3 DEF StartRestore, TypeOK, PcType, StateType, maps, rebuild
  <2>9. CASE StartValidate \/ HealthyValidate
    BY <2>9 DEF StartValidate, HealthyValidate, Validate, Goto, TypeOK, docker, state, maps,
                rebuild, Retained
  <2>10. CASE StartRegister \/ HealthyRegister
    <3>1. rules' \in [Routes -> Services \cup {NoSvc}]
      BY <2>10, SvcOfType, WithServicesType DEF StartRegister, HealthyRegister, Register
    <3>2. crules' \in [Containers -> SUBSET Hosts]
      <4>1. HostsOf(SvcOf(cur)) \subseteq Hosts
        BY SvcOfType, HostsOfType
      <4>2. QED
        BY <2>10, <4>1 DEF StartRegister, HealthyRegister, Register, TypeOK
    <3>3. PcType' /\ quiet' = "no"
      BY <2>10 DEF StartRegister, HealthyRegister, Register, Goto, PcType, TypeOK
    <3>4. UNCHANGED <<docker, state, cooling, cur, rebuild, doomed>>
      BY <2>10 DEF StartRegister, HealthyRegister, Register
    <3>5. QED
      BY <3>1, <3>2, <3>3, <3>4 DEF TypeOK, PcType, docker, state, rebuild, Retained
  <2>11. CASE StartEntries
    <3>1. active' \subseteq Entries
      BY <2>11, SvcOfType DEF StartEntries, TypeOK
    <3>2. cooling' \subseteq Containers
      BY <2>11 DEF StartEntries, MayCool, TypeOK
    <3>3. QED
      BY <2>11, <3>1, <3>2 DEF StartEntries, Goto, TypeOK, docker, maps, rebuild, Retained
  <2>12. CASE StopTransition
    <3> DEFINE c == Head(queue).c
    <3>1. /\ queue' \in Seq(Events) /\ Len(queue') <= Capacity /\ c \in Containers
          /\ quiet' = "no"
      BY <2>12, TakeType DEF StopTransition, Take
    <3> HIDE DEF c
    <3>2. CASE UNCHANGED <<state, pc, cur, doomed>>
      BY <2>12, <3>1, <3>2 DEF StopTransition, TypeOK, state, maps, rebuild, Retained
    <3>3. ASSUME NEW E \in StopEntries(c), Stopped(E), cur' = c, Goto("dispatcher", "unroute"),
                 doomed' = [doomed EXCEPT !["dispatcher"] =
                              HostsOf({e \in E : StoppedState(e) = "delete"})]
          PROVE  TypeOK'
      <4>1. E \in SUBSET Entries
        <5>1. crules[c] \subseteq Hosts
          BY <3>1 DEF TypeOK
        <5>2. {c} \X crules[c] \subseteq Entries
          BY <3>1, <5>1 DEF Entries, Anon
        <5>3. QED
          BY <3>3, <5>2, SvcOfType DEF StopEntries, TypeOK
      <4>2. StateType'
        BY <3>3, <4>1, StoppedType
      <4>3. doomed' \in [Procs -> SUBSET Hosts]
        <5>1. {e \in E : StoppedState(e) = "delete"} \in SUBSET Entries
          BY <4>1
        <5>2. HostsOf({e \in E : StoppedState(e) = "delete"}) \subseteq Hosts
          BY <5>1, HostsOfType
        <5>3. QED
          BY <3>3, <5>2 DEF TypeOK
      <4>4. PcType'
        BY <3>3 DEF Goto, PcType, TypeOK
      <4>5. QED
        BY <2>12, <3>1, <3>3, <4>2, <4>3, <4>4
           DEF StopTransition, TypeOK, PcType, StateType, maps, rebuild
    <3>4. QED
      BY <2>12, <3>2, <3>3 DEF StopTransition, c
  <2>13. CASE StopUnroute
    <3>1. rules' \in [Routes -> Services \cup {NoSvc}]
      BY <2>13, WithoutHostsType DEF StopUnroute
    <3>2. QED
      BY <2>13, <3>1 DEF StopUnroute, Goto, TypeOK, docker, state, rebuild, Retained
  <2>14. CASE HandleHealthy
    <3>1. /\ queue' \in Seq(Events) /\ Len(queue') <= Capacity /\ Head(queue).c \in Containers
      BY <2>14, TakeType DEF HandleHealthy
    <3>2. PcType' /\ quiet' = "no" /\ cur' \in Containers
      BY <2>14, <3>1 DEF HandleHealthy, Take, Goto, PcType, TypeOK
    <3>3. QED
      BY <2>14, <3>1, <3>2 DEF HandleHealthy, TypeOK, PcType, state, maps, rebuild, Retained
  <2>15. CASE HandleUnhealthy
    <3>1. /\ queue' \in Seq(Events) /\ Len(queue') <= Capacity /\ Head(queue).c \in Containers
          /\ quiet' = "no"
      BY <2>15, TakeType DEF HandleUnhealthy, Take
    <3>2. rules' \in [Routes -> Services \cup {NoSvc}]
      BY <2>15, WithoutHostsType DEF HandleUnhealthy
    <3>3. crules' \in [Containers -> SUBSET Hosts]
      BY <2>15, <3>1 DEF HandleUnhealthy, TypeOK
    <3>4. QED
      BY <2>15, <3>1, <3>2, <3>3 DEF HandleUnhealthy, TypeOK, state, rebuild, Retained
  <2>16. CASE HandleResync
    <3>1. queue' \in Seq(Events) /\ Len(queue') <= Capacity /\ quiet' = "no"
      BY <2>16, TakeType DEF HandleResync, Take
    <3>2. QED
      BY <2>16, <3>1 DEF HandleResync, Goto, TypeOK, state, maps, rebuild, Retained
  <2>17. ASSUME NEW p \in Procs, Scan(p) PROVE TypeOK'
    <3>1. running \in SUBSET Containers /\ budget' \in 0..Budget
      BY <2>17 DEF Scan, TypeOK
    <3>2. quiet' \in Procs \cup {"no"}
      BY <2>17 DEF Scan
    <3>3. QED
      BY <2>17, <3>1, <3>2, ScannedType DEF Scan
  <2>18. ASSUME NEW p \in Procs, Settle(p) PROVE TypeOK'
    <3>1. StateType'
      BY <2>18, EntryTypes DEF Settle, TypeOK, StateType, Retained
    <3>2. PcType' /\ quiet' \in Procs \cup {"no"}
      BY <2>18, MineType DEF Settle, Goto, PcType, TypeOK
    <3>3. QED
      BY <2>18, <3>1, <3>2 DEF Settle, TypeOK, PcType, StateType, docker, maps, rebuild
  <2>19. ASSUME NEW p \in Procs, Merge(p) PROVE TypeOK'
    <3>1. /\ accepted' \in [Procs -> SUBSET Services] /\ active' \subseteq Entries
      <4>1. Accept(Candidates(p, scan[p])) \in SUBSET Services
        BY AcceptType
      <4>2. QED
        BY <2>19, <4>1, EntryTypes DEF Merge, TypeOK
    <3>2. desired' \in [Procs -> [Routes -> Services \cup {NoSvc}]]
      BY <2>19 DEF Merge, TypeOK
    <3>3. PcType' /\ quiet' \in Procs \cup {"no"}
      BY <2>19, MineType DEF Merge, Goto, PcType, TypeOK
    <3>4. QED
      BY <2>19, <3>1, <3>2, <3>3 DEF Merge, TypeOK, PcType, docker, maps, Retained
  <2>20. ASSUME NEW p \in Procs, Apply(p) PROVE TypeOK'
    <3>1. rules' \in [Routes -> Services \cup {NoSvc}]
      BY <2>20 DEF Apply, TypeOK
    <3>2. crules' \in [Containers -> SUBSET Hosts]
      <4>1. \A c \in Containers : accepted[p] \cap SvcOf(c) \in SUBSET Entries
        BY SvcOfType
      <4>2. \A c \in Containers : HostsOf(accepted[p] \cap SvcOf(c)) \subseteq Hosts
        BY <4>1, HostsOfType
      <4>3. QED
        BY <2>20, <4>2 DEF Apply, HostnamesOf
    <3>3. QED
      BY <2>20, <3>1, <3>2, FinishType DEF Apply
  <2>21. CASE Compare
    <3>1. CASE Finish("ticker")
      <4>1. rules' \in [Routes -> Services \cup {NoSvc}] /\ crules' \in [Containers -> SUBSET Hosts]
        BY <2>21 DEF Compare, maps, TypeOK
      <4>2. QED
        BY <3>1, <4>1, FinishType DEF Procs
    <3>2. CASE /\ Goto("ticker", "apply") /\ Mine("ticker")
               /\ UNCHANGED <<docker, state, cooling, cur, doomed, rebuild>>
      <4>1. quiet' \in Procs \cup {"no"}
        BY <3>2, MineType DEF Procs
      <4>2. QED
        BY <2>21, <3>2, <4>1 DEF Compare, Goto, TypeOK, docker, state, maps, rebuild, Retained
    <3>3. QED
      BY <2>21, <3>1, <3>2 DEF Compare
  <2>22. CASE TickReconcile
    BY <2>22 DEF TickReconcile, Goto, TypeOK, docker, state, maps, rebuild, Retained
  <2>23. CASE TickGC
    <3>1. HostsOf(Expirable) \subseteq Hosts
      BY HostsOfType DEF Expirable
    <3>2. StateType'
      BY <2>23 DEF TickGC, TypeOK, StateType, Retained
    <3>3. doomed' \in [Procs -> SUBSET Hosts]
      BY <2>23, <3>1 DEF TickGC, TypeOK
    <3>4. QED
      BY <2>23, <3>2, <3>3 DEF TickGC, Goto, TypeOK, StateType, docker, maps, rebuild
  <2>24. CASE GCUnroute
    <3>1. rules' \in [Routes -> Services \cup {NoSvc}]
      BY <2>24, WithoutHostsType DEF GCUnroute
    <3>2. QED
      BY <2>24, <3>1 DEF GCUnroute, Goto, TypeOK, docker, state, rebuild, Retained
  <2>25. CASE UNCHANGED vars
    BY <2>25 DEF vars, TypeOK, Retained
  <2>26. QED
    BY <2>1, <2>2, <2>3, <2>4, <2>5, <2>6, <2>7, <2>8, <2>9, <2>10, <2>11, <2>12, <2>13, <2>14,
       <2>15, <2>16, <2>17, <2>18, <2>19, <2>20, <2>21, <2>22, <2>23, <2>24, <2>25
       DEF Next, World, Clock, Handlers, Rebuild
<1>3. QED
  BY <1>1, <1>2, PTL DEF Spec
-----------------------------------------------------------------------------
OnlyRunning == \A e \in active : OwnerOf(e) \in running

\* What a rebuild by p gives the route r.
DueTo(p, r) == Due(Candidates(p, running), r)

\* The rules are those of a rebuild by p, which asks nobody for his health.
Rebuilt(p) == OnlyRunning /\ \A r \in Routes : rules[r] \in DueTo(p, r)

\* A rebuild that nothing has disturbed knows what runs, then has settled the entries, then
\* has the right rules in its hands; and after its end they are in force.
QuietInv ==
  \A p \in Procs : quiet = p =>
    /\ pc[p] \in {"idle", "scan", "settle", "merge", "compare", "apply"}
    /\ pc[p] \in {"idle", "scan"} => Rebuilt(p)
    /\ pc[p] \in {"settle", "merge", "compare", "apply"} => scan[p] = running
    /\ pc[p] \in {"merge", "compare", "apply"} => OnlyRunning
    /\ pc[p] \in {"compare", "apply"} => \A r \in Routes : desired[p][r] \in DueTo(p, r)

\* What is due depends on what runs, cools and is retained only.
LEMMA DueStays ==
  ASSUME UNCHANGED <<running, cooling, pending>>, NEW p \in Procs, NEW r
  PROVE  DueTo(p, r)' = DueTo(p, r)
<1>1. \A q : KeptFor(q)' = KeptFor(q)
  BY DEF KeptFor, Retained
<1>2. \A C : Entitled(C)' = Entitled(C)
  BY DEF Entitled, KeptFor, Retained
<1>3. QED
  BY <1>1, <1>2 DEF DueTo, Due, Candidates

\* The rules stay those of the rebuild as long as nothing it depends on changes.
LEMMA RebuiltStays ==
  ASSUME UNCHANGED <<running, active, pending, rules, cooling>>, NEW p \in Procs, Rebuilt(p)
  PROVE  Rebuilt(p)'
BY DueStays DEF Rebuilt, OnlyRunning

\* Steps that set quiet back, or change nothing that the invariant speaks of.
LEMMA QuietStays ==
  ASSUME QuietInv,
         \/ quiet' = "no"
         \/ UNCHANGED <<running, active, pending, rules, cooling, scan, desired, pc, quiet>>
  PROVE  QuietInv'
<1>1. CASE quiet' = "no"
  BY <1>1 DEF QuietInv, Procs
<1>2. CASE UNCHANGED <<running, active, pending, rules, cooling, scan, desired, pc, quiet>>
  <2>1. \A p \in Procs : \A r : DueTo(p, r)' = DueTo(p, r)
    BY <1>2, DueStays
  <2>2. OnlyRunning => OnlyRunning'
    BY <1>2 DEF OnlyRunning
  <2>3. \A p \in Procs : Rebuilt(p) => Rebuilt(p)'
    BY <1>2, RebuiltStays
  <2>4. QED
    BY <1>2, <2>1, <2>2, <2>3 DEF QuietInv
<1>3. QED
  BY <1>1, <1>2

\* A Sync or Reconcile that nothing disturbs since its scan leaves exactly the rules that the
\* running containers and the retained entries call for, whatever went wrong before it.
THEOREM RebuildIsExactHolds == Spec => []RebuildIsExact
<1>1. Init => QuietInv
  BY DEF Init, QuietInv, Procs
<1>2. TypeOK /\ QuietInv /\ [Next]_vars => QuietInv'
  <2> SUFFICES ASSUME TypeOK, QuietInv, [Next]_vars PROVE QuietInv'
    OBVIOUS
  <2>1. CASE World \/ Handlers \/ TickGC \/ GCUnroute
    <3>1. quiet' = "no"
      BY <2>1 DEF World, Handlers, TickGC, GCUnroute, DockerStart, DockerStop, DockerHealth,
           Reconnect, Restart, ScanPartly, ScanFails, Outside, StartRestore, StartValidate,
           StartRegister, StartEntries, StopTransition, StopUnroute, HandleHealthy,
           HealthyValidate, HealthyRegister, HandleUnhealthy, HandleResync, Take, Validate, Register
    <3>2. QED
      BY <3>1, QuietStays
  <2>2. CASE Clock \/ UNCHANGED vars
    <3>1. \/ quiet' = "no"
          \/ UNCHANGED <<running, active, pending, rules, cooling, scan, desired, pc, quiet>>
      BY <2>2 DEF Clock, Expire, CoolingEnds, docker, maps, rebuild, vars
    <3>2. QED
      BY <3>1, QuietStays
  <2>3. CASE TickReconcile
    <3>1. /\ UNCHANGED <<running, active, pending, rules, cooling, scan, desired, quiet>>
          /\ pc["ticker"] = "idle" /\ pc' = [pc EXCEPT !["ticker"] = "scan"]
      BY <2>3 DEF TickReconcile, Select, Goto, docker, state, maps, rebuild
    <3>2. \A p \in Procs : pc'[p] = pc[p] \/ (pc[p] = "idle" /\ pc'[p] = "scan")
      BY <3>1 DEF TypeOK
    <3>3. \A p \in Procs : \A r : DueTo(p, r)' = DueTo(p, r)
      BY <3>1, DueStays
    <3>4. \A p \in Procs : Rebuilt(p) => Rebuilt(p)'
      BY <3>1, RebuiltStays
    <3>5. QED
      BY <3>1, <3>2, <3>3, <3>4 DEF QuietInv, OnlyRunning
  <2>4. ASSUME NEW p \in Procs, Scan(p) PROVE QuietInv'
    <3>1. /\ quiet' \in {p, "no"} /\ pc'[p] = "settle" /\ scan'[p] = running /\ running' = running
      BY <2>4 DEF Scan, Scanned, Goto, TypeOK
    <3>2. QED
      BY <3>1 DEF QuietInv, Procs
  <2>5. ASSUME NEW p \in Procs, Settle(p) PROVE QuietInv'
    <3>1. /\ quiet' = (IF quiet = p THEN p ELSE "no") /\ pc[p] = "settle" /\ pc'[p] = "merge"
          /\ UNCHANGED <<running, scan>>
      BY <2>5 DEF Settle, Mine, Goto, TypeOK, docker, rebuild
    <3>2. \A e \in active' : e \in Entries /\ OwnerOf(e) \in scan[p]
      BY <2>5 DEF Settle, TypeOK
    <3>3. quiet = p => scan'[p] = running' /\ OnlyRunning'
      BY <3>1, <3>2 DEF QuietInv, OnlyRunning
    <3>4. QED
      BY <3>1, <3>3 DEF QuietInv, Procs
  <2>6. ASSUME NEW p \in Procs, Merge(p) PROVE QuietInv'
    <3> DEFINE A == Accept(Candidates(p, scan[p]))
    <3>1. /\ quiet' = (IF quiet = p THEN p ELSE "no") /\ pc[p] = "merge"
          /\ pc'[p] \in {"compare", "apply"}
          /\ UNCHANGED <<running, scan, cooling, pending>> /\ active' = active \cup A
      BY <2>6 DEF Merge, Mine, Goto, TypeOK, docker, state
    <3>2. SUFFICES ASSUME quiet = p
                   PROVE  OnlyRunning' /\ \A r \in Routes : desired'[p][r] \in DueTo(p, r)'
      BY <3>1 DEF QuietInv, Procs
    <3>3. scan[p] = running /\ OnlyRunning
      BY <3>1, <3>2 DEF QuietInv
    <3>4. A = Entitled(Candidates(p, running))
      BY <3>3, EntitledIsAccept
    <3>5. OnlyRunning'
      <4>1. A \subseteq {s \in Services : Owner[s] \in Candidates(p, scan[p])}
        BY AcceptFits DEF Fits
      <4>2. \A s \in A : OwnerOf(s) \in running
        BY <3>3, <4>1 DEF Candidates, OwnerOf
      <4> HIDE DEF A
      <4>3. QED
        BY <3>1, <3>3, <4>2 DEF OnlyRunning
    <3>6. ASSUME NEW r \in Routes PROVE desired'[p][r] \in DueTo(p, r)
      <4>1. PICK f : /\ f[r] \in IF \E s \in A : Route[s] = r THEN {s \in A : Route[s] = r}
                                ELSE IF KeptFor(r) # {} THEN KeptFor(r) ELSE {NoSvc}
                     /\ desired' = [desired EXCEPT ![p] = f]
        BY <2>6 DEF Merge
      <4>2. desired'[p] = f
        BY <4>1 DEF TypeOK
      <4> HIDE DEF A
      <4>3. QED
        BY <3>4, <4>1, <4>2 DEF DueTo, Due
    <3>7. QED
      BY <3>1, <3>5, <3>6, DueStays
  <2>7. ASSUME NEW p \in Procs, Finish(p), rules' = desired[p], pc[p] \in {"compare", "apply"}
        PROVE  QuietInv'
    <3>1. /\ quiet' = (IF quiet = p THEN p ELSE "no") /\ pc'[p] = "idle"
          /\ UNCHANGED <<running, active, cooling, pending>>
      BY <2>7 DEF Finish, RebuildEnds, Mine, TypeOK, docker, state, Procs
    <3>2. SUFFICES ASSUME quiet = p PROVE Rebuilt(p)'
      BY <3>1 DEF QuietInv, Procs
    <3>3. OnlyRunning /\ \A r \in Routes : desired[p][r] \in DueTo(p, r)
      BY <2>7, <3>2 DEF QuietInv
    <3>4. OnlyRunning' /\ \A r \in Routes : rules'[r] \in DueTo(p, r)'
      BY <2>7, <3>1, <3>3, DueStays DEF OnlyRunning
    <3>5. QED
      BY <3>4 DEF Rebuilt
  <2>8. ASSUME NEW p \in Procs, Apply(p) PROVE QuietInv'
    BY <2>7, <2>8 DEF Apply
  <2>9. CASE Compare
    <3>1. CASE rules = desired["ticker"] /\ Finish("ticker")
      BY <2>7, <2>9, <3>1 DEF Compare, maps, Procs
    <3>2. CASE /\ Goto("ticker", "apply") /\ Mine("ticker")
               /\ UNCHANGED <<docker, state, cooling, cur, doomed, rebuild>>
      <4>1. /\ quiet' = (IF quiet = "ticker" THEN "ticker" ELSE "no") /\ pc["ticker"] = "compare"
            /\ pc'["ticker"] = "apply"
            /\ UNCHANGED <<running, active, cooling, pending, scan, desired>>
        BY <2>9, <3>2 DEF Compare, Mine, Goto, TypeOK, docker, state, rebuild, Procs
      <4>2. \A r : DueTo("ticker", r)' = DueTo("ticker", r)
        BY <4>1, DueStays DEF Procs
      <4>3. QED
        BY <4>1, <4>2 DEF QuietInv, OnlyRunning, Procs
    <3>3. QED
      BY <2>9, <3>1, <3>2 DEF Compare
  <2>10. QED
    BY <2>1, <2>2, <2>3, <2>4, <2>5, <2>6, <2>8, <2>9 DEF Next, Rebuild
<1>3. QuietInv => RebuildIsExact
  <2>1. \A p : Rebuilt(p) => Exact(p)
    BY DEF Rebuilt, Exact, OnlyRunning, DueTo
  <2>2. QED
    BY <2>1 DEF QuietInv, RebuildIsExact
<1>4. QED
  BY <1>1, <1>2, <1>3, TypeCorrect, PTL DEF Spec
=============================================================================
