-------------------------------- MODULE Manager --------------------------------
(***************************************************************************)
(* Start-up of a controller process and the Cloudflare manager it creates. *)
(*                                                                         *)
(* Code: cmd/docktunnel/main.go up to NewManager, internal/instance, and   *)
(* in internal/cloudflareManager callWithRetry, getOrCreateTunnel and      *)
(* getZoneIDForHostname.                                                   *)
(*                                                                         *)
(* Several processes share one lock file.  Every API call is made through  *)
(* callWithRetry: each attempt is a step of its own, between which other   *)
(* processes, users of the account and the clock take steps.  Cloudflare   *)
(* is external: a tunnel may be missing from a listing for a while after   *)
(* its creation, a creation may take effect although its answer is an      *)
(* error, and nothing keeps two tunnels from having the same name.         *)
(***************************************************************************)
EXTENDS Integers, Sequences, FiniteSets

CONSTANTS Procs,
          Tunnels,       \* tunnel IDs
          Configured,    \* values of cloudflare.tunnelId, with None for an empty one
          MaxRetries, RetryDelay, MaxRetryDelay,
          RetryAfters,   \* seconds that a 429 asks for; 0 without the header
          Width,         \* width of time.Duration in bits
          Hosts,
          Candidates,    \* Candidates[h]: zoneLookupCandidates, most specific first
          TTL,           \* zoneCacheTTL
          MaxZones       \* bound: how often a zone may be created

None == "none"

Domains == UNION {{Candidates[h][i] : i \in DOMAIN Candidates[h]} : h \in Hosts}

ASSUME ManagerAssumption ==
  /\ None \notin Procs \cup Tunnels /\ Configured \subseteq Tunnels \cup {None}
  /\ MaxRetries \in Nat /\ RetryDelay \in Nat \ {0} /\ MaxRetryDelay \in Nat
  /\ RetryDelay <= MaxRetryDelay /\ RetryAfters \subseteq Nat /\ 0 \in RetryAfters
  /\ Width \in Nat \ {0} /\ MaxRetryDelay < 2^(Width - 1)
  /\ None \notin Hosts
  /\ Candidates \in [Hosts -> Seq(STRING)] /\ \A h \in Hosts : Candidates[h] # <<>>
  /\ TTL \in Nat \ {0} /\ MaxZones \in Nat \ {0}

VARIABLES
  holder,   \* the process that has the lock
  pc,       \* process -> where it is
  attempt,  \* failed attempts of the call a process is in
  delay,    \* the wait before the next attempt, and the Retry-After it honours
  target,   \* the tunnel that getOrCreateTunnel has found or created
  using,    \* m.tunnel
  tunnelID, \* cloudflare.tunnelId
  tunnels,  \* tunnels of the configured name at Cloudflare
  listed,   \* those of them that listings show
  unsure,   \* history: an answer was lost or a listing was behind
  zone,     \* domain -> the ID of its zone, 0 if the account has none (while a process runs)
  cache,    \* zoneCache and zoneCacheExpiry of the running process
  search,   \* the look-up under way: its host, and the next candidate
  found,    \* what the last look-up returned
  since     \* domain -> time since its zone last changed

procs == <<holder, pc, attempt, delay, target, using>>
cloud == <<tunnelID, tunnels, listed, unsure>>
zones == <<zone, cache, search, found, since>>
vars  == <<procs, cloud, zones>>

NoDelay  == [len |-> 0, asked |-> 0]
NoZones  == [d \in Domains |-> 0]
NoCache  == [d \in Domains |-> [id |-> 0, left |-> 0]]
NoSearch == [host |-> None, next |-> 1]
Nothing  == [domain |-> None, id |-> 0]
Calls    == {"byid", "list", "create", "recheck", "get"}

Init ==
  /\ holder = None /\ pc = [p \in Procs |-> "down"]
  /\ attempt = [p \in Procs |-> 0] /\ delay = [p \in Procs |-> NoDelay]
  /\ target = [p \in Procs |-> None] /\ using = [p \in Procs |-> None]
  /\ tunnelID \in Configured
  /\ tunnels \in {{}} \cup {{t} : t \in Tunnels} /\ listed = tunnels /\ unsure = FALSE
  /\ zone = NoZones /\ cache = NoCache /\ search = NoSearch /\ found = Nothing
  /\ since = [d \in Domains |-> 0]

(***************************************************************************)
(* The process and its lock.  Acquire does not wait: a second process logs *)
(* the holder and exits, which changes nothing here.                       *)
(***************************************************************************)

\* Mutant: the lock is not looked at.
Acquire_NoLock(p) ==
  /\ pc[p] = "down"
  /\ holder' = p /\ pc' = [pc EXCEPT ![p] = "verify"]
  /\ UNCHANGED <<attempt, delay, target, using, cloud, zones>>

Acquire(p) ==
  /\ pc[p] = "down" /\ holder = None
  /\ holder' = p /\ pc' = [pc EXCEPT ![p] = "verify"]
  /\ UNCHANGED <<attempt, delay, target, using, cloud, zones>>

\* The process ends: the kernel drops the lock with the file descriptor.
End(p) ==
  /\ pc' = [pc EXCEPT ![p] = "down"] /\ holder' = IF holder = p THEN None ELSE holder
  /\ attempt' = [attempt EXCEPT ![p] = 0] /\ delay' = [delay EXCEPT ![p] = NoDelay]
  /\ target' = [target EXCEPT ![p] = None] /\ using' = [using EXCEPT ![p] = None]

\* The next call of getOrCreateTunnel, about tunnel t.
Call(p, c, t) ==
  /\ pc' = [pc EXCEPT ![p] = c] /\ target' = [target EXCEPT ![p] = t]
  /\ attempt' = [attempt EXCEPT ![p] = 0] /\ delay' = [delay EXCEPT ![p] = NoDelay]
  /\ UNCHANGED <<holder, using>>

\* VerifyAPIToken and docker.NewManager, with os.Exit if one of them fails.
Verify(p) ==
  /\ pc[p] = "verify"
  /\ \/ End(p)
     \/ IF tunnelID = None THEN Call(p, "list", None) ELSE Call(p, "byid", tunnelID)
  /\ UNCHANGED <<cloud, zones>>

\* A crash or the end of the process at any point.
Crash(p) ==
  /\ pc[p] # "down" /\ End(p)
  /\ zone' = NoZones /\ since' = [d \in Domains |-> 0]
  /\ cache' = NoCache /\ search' = NoSearch /\ found' = Nothing
  /\ UNCHANGED cloud

(***************************************************************************)
(* callWithRetry.                                                          *)
(***************************************************************************)
Wrap(x) == ((x + 2^(Width - 1)) % 2^Width) - 2^(Width - 1)

\* Mutant: maxRetryDelay is not applied.
Backoff_NoLimit(a) == Wrap(RetryDelay * 2^a)

Backoff(a) ==
  LET d == Wrap(RetryDelay * 2^a) IN IF d < MaxRetryDelay THEN d ELSE MaxRetryDelay

\* Full jitter: a random share of the back-off, which truncates towards 0.
Jitter(b) == IF b > 0 THEN 0..(b - 1) ELSE (b + 1)..0

\* The error that getOrCreateTunnel gets: only that of the look-up by ID is survived.
GiveUp(p) == IF pc[p] = "byid" THEN Call(p, "list", None) ELSE End(p)

\* Mutant: one attempt too many.
RetryOrGiveUp_OneMore(p) ==
  IF attempt[p] > MaxRetries THEN GiveUp(p)
  ELSE /\ attempt' = [attempt EXCEPT ![p] = @ + 1]
       /\ UNCHANGED <<holder, pc, delay, target, using>>

\* Mutant: the attempts of a call are not counted.
RetryOrGiveUp_NoCount(p) == UNCHANGED procs

\* After a retriable error.
RetryOrGiveUp(p) ==
  IF attempt[p] = MaxRetries THEN GiveUp(p)
  ELSE \E j \in Jitter(Backoff(attempt[p])), after \in RetryAfters :
         /\ attempt' = [attempt EXCEPT ![p] = @ + 1]
         /\ delay' = [delay EXCEPT ![p] = [len |-> IF after > j THEN after ELSE j, asked |-> after]]
         /\ UNCHANGED <<holder, pc, target, using>>

\* An attempt fails without having had an effect: for good, or for now.
Fail(p) ==
  /\ pc[p] \in Calls
  /\ GiveUp(p) \/ RetryOrGiveUp(p)
  /\ UNCHANGED <<cloud, zones>>

(***************************************************************************)
(* getOrCreateTunnel.                                                      *)
(***************************************************************************)

\* getTunnelByID; a tunnel that does not exist is a permanent error, which Fail covers.
\* The process runs, with an empty zone cache and the zones the account has by now.
Get(p) ==
  /\ pc[p] \in {"byid", "get"} /\ target[p] \in tunnels
  /\ using' = [using EXCEPT ![p] = target[p]] /\ pc' = [pc EXCEPT ![p] = "run"]
  /\ attempt' = [attempt EXCEPT ![p] = 0] /\ delay' = [delay EXCEPT ![p] = NoDelay]
  /\ zone' \in [Domains -> 0..1]
  /\ UNCHANGED <<holder, target, cloud, cache, search, found, since>>

\* listTunnelsByName before and after the creation; the API fixes which match is the first.
List(p) ==
  /\ pc[p] \in {"list", "recheck"}
  /\ \/ listed = {} /\ pc[p] = "list" /\ Call(p, "create", None)
     \/ listed = {} /\ pc[p] = "recheck" /\ Call(p, "get", target[p])
     \/ \E t \in listed : Call(p, "get", t)
  /\ unsure' = (unsure \/ listed # tunnels)
  /\ UNCHANGED <<tunnelID, tunnels, listed, zones>>

\* A new tunnel, which listings may show at once or later.
NewTunnel(t) ==
  /\ t \notin tunnels \cup {using[p] : p \in Procs} \cup {target[p] : p \in Procs} \cup {tunnelID}
  /\ tunnels' = tunnels \cup {t} /\ listed' \in {listed, listed \cup {t}}

Create(p) ==
  /\ pc[p] = "create"
  /\ \E t \in Tunnels : NewTunnel(t) /\ Call(p, "recheck", t)
  /\ UNCHANGED <<tunnelID, unsure, zones>>

\* The tunnel was created, and the answer is a retriable error all the same.
CreateLost(p) ==
  /\ pc[p] = "create"
  /\ \E t \in Tunnels : NewTunnel(t)
  /\ RetryOrGiveUp(p) /\ unsure' = TRUE
  /\ UNCHANGED <<tunnelID, zones>>

\* Cloudflare's listings catch up; somebody deletes a tunnel by hand.
CatchUp ==
  /\ listed # tunnels /\ listed' = tunnels
  /\ UNCHANGED <<procs, tunnelID, tunnels, unsure, zones>>
DeleteTunnel(t) ==
  /\ t \in tunnels
  /\ tunnels' = tunnels \ {t} /\ listed' = listed \ {t}
  /\ UNCHANGED <<procs, tunnelID, unsure, zones>>

(***************************************************************************)
(* getZoneIDForHostname in the running process.  A look-up of a candidate  *)
(* is one step: callWithRetry either answers or has given up.              *)
(***************************************************************************)
Running == \E p \in Procs : pc[p] = "run"
Fresh(d) == cache[d].left > 0

\* Mutant: an expired entry is a hit as well.
CacheHit_Expired(h) ==
  /\ \E i \in DOMAIN Candidates[h] :
       LET d == Candidates[h][i] IN cache[d].id # 0 /\ found' = [domain |-> d, id |-> cache[d].id]
  /\ UNCHANGED search

\* The most specific candidate that is cached wins, whatever zones the account has.
CacheHit(h) ==
  /\ \E i \in DOMAIN Candidates[h] :
       LET d == Candidates[h][i]
       IN  /\ Fresh(d) /\ \A j \in 1..(i - 1) : ~Fresh(Candidates[h][j])
           /\ found' = [domain |-> d, id |-> cache[d].id]
  /\ UNCHANGED search

CacheMiss(h) ==
  /\ \A i \in DOMAIN Candidates[h] : ~Fresh(Candidates[h][i])
  /\ search' = [host |-> h, next |-> 1] /\ found' = Nothing

LookUp(h) ==
  /\ Running /\ search = NoSearch
  /\ CacheHit(h) \/ CacheMiss(h)
  /\ UNCHANGED <<procs, cloud, zone, cache, since>>

\* Zones.List for one candidate: a match, or none or an error and on to the next one.
Ask ==
  LET cs == Candidates[search.host]
      d  == cs[search.next]
  IN  /\ Running /\ search # NoSearch
      /\ \/ /\ zone[d] # 0
            /\ cache' = [cache EXCEPT ![d] = [id |-> zone[d], left |-> TTL]]
            /\ found' = [domain |-> d, id |-> zone[d]] /\ search' = NoSearch
         \/ /\ search' = IF search.next = Len(cs) THEN NoSearch ELSE [search EXCEPT !.next = @ + 1]
            /\ UNCHANGED <<cache, found>>
      /\ UNCHANGED <<procs, cloud, zone, since>>

\* A unit of time passes; the last result is not kept.
Tick ==
  /\ Running /\ found' = Nothing
  /\ cache' = [d \in Domains |-> [cache[d] EXCEPT !.left = IF @ > 0 THEN @ - 1 ELSE 0]]
  /\ since' = [d \in Domains |-> IF since[d] > TTL THEN since[d] ELSE since[d] + 1]
  /\ UNCHANGED <<procs, cloud, zone, search>>

\* A zone is removed, moved to another account, or added again under a new ID.
ChangeZone(d) ==
  /\ Running /\ found' = Nothing
  /\ \E id \in 0..MaxZones : /\ id # zone[d] /\ id \in {0} \cup ((zone[d] + 1)..MaxZones)
                             /\ zone' = [zone EXCEPT ![d] = id]
  /\ since' = [since EXCEPT ![d] = 0]
  /\ UNCHANGED <<procs, cloud, cache, search>>

Step(p) == Verify(p) \/ Fail(p) \/ Get(p) \/ List(p) \/ Create(p) \/ CreateLost(p)

Next ==
  \/ \E p \in Procs : Acquire(p) \/ Step(p) \/ Crash(p)
  \/ CatchUp \/ \E t \in Tunnels : DeleteTunnel(t)
  \/ (\E h \in Hosts : LookUp(h)) \/ Ask \/ Tick \/ \E d \in Domains : ChangeZone(d)

Spec == Init /\ [][Next]_vars

\* The HTTP client has a time limit and every wait is finite, so calls end.
FairSpec == Spec /\ \A p \in Procs : WF_vars(Step(p))

(***************************************************************************)
(* Properties.                                                             *)
(***************************************************************************)

\* The lock belongs to the one process that is past Acquire, a call makes at most
\* maxRetries + 1 attempts ("maxRetries=3: at most 4 attempts"), and values have their types.
TypeOK ==
  /\ holder \in Procs \cup {None} /\ \A p \in Procs : pc[p] # "down" <=> holder = p
  /\ pc \in [Procs -> Calls \cup {"down", "verify", "run"}]
  /\ attempt \in [Procs -> 0..MaxRetries]
  /\ target \in [Procs -> Tunnels \cup {None}] /\ using \in [Procs -> Tunnels \cup {None}]
  /\ tunnels \subseteq Tunnels /\ listed \subseteq tunnels /\ tunnelID \in Configured
  /\ \A p \in Procs : pc[p] = "run" => using[p] # None
  /\ zone \in [Domains -> 0..MaxZones] /\ since \in [Domains -> 0..(TTL + 1)]
  /\ cache \in [Domains -> [id : 0..MaxZones, left : 0..TTL]]
  /\ \/ search = NoSearch
     \/ \E h \in Hosts : \E i \in DOMAIN Candidates[h] : search = [host |-> h, next |-> i]
  /\ found = Nothing \/ found.domain \in Domains

\* Whatever order processes start, crash and start again in, they do not add a second tunnel
\* of the name, unless a creation was answered with an error or a listing was behind; and so
\* a process without a configured tunnel ID runs on the only tunnel there is.
OneTunnel ==
  ~unsure => /\ \A t, u \in tunnels : t = u
             /\ \A p \in Procs : pc[p] = "run" /\ tunnelID = None => tunnels \subseteq {using[p]}

\* The wait before a retry is at least what Retry-After asks for, and otherwise neither negative
\* nor longer than maxRetryDelay, for as long as the doubled delay fits into a time.Duration.
WaitInRange ==
  \A p \in Procs :
    attempt[p] > 0 /\ RetryDelay * 2^(attempt[p] - 1) < 2^(Width - 1) =>
      /\ delay[p].len >= delay[p].asked
      /\ delay[p].len # delay[p].asked => delay[p].len \in 0..(MaxRetryDelay - 1)

\* A look-up never returns a zone that has been gone for longer than the cache's time to live.
ZoneIsRecent ==
  found # Nothing => found.id = zone[found.domain] \/ since[found.domain] <= TTL

\* A start ends: the process runs, or it has exited and given the lock back.
StartEnds == \A p \in Procs : (pc[p] \notin {"down", "run"}) ~> (pc[p] \in {"down", "run"})
=============================================================================
