------------------------------- MODULE DnsSync -------------------------------
(***************************************************************************)
(* One Cloudflare synchronisation cycle and the DNS ownership ledger.      *)
(*                                                                         *)
(* Code: internal/controller/syncer.go (performSync, syncDNSRecords),      *)
(* internal/cloudflareManager/tunnel.go (ListDNSRecords, UpsertDNSRecords, *)
(* DeleteDNSRecords), internal/state/manager.go (RecordManagedDNS,         *)
(* ForgetManagedDNS, ManagedDNS), internal/controller/reconciler.go        *)
(* (Reconcile), and the way the handlers, the collector and Sync change    *)
(* ingressRules first and call TriggerSync later.                          *)
(*                                                                         *)
(* The sync worker is a single goroutine, so there is one cycle at a time; *)
(* every API call of the cycle is a step, and between two of them the      *)
(* event handlers change the ingress rules, users edit the zones, the      *)
(* state is saved, a call fails or the process crashes.  A host name is a  *)
(* model value; a CNAME target is a tunnel or Foreign, written in one of   *)
(* the forms that the code's comparisons tell apart.                       *)
(***************************************************************************)
EXTENDS Naturals, FiniteSets

CONSTANTS Hosts,        \* host names that labels may ask for
          Zones,        \* DNS zones of the account
          ZoneOf,       \* the zone that getZoneIDForHostname finds for a host
          Tunnels,      \* tunnel IDs, past and present
          Foreign,      \* any CNAME target that is not <tunnel>.cfargotunnel.com
          UserContent,  \* what users write into the zones by hand
          MaxBatch,     \* maxBatchSize: operations in one batch call
          Reconciles    \* the Reconcile ticker is configured

NoTunnel == "no tunnel"

\* How a target is spelled: as the controller writes it, with the trailing dot
\* Cloudflare may add, or with other letter case.
Forms == {"canon", "dot", "case"}

Content == [tgt : Tunnels \cup {Foreign}, form : Forms]

NoRec == [tgt |-> NoTunnel, form |-> "canon"]

ASSUME DnsAssumption ==
  /\ ZoneOf \in [Hosts -> Zones]
  /\ Tunnels # {}
  /\ NoTunnel \notin Tunnels \cup {Foreign}
  /\ Foreign \notin Tunnels
  /\ UserContent \subseteq Content
  /\ MaxBatch \in Nat \ {0}
  /\ Reconciles \in BOOLEAN

VARIABLES
  \* Cloudflare
  rec,       \* host -> its CNAME content, or NoRec
  config,    \* hosts of the live tunnel configuration
  tunnel,    \* the tunnel this process runs (Manager.tunnel.ID)
  \* the controller
  rules,     \* hosts of Controller.ingressRules
  owing,     \* a handler, the collector or Sync has changed the rules and has not
             \* called TriggerSync yet
  want,      \* a sync is triggered or queued for compensation
  ledger,    \* state.Manager.managedDNS: host -> tunnel written, or NoTunnel
  saved,     \* the ledger of the snapshot on disk
  \* locals of the running cycle
  pc,        \* what the cycle does next
  current,   \* currentHostnames
  seen,      \* existingRecords
  todo,      \* zones still to visit in this phase
  zoneOK,    \* succeededZones > 0
  ups, del, adopt,   \* upsertHostnames, deleteHostnames, adopt
  posts, patches, dels,  \* operations checked and not yet submitted
  \* history, read by the properties only
  touched,   \* pending operations whose record a user edited after the check
  gone,      \* pending operations whose record ID no longer exists
  routed,    \* hosts that have had an ingress rule at some time
  claimed,   \* hosts whose record the controller has written or adopted
  missed,    \* hosts whose record the listing of a clean cycle did not reach
  untold,    \* Reconcile installed other rules, and neither has its comparison
             \* succeeded since nor has anybody else asked for a cycle
  round      \* since the cycle began: "clean", "disturbed" (a call failed for good or a
             \* user edited a record), or "split" (Reconcile's rules came between the
             \* cycle's two reads of the rules)

cloud   == <<rec, config, tunnel>>
plan    == <<current, seen, zoneOK, ups, del, adopt>>
ops     == <<posts, patches, dels>>
trigger == <<owing, want>>
history == <<touched, gone, routed, claimed, missed, untold, round>>
vars    == <<rec, config, tunnel, rules, owing, want, ledger, saved, pc, current,
             seen, todo, zoneOK, ups, del, adopt, posts, patches, dels, touched, gone,
             routed, claimed, missed, untold, round>>

Phases == {"idle", "config", "names", "list", "delete", "upsert", "adopt"}

Rounds == {"clean", "disturbed", "split"}

InZone(z, S) == {h \in S : ZoneOf[h] = z}
ZonesOf(S)   == {ZoneOf[h] : h \in S}

\* normalizeCNAMEContent(record.Content) == expectedContent
PointsHere(c) == c.tgt = tunnel

\* sameTunnel: exact content, with or without the trailing dot
SameTunnel(c) == c.tgt = tunnel /\ c.form \in {"canon", "dot"}

Canonical == [tgt |-> tunnel, form |-> "canon"]

\* Operations that were checked and are not submitted yet.
Pending == posts \cup patches \cup dels

\* The rest of this cycle proves nothing about the remote side.
Disturb ==
  /\ round' = IF round = "split" THEN "split" ELSE "disturbed"
  /\ missed' = {}

\* syncDNSRecords returns: its locals are gone.
ResetCycle ==
  /\ pc' = "idle"
  /\ current' = {} /\ seen' = [h \in Hosts |-> NoRec] /\ zoneOK' = FALSE
  /\ ups' = {} /\ del' = {} /\ adopt' = {}
  /\ todo' = {} /\ posts' = {} /\ patches' = {} /\ dels' = {}
  /\ touched' = {} /\ gone' = {}
-----------------------------------------------------------------------------
Init ==
  /\ rec \in [Hosts -> UserContent \cup {NoRec}]
  /\ config = {}
  /\ tunnel \in Tunnels
  /\ rules = {}
  /\ owing = FALSE /\ want = FALSE
  /\ ledger = [h \in Hosts |-> NoTunnel]
  /\ saved = ledger
  /\ pc = "idle"
  /\ current = {} /\ seen = [h \in Hosts |-> NoRec]
  /\ todo = {} /\ zoneOK = FALSE
  /\ ups = {} /\ del = {} /\ adopt = {}
  /\ posts = {} /\ patches = {} /\ dels = {}
  /\ touched = {} /\ gone = {} /\ routed = {}
  /\ claimed = {} /\ missed = {} /\ untold = FALSE /\ round = "disturbed"

(***************************************************************************)
(* The sync cycle.                                                         *)
(***************************************************************************)

\* The worker leaves its debounce window and calls performSync.
StartCycle ==
  /\ pc = "idle" /\ want
  /\ want' = FALSE
  /\ pc' = "config"
  /\ missed' = {} /\ round' = "clean"
  /\ UNCHANGED <<cloud, rules, owing, ledger, saved, plan, todo, ops,
                 touched, gone, routed, claimed, untold>>

\* Mutant: rules are merged into the live configuration, never removed.
UpdateConfiguration_Merge ==
  /\ pc = "config"
  /\ config' = config \cup rules
  /\ pc' = "names"
  /\ untold' = FALSE
  /\ UNCHANGED <<rec, tunnel, rules, trigger, ledger, saved, plan, todo, ops,
                 touched, gone, routed, claimed, missed, round>>

\* GetIngressRules under c.mu, then UpdateConfiguration replaces the whole
\* configuration with them.
UpdateConfiguration ==
  /\ pc = "config"
  /\ config' = rules
  /\ pc' = "names"
  /\ untold' = FALSE
  /\ UNCHANGED <<rec, tunnel, rules, trigger, ledger, saved, plan, todo, ops,
                 touched, gone, routed, claimed, missed, round>>

\* syncDNSRecords reads ingressRules again, under its own lock, and starts to
\* list the zones.
ReadHostnames ==
  /\ pc = "names"
  /\ current' = rules
  /\ seen' = [h \in Hosts |-> NoRec]
  /\ todo' = Zones
  /\ zoneOK' = FALSE
  /\ pc' = "list"
  /\ round' = IF rules # config /\ ~want /\ ~owing THEN "split" ELSE round
  /\ missed' = {}
  /\ UNCHANGED <<cloud, rules, trigger, ledger, saved, ups, del, adopt, ops,
                 touched, gone, routed, claimed, untold>>

\* ListDNSRecords visits one zone: it keeps the records that point at this
\* tunnel.  A zone whose pager fails keeps what was read before the failure
\* and is only counted.
ListZone(z) ==
  /\ pc = "list" /\ z \in todo
  /\ todo' = todo \ {z}
  /\ \E S \in SUBSET InZone(z, Hosts), ok \in BOOLEAN :
       /\ ok => S = InZone(z, Hosts)
       /\ seen' = [h \in Hosts |->
                     IF h \in S /\ PointsHere(rec[h]) THEN rec[h] ELSE seen[h]]
       /\ zoneOK' = (zoneOK \/ ok)
       /\ missed' = IF round = "clean" THEN missed \cup (InZone(z, Hosts) \ S) ELSE {}
  /\ UNCHANGED <<cloud, rules, trigger, ledger, saved, pc, current, ups, del, adopt, ops,
                 touched, gone, routed, claimed, untold, round>>

\* Mutant: any spelling of the target will do.
ToUpsert_AnyForm == {h \in current : ~PointsHere(seen[h])}

\* upsertHostnames: desired, and not listed with exactly the expected content.
ToUpsert == {h \in current : seen[h] # Canonical}

\* adopt: desired, listed as ours, and unknown to the ledger.
ToAdopt == {h \in current : SameTunnel(seen[h]) /\ ledger[h] = NoTunnel}

\* Undesired records listed for this tunnel whose ledger entry no longer
\* matches are dropped from the ledger ...
ToForget == {h \in Hosts \ current :
               /\ seen[h] # NoRec
               /\ ledger[h] # NoTunnel
               /\ ~SameTunnel(seen[h]) \/ ledger[h] # tunnel}

\* Mutant: the ledger is not asked.
ToDelete_NoLedger == {h \in Hosts \ current : SameTunnel(seen[h])}

\* ... and those the ledger knows with this content are deleted.
ToDelete == {h \in Hosts \ current : SameTunnel(seen[h]) /\ ledger[h] = tunnel}

\* The rest of syncDNSRecords up to the first write: compare, forget.
Plan ==
  /\ pc = "list" /\ todo = {}
  /\ zoneOK \/ Zones = {}
  /\ ups' = ToUpsert /\ del' = ToDelete /\ adopt' = ToAdopt
  /\ ledger' = [h \in Hosts |-> IF h \in ToForget THEN NoTunnel ELSE ledger[h]]
  /\ pc' = "delete"
  /\ todo' = ZonesOf(ToDelete)
  /\ current' = {} /\ seen' = [h \in Hosts |-> NoRec] /\ zoneOK' = FALSE  \* not read again
  /\ UNCHANGED <<cloud, rules, trigger, saved, ops, history>>

\* Mutant: the IDs of all records of these names are collected.
DeleteCheck_NoContent(z) ==
  /\ pc = "delete" /\ z \in todo /\ dels = {}
  /\ dels' = {h \in InZone(z, del) : rec[h] # NoRec}
  /\ todo' = todo \ {z}
  /\ UNCHANGED <<cloud, rules, trigger, ledger, saved, pc, plan, posts, patches, history>>

\* DeleteDNSRecords looks the records of one zone up again and keeps the IDs
\* of those that still point at this tunnel (collectDeleteIDs).
DeleteCheck(z) ==
  /\ pc = "delete" /\ z \in todo /\ dels = {}
  /\ dels' = {h \in InZone(z, del) : PointsHere(rec[h])}
  /\ todo' = todo \ {z}
  /\ UNCHANGED <<cloud, rules, trigger, ledger, saved, pc, plan, posts, patches, history>>

\* C is the next chunk of the operations S: maxBatchSize of them, or what is left.
Chunk(S, C) ==
  /\ C # {} /\ C \subseteq S
  /\ Cardinality(C) = MaxBatch \/ (C = S /\ Cardinality(C) < MaxBatch)

\* A batch of deletions by record ID.  It fails (FailCycle) when an ID is gone.
DeleteBatch(C) ==
  /\ pc = "delete" /\ Chunk(dels, C)
  /\ C \cap gone = {}
  /\ rec' = [h \in Hosts |-> IF h \in C THEN NoRec ELSE rec[h]]
  /\ dels' = dels \ C
  /\ touched' = touched \ C
  /\ UNCHANGED <<config, tunnel, rules, trigger, ledger, saved, pc, plan, todo, posts, patches,
                 gone, routed, claimed, missed, untold, round>>

\* All deletions succeeded: ForgetManagedDNS(deleteHostnames).
DeleteDone ==
  /\ pc = "delete" /\ todo = {} /\ dels = {}
  /\ ledger' = [h \in Hosts |-> IF h \in del THEN NoTunnel ELSE ledger[h]]
  /\ pc' = "upsert"
  /\ todo' = ZonesOf(ups)
  /\ UNCHANGED <<cloud, rules, trigger, saved, plan, ops, history>>

\* Mutant: an existing record is patched whatever it points at.
UpsertCheck_Overwrite(z) ==
  /\ pc = "upsert" /\ z \in todo /\ posts = {} /\ patches = {}
  /\ posts' = {h \in InZone(z, ups) : rec[h] = NoRec}
  /\ patches' = {h \in InZone(z, ups) : rec[h] # NoRec}
  /\ todo' = todo \ {z}
  /\ UNCHANGED <<cloud, rules, trigger, ledger, saved, pc, plan, dels, history>>

\* UpsertDNSRecords looks each host of one zone up: no record gives a POST, a
\* record of this tunnel a PATCH, and a record of anybody else is left alone.
UpsertCheck(z) ==
  /\ pc = "upsert" /\ z \in todo /\ posts = {} /\ patches = {}
  /\ posts' = {h \in InZone(z, ups) : rec[h] = NoRec}
  /\ patches' = {h \in InZone(z, ups) : PointsHere(rec[h])}
  /\ todo' = todo \ {z}
  /\ UNCHANGED <<cloud, rules, trigger, ledger, saved, pc, plan, dels, history>>

\* Mutant: only the first chunk of a zone is submitted.
UpsertBatch_FirstOnly(C) ==
  /\ pc = "upsert" /\ Chunk(posts \cup patches, C)
  /\ \A h \in C \cap posts : rec[h] = NoRec
  /\ (C \cap patches) \cap gone = {}
  /\ rec' = [h \in Hosts |-> IF h \in C THEN Canonical ELSE rec[h]]
  /\ posts' = {} /\ patches' = {}
  /\ claimed' = claimed \cup C
  /\ touched' = touched \ C
  /\ gone' = gone \ C
  /\ UNCHANGED <<config, tunnel, rules, trigger, ledger, saved, pc, plan, todo, dels,
                 routed, missed, untold, round>>

\* A batch of POSTs and PATCHes.  Cloudflare refuses it as a whole when a POST
\* meets a record of that name or a PATCH names a record that is gone.
UpsertBatch(C) ==
  /\ pc = "upsert" /\ Chunk(posts \cup patches, C)
  /\ \A h \in C \cap posts : rec[h] = NoRec
  /\ (C \cap patches) \cap gone = {}
  /\ rec' = [h \in Hosts |-> IF h \in C THEN Canonical ELSE rec[h]]
  /\ posts' = posts \ C /\ patches' = patches \ C
  /\ claimed' = claimed \cup C
  /\ touched' = touched \ C
  /\ gone' = gone \ C
  /\ UNCHANGED <<config, tunnel, rules, trigger, ledger, saved, pc, plan, todo, dels,
                 routed, missed, untold, round>>

\* Mutant: the ledger records the target found in the zone.
UpsertDone_Observed ==
  /\ pc = "upsert" /\ todo = {} /\ posts = {} /\ patches = {}
  /\ ledger' = [h \in Hosts |-> IF h \in ups THEN rec[h].tgt ELSE ledger[h]]
  /\ pc' = "adopt"
  /\ UNCHANGED <<cloud, rules, trigger, saved, plan, todo, ops, history>>

\* RecordManagedDNS(upsertHostnames, expectedContent): every host of the call,
\* the ones UpsertDNSRecords left alone included.
UpsertDone ==
  /\ pc = "upsert" /\ todo = {} /\ posts = {} /\ patches = {}
  /\ ledger' = [h \in Hosts |-> IF h \in ups THEN tunnel ELSE ledger[h]]
  /\ pc' = "adopt"
  /\ UNCHANGED <<cloud, rules, trigger, saved, plan, todo, ops, history>>

\* RecordManagedDNS(adopt, expectedContent), and the cycle returns nil.
Adopt ==
  /\ pc = "adopt"
  /\ ledger' = [h \in Hosts |-> IF h \in adopt THEN tunnel ELSE ledger[h]]
  /\ claimed' = claimed \cup adopt
  /\ ResetCycle
  /\ UNCHANGED <<cloud, rules, trigger, saved, routed, missed, untold, round>>

\* An API call of the cycle fails for good: performSync returns the error.  A
\* transient error is queued for compensation, a permanent one is not.
FailCycle ==
  /\ pc \in {"config", "list", "delete", "upsert"}
  /\ \E retried \in BOOLEAN : want' = (want \/ retried)
  /\ ResetCycle
  /\ Disturb
  /\ UNCHANGED <<cloud, rules, owing, ledger, saved, routed, claimed, untold>>

(***************************************************************************)
(* The other goroutines of the process.                                    *)
(***************************************************************************)

\* An event handler, the collector or Sync changes ingressRules under c.mu.  Each of
\* them calls TriggerSync later, also when it changed nothing; where two overlap, the
\* later call is one more that changes nothing.
ChangeRules(R) ==
  /\ rules' = R
  /\ owing' = TRUE
  /\ untold' = FALSE
  /\ routed' = routed \cup R
  /\ UNCHANGED <<cloud, want, ledger, saved, pc, plan, todo, ops, touched, gone, claimed,
                 missed, round>>

\* Mutant: no trigger while a cycle runs.
Trigger_SkipBusy ==
  /\ owing
  /\ owing' = FALSE
  /\ want' = (want \/ pc = "idle")
  /\ UNCHANGED <<cloud, rules, ledger, saved, pc, plan, todo, ops, history>>

\* syncToCloudflare: TriggerSync.
Trigger ==
  /\ owing
  /\ owing' = FALSE
  /\ want' = TRUE
  /\ UNCHANGED <<cloud, rules, ledger, saved, pc, plan, todo, ops, history>>

\* Reconcile builds the rules R and puts them in place when they are others.  It calls
\* no TriggerSync here, and none at all if GetConfiguration fails next: the rules stay.
ReconcileInstall(R) ==
  /\ Reconciles
  /\ R # rules
  /\ rules' = R
  /\ untold' = TRUE
  /\ routed' = routed \cup R
  /\ UNCHANGED <<cloud, trigger, ledger, saved, pc, plan, todo, ops, touched, gone,
                 claimed, missed, round>>

\* In this run of Reconcile or, after a failure, in a later one that finds the rules as
\* they are, GetConfiguration answers, and a cycle is triggered if that is not what
\* Reconcile built; DNS records are not looked at.  A comparison of rules that have
\* changed meanwhile is not modelled apart: a trigger too many is one of ChangeRules,
\* and a trigger too few is a failure.
ReconcileCompare ==
  /\ Reconciles
  /\ untold \/ config # rules
  /\ want' = (want \/ config # rules)
  /\ untold' = FALSE
  /\ UNCHANGED <<cloud, rules, owing, ledger, saved, pc, plan, todo, ops, touched, gone,
                 routed, claimed, missed, round>>

\* The ticker's SaveStateIfDirty, or ForceSave.
Persist ==
  /\ saved # ledger
  /\ saved' = ledger
  /\ UNCHANGED <<cloud, rules, trigger, ledger, pc, plan, todo, ops, history>>

\* The process dies and starts again: the ledger is read back or lost with the
\* state file, the tunnel is found or created anew (getOrCreateTunnel), and
\* Sync rebuilds the rules from what runs now and is to trigger a cycle.
Restart(t, R, lost) ==
  /\ ResetCycle
  /\ ledger' = IF lost THEN [h \in Hosts |-> NoTunnel] ELSE saved
  /\ saved' = ledger'
  /\ tunnel' = t
  /\ config' = IF t = tunnel THEN config ELSE {}
  /\ rules' = R
  /\ routed' = routed \cup R
  /\ owing' = TRUE /\ want' = FALSE /\ untold' = FALSE
  /\ Disturb
  /\ UNCHANGED <<rec, claimed>>

(***************************************************************************)
(* People and other tools that edit the zones.                             *)
(***************************************************************************)

\* A record is created, or edited in place (its ID stays).
UserWrite(h, c) ==
  /\ rec[h] # c
  /\ rec' = [rec EXCEPT ![h] = c]
  /\ touched' = touched \cup ({h} \cap Pending)
  /\ Disturb
  /\ UNCHANGED <<config, tunnel, rules, trigger, ledger, saved, pc, plan, todo, ops,
                 gone, routed, claimed, untold>>

UserDelete(h) ==
  /\ rec[h] # NoRec
  /\ rec' = [rec EXCEPT ![h] = NoRec]
  /\ touched' = touched \cup ({h} \cap Pending)
  /\ gone' = gone \cup ({h} \cap Pending)
  /\ Disturb
  /\ UNCHANGED <<config, tunnel, rules, trigger, ledger, saved, pc, plan, todo, ops,
                 routed, claimed, untold>>
-----------------------------------------------------------------------------
Cycle ==
  \/ StartCycle \/ UpdateConfiguration \/ ReadHostnames
  \/ \E z \in Zones : ListZone(z) \/ DeleteCheck(z) \/ UpsertCheck(z)
  \/ Plan \/ DeleteDone \/ UpsertDone \/ Adopt
  \/ \E C \in SUBSET Hosts : DeleteBatch(C) \/ UpsertBatch(C)

Users == \E h \in Hosts : UserDelete(h) \/ \E c \in UserContent : UserWrite(h, c)

Next ==
  \/ Cycle \/ FailCycle \/ Trigger \/ ReconcileCompare \/ Persist \/ Users
  \/ \E R \in SUBSET Hosts :
       \/ ChangeRules(R) \/ ReconcileInstall(R)
       \/ \E t \in Tunnels, lost \in BOOLEAN : Restart(t, R, lost)

Spec == Init /\ [][Next]_vars

\* The worker keeps running and every API call ends (callWithRetry bounds its
\* attempts, the contexts their time); a handler that has changed the rules goes on
\* to its trigger; the tickers of main.go keep firing, and GetConfiguration does not
\* fail for ever.
FairSpec ==
  /\ Spec
  /\ WF_vars(Cycle \/ FailCycle) /\ WF_vars(Trigger)
  /\ WF_vars(ReconcileCompare) /\ WF_vars(Persist)
-----------------------------------------------------------------------------
\* The variables always hold values of their kinds (state.Manager's map, the
\* locals of syncDNSRecords, the contents of the zones).
TypeOK ==
  /\ rec \in [Hosts -> Content \cup {NoRec}]
  /\ config \subseteq Hosts /\ rules \subseteq Hosts
  /\ owing \in BOOLEAN /\ want \in BOOLEAN
  /\ tunnel \in Tunnels
  /\ ledger \in [Hosts -> Tunnels \cup {NoTunnel}]
  /\ saved \in [Hosts -> Tunnels \cup {NoTunnel}]
  /\ pc \in Phases
  /\ current \subseteq Hosts
  /\ seen \in [Hosts -> Content \cup {NoRec}]
  /\ todo \subseteq Zones /\ zoneOK \in BOOLEAN
  /\ ups \subseteq Hosts /\ del \subseteq Hosts /\ adopt \subseteq Hosts
  /\ posts \subseteq Hosts /\ patches \subseteq Hosts /\ dels \subseteq Hosts
  /\ touched \subseteq Hosts /\ gone \subseteq Hosts /\ routed \subseteq Hosts
  /\ claimed \subseteq Hosts /\ missed \subseteq Hosts
  /\ untold \in BOOLEAN /\ round \in Rounds

(***************************************************************************)
(* Safety.                                                                 *)
(***************************************************************************)

\* A record whose name no container ever asked for is never deleted, whatever
\* users, crashes, lost state files and recreated tunnels do (the ledger gate
\* of syncDNSRecords, syncer.go:185-231).
DeletesOnlyRouted ==
  [][\A C \in SUBSET Hosts : DeleteBatch(C) => C \subseteq routed]_vars

\* A batch removes or rewrites a record that points elsewhere only if a user
\* repointed it after this cycle looked it up (collectDeleteIDs and the skip
\* of UpsertDNSRecords, tunnel.go:764-776, 865-870).
NoForeignHarm ==
  [][\A C \in SUBSET Hosts : DeleteBatch(C) \/ UpsertBatch(C) =>
       \A h \in C : rec[h] = NoRec \/ PointsHere(rec[h]) \/ h \in touched]_vars

\* When a cycle deletes the record of a host that has a rule again (the rule came
\* after syncDNSRecords read the host names), the record comes back: a cycle is
\* wanted, or whoever added the rule is on the way to its trigger, or it was Reconcile,
\* whose comparison is to come, at the next tick if GetConfiguration fails now.  Only
\* where Reconcile's rules came between the cycle's two reads of the rules, so that
\* configuration and host names differ, is nothing said (syncer.go:87, 142-150).
LiveDeleteIsResynced ==
  [][\A C \in SUBSET Hosts :
       DeleteBatch(C) => C \cap rules = {} \/ want \/ owing \/ untold \/ round = "split"]_vars

\* After a cycle that nothing disturbed the live configuration is that of the rules,
\* unless Reconcile installed rules and has not compared them yet or could not; and the
\* zones agree with the configuration: each of its hosts has the canonical record or
\* one that belongs to somebody else, each is in the ledger, and no record of ours that
\* the ledger knows is left for another host (syncer.go:83-287).  A zone that could
\* not be listed costs only that last part, and only for its records that were not
\* reached (tunnel.go:721-724).
Converged ==
  pc = "idle" /\ ~want /\ ~owing /\ round = "clean" =>
    /\ untold \/ config = rules
    /\ \A h \in config :
         /\ ledger[h] # NoTunnel
         /\ rec[h] = Canonical \/ (rec[h] # NoRec /\ ~PointsHere(rec[h]))
    /\ \A h \in Hosts \ (config \cup missed) : ledger[h] = tunnel => ~SameTunnel(rec[h])

(***************************************************************************)
(* Liveness, under FairSpec.                                               *)
(***************************************************************************)

\* Once nobody interferes, the cycle's calls no longer fail and Reconcile builds the
\* rules that are in place, the controller comes to rest, whatever Reconcile left undone
\* before: cycles and Reconcile do not keep triggering each other, rules that were
\* installed without a trigger reach the configuration, and the ledger that describes
\* the final state reaches the disk (performSync, Reconcile, SaveIfDirty).
SettlesDown ==
  <>[][Cycle \/ Trigger \/ ReconcileCompare \/ Persist]_vars
    => <>[](pc = "idle" /\ ~owing /\ ~want /\ config = rules /\ saved = ledger)

(***************************************************************************)
(* What the documentation says and the code does not do.                   *)
(***************************************************************************)

\* README.md:24: "Only records this controller wrote (or adopted) are ever
\* deleted."
DeletesOnlyClaimed ==
  [][\A C \in SUBSET Hosts : DeleteBatch(C) => C \subseteq claimed]_vars
=============================================================================
