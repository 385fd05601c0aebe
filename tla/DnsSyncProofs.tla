---------------------------- MODULE DnsSyncProofs ----------------------------
(***************************************************************************)
(* Proofs about DnsSync, for any hosts, zones, tunnels and user edits.     *)
(*                                                                         *)
(* The inductive invariant has five parts beside the types: where pending  *)
(* operations come from (PendingInv), that the ledger only ever holds      *)
(* hosts that were routed (RoutedInv), that what was checked is still so   *)
(* unless a user interfered (FreshInv), and what the cycle's two reads of  *)
(* the rules have to do with each other and with the present rules         *)
(* (ResyncInv).  CycleInv says what an undisturbed cycle has established.  *)
(***************************************************************************)
EXTENDS DnsSync, TLAPS

\* Operations are pending only in their own phase, and for hosts of the plan.
PendingInv ==
  /\ dels # {} => pc = "delete"
  /\ posts \cup patches # {} => pc = "upsert"
  /\ dels \subseteq del

\* Whatever the ledger, its saved copy or the plan holds was routed once.
RoutedInv ==
  /\ rules \subseteq routed
  /\ current \subseteq routed
  /\ ups \subseteq routed /\ del \subseteq routed /\ adopt \subseteq routed
  /\ \A h \in Hosts : ledger[h] # NoTunnel => h \in routed
  /\ \A h \in Hosts : saved[h] # NoTunnel => h \in routed

\* A pending operation still meets the record it was made for, unless a user
\* edited that record since.
FreshInv ==
  /\ \A h \in dels \cup patches : PointsHere(rec[h]) \/ h \in touched
  /\ \A h \in posts : rec[h] = NoRec \/ h \in touched

\* From its push on the cycle has pushed the present rules, and the host names that it
\* deletes are not in what it pushed, unless someone has asked or will ask for another.
ResyncInv ==
  /\ pc \notin {"idle", "config"} => want \/ owing \/ untold \/ config = rules
  /\ pc = "list" => want \/ owing \/ round = "split" \/ current = config
  /\ pc = "delete" => want \/ owing \/ round = "split" \/ del \cap config = {}

\* The remote record of a configured host is as it should be.
Served(h) == rec[h] = Canonical \/ (rec[h] # NoRec /\ ~PointsHere(rec[h]))

\* The ledger and the records of another host do not call for a deletion.
Cleared(h) == ledger[h] = tunnel => ~SameTunnel(rec[h])

\* While the zones are listed: a host of a visited zone is seen as it is, or missed.
ListPart ==
  /\ current = config
  /\ \A h \in Hosts : ZoneOf[h] \in todo => seen[h] = NoRec
  /\ \A h \in missed : seen[h] = NoRec /\ ZoneOf[h] \notin todo
  /\ \A h \in Hosts \ missed :
       ZoneOf[h] \notin todo =>
         seen[h] = IF PointsHere(rec[h]) THEN rec[h] ELSE NoRec

\* From the plan on: a host that needs no write has its record, and is in the ledger
\* or about to be adopted.
KeepPart ==
  /\ ups \subseteq config /\ adopt \subseteq config
  /\ \A h \in config \ ups : rec[h] = Canonical /\ (ledger[h] # NoTunnel \/ h \in adopt)

\* During the deletions: what calls for one is planned, and what is planned is still
\* to be looked up, pending, or done.
DeletePart ==
  /\ del \cap config = {}
  /\ \A h \in Hosts \ (config \cup missed) : Cleared(h) \/ h \in del
  /\ \A h \in del : ZoneOf[h] \in todo \/ h \in dels \/ ~PointsHere(rec[h])

\* During the upserts: the same for the writes.
UpsertPart ==
  /\ posts \cup patches \subseteq ups
  /\ \A h \in Hosts \ (config \cup missed) : Cleared(h)
  /\ \A h \in ups : ZoneOf[h] \in todo \/ h \in posts \cup patches \/ Served(h)

\* Before the adoptions everything but the ledger is done.
AdoptPart ==
  /\ adopt \subseteq config
  /\ \A h \in Hosts \ (config \cup missed) : Cleared(h)
  /\ \A h \in config : Served(h) /\ (ledger[h] # NoTunnel \/ h \in adopt)

\* What an undisturbed cycle, which no rule change has overtaken, has established.
CycleInv ==
  round = "clean" /\ ~want /\ ~owing =>
    /\ pc # "config" => untold \/ config = rules
    /\ pc \in {"config", "names"} => missed = {}
    /\ pc = "list" => ListPart
    /\ pc \in {"delete", "upsert"} => KeepPart
    /\ pc = "delete" => DeletePart
    /\ pc = "upsert" => UpsertPart
    /\ pc = "adopt" => AdoptPart
    /\ Converged
-----------------------------------------------------------------------------
\* Every value stays of its kind: the maps and the locals of syncDNSRecords.
THEOREM TypeCorrect == Spec => []TypeOK
<1> USE DnsAssumption
<1>1. Init => TypeOK
  BY DEF Init, TypeOK, NoRec, Phases, Rounds, Content
<1>2. TypeOK /\ [Next]_vars => TypeOK'
  <2> SUFFICES ASSUME TypeOK, [Next]_vars PROVE TypeOK'
    OBVIOUS
  <2> USE DEF TypeOK, Phases, Rounds, cloud, trigger, plan, ops, history
  <2>1. CASE StartCycle
    BY <2>1 DEF StartCycle
  <2>2. CASE UpdateConfiguration
    BY <2>2 DEF UpdateConfiguration
  <2>3. CASE ReadHostnames
    BY <2>3 DEF ReadHostnames
  <2>4. ASSUME NEW z \in Zones, ListZone(z) PROVE TypeOK'
    <3>1. PICK S \in SUBSET InZone(z, Hosts), ok \in BOOLEAN :
            /\ seen' = [h \in Hosts |->
                         IF h \in S /\ PointsHere(rec[h]) THEN rec[h] ELSE seen[h]]
            /\ zoneOK' = (zoneOK \/ ok)
            /\ missed' = IF round = "clean" THEN missed \cup (InZone(z, Hosts) \ S) ELSE {}
      BY <2>4 DEF ListZone
    <3>2. missed' \subseteq Hosts /\ zoneOK' \in BOOLEAN
      BY <3>1 DEF InZone
    <3>3. seen' \in [Hosts -> Content \cup {NoRec}]
      BY <3>1
    <3>4. QED
      BY <2>4, <3>2, <3>3 DEF ListZone
  <2>5. ASSUME NEW z \in Zones, DeleteCheck(z) PROVE TypeOK'
    BY <2>5 DEF DeleteCheck, InZone
  <2>6. ASSUME NEW z \in Zones, UpsertCheck(z) PROVE TypeOK'
    BY <2>6 DEF UpsertCheck, InZone
  <2>7. CASE Plan
    BY <2>7 DEF Plan, ToUpsert, ToDelete, ToAdopt, ZonesOf
  <2>8. CASE DeleteDone
    BY <2>8 DEF DeleteDone, ZonesOf
  <2>9. CASE UpsertDone
    BY <2>9 DEF UpsertDone
  <2>10. CASE Adopt
    BY <2>10 DEF Adopt, ResetCycle
  <2>11. ASSUME NEW C \in SUBSET Hosts, DeleteBatch(C) PROVE TypeOK'
    BY <2>11 DEF DeleteBatch
  <2>12. ASSUME NEW C \in SUBSET Hosts, UpsertBatch(C) PROVE TypeOK'
    <3>1. Canonical \in Content
      BY DEF Canonical, Content, Forms
    <3>2. QED
      BY <2>12, <3>1 DEF UpsertBatch
  <2>13. CASE FailCycle
    BY <2>13 DEF FailCycle, ResetCycle, Disturb
  <2>14. CASE Trigger
    BY <2>14 DEF Trigger
  <2>15. CASE ReconcileCompare
    BY <2>15 DEF ReconcileCompare
  <2>16. CASE Persist
    BY <2>16 DEF Persist
  <2>17. ASSUME NEW h \in Hosts, UserDelete(h) PROVE TypeOK'
    BY <2>17 DEF UserDelete, Disturb
  <2>18. ASSUME NEW h \in Hosts, NEW c \in UserContent, UserWrite(h, c) PROVE TypeOK'
    BY <2>18 DEF UserWrite, Disturb
  <2>19. ASSUME NEW R \in SUBSET Hosts, ChangeRules(R) PROVE TypeOK'
    BY <2>19 DEF ChangeRules
  <2>20. ASSUME NEW R \in SUBSET Hosts, ReconcileInstall(R) PROVE TypeOK'
    BY <2>20 DEF ReconcileInstall
  <2>21. ASSUME NEW R \in SUBSET Hosts, NEW t \in Tunnels, NEW lost \in BOOLEAN,
                Restart(t, R, lost)
         PROVE  TypeOK'
    BY <2>21 DEF Restart, ResetCycle, Disturb
  <2>22. CASE UNCHANGED vars
    BY <2>22 DEF vars
  <2> HIDE DEF TypeOK, Phases, Rounds, cloud, trigger, plan, ops, history
  <2>23. QED
    BY <2>1, <2>2, <2>3, <2>4, <2>5, <2>6, <2>7, <2>8, <2>9, <2>10, <2>11, <2>12,
       <2>13, <2>14, <2>15, <2>16, <2>17, <2>18, <2>19, <2>20, <2>21, <2>22
       DEF Next, Cycle, Users
<1>3. QED
  BY <1>1, <1>2, PTL DEF Spec

\* Pending operations belong to the phase that checked them.
LEMMA PendingCorrect == Spec => []PendingInv
<1> USE DnsAssumption
<1>1. Init => PendingInv
  BY DEF Init, PendingInv
<1>2. TypeOK /\ PendingInv /\ [Next]_vars => PendingInv'
  <2> SUFFICES ASSUME TypeOK, PendingInv, [Next]_vars PROVE PendingInv'
    OBVIOUS
  <2> USE DEF TypeOK, PendingInv, cloud, trigger, plan, ops, history
  <2>1. CASE StartCycle
    BY <2>1 DEF StartCycle
  <2>2. CASE UpdateConfiguration
    BY <2>2 DEF UpdateConfiguration
  <2>3. CASE ReadHostnames
    BY <2>3 DEF ReadHostnames
  <2>4. ASSUME NEW z \in Zones, ListZone(z) PROVE PendingInv'
    BY <2>4 DEF ListZone
  <2>5. ASSUME NEW z \in Zones, DeleteCheck(z) PROVE PendingInv'
    BY <2>5 DEF DeleteCheck, InZone
  <2>6. ASSUME NEW z \in Zones, UpsertCheck(z) PROVE PendingInv'
    BY <2>6 DEF UpsertCheck, InZone
  <2>7. CASE Plan
    BY <2>7 DEF Plan, ToUpsert, ToDelete, ToAdopt, ToForget
  <2>8. CASE DeleteDone
    BY <2>8 DEF DeleteDone
  <2>9. CASE UpsertDone
    BY <2>9 DEF UpsertDone
  <2>10. CASE Adopt
    BY <2>10 DEF Adopt, ResetCycle
  <2>11. ASSUME NEW C \in SUBSET Hosts, DeleteBatch(C) PROVE PendingInv'
    BY <2>11 DEF DeleteBatch, Chunk
  <2>12. ASSUME NEW C \in SUBSET Hosts, UpsertBatch(C) PROVE PendingInv'
    BY <2>12 DEF UpsertBatch, Chunk, Canonical
  <2>13. CASE FailCycle
    BY <2>13 DEF FailCycle, ResetCycle, Disturb
  <2>14. CASE Trigger
    BY <2>14 DEF Trigger
  <2>15. CASE ReconcileCompare
    BY <2>15 DEF ReconcileCompare
  <2>16. CASE Persist
    BY <2>16 DEF Persist
  <2>17. ASSUME NEW h \in Hosts, UserDelete(h) PROVE PendingInv'
    BY <2>17 DEF UserDelete, Pending, Disturb
  <2>18. ASSUME NEW h \in Hosts, NEW c \in UserContent, UserWrite(h, c) PROVE PendingInv'
    BY <2>18 DEF UserWrite, Pending, Disturb
  <2>19. ASSUME NEW R \in SUBSET Hosts, ChangeRules(R) PROVE PendingInv'
    BY <2>19 DEF ChangeRules
  <2>20. ASSUME NEW R \in SUBSET Hosts, ReconcileInstall(R) PROVE PendingInv'
    BY <2>20 DEF ReconcileInstall
  <2>21. ASSUME NEW R \in SUBSET Hosts, NEW t \in Tunnels, NEW lost \in BOOLEAN,
                Restart(t, R, lost) PROVE PendingInv'
    BY <2>21 DEF Restart, ResetCycle, Disturb
  <2>22. CASE UNCHANGED vars
    BY <2>22 DEF vars
  <2> HIDE DEF TypeOK, PendingInv, cloud, trigger, plan, ops, history
  <2>23. QED
    BY <2>1, <2>2, <2>3, <2>4, <2>5, <2>6, <2>7, <2>8, <2>9, <2>10, <2>11, <2>12,
       <2>13, <2>14, <2>15, <2>16, <2>17, <2>18, <2>19, <2>20, <2>21, <2>22
       DEF Next, Cycle, Users
<1>3. QED
  BY <1>1, <1>2, TypeCorrect, PTL DEF Spec

\* The ledger, in memory and on disk, only names hosts that were routed.
LEMMA RoutedCorrect == Spec => []RoutedInv
<1> USE DnsAssumption
<1>1. Init => RoutedInv
  BY DEF Init, RoutedInv
<1>2. TypeOK /\ RoutedInv /\ [Next]_vars => RoutedInv'
  <2> SUFFICES ASSUME TypeOK, RoutedInv, [Next]_vars PROVE RoutedInv'
    OBVIOUS
  <2> USE DEF TypeOK, RoutedInv, cloud, trigger, plan, ops, history
  <2>1. CASE StartCycle
    BY <2>1 DEF StartCycle
  <2>2. CASE UpdateConfiguration
    BY <2>2 DEF UpdateConfiguration
  <2>3. CASE ReadHostnames
    BY <2>3 DEF ReadHostnames
  <2>4. ASSUME NEW z \in Zones, ListZone(z) PROVE RoutedInv'
    BY <2>4 DEF ListZone
  <2>5. ASSUME NEW z \in Zones, DeleteCheck(z) PROVE RoutedInv'
    BY <2>5 DEF DeleteCheck, InZone
  <2>6. ASSUME NEW z \in Zones, UpsertCheck(z) PROVE RoutedInv'
    BY <2>6 DEF UpsertCheck, InZone
  <2>7. CASE Plan
    BY <2>7 DEF Plan, ToUpsert, ToDelete, ToAdopt, ToForget
  <2>8. CASE DeleteDone
    BY <2>8 DEF DeleteDone
  <2>9. CASE UpsertDone
    BY <2>9 DEF UpsertDone
  <2>10. CASE Adopt
    BY <2>10 DEF Adopt, ResetCycle
  <2>11. ASSUME NEW C \in SUBSET Hosts, DeleteBatch(C) PROVE RoutedInv'
    BY <2>11 DEF DeleteBatch, Chunk
  <2>12. ASSUME NEW C \in SUBSET Hosts, UpsertBatch(C) PROVE RoutedInv'
    BY <2>12 DEF UpsertBatch, Chunk, Canonical
  <2>13. CASE FailCycle
    BY <2>13 DEF FailCycle, ResetCycle, Disturb
  <2>14. CASE Trigger
    BY <2>14 DEF Trigger
  <2>15. CASE ReconcileCompare
    BY <2>15 DEF ReconcileCompare
  <2>16. CASE Persist
    BY <2>16 DEF Persist
  <2>17. ASSUME NEW h \in Hosts, UserDelete(h) PROVE RoutedInv'
    BY <2>17 DEF UserDelete, Pending, Disturb
  <2>18. ASSUME NEW h \in Hosts, NEW c \in UserContent, UserWrite(h, c) PROVE RoutedInv'
    BY <2>18 DEF UserWrite, Pending, Disturb
  <2>19. ASSUME NEW R \in SUBSET Hosts, ChangeRules(R) PROVE RoutedInv'
    BY <2>19 DEF ChangeRules
  <2>20. ASSUME NEW R \in SUBSET Hosts, ReconcileInstall(R) PROVE RoutedInv'
    BY <2>20 DEF ReconcileInstall
  <2>21. ASSUME NEW R \in SUBSET Hosts, NEW t \in Tunnels, NEW lost \in BOOLEAN,
                Restart(t, R, lost) PROVE RoutedInv'
    BY <2>21 DEF Restart, ResetCycle, Disturb
  <2>22. CASE UNCHANGED vars
    BY <2>22 DEF vars
  <2> HIDE DEF TypeOK, RoutedInv, cloud, trigger, plan, ops, history
  <2>23. QED
    BY <2>1, <2>2, <2>3, <2>4, <2>5, <2>6, <2>7, <2>8, <2>9, <2>10, <2>11, <2>12,
       <2>13, <2>14, <2>15, <2>16, <2>17, <2>18, <2>19, <2>20, <2>21, <2>22
       DEF Next, Cycle, Users
<1>3. QED
  BY <1>1, <1>2, TypeCorrect, PTL DEF Spec

\* What a check found still holds at the batch unless a user interfered.
LEMMA FreshCorrect == Spec => []FreshInv
<1> USE DnsAssumption
<1>1. Init => FreshInv
  BY DEF Init, FreshInv
<1>2. TypeOK /\ PendingInv /\ FreshInv /\ [Next]_vars => FreshInv'
  <2> SUFFICES ASSUME TypeOK, PendingInv, FreshInv, [Next]_vars PROVE FreshInv'
    OBVIOUS
  <2> USE DEF TypeOK, PendingInv, FreshInv, PointsHere, cloud, trigger, plan, ops, history
  <2>1. CASE StartCycle
    BY <2>1 DEF StartCycle
  <2>2. CASE UpdateConfiguration
    BY <2>2 DEF UpdateConfiguration
  <2>3. CASE ReadHostnames
    BY <2>3 DEF ReadHostnames
  <2>4. ASSUME NEW z \in Zones, ListZone(z) PROVE FreshInv'
    BY <2>4 DEF ListZone
  <2>5. ASSUME NEW z \in Zones, DeleteCheck(z) PROVE FreshInv'
    BY <2>5 DEF DeleteCheck, InZone
  <2>6. ASSUME NEW z \in Zones, UpsertCheck(z) PROVE FreshInv'
    BY <2>6 DEF UpsertCheck, InZone
  <2>7. CASE Plan
    BY <2>7 DEF Plan, ToUpsert, ToDelete, ToAdopt, ToForget
  <2>8. CASE DeleteDone
    BY <2>8 DEF DeleteDone
  <2>9. CASE UpsertDone
    BY <2>9 DEF UpsertDone
  <2>10. CASE Adopt
    BY <2>10 DEF Adopt, ResetCycle
  <2>11. ASSUME NEW C \in SUBSET Hosts, DeleteBatch(C) PROVE FreshInv'
    BY <2>11 DEF DeleteBatch, Chunk
  <2>12. ASSUME NEW C \in SUBSET Hosts, UpsertBatch(C) PROVE FreshInv'
    BY <2>12 DEF UpsertBatch, Chunk, Canonical
  <2>13. CASE FailCycle
    BY <2>13 DEF FailCycle, ResetCycle, Disturb
  <2>14. CASE Trigger
    BY <2>14 DEF Trigger
  <2>15. CASE ReconcileCompare
    BY <2>15 DEF ReconcileCompare
  <2>16. CASE Persist
    BY <2>16 DEF Persist
  <2>17. ASSUME NEW h \in Hosts, UserDelete(h) PROVE FreshInv'
    BY <2>17 DEF UserDelete, Pending, Disturb
  <2>18. ASSUME NEW h \in Hosts, NEW c \in UserContent, UserWrite(h, c) PROVE FreshInv'
    BY <2>18 DEF UserWrite, Pending, Disturb
  <2>19. ASSUME NEW R \in SUBSET Hosts, ChangeRules(R) PROVE FreshInv'
    BY <2>19 DEF ChangeRules
  <2>20. ASSUME NEW R \in SUBSET Hosts, ReconcileInstall(R) PROVE FreshInv'
    BY <2>20 DEF ReconcileInstall
  <2>21. ASSUME NEW R \in SUBSET Hosts, NEW t \in Tunnels, NEW lost \in BOOLEAN,
                Restart(t, R, lost) PROVE FreshInv'
    BY <2>21 DEF Restart, ResetCycle, Disturb
  <2>22. CASE UNCHANGED vars
    BY <2>22 DEF vars
  <2> HIDE DEF TypeOK, PendingInv, FreshInv, PointsHere, cloud, trigger, plan, ops, history
  <2>23. QED
    BY <2>1, <2>2, <2>3, <2>4, <2>5, <2>6, <2>7, <2>8, <2>9, <2>10, <2>11, <2>12,
       <2>13, <2>14, <2>15, <2>16, <2>17, <2>18, <2>19, <2>20, <2>21, <2>22
       DEF Next, Cycle, Users
<1>3. QED
  BY <1>1, <1>2, TypeCorrect, PendingCorrect, PTL DEF Spec

\* A cycle works on the present host names, or another one is wanted.
LEMMA ResyncCorrect == Spec => []ResyncInv
<1> USE DnsAssumption
<1>1. Init => ResyncInv
  BY DEF Init, ResyncInv
<1>2. TypeOK /\ ResyncInv /\ [Next]_vars => ResyncInv'
  <2> SUFFICES ASSUME TypeOK, ResyncInv, [Next]_vars PROVE ResyncInv'
    OBVIOUS
  <2> USE DEF TypeOK, ResyncInv, cloud, trigger, plan, ops, history
  <2>1. CASE StartCycle
    BY <2>1 DEF StartCycle
  <2>2. CASE UpdateConfiguration
    BY <2>2 DEF UpdateConfiguration
  <2>3. CASE ReadHostnames
    BY <2>3 DEF ReadHostnames
  <2>4. ASSUME NEW z \in Zones, ListZone(z) PROVE ResyncInv'
    BY <2>4 DEF ListZone
  <2>5. ASSUME NEW z \in Zones, DeleteCheck(z) PROVE ResyncInv'
    BY <2>5 DEF DeleteCheck, InZone
  <2>6. ASSUME NEW z \in Zones, UpsertCheck(z) PROVE ResyncInv'
    BY <2>6 DEF UpsertCheck, InZone
  <2>7. CASE Plan
    BY <2>7 DEF Plan, ToUpsert, ToDelete, ToAdopt, ToForget
  <2>8. CASE DeleteDone
    BY <2>8 DEF DeleteDone
  <2>9. CASE UpsertDone
    BY <2>9 DEF UpsertDone
  <2>10. CASE Adopt
    BY <2>10 DEF Adopt, ResetCycle
  <2>11. ASSUME NEW C \in SUBSET Hosts, DeleteBatch(C) PROVE ResyncInv'
    BY <2>11 DEF DeleteBatch, Chunk
  <2>12. ASSUME NEW C \in SUBSET Hosts, UpsertBatch(C) PROVE ResyncInv'
    BY <2>12 DEF UpsertBatch, Chunk, Canonical
  <2>13. CASE FailCycle
    BY <2>13 DEF FailCycle, ResetCycle, Disturb
  <2>14. CASE Trigger
    BY <2>14 DEF Trigger
  <2>15. CASE ReconcileCompare
    BY <2>15 DEF ReconcileCompare
  <2>16. CASE Persist
    BY <2>16 DEF Persist
  <2>17. ASSUME NEW h \in Hosts, UserDelete(h) PROVE ResyncInv'
    BY <2>17 DEF UserDelete, Pending, Disturb
  <2>18. ASSUME NEW h \in Hosts, NEW c \in UserContent, UserWrite(h, c) PROVE ResyncInv'
    BY <2>18 DEF UserWrite, Pending, Disturb
  <2>19. ASSUME NEW R \in SUBSET Hosts, ChangeRules(R) PROVE ResyncInv'
    BY <2>19 DEF ChangeRules
  <2>20. ASSUME NEW R \in SUBSET Hosts, ReconcileInstall(R) PROVE ResyncInv'
    BY <2>20 DEF ReconcileInstall
  <2>21. ASSUME NEW R \in SUBSET Hosts, NEW t \in Tunnels, NEW lost \in BOOLEAN,
                Restart(t, R, lost) PROVE ResyncInv'
    BY <2>21 DEF Restart, ResetCycle, Disturb
  <2>22. CASE UNCHANGED vars
    BY <2>22 DEF vars
  <2> HIDE DEF TypeOK, ResyncInv, cloud, trigger, plan, ops, history
  <2>23. QED
    BY <2>1, <2>2, <2>3, <2>4, <2>5, <2>6, <2>7, <2>8, <2>9, <2>10, <2>11, <2>12,
       <2>13, <2>14, <2>15, <2>16, <2>17, <2>18, <2>19, <2>20, <2>21, <2>22
       DEF Next, Cycle, Users
<1>3. QED
  BY <1>1, <1>2, TypeCorrect, PTL DEF Spec

\* An undisturbed cycle establishes phase by phase what Converged asks for.
LEMMA CycleCorrect == Spec => []CycleInv
<1> USE DnsAssumption
<1>1. Init => CycleInv
  BY DEF Init, CycleInv
<1>2. TypeOK /\ PendingInv /\ CycleInv /\ [Next]_vars => CycleInv'
  <2> SUFFICES ASSUME TypeOK, PendingInv, CycleInv, [Next]_vars PROVE CycleInv'
    OBVIOUS
  <2> USE DEF TypeOK, PendingInv, CycleInv, cloud, trigger, plan, ops, history
  <2>1. CASE StartCycle
    BY <2>1 DEF StartCycle, Converged
  <2>2. CASE UpdateConfiguration
    BY <2>2 DEF UpdateConfiguration, Converged
  <2>3. CASE ReadHostnames
    BY <2>3 DEF ReadHostnames, Converged, ListPart
  <2>4. ASSUME NEW z \in Zones, ListZone(z) PROVE CycleInv'
    <3> SUFFICES ASSUME round = "clean", ~want, ~owing PROVE CycleInv'
      BY <2>4 DEF ListZone
    <3>1. PICK S \in SUBSET InZone(z, Hosts) :
            /\ seen' = [h \in Hosts |->
                         IF h \in S /\ PointsHere(rec[h]) THEN rec[h] ELSE seen[h]]
            /\ missed' = missed \cup (InZone(z, Hosts) \ S)
      BY <2>4 DEF ListZone
    <3>2. /\ untold \/ config = rules
          /\ pc = "list" /\ pc' = pc /\ ListPart
          /\ z \in todo /\ todo' = todo \ {z}
          /\ UNCHANGED <<rec, tunnel, rules, config, current, want, owing, untold, round>>
      BY <2>4 DEF ListZone
    <3>3. ListPart'
      <4>1. InZone(z, Hosts) = {h \in Hosts : ZoneOf[h] = z}
        BY DEF InZone
      <4>2. current' = config'
        BY <3>2 DEF ListPart
      <4>3. \A h \in Hosts : ZoneOf[h] \in todo' => seen'[h] = NoRec
        BY <3>1, <3>2, <4>1 DEF ListPart
      <4>4. \A h \in missed' : seen'[h] = NoRec /\ ZoneOf[h] \notin todo'
        BY <3>1, <3>2, <4>1 DEF ListPart
      <4>5. \A h \in Hosts \ missed' :
              ZoneOf[h] \notin todo' =>
                seen'[h] = IF PointsHere(rec[h]) THEN rec[h] ELSE NoRec
        BY <3>1, <3>2, <4>1 DEF ListPart
      <4>6. QED
        BY <3>2, <4>2, <4>3, <4>4, <4>5 DEF ListPart, PointsHere
    <3>4. QED
      BY <3>2, <3>3 DEF Converged
  <2>5. ASSUME NEW z \in Zones, DeleteCheck(z) PROVE CycleInv'
    BY <2>5 DEF DeleteCheck, InZone, Converged, KeepPart, DeletePart, PointsHere, Cleared,
                SameTunnel, Canonical
  <2>6. ASSUME NEW z \in Zones, UpsertCheck(z) PROVE CycleInv'
    BY <2>6 DEF UpsertCheck, InZone, Converged, KeepPart, UpsertPart, Served, PointsHere,
                Cleared, SameTunnel, Canonical
  <2>7. CASE Plan
    BY <2>7 DEF Plan, ToUpsert, ToDelete, ToAdopt, ToForget, ZonesOf, Converged, ListPart,
                KeepPart, DeletePart, Cleared, SameTunnel, PointsHere, Canonical, NoRec
  <2>8. CASE DeleteDone
    BY <2>8 DEF DeleteDone, ZonesOf, Converged, KeepPart, DeletePart, UpsertPart, Cleared,
                SameTunnel, PointsHere, Canonical, Served
  <2>9. CASE UpsertDone
    BY <2>9 DEF UpsertDone, Converged, KeepPart, UpsertPart, AdoptPart, Cleared, Served,
                Canonical, PointsHere, SameTunnel
  <2>10. CASE Adopt
    <3> SUFFICES ASSUME round = "clean", ~want, ~owing PROVE CycleInv'
      BY <2>10 DEF Adopt
    <3>1. /\ pc' = "idle" /\ AdoptPart
          /\ untold \/ config = rules
          /\ ledger' = [h \in Hosts |-> IF h \in adopt THEN tunnel ELSE ledger[h]]
          /\ UNCHANGED <<rec, config, tunnel, rules, missed, want, owing, untold, round>>
      BY <2>10 DEF Adopt, ResetCycle
    <3>2. adopt \subseteq config
      BY <2>10 DEF Adopt, AdoptPart
    <3>3. Converged'
      BY <3>1, <3>2 DEF Converged, AdoptPart, Served, Cleared, Canonical, PointsHere,
                        SameTunnel
    <3>4. QED
      BY <3>1, <3>3
  <2>11. ASSUME NEW C \in SUBSET Hosts, DeleteBatch(C) PROVE CycleInv'
    BY <2>11 DEF DeleteBatch, Chunk, Converged, KeepPart, DeletePart, Cleared, SameTunnel,
                 PointsHere, Canonical, NoRec
  <2>12. ASSUME NEW C \in SUBSET Hosts, UpsertBatch(C) PROVE CycleInv'
    BY <2>12 DEF UpsertBatch, Chunk, Converged, KeepPart, UpsertPart, Cleared, Served,
                 SameTunnel, PointsHere, Canonical
  <2>13. CASE FailCycle
    BY <2>13 DEF FailCycle, Disturb, Converged
  <2>14. CASE Trigger
    BY <2>14 DEF Trigger, Converged, ListPart, KeepPart, DeletePart, UpsertPart, AdoptPart,
                 Served, Cleared, PointsHere, SameTunnel, Canonical
  <2>15. CASE ReconcileCompare
    BY <2>15 DEF ReconcileCompare, Converged, ListPart, KeepPart, DeletePart, UpsertPart, AdoptPart,
                 Served, Cleared, PointsHere, SameTunnel, Canonical
  <2>16. CASE Persist
    BY <2>16 DEF Persist, Converged, ListPart, KeepPart, DeletePart, UpsertPart, AdoptPart,
                 Served, Cleared, PointsHere, SameTunnel, Canonical
  <2>17. ASSUME NEW h \in Hosts, UserDelete(h) PROVE CycleInv'
    BY <2>17 DEF UserDelete, Disturb, Converged
  <2>18. ASSUME NEW h \in Hosts, NEW c \in UserContent, UserWrite(h, c) PROVE CycleInv'
    BY <2>18 DEF UserWrite, Disturb, Converged
  <2>19. ASSUME NEW R \in SUBSET Hosts, ChangeRules(R) PROVE CycleInv'
    BY <2>19 DEF ChangeRules, Converged
  <2>20. ASSUME NEW R \in SUBSET Hosts, ReconcileInstall(R) PROVE CycleInv'
    BY <2>20 DEF ReconcileInstall, Converged, ListPart, KeepPart, DeletePart, UpsertPart, AdoptPart,
                 Served, Cleared, PointsHere, SameTunnel, Canonical
  <2>21. ASSUME NEW R \in SUBSET Hosts, NEW t \in Tunnels, NEW lost \in BOOLEAN,
                Restart(t, R, lost) PROVE CycleInv'
    BY <2>21 DEF Restart, Disturb, Converged
  <2>22. CASE UNCHANGED vars
    BY <2>22 DEF vars, Converged, ListPart, KeepPart, DeletePart, UpsertPart, AdoptPart,
                 Served, Cleared, PointsHere, SameTunnel, Canonical
  <2> HIDE DEF TypeOK, PendingInv, CycleInv, cloud, trigger, plan, ops, history
  <2>23. QED
    BY <2>1, <2>2, <2>3, <2>4, <2>5, <2>6, <2>7, <2>8, <2>9, <2>10, <2>11, <2>12,
       <2>13, <2>14, <2>15, <2>16, <2>17, <2>18, <2>19, <2>20, <2>21, <2>22
       DEF Next, Cycle, Users
<1>3. QED
  BY <1>1, <1>2, TypeCorrect, PendingCorrect, PTL DEF Spec

-----------------------------------------------------------------------------
\* A record is deleted only if its host was routed at some time: the ledger
\* gate of syncDNSRecords holds for any users, crashes, lost state files and
\* recreated tunnels.
THEOREM DeletesOnlyRoutedHolds == Spec => DeletesOnlyRouted
<1>1. PendingInv /\ RoutedInv /\ [Next]_vars
        => [\A C \in SUBSET Hosts : DeleteBatch(C) => C \subseteq routed]_vars
  BY DEF PendingInv, RoutedInv, DeleteBatch, Chunk
<1>2. QED
  BY <1>1, PendingCorrect, RoutedCorrect, PTL DEF Spec, DeletesOnlyRouted

\* No batch touches a record that points elsewhere, but for the window between
\* the look-up and the batch call in which a user may repoint it.
THEOREM NoForeignHarmHolds == Spec => NoForeignHarm
<1>1. PendingInv /\ FreshInv /\ [Next]_vars
        => [\A C \in SUBSET Hosts : DeleteBatch(C) \/ UpsertBatch(C) =>
              \A h \in C : rec[h] = NoRec \/ PointsHere(rec[h]) \/ h \in touched]_vars
  BY DEF PendingInv, FreshInv, DeleteBatch, UpsertBatch, Chunk
<1>2. QED
  BY <1>1, PendingCorrect, FreshCorrect, PTL DEF Spec, NoForeignHarm

\* The record of a host that is routed again is deleted only when another cycle is
\* wanted or its trigger is still to come, be it Reconcile's; for any number of handlers
\* and Reconcile runs between any two calls of the cycle.
THEOREM LiveDeleteIsResyncedHolds == Spec => LiveDeleteIsResynced
<1>1. PendingInv /\ ResyncInv /\ [Next]_vars
        => [\A C \in SUBSET Hosts :
              DeleteBatch(C) => C \cap rules = {} \/ want \/ owing \/ untold
                                  \/ round = "split"]_vars
  <2> SUFFICES ASSUME PendingInv, ResyncInv, NEW C \in SUBSET Hosts, DeleteBatch(C),
                      ~want, ~owing, ~untold, round # "split"
               PROVE  C \cap rules = {}
    OBVIOUS
  <2>1. C \subseteq del /\ pc = "delete"
    BY DEF PendingInv, DeleteBatch, Chunk
  <2>2. config = rules /\ del \cap config = {}
    BY <2>1 DEF ResyncInv
  <2>3. QED
    BY <2>1, <2>2
<1>2. QED
  BY <1>1, PendingCorrect, ResyncCorrect, PTL DEF Spec, LiveDeleteIsResynced

\* After an undisturbed cycle the records and the ledger agree with the configuration,
\* and that with the rules once Reconcile has compared what it installed, but for stale
\* records in zones that could not be listed: for any number of hosts and zones and any
\* batch size (performSync, syncDNSRecords, Reconcile).
THEOREM ConvergedHolds == Spec => []Converged
<1>1. CycleInv => Converged
  BY DEF CycleInv, Converged
<1>2. QED
  BY <1>1, CycleCorrect, PTL
=============================================================================
