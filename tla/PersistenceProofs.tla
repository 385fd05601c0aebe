--------------------------- MODULE PersistenceProofs ---------------------------
(***************************************************************************)
(* Proofs about Persistence, for every number of backups, mutations and    *)
(* faults, and for a default or a configured state file.                   *)
(***************************************************************************)
EXTENDS Persistence, SequenceTheorems, NumberLemmas

Versions == {Bad} \cup 0..MaxVersion

\* The backups after rotateBackups' rename: the rotated file comes first.
LEMMA RotatedProperties ==
  ASSUME NEW older \in Seq(Versions), NEW v \in Versions
  PROVE  LET t == <<v>> \o older
         IN  /\ t \in Seq(Versions) /\ Len(t) = Len(older) + 1 /\ t # <<>> /\ t[1] = v
             /\ \A i \in 1..Len(t) : t[i] = v \/ \E j \in 1..Len(older) : t[i] = older[j]
<1> DEFINE t == <<v>> \o older
<1>1. t \in Seq(Versions) /\ Len(t) = Len(older) + 1 /\ t # <<>>
  OBVIOUS
<1>2. t[1] = v /\ \A i \in 2..Len(t) : t[i] = older[i - 1]
  OBVIOUS
<1> HIDE DEF t
<1>3. ASSUME NEW i \in 1..Len(t) PROVE t[i] = v \/ \E j \in 1..Len(older) : t[i] = older[j]
  <2>1. i # 1 => i \in 2..Len(t) /\ i - 1 \in 1..Len(older)
    BY <1>1
  <2> QED BY <1>2, <2>1
<1> QED BY <1>1, <1>2, <1>3 DEF t

\* The backups that a rotation keeps under their names.
LEMMA OlderProperties ==
  ASSUME TypeOK,
         NEW older \in {backups} \cup (IF backups = <<>> THEN {} ELSE {Tail(backups)})
  PROVE  /\ older \in Seq(Versions) /\ Len(older) <= Len(backups)
         /\ \A i \in 1..Len(older) : \E j \in 1..Len(backups) : older[i] = backups[j]
<1>1. backups \in Seq(Versions)
  BY DEF TypeOK, Versions
<1>2. CASE older = backups
  BY <1>1, <1>2
<1>3. CASE older # backups
  <2>1. backups # <<>> /\ older = Tail(backups)
    BY <1>3
  <2>2. /\ Tail(backups) \in Seq(Versions)
        /\ Len(Tail(backups)) = Len(backups) - 1
        /\ \A i \in 1..Len(Tail(backups)) : Tail(backups)[i] = backups[i + 1]
    BY <1>1, <2>1, HeadTailProperties
  <2> QED BY <2>1, <2>2, <1>1
<1> QED BY <1>2, <1>3

\* A rotation that moves the file puts it first and brings in no other version.
LEMMA RotateMoves ==
  ASSUME TypeOK, NEW p \in Savers, Rotate(p), file # None, BackupCount > 0
  PROVE  /\ file' = None /\ keep' = BackupCount /\ Goto(p, "prune")
         /\ backups' \in Seq(Versions) /\ Len(backups') <= Len(backups) + 1
         /\ backups' # <<>> /\ backups'[1] = file
         /\ \A i \in 1..Len(backups') :
              backups'[i] = file \/ \E j \in 1..Len(backups) : backups'[i] = backups[j]
<1>1. /\ file' = None /\ keep' = BackupCount /\ Goto(p, "prune")
      /\ \E older \in {backups} \cup (IF backups = <<>> THEN {} ELSE {Tail(backups)}) :
           backups' = <<file>> \o older
  BY PersistenceAssumption DEF Rotate
<1>2. PICK older \in {backups} \cup (IF backups = <<>> THEN {} ELSE {Tail(backups)}) :
        backups' = <<file>> \o older
  BY <1>1
<1>3. file \in Versions
  BY DEF TypeOK, Versions
<1>4. /\ older \in Seq(Versions) /\ Len(older) <= Len(backups)
      /\ \A i \in 1..Len(older) : \E j \in 1..Len(backups) : older[i] = backups[j]
  BY OlderProperties
<1> DEFINE t == <<file>> \o older
<1>5. /\ t \in Seq(Versions) /\ Len(t) = Len(older) + 1 /\ t # <<>> /\ t[1] = file
      /\ \A i \in 1..Len(t) : t[i] = file \/ \E j \in 1..Len(older) : t[i] = older[j]
  BY <1>3, <1>4, RotatedProperties
<1>6. backups' = t
  BY <1>2
<1>7. Len(backups) \in Nat /\ Len(older) \in Nat
  BY <1>4 DEF TypeOK
<1> HIDE DEF t
<1>8. ASSUME NEW i \in 1..Len(t)
      PROVE  t[i] = file \/ \E j \in 1..Len(backups) : t[i] = backups[j]
  <2>1. CASE t[i] = file
    BY <2>1
  <2>2. CASE \E j \in 1..Len(older) : t[i] = older[j]
    <3>1. PICK k \in 1..Len(older) : t[i] = older[k]
      BY <2>2
    <3>2. \E j \in 1..Len(backups) : older[k] = backups[j]
      BY <1>4
    <3> QED BY <3>1, <3>2
  <2> QED BY <1>5, <2>1, <2>2
<1>9. Len(t) <= Len(backups) + 1
  BY <1>4, <1>5, <1>7
<1> QED BY <1>1, <1>5, <1>6, <1>8, <1>9

\* Removing one element of a sequence, other than the first.
LEMMA RemovedProperties ==
  ASSUME NEW s \in Seq(Versions), NEW k \in 2..Len(s)
  PROVE  LET t == RemoveAt(s, k)
         IN  /\ t \in Seq(Versions) /\ Len(t) = Len(s) - 1 /\ t # <<>> /\ t[1] = s[1]
             /\ \A i \in 1..Len(t) : \E j \in 1..Len(s) : t[i] = s[j]
<1> DEFINE a == SubSeq(s, 1, k - 1)
           b == SubSeq(s, k + 1, Len(s))
           t == a \o b
<1>1. /\ a \in Seq(Versions) /\ Len(a) = k - 1
      /\ \A i \in 1..Len(a) : a[i] = s[i]
  <2>1. \A i \in 1..(k - 1) : s[i] \in Versions
    OBVIOUS
  <2>2. /\ SubSeq(s, 1, k - 1) \in Seq(Versions)
        /\ Len(SubSeq(s, 1, k - 1)) = IF 1 <= k - 1 THEN (k - 1) - 1 + 1 ELSE 0
        /\ \A i \in 1..(k - 1) - 1 + 1 : SubSeq(s, 1, k - 1)[i] = s[1 + i - 1]
    BY <2>1, SubSeqProperties
  <2>3. Len(a) = k - 1
    BY <2>2
  <2> QED BY <2>2, <2>3
<1>2. /\ b \in Seq(Versions) /\ Len(b) = Len(s) - k
      /\ \A i \in 1..Len(b) : b[i] = s[k + i]
  <2>1. \A i \in (k + 1)..Len(s) : s[i] \in Versions
    OBVIOUS
  <2>2. /\ SubSeq(s, k + 1, Len(s)) \in Seq(Versions)
        /\ Len(SubSeq(s, k + 1, Len(s))) = IF k + 1 <= Len(s) THEN Len(s) - (k + 1) + 1 ELSE 0
        /\ \A i \in 1..(Len(s) - (k + 1) + 1) :
             SubSeq(s, k + 1, Len(s))[i] = s[(k + 1) + i - 1]
    BY <2>1, SubSeqProperties
  <2>3. Len(b) = Len(s) - k
    BY <2>2
  <2> QED BY <2>2, <2>3
<1> HIDE DEF a, b
<1>3. /\ t \in Seq(Versions) /\ Len(t) = Len(a) + Len(b)
      /\ \A i \in 1..Len(a) + Len(b) : t[i] = IF i <= Len(a) THEN a[i] ELSE b[i - Len(a)]
  BY <1>1, <1>2, ConcatProperties
<1>4. Len(t) = Len(s) - 1 /\ t # <<>>
  BY <1>1, <1>2, <1>3
<1>5. t[1] = s[1]
  BY <1>1, <1>2, <1>3
<1>6. ASSUME NEW i \in 1..Len(t) PROVE \E j \in 1..Len(s) : t[i] = s[j]
  <2>1. CASE i <= Len(a)
    <3>1. t[i] = s[i] /\ i \in 1..Len(s)
      BY <1>1, <1>2, <1>3, <2>1
    <3> QED BY <3>1
  <2>2. CASE ~(i <= Len(a))
    <3>1. i - Len(a) \in 1..Len(b) /\ k + (i - Len(a)) \in 1..Len(s)
      BY <1>1, <1>2, <1>3, <2>2
    <3>2. t[i] = s[k + (i - Len(a))]
      BY <1>1, <1>2, <1>3, <2>2, <3>1
    <3> QED BY <3>1, <3>2
  <2> QED BY <2>1, <2>2
<1>7. RemoveAt(s, k) = t
  BY DEF RemoveAt, a, b
<1> HIDE DEF t
<1> QED BY <1>3, <1>4, <1>5, <1>6, <1>7

\* Pruning removes one backup, and never the newest.
LEMMA PruneRemoves ==
  ASSUME TypeOK, NEW p \in Savers, Prune(p)
  PROVE  /\ backups' \in Seq(Versions) /\ Len(backups') = Len(backups) - 1
         /\ backups # <<>> /\ backups' # <<>> /\ backups'[1] = backups[1]
         /\ \A i \in 1..Len(backups') : \E j \in 1..Len(backups) : backups'[i] = backups[j]
<1>1. backups \in Seq(Versions) /\ backups' = RemoveAt(backups, keep + 1)
  BY DEF TypeOK, Versions, Prune
<1>2. BackupCount > 0 /\ pc[p] = "prune" /\ Len(backups) > keep
  BY DEF Prune, TypeOK
<1>3. keep \in BackupCount..BackupCount + faults /\ faults \in Nat
  BY DEF TypeOK
<1>4. keep + 1 \in 2..Len(backups)
  BY <1>1, <1>2, <1>3, PersistenceAssumption
<1> DEFINE t == RemoveAt(backups, keep + 1)
<1>5. /\ t \in Seq(Versions) /\ Len(t) = Len(backups) - 1 /\ t # <<>> /\ t[1] = backups[1]
      /\ \A i \in 1..Len(t) : \E j \in 1..Len(backups) : t[i] = backups[j]
  BY <1>1, <1>4, RemovedProperties
<1>6. backups # <<>>
  BY <1>1, <1>4
<1> HIDE DEF t
<1> QED BY <1>1, <1>5, <1>6 DEF t

\* tryLoadBackups finds a backup that loads, if there is one.
LEMMA FromBackupsFound ==
  ASSUME TypeOK
  PROVE  \/ FromBackups = Empty /\ \A i \in 1..Len(backups) : backups[i] = Bad
         \/ \E i \in 1..Len(backups) : backups[i] # Bad /\ FromBackups = backups[i]
<1> DEFINE good == {i \in 1..Len(backups) : backups[i] # Bad}
<1>1. CASE good = {}
  BY <1>1 DEF FromBackups
<1>2. CASE good # {}
  <2>1. \E i \in good : \A j \in good : i <= j
    <3>1. good \in SUBSET Nat
      OBVIOUS
    <3> HIDE DEF good
    <3> QED BY <3>1, <1>2, LeastNumber
  <2>2. PICK k \in good : FromBackups = backups[k]
    BY <1>2, <2>1 DEF FromBackups
  <2> QED BY <2>2
<1> QED BY <1>1, <1>2

\* Load yields the empty state or the version of some file.
LEMMA LoadedInRange ==
  ASSUME TypeOK
  PROVE  Loaded \in 0..MaxVersion
<1> USE DEF TypeOK, Empty, None, Bad
<1>1. FromBackups \in 0..MaxVersion
  BY FromBackupsFound, PersistenceAssumption
<1>2. Loaded = Empty \/ Loaded = FromBackups \/ (Loaded = file /\ file # None /\ file # Bad)
  BY DEF Loaded
<1> QED BY <1>1, <1>2, PersistenceAssumption

\* The two parts of the type invariant that take an argument: who holds saveMu, and how
\* many backups there can be.
Holders == \A p \in Savers : lock = p <=> pc[p] \in {"rotate", "prune", "open", "write", "rename"}

Limit ==
  IF \E p \in Savers : pc[p] = "prune"
  THEN BackupCount > 0 /\ Len(backups) <= BackupCount + faults + 1
  ELSE Len(backups) <= BackupCount + faults

\* The type invariant: in particular saveMu is held by the one saver that is between Lock
\* and Rename, and pruneBackups leaves at most backupCount backups, and one more for each
\* backup that could not be removed and each crash while it was at work.
THEOREM TypeCorrect == Spec => []TypeOK
<1> USE DEF Savers, Empty, None, Bad
<1>1. Init => TypeOK
  <2> SUFFICES ASSUME Init PROVE TypeOK
    OBVIOUS
  <2>1. backups \in Seq({Bad} \cup 0..MaxVersion) /\ Len(backups) = 0
    BY DEF Init
  <2>2. Holders
    BY DEF Init, Holders
  <2>3. /\ pc \in [Savers -> {"idle", "snapshot", "lock", "rotate", "prune", "open", "write",
                              "rename", "clear"}]
        /\ snap \in [Savers -> 0..MaxVersion]
    BY PersistenceAssumption DEF Init
  <2>4. mem \in 0..MaxVersion /\ newest \in 0..MaxVersion /\ faults \in 0..MaxFaults
    BY PersistenceAssumption DEF Init
  <2>5. /\ dirty \in BOOLEAN /\ saved \in BOOLEAN /\ damaged \in BOOLEAN
        /\ file \in {Bad, None} \cup 0..MaxVersion /\ tmp \in {Bad, None} \cup 0..MaxVersion
    BY DEF Init
  <2>6. lock \in Savers \cup {"free"} /\ sole \in Savers \cup {"none"}
    BY DEF Init
  <2>7. keep \in BackupCount..BackupCount + faults /\ Limit
    BY <2>1, PersistenceAssumption DEF Init, Limit
  <2> QED BY <2>1, <2>2, <2>3, <2>4, <2>5, <2>6, <2>7 DEF TypeOK, Holders, Limit
<1>2. TypeOK /\ [Next]_vars => TypeOK'
  <2> SUFFICES ASSUME TypeOK, [Next]_vars PROVE TypeOK'
    OBVIOUS
  <2> USE DEF TypeOK
  <2>1. ASSUME Mutate PROVE TypeOK'
    BY <2>1, PersistenceAssumption DEF Mutate, disk, past
  <2>2. ASSUME Damage PROVE TypeOK'
    BY <2>2, PersistenceAssumption DEF Damage, Fault
  <2>3. ASSUME Crash PROVE TypeOK'
    <3>1. mem' \in 0..MaxVersion
      BY <2>3, LoadedInRange DEF Crash
    <3>2. Holders'
      BY <2>3 DEF Crash, Holders
    <3>3. /\ pc' \in [Savers -> {"idle", "snapshot", "lock", "rotate", "prune", "open", "write",
                                 "rename", "clear"}]
          /\ snap' \in [Savers -> 0..MaxVersion]
      BY <2>3, PersistenceAssumption DEF Crash
    <3>4. /\ faults' \in 0..MaxFaults /\ keep' = keep /\ backups' = backups
          /\ \/ faults' = faults + 1
             \/ faults' = faults /\ ~\E p \in Savers : pc[p] = "prune"
      BY <2>3, PersistenceAssumption DEF Crash, disk
    <3>5. Len(backups') <= BackupCount + faults' /\ keep' \in BackupCount..BackupCount + faults'
      <4>1. /\ Len(backups') = Len(backups) /\ Len(backups) \in Nat
            /\ faults \in Nat /\ BackupCount \in Nat
        BY <3>4, PersistenceAssumption
      <4>2. CASE faults' = faults + 1
        BY <3>4, <4>1, <4>2
      <4>3. CASE faults' = faults /\ ~\E p \in Savers : pc[p] = "prune"
        BY <3>4, <4>1, <4>3
      <4> QED BY <3>4, <4>2, <4>3
    <3>6. Limit'
      BY <2>3, <3>5 DEF Crash, Limit
    <3> QED BY <3>1, <3>2, <3>3, <3>4, <3>5, <3>6, <2>3 DEF Crash, disk, past, Holders, Limit
  <2>4. ASSUME NEW p \in Savers, Begin(p) PROVE TypeOK'
    BY <2>4, PersistenceAssumption DEF Begin, disk, past, Goto
  <2>5. ASSUME NEW p \in Savers, Snapshot(p) PROVE TypeOK'
    BY <2>5, PersistenceAssumption DEF Snapshot, disk, past, Goto
  <2>6. ASSUME NEW p \in Savers, Lock(p) PROVE TypeOK'
    BY <2>6, PersistenceAssumption DEF Lock, disk, past, Goto
  <2>7. ASSUME NEW p \in Savers, Rotate(p) PROVE TypeOK'
    <3>1. CASE BackupCount = 0 \/ file = None
      <4>1. UNCHANGED <<file, backups, keep>> /\ Goto(p, "open")
        BY <3>1, <2>7, PersistenceAssumption DEF Rotate
      <4> QED BY <4>1, <2>7, PersistenceAssumption DEF Rotate, past, Goto
    <3>2. CASE BackupCount > 0 /\ file # None
      <4>1. /\ file' = None /\ keep' = BackupCount /\ Goto(p, "prune")
            /\ backups' \in Seq(Versions) /\ Len(backups') <= Len(backups) + 1
        BY <3>2, <2>7, RotateMoves
      <4>2. Len(backups) <= BackupCount + faults /\ Len(backups) \in Nat /\ Len(backups') \in Nat
        BY <2>7, <4>1 DEF Rotate
      <4>3. Len(backups') <= BackupCount + faults + 1
        BY <4>1, <4>2, PersistenceAssumption
      <4> QED BY <4>1, <4>3, <3>2, <2>7, PersistenceAssumption DEF Rotate, past, Versions, Goto
    <3> QED BY <3>1, <3>2, PersistenceAssumption
  <2>8. ASSUME NEW p \in Savers, Prune(p) PROVE TypeOK'
    <3>1. backups' \in Seq(Versions) /\ Len(backups') = Len(backups) - 1
      BY <2>8, PruneRemoves
    <3>2. Len(backups') <= BackupCount + faults + 1 /\ BackupCount > 0 /\ Len(backups) \in Nat
      BY <2>8, <3>1, PersistenceAssumption DEF Prune
    <3>3. Limit'
      BY <2>8, <3>2 DEF Prune, Limit
    <3> QED BY <3>1, <3>3, <2>8 DEF Prune, past, Versions, Limit
  <2>9. ASSUME NEW p \in Savers, Pruned(p) PROVE TypeOK'
    <3>1. Len(backups) <= BackupCount + faults
      BY <2>9, PersistenceAssumption DEF Pruned
    <3> QED BY <3>1, <2>9, PersistenceAssumption DEF Pruned, disk, past, Goto
  <2>10. ASSUME NEW p \in Savers, Open(p) PROVE TypeOK'
    BY <2>10, PersistenceAssumption DEF Open, past, Goto
  <2>11. ASSUME NEW p \in Savers, Write(p) PROVE TypeOK'
    BY <2>11, PersistenceAssumption DEF Write, past, Goto
  <2>12. ASSUME NEW p \in Savers, Rename(p) PROVE TypeOK'
    BY <2>12, PersistenceAssumption DEF Rename, Goto
  <2>13. ASSUME NEW p \in Savers, Clear(p) PROVE TypeOK'
    BY <2>13, PersistenceAssumption DEF Clear, disk, past, Goto
  <2>14. ASSUME NEW p \in Savers, RotateFails(p) PROVE TypeOK'
    BY <2>14, PersistenceAssumption DEF RotateFails, Fault, disk, past, Goto
  <2>15. ASSUME NEW p \in Savers, PruneFails(p) PROVE TypeOK'
    BY <2>15, PersistenceAssumption DEF PruneFails, Fault, disk, past
  <2>16. ASSUME NEW p \in Savers, SaveFails(p) PROVE TypeOK'
    BY <2>16, PersistenceAssumption DEF SaveFails, Fault, past, Goto
  <2>17. CASE UNCHANGED vars
    BY <2>17 DEF vars, disk, past
  <2> HIDE DEF TypeOK, Savers
  <2> QED BY <2>1, <2>2, <2>3, <2>4, <2>5, <2>6, <2>7, <2>8, <2>9, <2>10, <2>11, <2>12, <2>13,
             <2>14, <2>15, <2>16, <2>17 DEF Next, Save
<1> QED BY <1>1, <1>2, PTL DEF Spec

\* What saveMu gives its holder: while it prunes there is no state file, and when it renames
\* it finds in the temporary file what it wrote there, for nobody has truncated it since.
Undisturbed ==
  \A p \in Savers : /\ pc[p] = "prune" => file = None
                    /\ pc[p] = "rename" => tmp = snap[p]

\* The temporary file that is renamed is complete, and is the renaming saver's own (B14 in
\* the comment on saveMu).
THEOREM UndisturbedHolds == Spec => []Undisturbed
<1> USE DEF Savers, Empty, None, Bad
<1>1. Init => Undisturbed
  BY DEF Init, Undisturbed
<1>2. TypeOK /\ Undisturbed /\ [Next]_vars => Undisturbed'
  <2> SUFFICES ASSUME TypeOK, Undisturbed, [Next]_vars PROVE Undisturbed'
    OBVIOUS
  <2> USE DEF TypeOK, Undisturbed
  <2>1. ASSUME Mutate PROVE Undisturbed'
    BY <2>1 DEF Mutate, disk, past, Goto
  <2>2. ASSUME Damage PROVE Undisturbed'
    BY <2>2 DEF Damage, Fault, disk, past, Goto
  <2>3. ASSUME Crash PROVE Undisturbed'
    BY <2>3 DEF Crash, disk, past, Goto
  <2>4. ASSUME NEW p \in Savers, Begin(p) PROVE Undisturbed'
    BY <2>4 DEF Begin, disk, past, Goto
  <2>5. ASSUME NEW p \in Savers, Snapshot(p) PROVE Undisturbed'
    BY <2>5 DEF Snapshot, disk, past, Goto
  <2>6. ASSUME NEW p \in Savers, Lock(p) PROVE Undisturbed'
    BY <2>6 DEF Lock, disk, past, Goto
  <2>7. ASSUME NEW p \in Savers, Rotate(p) PROVE Undisturbed'
    BY <2>7 DEF Rotate, disk, past, Goto
  <2>8. ASSUME NEW p \in Savers, Prune(p) PROVE Undisturbed'
    BY <2>8 DEF Prune, disk, past, Goto
  <2>9. ASSUME NEW p \in Savers, Pruned(p) PROVE Undisturbed'
    BY <2>9 DEF Pruned, disk, past, Goto
  <2>10. ASSUME NEW p \in Savers, Open(p) PROVE Undisturbed'
    BY <2>10 DEF Open, disk, past, Goto
  <2>11. ASSUME NEW p \in Savers, Write(p) PROVE Undisturbed'
    BY <2>11 DEF Write, disk, past, Goto
  <2>12. ASSUME NEW p \in Savers, Rename(p) PROVE Undisturbed'
    BY <2>12 DEF Rename, disk, past, Goto
  <2>13. ASSUME NEW p \in Savers, Clear(p) PROVE Undisturbed'
    BY <2>13 DEF Clear, disk, past, Goto
  <2>14. ASSUME NEW p \in Savers, RotateFails(p) PROVE Undisturbed'
    BY <2>14 DEF RotateFails, Fault, disk, past, Goto
  <2>15. ASSUME NEW p \in Savers, PruneFails(p) PROVE Undisturbed'
    BY <2>15 DEF PruneFails, Fault, disk, past, Goto
  <2>16. ASSUME NEW p \in Savers, SaveFails(p) PROVE Undisturbed'
    BY <2>16 DEF SaveFails, Fault, disk, past, Goto
  <2>17. CASE UNCHANGED vars
    BY <2>17 DEF vars, disk, past
  <2> HIDE DEF TypeOK, Undisturbed, Savers
  <2> QED BY <2>1, <2>2, <2>3, <2>4, <2>5, <2>6, <2>7, <2>8, <2>9, <2>10, <2>11, <2>12, <2>13,
             <2>14, <2>15, <2>16, <2>17 DEF Next, Save
<1> QED BY <1>1, <1>2, TypeCorrect, PTL DEF Spec

\* After the first successful save a copy of the state is on disk at every moment,
\* for every backupCount: rotation moves the only copy away, but to a backup that
\* pruning keeps.
THEOREM SomeCopySurvivesHolds == Spec => []SomeCopySurvives
<1> USE DEF Savers, Empty, None, Bad
<1>1. Init => SomeCopySurvives
  BY DEF Init, SomeCopySurvives
<1>2. TypeOK /\ Undisturbed /\ SomeCopySurvives /\ [Next]_vars => SomeCopySurvives'
  <2> SUFFICES ASSUME TypeOK, Undisturbed, SomeCopySurvives, [Next]_vars PROVE SomeCopySurvives'
    OBVIOUS
  <2> USE DEF TypeOK, SomeCopySurvives, Undisturbed
  <2>1. ASSUME Mutate PROVE SomeCopySurvives'
    BY <2>1 DEF Mutate, disk, past, Goto
  <2>2. ASSUME Damage PROVE SomeCopySurvives'
    BY <2>2 DEF Damage, Fault, disk, past, Goto
  <2>3. ASSUME Crash PROVE SomeCopySurvives'
    BY <2>3 DEF Crash, disk, past, Goto
  <2>4. ASSUME NEW p \in Savers, Begin(p) PROVE SomeCopySurvives'
    BY <2>4 DEF Begin, disk, past, Goto
  <2>5. ASSUME NEW p \in Savers, Snapshot(p) PROVE SomeCopySurvives'
    BY <2>5 DEF Snapshot, disk, past, Goto
  <2>6. ASSUME NEW p \in Savers, Lock(p) PROVE SomeCopySurvives'
    BY <2>6 DEF Lock, disk, past, Goto
  <2>7. ASSUME NEW p \in Savers, Rotate(p) PROVE SomeCopySurvives'
    <3>1. CASE BackupCount = 0 \/ file = None
      BY <3>1, <2>7, PersistenceAssumption DEF Rotate, past
    <3>2. CASE BackupCount > 0 /\ file # None
      BY <3>2, <2>7, RotateMoves
    <3> QED BY <3>1, <3>2, PersistenceAssumption
  <2>8. ASSUME NEW p \in Savers, Prune(p) PROVE SomeCopySurvives'
    BY <2>8, PruneRemoves
  <2>9. ASSUME NEW p \in Savers, Pruned(p) PROVE SomeCopySurvives'
    BY <2>9 DEF Pruned, disk, past, Goto
  <2>10. ASSUME NEW p \in Savers, Open(p) PROVE SomeCopySurvives'
    BY <2>10 DEF Open, disk, past, Goto
  <2>11. ASSUME NEW p \in Savers, Write(p) PROVE SomeCopySurvives'
    BY <2>11 DEF Write, disk, past, Goto
  <2>12. ASSUME NEW p \in Savers, Rename(p) PROVE SomeCopySurvives'
    BY <2>12 DEF Rename
  <2>13. ASSUME NEW p \in Savers, Clear(p) PROVE SomeCopySurvives'
    BY <2>13 DEF Clear, disk, past, Goto
  <2>14. ASSUME NEW p \in Savers, RotateFails(p) PROVE SomeCopySurvives'
    BY <2>14 DEF RotateFails, Fault, disk, past, Goto
  <2>15. ASSUME NEW p \in Savers, PruneFails(p) PROVE SomeCopySurvives'
    BY <2>15 DEF PruneFails, Fault, disk, past, Goto
  <2>16. ASSUME NEW p \in Savers, SaveFails(p) PROVE SomeCopySurvives'
    BY <2>16 DEF SaveFails, Fault, disk, past, Goto
  <2>17. CASE UNCHANGED vars
    BY <2>17 DEF vars, disk, past
  <2> HIDE DEF TypeOK, SomeCopySurvives, Savers, Undisturbed
  <2> QED BY <2>1, <2>2, <2>3, <2>4, <2>5, <2>6, <2>7, <2>8, <2>9, <2>10, <2>11, <2>12, <2>13,
             <2>14, <2>15, <2>16, <2>17 DEF Next, Save
<1> QED BY <1>1, <1>2, TypeCorrect, UndisturbedHolds, PTL DEF Spec

\* Nothing that the program does, a crash between any two steps or a failed operation
\* included, makes a state file or a backup of a torn temporary file.
THEOREM CopiesAreCompleteHolds == Spec => []CopiesAreComplete
<1> USE DEF Savers, Empty, None, Bad
<1>1. Init => CopiesAreComplete
  BY DEF Init, CopiesAreComplete
<1>2. TypeOK /\ Undisturbed /\ CopiesAreComplete /\ [Next]_vars => CopiesAreComplete'
  <2> SUFFICES ASSUME TypeOK, Undisturbed, CopiesAreComplete, [Next]_vars PROVE CopiesAreComplete'
    OBVIOUS
  <2> USE DEF TypeOK, CopiesAreComplete, Undisturbed
  <2>1. ASSUME Mutate PROVE CopiesAreComplete'
    BY <2>1 DEF Mutate, disk, past, Goto
  <2>2. ASSUME Damage PROVE CopiesAreComplete'
    BY <2>2 DEF Damage, Fault, disk, past, Goto
  <2>3. ASSUME Crash PROVE CopiesAreComplete'
    BY <2>3 DEF Crash, disk, past, Goto
  <2>4. ASSUME NEW p \in Savers, Begin(p) PROVE CopiesAreComplete'
    BY <2>4 DEF Begin, disk, past, Goto
  <2>5. ASSUME NEW p \in Savers, Snapshot(p) PROVE CopiesAreComplete'
    BY <2>5 DEF Snapshot, disk, past, Goto
  <2>6. ASSUME NEW p \in Savers, Lock(p) PROVE CopiesAreComplete'
    BY <2>6 DEF Lock, disk, past, Goto
  <2>7. ASSUME NEW p \in Savers, Rotate(p) PROVE CopiesAreComplete'
    <3>1. CASE BackupCount = 0 \/ file = None
      BY <3>1, <2>7, PersistenceAssumption DEF Rotate, past
    <3>2. CASE BackupCount > 0 /\ file # None
      <4>1. /\ file' = None
            /\ \A i \in 1..Len(backups') :
                 backups'[i] = file \/ \E j \in 1..Len(backups) : backups'[i] = backups[j]
        BY <3>2, <2>7, RotateMoves
      <4>2. damaged' = damaged
        BY <2>7 DEF Rotate, past
      <4>3. ASSUME ~damaged, NEW i \in 1..Len(backups') PROVE backups'[i] # Bad
        BY <4>1, <4>3
      <4> QED BY <4>1, <4>2, <4>3
    <3> QED BY <3>1, <3>2, PersistenceAssumption
  <2>8. ASSUME NEW p \in Savers, Prune(p) PROVE CopiesAreComplete'
    <3>1. \A i \in 1..Len(backups') : \E j \in 1..Len(backups) : backups'[i] = backups[j]
      BY <2>8, PruneRemoves
    <3> QED BY <3>1, <2>8 DEF Prune, past
  <2>9. ASSUME NEW p \in Savers, Pruned(p) PROVE CopiesAreComplete'
    BY <2>9 DEF Pruned, disk, past, Goto
  <2>10. ASSUME NEW p \in Savers, Open(p) PROVE CopiesAreComplete'
    BY <2>10 DEF Open, disk, past, Goto
  <2>11. ASSUME NEW p \in Savers, Write(p) PROVE CopiesAreComplete'
    BY <2>11 DEF Write, disk, past, Goto
  <2>12. ASSUME NEW p \in Savers, Rename(p) PROVE CopiesAreComplete'
    BY <2>12 DEF Rename, Goto
  <2>13. ASSUME NEW p \in Savers, Clear(p) PROVE CopiesAreComplete'
    BY <2>13 DEF Clear, disk, past, Goto
  <2>14. ASSUME NEW p \in Savers, RotateFails(p) PROVE CopiesAreComplete'
    BY <2>14 DEF RotateFails, Fault, disk, past, Goto
  <2>15. ASSUME NEW p \in Savers, PruneFails(p) PROVE CopiesAreComplete'
    BY <2>15 DEF PruneFails, Fault, disk, past, Goto
  <2>16. ASSUME NEW p \in Savers, SaveFails(p) PROVE CopiesAreComplete'
    BY <2>16 DEF SaveFails, Fault, disk, past, Goto
  <2>17. CASE UNCHANGED vars
    BY <2>17 DEF vars, disk, past
  <2> HIDE DEF TypeOK, CopiesAreComplete, Savers, Undisturbed
  <2> QED BY <2>1, <2>2, <2>3, <2>4, <2>5, <2>6, <2>7, <2>8, <2>9, <2>10, <2>11, <2>12, <2>13,
             <2>14, <2>15, <2>16, <2>17 DEF Next, Save
<1> QED BY <1>1, <1>2, TypeCorrect, UndisturbedHolds, PTL DEF Spec

\* Why an undisturbed save is exact: the other saver stays out of the file system,
\* and the snapshot, then the file, is the state in memory.
SoleInv ==
  \A p \in Savers : sole = p =>
    /\ \A q \in Savers \ {p} : pc[q] \in {"idle", "snapshot"}
    /\ pc[p] \in {"lock", "rotate", "prune", "open", "write", "rename"} => snap[p] = mem
    /\ pc[p] = "clear" => file = mem
    /\ pc[p] = "idle" => file = mem /\ ~dirty

\* A save that no mutation, fault or second save interferes with leaves the state
\* file equal to the state in memory and the dirty flag cleared.
THEOREM UndisturbedSaveIsExactHolds == Spec => []UndisturbedSaveIsExact
<1> USE DEF Savers, Empty, None, Bad
<1>1. Init => SoleInv
  BY DEF Init, SoleInv
<1>2. TypeOK /\ Undisturbed /\ SoleInv /\ [Next]_vars => SoleInv'
  <2> SUFFICES ASSUME TypeOK, Undisturbed, SoleInv, [Next]_vars PROVE SoleInv'
    OBVIOUS
  <2> USE DEF TypeOK, SoleInv, Undisturbed
  <2>1. ASSUME Mutate PROVE SoleInv'
    BY <2>1 DEF Mutate, disk, past, Goto
  <2>2. ASSUME Damage PROVE SoleInv'
    BY <2>2 DEF Damage, Fault, disk, past, Goto
  <2>3. ASSUME Crash PROVE SoleInv'
    BY <2>3 DEF Crash, disk, past, Goto
  <2>4. ASSUME NEW p \in Savers, Begin(p) PROVE SoleInv'
    BY <2>4 DEF Begin, disk, past, Goto
  <2>5. ASSUME NEW p \in Savers, Snapshot(p) PROVE SoleInv'
    BY <2>5 DEF Snapshot, disk, past, Goto
  <2>6. ASSUME NEW p \in Savers, Lock(p) PROVE SoleInv'
    BY <2>6 DEF Lock, disk, past, Goto
  <2>7. ASSUME NEW p \in Savers, Rotate(p) PROVE SoleInv'
    BY <2>7 DEF Rotate, disk, past, Goto
  <2>8. ASSUME NEW p \in Savers, Prune(p) PROVE SoleInv'
    BY <2>8 DEF Prune, disk, past, Goto
  <2>9. ASSUME NEW p \in Savers, Pruned(p) PROVE SoleInv'
    BY <2>9 DEF Pruned, disk, past, Goto
  <2>10. ASSUME NEW p \in Savers, Open(p) PROVE SoleInv'
    BY <2>10 DEF Open, disk, past, Goto
  <2>11. ASSUME NEW p \in Savers, Write(p) PROVE SoleInv'
    BY <2>11 DEF Write, disk, past, Goto
  <2>12. ASSUME NEW p \in Savers, Rename(p) PROVE SoleInv'
    BY <2>12 DEF Rename, disk, past, Goto
  <2>13. ASSUME NEW p \in Savers, Clear(p) PROVE SoleInv'
    BY <2>13 DEF Clear, disk, past, Goto
  <2>14. ASSUME NEW p \in Savers, RotateFails(p) PROVE SoleInv'
    BY <2>14 DEF RotateFails, Fault, disk, past, Goto
  <2>15. ASSUME NEW p \in Savers, PruneFails(p) PROVE SoleInv'
    BY <2>15 DEF PruneFails, Fault, disk, past, Goto
  <2>16. ASSUME NEW p \in Savers, SaveFails(p) PROVE SoleInv'
    BY <2>16 DEF SaveFails, Fault, disk, past, Goto
  <2>17. CASE UNCHANGED vars
    BY <2>17 DEF vars, disk, past
  <2> HIDE DEF TypeOK, SoleInv, Savers, Undisturbed
  <2> QED BY <2>1, <2>2, <2>3, <2>4, <2>5, <2>6, <2>7, <2>8, <2>9, <2>10, <2>11, <2>12, <2>13,
             <2>14, <2>15, <2>16, <2>17 DEF Next, Save
<1>3. SoleInv => UndisturbedSaveIsExact
  BY DEF SoleInv, UndisturbedSaveIsExact
<1> QED BY <1>1, <1>2, <1>3, TypeCorrect, UndisturbedHolds, PTL DEF Spec

-----------------------------------------------------------------------------
(***************************************************************************)
(* The refinement.                                                         *)
(***************************************************************************)

\* What is being saved, as the abstract specification sees it.
Saves == [p \in Savers |-> Taken(p)]

\* One saver's step changes what is seen of that saver only.
LEMMA OneSaveChanges ==
  ASSUME TypeOK, NEW p \in Savers, NEW l, Goto(p, l),
         \A q \in Savers \ {p} : snap'[q] = snap[q]
  PROVE  Saves' = [Saves EXCEPT ![p] =
                     IF l \in {"lock", "rotate", "prune", "open", "write", "rename"}
                     THEN snap'[p] ELSE None]
BY DEF TypeOK, Goto, Saves, Taken

\* A rotation keeps the file it sets aside, and adds no version.
LEMMA RotateKeepsFront ==
  ASSUME TypeOK, NEW p \in Savers, Rotate(p), file # None, BackupCount > 0
  PROVE  Copies' \subseteq Copies /\ Newest' = file
<1>1. /\ file' = None /\ backups' # <<>> /\ backups'[1] = file
      /\ \A i \in 1..Len(backups') :
           backups'[i] = file \/ \E j \in 1..Len(backups) : backups'[i] = backups[j]
  BY RotateMoves
<1>2. Newest' = file
  BY <1>1 DEF Newest
<1>3. ASSUME NEW i \in 1..Len(backups') PROVE backups'[i] \in Copies
  BY <1>1 DEF Copies
<1>4. Copies' = {backups'[i] : i \in 1..Len(backups')}
  BY <1>1 DEF Copies
<1> QED BY <1>2, <1>3, <1>4

\* Persistence implements StateStore, for any number of backups: a restart continues with a
\* version that some save took, with the front one if it is sound and with a sound older one
\* if it is not, and nothing drops the copy that was set aside last.
THEOREM ImplementsStateStoreHolds == Spec => ImplementsStateStore
<1> USE DEF Store!Empty, Store!None, Store!Bad, Empty, None, Bad
<1>1. Init => Store!Init
  <2> SUFFICES ASSUME Init PROVE Store!Init
    OBVIOUS
  <2>1. Saves = [p \in Savers |-> None] /\ Copies = {} /\ Newest = None
    BY DEF Init, Saves, Taken, Copies, Newest, Savers
  <2> QED BY <2>1 DEF Init, Store!Init, Saves
<1>2. TypeOK /\ TypeOK' /\ Undisturbed /\ [Next]_vars => [Store!Next]_(Store!vars)
  <2> SUFFICES ASSUME TypeOK, TypeOK', Undisturbed, [Next]_vars PROVE [Store!Next]_(Store!vars)
    OBVIOUS
  <2> DEFINE Same == UNCHANGED <<mem, newest, Saves, file, Newest, Copies>>
  <2>0. ASSUME Same PROVE [Store!Next]_(Store!vars)
    BY <2>0 DEF Store!vars, Saves
  <2>00. ASSUME UNCHANGED <<file, backups>> PROVE UNCHANGED <<file, Newest, Copies>>
    BY <2>00 DEF Newest, Copies
  <2>000. Newest' # None => Newest' \in Copies'
    <3>1. backups' # <<>> => 1 \in 1..Len(backups')
      BY DEF TypeOK
    <3> QED BY <3>1 DEF Newest, Copies
  <2> HIDE DEF Same
  <2>1. CASE Mutate
    <3>1. UNCHANGED <<Saves, file, Newest, Copies>> /\ newest' = newest + 1 /\ mem' = newest'
      BY <2>1, <2>00 DEF Mutate, disk, Saves, Taken
    <3>2. Store!Change
      BY <3>1 DEF Store!Change, Saves
    <3> QED BY <3>2 DEF Store!Next
  <2>2. CASE Damage
    <3>1. UNCHANGED <<mem, newest, Saves, Newest, backups>> /\ file >= 0 /\ file' = Bad
      BY <2>2 DEF Damage, Fault, Saves, Taken, Newest
    <3>2. Copies' \in {Copies \cup {Bad}, (Copies \ {file}) \cup {Bad}}
      <4> DEFINE B == {backups[i] : i \in 1..Len(backups)}
      <4>1. Copies = {file} \cup B /\ Copies' = {Bad} \cup B
        BY <3>1 DEF Copies
      <4> HIDE DEF B
      <4>2. CASE file \in B
        <5>1. Copies' = Copies \cup {Bad}
          BY <4>1, <4>2
        <5> QED BY <5>1
      <4>3. CASE file \notin B
        <5>1. Copies' = (Copies \ {file}) \cup {Bad}
          BY <4>1, <4>3
        <5> QED BY <5>1
      <4> QED BY <4>2, <4>3
    <3>3. Store!Damage
      BY <3>1, <3>2, <2>000 DEF Store!Damage, Store!AsideIsKept, Saves
    <3> QED BY <3>3 DEF Store!Next
  <2>3. CASE Crash
    <3>1. UNCHANGED <<newest, file, Newest, Copies>> /\ mem' = Loaded
      BY <2>3, <2>00 DEF Crash, disk
    <3>2. Saves' = [p \in Savers |-> None]
      BY <2>3 DEF Crash, Saves, Taken
    <3>3. Loaded \in Store!Recovered
      <4>1. CASE DefaultPath /\ file = Bad
        <5>1. Loaded = FromBackups
          BY <4>1 DEF Loaded
        <5>2. CASE FromBackups = Empty /\ \A i \in 1..Len(backups) : backups[i] = Bad
          <6>1. Copies \subseteq {Bad}
            BY <4>1, <5>2 DEF Copies
          <6> QED BY <4>1, <5>1, <5>2, <6>1 DEF Store!Recovered
        <5>3. CASE \E i \in 1..Len(backups) : backups[i] # Bad /\ FromBackups = backups[i]
          <6>1. FromBackups \in Copies \ {Bad}
            BY <5>3 DEF Copies
          <6> QED BY <4>1, <5>1, <6>1 DEF Store!Recovered
        <5> QED BY <5>2, <5>3, FromBackupsFound
      <4>2. CASE ~DefaultPath \/ file # Bad
        BY <4>2 DEF Loaded, Store!Recovered
      <4> QED BY <4>1, <4>2
    <3>4. Store!Restart
      BY <3>1, <3>2, <3>3 DEF Store!Restart, Saves
    <3> QED BY <3>4 DEF Store!Next
  <2>4. ASSUME NEW p \in Savers,
               \/ Begin(p) \/ Lock(p) \/ Pruned(p) \/ Open(p) \/ Write(p) \/ Clear(p)
               \/ RotateFails(p) \/ PruneFails(p)
        PROVE  [Store!Next]_(Store!vars)
    <3>1. UNCHANGED <<mem, newest, snap, file, Newest, Copies>>
      BY <2>4, <2>00 DEF Begin, Lock, Pruned, Open, Write, Clear, RotateFails, PruneFails, disk
    <3>2. Saves' = Saves
      BY <2>4 DEF Begin, Lock, Pruned, Open, Write, Clear, RotateFails, PruneFails, Goto, TypeOK,
                  Saves, Taken
    <3> QED BY <2>0, <3>1, <3>2 DEF Same
  <2>5. ASSUME NEW p \in Savers, Snapshot(p) PROVE [Store!Next]_(Store!vars)
    <3>1. UNCHANGED <<mem, newest, file, Newest, Copies>> /\ Saves[p] = None
      BY <2>5, <2>00 DEF Snapshot, disk, Saves, Taken
    <3>2. Saves' = [Saves EXCEPT ![p] = mem]
      BY <2>5, OneSaveChanges DEF Snapshot, TypeOK
    <3>3. Store!Take(p)
      BY <3>1, <3>2 DEF Store!Take, Saves
    <3> QED BY <3>3 DEF Store!Next
  <2>6. ASSUME NEW p \in Savers, Rotate(p) PROVE [Store!Next]_(Store!vars)
    <3>1. UNCHANGED <<mem, newest, snap>> /\ Saves[p] = snap[p] /\ snap[p] # None
      BY <2>6 DEF Rotate, Saves, Taken, TypeOK
    <3>2. Saves' = Saves
      BY <2>6 DEF Rotate, Goto, TypeOK, Saves, Taken
    <3>3. CASE BackupCount = 0 \/ file = None
      <4>1. UNCHANGED <<file, Newest, Copies>>
        BY <2>6, <2>00, <3>3, PersistenceAssumption DEF Rotate
      <4> QED BY <2>0, <3>1, <3>2, <4>1 DEF Same
    <3>4. CASE BackupCount > 0 /\ file # None
      <4>1. file' = None
        BY <2>6, <3>4, RotateMoves
      <4>2. Copies' \subseteq Copies /\ Newest' = file
        BY <2>6, <3>4, RotateKeepsFront
      <4>3. Store!SetAside
        BY <3>1, <3>2, <3>4, <4>1, <4>2, <2>000 DEF Store!SetAside, Store!AsideIsKept, Saves
      <4> QED BY <4>3 DEF Store!Next
    <3> QED BY <3>3, <3>4, PersistenceAssumption
  <2>7. ASSUME NEW p \in Savers, Rename(p) PROVE [Store!Next]_(Store!vars)
    <3>1. /\ UNCHANGED <<mem, newest, snap, Newest, backups>> /\ file' = snap[p]
          /\ Saves[p] = snap[p] /\ snap[p] # None
      BY <2>7 DEF Rename, Undisturbed, Newest, Saves, Taken, TypeOK
    <3>2. Saves' = [Saves EXCEPT ![p] = None]
      BY <2>7, OneSaveChanges DEF Rename
    <3>3. Copies' \in {Copies \cup {snap[p]}, (Copies \ {file}) \cup {snap[p]}}
      <4> DEFINE B == {backups[i] : i \in 1..Len(backups)}
      <4>1. Copies = ({file} \ {None}) \cup B /\ Copies' = {snap[p]} \cup B
        BY <3>1 DEF Copies
      <4> HIDE DEF B
      <4>2. CASE file \in B \/ file = None
        <5>1. Copies' = Copies \cup {snap[p]}
          BY <4>1, <4>2
        <5> QED BY <5>1
      <4>3. CASE file \notin B /\ file # None
        <5>1. Copies' = (Copies \ {file}) \cup {snap[p]}
          BY <4>1, <4>3
        <5> QED BY <5>1
      <4> QED BY <4>2, <4>3
    <3>4. Store!Commit(p)
      BY <3>1, <3>2, <3>3, <2>000 DEF Store!Commit, Store!AsideIsKept, Saves
    <3> QED BY <3>4 DEF Store!Next
  <2>8. ASSUME NEW p \in Savers, SaveFails(p) PROVE [Store!Next]_(Store!vars)
    <3>1. UNCHANGED <<mem, newest, snap, file, Newest, Copies>> /\ Saves[p] # None
      BY <2>8, <2>00 DEF SaveFails, Saves, Taken, TypeOK
    <3>2. Saves' = [Saves EXCEPT ![p] = None]
      BY <2>8, OneSaveChanges DEF SaveFails
    <3>3. Store!Abandon(p)
      BY <3>1, <3>2 DEF Store!Abandon, Saves
    <3> QED BY <3>3 DEF Store!Next
  <2>9. ASSUME NEW p \in Savers, Prune(p) PROVE [Store!Next]_(Store!vars)
    <3>1. UNCHANGED <<mem, newest, snap, file>> /\ Saves[p] = snap[p] /\ snap[p] # None
      BY <2>9 DEF Prune, Saves, Taken, TypeOK
    <3>2. Saves' = Saves
      BY <2>9 DEF Prune, Saves, Taken
    <3>3. Newest' = Newest /\ Copies' \subseteq Copies
      <4>1. /\ backups # <<>> /\ backups' # <<>> /\ backups'[1] = backups[1]
            /\ \A i \in 1..Len(backups') : \E j \in 1..Len(backups) : backups'[i] = backups[j]
        BY <2>9, PruneRemoves
      <4> QED BY <3>1, <4>1 DEF Newest, Copies
    <3>4. CASE file = None
      <4>1. Store!Thin
        BY <3>1, <3>2, <3>3, <3>4, <2>000 DEF Store!Thin, Store!AsideIsKept, Saves
      <4> QED BY <4>1 DEF Store!Next
    <3> QED BY <2>9, <3>4 DEF Prune, Undisturbed
  <2>10. CASE UNCHANGED vars
    <3>1. Same
      BY <2>10 DEF vars, disk, Same, Saves, Taken, Newest, Copies
    <3> QED BY <2>0, <3>1
  <2> QED BY <2>1, <2>2, <2>3, <2>4, <2>5, <2>6, <2>7, <2>8, <2>9, <2>10 DEF Next, Save
<1> QED BY <1>1, <1>2, TypeCorrect, UndisturbedHolds, PTL DEF Spec, ImplementsStateStore, Store!Spec
=============================================================================
