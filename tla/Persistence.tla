------------------------------ MODULE Persistence ------------------------------
(***************************************************************************)
(* Saving and loading the state of the controller.                         *)
(*                                                                         *)
(* Code: internal/state/persistence.go (Save, rotateBackups, pruneBackups, *)
(* Load, tryLoadBackups), internal/state/manager.go (markDirty,            *)
(* SaveIfDirty, ForceSave), and their callers in cmd/docktunnel/main.go.   *)
(*                                                                         *)
(* Two goroutines save: the ticker, when the state is dirty, and main, at  *)
(* shutdown.  saveMu serialises the file operations but not the snapshot   *)
(* before nor the dirty flag after them.  Each file operation is a step of *)
(* its own: the process may crash between any two, and any may fail.  The  *)
(* state is a version number: each mutation makes a new one, 0 is the      *)
(* empty state.                                                            *)
(***************************************************************************)
EXTENDS Integers, SequencesExt

CONSTANTS BackupCount,  \* persistence.backupCount
          DefaultPath,  \* cleanup.stateFile is unset, or is StateFileDefault
          MaxVersion,   \* bound: mutations
          MaxFaults     \* bound: failed operations, damaged files, crashes while pruning

ASSUME PersistenceAssumption ==
  /\ BackupCount \in Nat /\ DefaultPath \in BOOLEAN
  /\ MaxVersion \in Nat /\ MaxFaults \in Nat

Savers == {"ticker", "main"}

Empty == 0
None  == -1   \* there is no file
Bad   == -2   \* there is one that does not decode or validate

VARIABLES
  mem,      \* version of the state in memory
  newest,   \* the last version made
  dirty,    \* sm.dirty
  pc,       \* saver -> what it does next
  snap,     \* saver -> version of its snapshot
  lock,     \* holder of saveMu, or "free"
  file,     \* version in the state file, or None, or Bad
  tmp,      \* version in the temporary file, or None, or Bad
  backups,  \* versions in the backup files, newest file first
  keep,     \* backups that pruneBackups has passed over: those to keep, or not removable
  faults,   \* faults so far
  \* history, read by the properties only
  saved,    \* a save has succeeded at some time
  damaged,  \* a state file was damaged from outside at some time
  sole      \* the saver that nothing has disturbed since its snapshot, or "none"

disk == <<file, tmp, backups>>
past == <<saved, damaged>>
vars == <<mem, newest, dirty, pc, snap, lock, disk, keep, faults, past, sole>>

Goto(p, l) == pc' = [pc EXCEPT ![p] = l]

Init ==
  /\ mem = Empty /\ newest = 0 /\ dirty = FALSE
  /\ pc = [p \in Savers |-> "idle"] /\ snap = [p \in Savers |-> Empty]
  /\ lock = "free"
  /\ file = None /\ tmp = None /\ backups = <<>> /\ keep = BackupCount
  /\ faults = 0 /\ saved = FALSE /\ damaged = FALSE /\ sole = "none"

\* A mutation of the state under sm.mu, with markDirty.
Mutate ==
  /\ newest < MaxVersion
  /\ newest' = newest + 1
  /\ mem' = newest + 1 /\ dirty' = TRUE
  /\ sole' = "none"
  /\ UNCHANGED <<pc, snap, lock, disk, keep, faults, past>>

(***************************************************************************)
(* Save.                                                                   *)
(***************************************************************************)

\* SaveIfDirty and ForceSave differ only here.
Begin(p) ==
  /\ pc[p] = "idle" /\ (p = "ticker" => dirty)
  /\ Goto(p, "snapshot")
  /\ UNCHANGED <<mem, newest, dirty, snap, lock, disk, keep, faults, past, sole>>

\* GetSnapshot, before saveMu is taken.
Snapshot(p) ==
  /\ pc[p] = "snapshot"
  /\ snap' = [snap EXCEPT ![p] = mem]
  /\ sole' = IF \A q \in Savers \ {p} : pc[q] \in {"idle", "snapshot"} THEN p ELSE "none"
  /\ Goto(p, "lock")
  /\ UNCHANGED <<mem, newest, dirty, lock, disk, keep, faults, past>>

\* Mutant: saveMu is not taken.
Lock_NoMutex(p) ==
  /\ pc[p] = "lock"
  /\ lock' = p
  /\ Goto(p, "rotate")
  /\ UNCHANGED <<mem, newest, dirty, snap, disk, keep, faults, past, sole>>

\* saveMu serialises what follows.
Lock(p) ==
  /\ pc[p] = "lock" /\ lock = "free"
  /\ lock' = p
  /\ Goto(p, "rotate")
  /\ UNCHANGED <<mem, newest, dirty, snap, disk, keep, faults, past, sole>>

\* rotateBackups: the state file becomes the newest backup, under a name with the
\* current second, so that a backup of the same second is overwritten.
Rotate(p) ==
  /\ pc[p] = "rotate"
  /\ \/ /\ BackupCount > 0 /\ file # None
        /\ \E older \in {backups} \cup (IF backups = <<>> THEN {} ELSE {Tail(backups)}) :
             backups' = <<file>> \o older
        /\ file' = None /\ keep' = BackupCount
        /\ Goto(p, "prune")
     \/ /\ BackupCount = 0 \/ file = None
        /\ UNCHANGED <<file, backups, keep>>
        /\ Goto(p, "open")
  /\ UNCHANGED <<mem, newest, dirty, snap, lock, tmp, faults, past, sole>>

\* pruneBackups, for each backup beyond the count.
Prune(p) ==
  /\ pc[p] = "prune" /\ Len(backups) > keep
  /\ backups' = RemoveAt(backups, keep + 1)
  /\ UNCHANGED <<mem, newest, dirty, pc, snap, lock, file, tmp, keep, faults, past, sole>>

\* Mutant: one backup too many is left.
Pruned_OneLess(p) ==
  /\ pc[p] = "prune" /\ Len(backups) <= keep + 1
  /\ Goto(p, "open")
  /\ UNCHANGED <<mem, newest, dirty, snap, lock, disk, keep, faults, past, sole>>

\* pruneBackups returns.
Pruned(p) ==
  /\ pc[p] = "prune" /\ Len(backups) <= keep
  /\ Goto(p, "open")
  /\ UNCHANGED <<mem, newest, dirty, snap, lock, disk, keep, faults, past, sole>>

\* The temporary file is created, or truncated if one was left behind.
Open(p) ==
  /\ pc[p] = "open"
  /\ tmp' = Bad
  /\ Goto(p, "write")
  /\ UNCHANGED <<mem, newest, dirty, snap, lock, file, backups, keep, faults, past, sole>>

\* Encode, Sync and Close.
Write(p) ==
  /\ pc[p] = "write"
  /\ tmp' = snap[p]
  /\ Goto(p, "rename")
  /\ UNCHANGED <<mem, newest, dirty, snap, lock, file, backups, keep, faults, past, sole>>

\* The temporary file, with what is in it by now, becomes the state file, and saveMu
\* is released.
Rename(p) ==
  /\ pc[p] = "rename"
  /\ file' = tmp /\ tmp' = None
  /\ lock' = "free"
  /\ saved' = TRUE
  /\ Goto(p, "clear")
  /\ UNCHANGED <<mem, newest, dirty, snap, backups, keep, faults, damaged, sole>>

Fault == faults < MaxFaults /\ faults' = faults + 1 /\ sole' = "none"

\* Mutant: a state file that cannot be rotated is removed to make room.
RotateFails_Removes(p) ==
  /\ pc[p] = "rotate" /\ Fault
  /\ file' = None
  /\ Goto(p, "open")
  /\ UNCHANGED <<mem, newest, dirty, snap, lock, tmp, backups, keep, past>>

\* The rotation's rename fails; the error is logged and Save goes on.
RotateFails(p) ==
  /\ pc[p] = "rotate" /\ Fault
  /\ Goto(p, "open")
  /\ UNCHANGED <<mem, newest, dirty, snap, lock, disk, keep, past>>

\* A backup cannot be removed; pruneBackups goes on with the next.
PruneFails(p) ==
  /\ pc[p] = "prune" /\ Len(backups) > keep /\ Fault
  /\ keep' = keep + 1
  /\ UNCHANGED <<mem, newest, dirty, pc, snap, lock, disk, past>>

\* Save returns an error.  If that was in writing it tries to remove the temporary
\* file; a file that cannot be opened or renamed it leaves.
SaveFails(p) ==
  /\ pc[p] \in {"open", "write", "rename"} /\ Fault
  /\ tmp' \in IF pc[p] = "write" THEN {None, tmp} ELSE {tmp}
  /\ lock' = "free"
  /\ Goto(p, "idle")
  /\ UNCHANGED <<mem, newest, dirty, snap, file, backups, keep, past>>

\* Mutant: the dirty flag is not reset.
Clear_KeepDirty(p) ==
  /\ pc[p] = "clear"
  /\ Goto(p, "idle")
  /\ UNCHANGED <<mem, newest, dirty, snap, lock, disk, keep, faults, past, sole>>

\* lastSaved and dirty, under sm.mu again.
Clear(p) ==
  /\ pc[p] = "clear"
  /\ dirty' = FALSE
  /\ Goto(p, "idle")
  /\ UNCHANGED <<mem, newest, snap, lock, disk, keep, faults, past, sole>>

(***************************************************************************)
(* Crash, restart and Load.                                                *)
(***************************************************************************)

\* The state file is damaged outside the program.
Damage ==
  /\ file >= Empty /\ Fault
  /\ file' = Bad /\ damaged' = TRUE
  /\ UNCHANGED <<mem, newest, dirty, pc, snap, lock, tmp, backups, keep, saved>>

\* Mutant: the newest backup is taken without a look at whether it loads.
FromBackups_Unchecked == IF backups = <<>> THEN Empty ELSE backups[1]

\* tryLoadBackups: the newest backup that loads, else the empty state.
FromBackups ==
  LET good == {i \in 1..Len(backups) : backups[i] # Bad}
  IN  IF good = {} THEN Empty
      ELSE backups[CHOOSE i \in good : \A j \in good : i <= j]

\* LoadState calls Load(""), which reads StateFileDefault, not the configured
\* path.  Backups are tried when the state file does not load, not when there is
\* none.
Loaded ==
  IF ~DefaultPath \/ file = None THEN Empty
  ELSE IF file = Bad THEN FromBackups
  ELSE file

\* The process dies at any point and is started again.  One that dies while pruning may
\* leave a backup too many each time; those crashes are bounded.
Crash ==
  /\ IF \E p \in Savers : pc[p] = "prune"
     THEN faults < MaxFaults /\ faults' = faults + 1
     ELSE faults' = faults
  /\ mem' = Loaded
  /\ dirty' = FALSE
  /\ pc' = [p \in Savers |-> "idle"]
  /\ snap' = [p \in Savers |-> Empty]
  /\ lock' = "free"
  /\ sole' = "none"
  /\ UNCHANGED <<newest, disk, keep, past>>
-----------------------------------------------------------------------------
Save(p) ==
  \/ Begin(p) \/ Snapshot(p) \/ Lock(p)
  \/ Rotate(p) \/ Prune(p) \/ Pruned(p)
  \/ Open(p) \/ Write(p) \/ Rename(p) \/ Clear(p)

Next ==
  \/ Mutate \/ Damage \/ Crash
  \/ \E p \in Savers : Save(p) \/ RotateFails(p) \/ PruneFails(p) \/ SaveFails(p)

Spec == Init /\ [][Next]_vars
-----------------------------------------------------------------------------
\* saveMu is held exactly by the saver that is between Lock and Rename.  The backups
\* outnumber backupCount by no more than the faults that kept one from being removed,
\* and by one more while pruneBackups is at work.
TypeOK ==
  /\ mem \in 0..MaxVersion /\ newest \in 0..MaxVersion /\ dirty \in BOOLEAN
  /\ pc \in [Savers -> {"idle", "snapshot", "lock", "rotate", "prune", "open", "write",
                        "rename", "clear"}]
  /\ snap \in [Savers -> 0..MaxVersion]
  /\ lock \in Savers \cup {"free"}
  /\ \A p \in Savers : lock = p <=> pc[p] \in {"rotate", "prune", "open", "write", "rename"}
  /\ file \in {Bad, None} \cup 0..MaxVersion
  /\ tmp \in {Bad, None} \cup 0..MaxVersion
  /\ backups \in Seq({Bad} \cup 0..MaxVersion)
  /\ keep \in BackupCount..BackupCount + faults
  /\ IF \E p \in Savers : pc[p] = "prune"
     THEN BackupCount > 0 /\ Len(backups) <= BackupCount + faults + 1
     ELSE Len(backups) <= BackupCount + faults
  /\ faults \in 0..MaxFaults /\ saved \in BOOLEAN /\ damaged \in BOOLEAN
  /\ sole \in Savers \cup {"none"}

\* Once a save has succeeded there is always a file to recover from, the state
\* file or a backup: no crash or failed operation between rotation, pruning,
\* writing and renaming can lose every copy (Save's "atomic write").
SomeCopySurvives ==
  saved => \/ file # None
           \/ backups # <<>>

\* Copies are complete: whatever fails and whenever the process dies, no state file or
\* backup is a temporary file that was not completely written, or that another saver
\* has truncated since, so only what is damaged from outside does not decode.
CopiesAreComplete ==
  ~damaged => /\ file # Bad
              /\ \A i \in 1..Len(backups) : backups[i] # Bad

\* A save that no mutation, fault or other save has met leaves the state file
\* equal to the state and the state clean (SaveIfDirty, ForceSave).
UndisturbedSaveIsExact ==
  \A p \in Savers : sole = p /\ pc[p] = "idle" => file = mem /\ ~dirty

\* The versions in the files on disk.
Copies == ({file} \ {None}) \cup {backups[i] : i \in 1..Len(backups)}

\* The backup made last.
Newest == IF backups = <<>> THEN None ELSE backups[1]

\* What is being saved, as StateStore sees it: between the snapshot and the rename.
Taken(p) ==
  IF pc[p] \in {"lock", "rotate", "prune", "open", "write", "rename"} THEN snap[p] ELSE None

Store == INSTANCE StateStore WITH
  Clients <- Savers, ReadsBack <- DefaultPath, state <- mem,
  taken <- [p \in Savers |-> Taken(p)], front <- file, aside <- Newest,
  copies <- Copies

\* Two savers, backups named by the second, faults at any file operation and crashes between
\* any two of them implement StateStore: only states that were saved come back, a sound copy
\* is found behind a damaged file, and nothing removes the copy that was set aside last.
ImplementsStateStore == Store!Spec

\* Load "falls back to backups": a restart finds the state file's version, or when
\* it is not there or does not load, that of the newest backup that does.
LoadRecovers == [][Crash => mem' = IF file >= Empty THEN file ELSE FromBackups]_vars
=============================================================================
